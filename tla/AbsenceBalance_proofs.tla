------------------------ MODULE AbsenceBalance_proofs ------------------------
(***************************************************************************)
(* For every set of requests, types, dates, messages and desks, every      *)
(* calendar and every moment at which the ledger is switched on: the       *)
(* balance of each type and year is what the requests say (DaysAreHeld)    *)
(* and no two absences of the employee are under way on one day            *)
(* (AbsencesAreDisjoint).                                                  *)
(*                                                                         *)
(* The first section is about sums over finite sets.  Each of its          *)
(* inductions takes a smallest set for which the claim fails: the strict   *)
(* subset ordering on finite sets is well-founded.                         *)
(***************************************************************************)
EXTENDS AbsenceBalance, FiniteSetTheorems, WellFoundedInduction, TLAPS

-----------------------------------------------------------------------------
(* Sums *)

\* The recursive function that the fold of the library chooses.
Rec(f, D, g) ==
    g = [s \in SUBSET D |-> IF s = {} THEN 0
                            ELSE LET x == CHOOSE x \in s : TRUE IN f[x] + g[s \ {x}]]

\* A sum is read off that function.
LEMMA TotalDef == \A f, S : Total(f, S) = (CHOOSE g : Rec(f, S, g))[S]
BY DEF Total, MapThenSumSet, MapThenFoldSet, Rec

\* A family of subsets of a finite set has a smallest member.
LEMMA Minimal ==
  ASSUME NEW S, IsFiniteSet(S), NEW T \in SUBSET SUBSET S, T # {}
  PROVE  \E s \in T : \A u \in T : u \subseteq s => u = s
<1>1. IsWellFoundedOn(StrictSubsetOrdering(S), FiniteSubsetsOf(S))
  BY FS_StrictSubsetOrderingWellFounded
<1>2. T \subseteq FiniteSubsetsOf(S)
  BY FS_Subset DEF FiniteSubsetsOf
<1>3. PICK s \in T : \A u \in T : ~ (<<u, s>> \in StrictSubsetOrdering(S))
  BY <1>1, <1>2, WFMin
<1> QED
  BY <1>2, <1>3 DEF StrictSubsetOrdering, FiniteSubsetsOf

\* The element that the fold takes out of a set.
First(s) == CHOOSE x \in s : TRUE

\* The element a fold takes first is an element.
LEMMA FirstIn == \A s : s # {} => First(s) \in s
BY DEF First

\* What the recursion says of one set.
StepAt(f, g, s) == g[s] = IF s = {} THEN 0 ELSE f[First(s)] + g[s \ {First(s)}]

\* The function obeys its recursion.
LEMMA RecAt ==
  ASSUME NEW f, NEW D, NEW g, Rec(f, D, g), NEW s \in SUBSET D
  PROVE  StepAt(f, g, s)
BY DEF Rec, First, StepAt

\* Two such functions agree where their terms do.
LEMMA Agree ==
  ASSUME NEW f, NEW A, NEW g, Rec(f, A, g), NEW h, NEW B, NEW k, Rec(h, B, k),
         NEW S, IsFiniteSet(S), S \subseteq A, S \subseteq B,
         \A x \in S : f[x] = h[x]
  PROVE  g[S] = k[S]
<1> DEFINE Bad == {s \in SUBSET S : g[s] # k[s]}
<1> SUFFICES ASSUME Bad # {} PROVE FALSE
  OBVIOUS
<1>1. PICK s \in Bad : \A u \in Bad : u \subseteq s => u = s
  <2>1. Bad \in SUBSET SUBSET S
    OBVIOUS
  <2> HIDE DEF Bad
  <2> QED
    BY <2>1, Minimal
<1>2. s \in SUBSET A /\ s \in SUBSET B
  OBVIOUS
<1>3. StepAt(f, g, s)
  BY <1>2, RecAt
<1>4. StepAt(h, k, s)
  BY <1>2, RecAt
<1>5. s # {}
  BY <1>3, <1>4 DEF StepAt
<1>6. First(s) \in s
  BY <1>5, FirstIn
<1>7. s \ {First(s)} \notin Bad
  BY <1>1, <1>6
<1> QED
  BY <1>3, <1>4, <1>5, <1>6, <1>7 DEF StepAt

\* There is one for every finite set.
LEMMA Exists ==
  ASSUME NEW f, NEW S, IsFiniteSet(S)
  PROVE  \E g : Rec(f, S, g)
<1> DEFINE Bad == {s \in SUBSET S : ~ \E g : Rec(f, s, g)}
<1> SUFFICES ASSUME Bad # {} PROVE FALSE
  OBVIOUS
<1>1. PICK s \in Bad : \A u \in Bad : u \subseteq s => u = s
  <2>1. Bad \in SUBSET SUBSET S
    OBVIOUS
  <2> HIDE DEF Bad
  <2> QED
    BY <2>1, Minimal
<1> DEFINE G == [t \in SUBSET s |->
                   IF t = {} THEN 0 ELSE f[First(t)] + Total(f, t \ {First(t)})]
<1>2. ASSUME NEW t \in SUBSET s, t # s
      PROVE  Rec(f, t, CHOOSE g : Rec(f, t, g))
  <2>1. \E g : Rec(f, t, g)
    BY <1>1, <1>2
  <2> QED
    BY <2>1
<1>3. ASSUME NEW t \in SUBSET s, t # s
      PROVE  Total(f, t) = G[t]
  <2> DEFINE g == CHOOSE g : Rec(f, t, g)
  <2>1. Rec(f, t, g) /\ Total(f, t) = g[t]
    BY <1>2, <1>3, TotalDef
  <2> HIDE DEF g
  <2>2. StepAt(f, g, t)
    BY <2>1, RecAt
  <2>3. CASE t = {}
    BY <2>1, <2>2, <2>3 DEF StepAt
  <2>4. CASE t # {}
    <3> DEFINE u == t \ {First(t)}
    <3>1. First(t) \in t
      BY <2>4, FirstIn
    <3>2. u \in SUBSET s /\ u # s /\ u \subseteq t
      BY <3>1
    <3> DEFINE k == CHOOSE k : Rec(f, u, k)
    <3>3. Rec(f, u, k) /\ Total(f, u) = k[u]
      BY <1>2, <3>2, TotalDef
    <3> HIDE DEF k
    <3>4. IsFiniteSet(u)
      BY <3>2, FS_Subset
    <3>5. g[u] = k[u]
      BY <2>1, <3>2, <3>3, <3>4, Agree
    <3> QED
      BY <2>1, <2>2, <2>4, <3>3, <3>5 DEF StepAt
  <2> QED
    BY <2>3, <2>4
<1>4. Rec(f, s, G)
  <2>1. ASSUME NEW t \in SUBSET s, t # {}
        PROVE  Total(f, t \ {First(t)}) = G[t \ {First(t)}]
    BY <1>3, <2>1, FirstIn
  <2>2. G = [t \in SUBSET s |-> IF t = {} THEN 0 ELSE f[First(t)] + G[t \ {First(t)}]]
    BY <2>1
  <2> QED
    BY <2>2 DEF Rec, First
<1> QED
  BY <1>1, <1>4

\* A sum is its first term and the sum of the others.
LEMMA TotalAt ==
  ASSUME NEW f, NEW S, IsFiniteSet(S)
  PROVE  Total(f, S) = IF S = {} THEN 0 ELSE f[First(S)] + Total(f, S \ {First(S)})
<1> DEFINE g == CHOOSE g : Rec(f, S, g)
<1> DEFINE u == S \ {First(S)}
<1> DEFINE k == CHOOSE k : Rec(f, u, k)
<1>1. IsFiniteSet(u)
  BY FS_Subset
<1>2. Rec(f, S, g) /\ Total(f, S) = g[S]
  BY Exists, TotalDef
<1>3. Rec(f, u, k) /\ Total(f, u) = k[u]
  BY <1>1, Exists, TotalDef
<1> HIDE DEF g, k
<1>4. g[u] = k[u]
  BY <1>1, <1>2, <1>3, Agree
<1>5. StepAt(f, g, S)
  BY <1>2, RecAt
<1> QED
  BY <1>2, <1>3, <1>4, <1>5 DEF StepAt

\* A sum depends on its terms only.
LEMMA TotalSame ==
  ASSUME NEW f, NEW h, NEW S, IsFiniteSet(S), \A x \in S : f[x] = h[x]
  PROVE  Total(f, S) = Total(h, S)
<1> DEFINE g == CHOOSE g : Rec(f, S, g)
<1> DEFINE k == CHOOSE k : Rec(h, S, k)
<1>1. Rec(f, S, g) /\ Total(f, S) = g[S]
  BY Exists, TotalDef
<1>2. Rec(h, S, k) /\ Total(h, S) = k[S]
  BY Exists, TotalDef
<1> HIDE DEF g, k
<1> QED
  BY <1>1, <1>2, Agree

\* A sum of integers is one.
LEMMA TotalTyped ==
  ASSUME NEW f, NEW S, IsFiniteSet(S), \A x \in S : f[x] \in Int
  PROVE  Total(f, S) \in Int
<1> DEFINE Bad == {s \in SUBSET S : Total(f, s) \notin Int}
<1> SUFFICES ASSUME Bad # {} PROVE FALSE
  OBVIOUS
<1>1. PICK s \in Bad : \A u \in Bad : u \subseteq s => u = s
  <2>1. Bad \in SUBSET SUBSET S
    OBVIOUS
  <2> HIDE DEF Bad
  <2> QED
    BY <2>1, Minimal
<1>2. IsFiniteSet(s)
  BY FS_Subset
<1>3. Total(f, s) = IF s = {} THEN 0 ELSE f[First(s)] + Total(f, s \ {First(s)})
  BY <1>2, TotalAt
<1>4. s # {}
  BY <1>3
<1>5. First(s) \in s
  BY <1>4, FirstIn
<1>6. s \ {First(s)} \notin Bad
  BY <1>1, <1>5
<1> QED
  BY <1>3, <1>4, <1>5, <1>6

\* Any term can be taken first.
LEMMA TotalRemove ==
  ASSUME NEW f, NEW S, IsFiniteSet(S), \A x \in S : f[x] \in Int, NEW y \in S
  PROVE  Total(f, S) = f[y] + Total(f, S \ {y})
<1> DEFINE Bad == {s \in SUBSET S : \E z \in s : Total(f, s) # f[z] + Total(f, s \ {z})}
<1> SUFFICES ASSUME Bad # {} PROVE FALSE
  OBVIOUS
<1>1. PICK s \in Bad : \A u \in Bad : u \subseteq s => u = s
  <2>1. Bad \in SUBSET SUBSET S
    OBVIOUS
  <2> HIDE DEF Bad
  <2> QED
    BY <2>1, Minimal
<1>2. PICK z \in s : Total(f, s) # f[z] + Total(f, s \ {z})
  OBVIOUS
<1> DEFINE x == First(s)
<1>3. x \in s
  BY FirstIn
<1> HIDE DEF x
<1>4. \A u \in SUBSET S : IsFiniteSet(u) /\ Total(f, u) \in Int
  <2> SUFFICES ASSUME NEW u \in SUBSET S PROVE IsFiniteSet(u) /\ Total(f, u) \in Int
    OBVIOUS
  <2>1. IsFiniteSet(u)
    BY FS_Subset
  <2> QED
    BY <2>1, TotalTyped
<1>5. Total(f, s) = f[x] + Total(f, s \ {x})
  <2>1. IsFiniteSet(s)
    BY <1>4
  <2> QED
    BY <2>1, TotalAt DEF x
<1>6. x # z
  BY <1>2, <1>5
<1>7. s \ {x} \in SUBSET S /\ s \ {x} \notin Bad /\ z \in s \ {x}
  BY <1>1, <1>3, <1>6
<1>8. Total(f, s \ {x}) = f[z] + Total(f, (s \ {x}) \ {z})
  BY <1>7
<1>9. s \ {z} \in SUBSET S /\ s \ {z} \notin Bad /\ x \in s \ {z}
  BY <1>1, <1>3, <1>6
<1>10. Total(f, s \ {z}) = f[x] + Total(f, (s \ {z}) \ {x})
  BY <1>9
<1>11. (s \ {x}) \ {z} = (s \ {z}) \ {x} /\ (s \ {x}) \ {z} \in SUBSET S
  OBVIOUS
<1>12. f[x] \in Int /\ f[z] \in Int /\ Total(f, (s \ {x}) \ {z}) \in Int
  BY <1>3, <1>4, <1>11
<1>13. Total(f, s) = f[x] + (f[z] + Total(f, (s \ {x}) \ {z}))
  BY <1>5, <1>8
<1>14. f[z] + Total(f, s \ {z}) = f[z] + (f[x] + Total(f, (s \ {x}) \ {z}))
  BY <1>10, <1>11
<1>15. \A a, b, c \in Int : a + (b + c) = b + (a + c)
  OBVIOUS
<1> HIDE DEF Bad
<1> QED
  BY <1>2, <1>12, <1>13, <1>14, <1>15

\* The sum over no set at all.
LEMMA TotalOfNone == \A f : Total(f, {}) = 0
<1> SUFFICES ASSUME NEW f PROVE Total(f, {}) = 0
  OBVIOUS
<1>1. IsFiniteSet({})
  BY FS_EmptySet
<1> QED
  BY <1>1, TotalAt

\* What one element brings to a sum over a set that it may belong to.
Term(f, S, r) == IF r \in S THEN f[r] ELSE 0

\* Two sums that differ in one element differ by what it brings to them.
LEMMA TotalDiffers ==
  ASSUME NEW f, NEW h, NEW A, NEW B, NEW r, IsFiniteSet(A), IsFiniteSet(B),
         \A x \in A : f[x] \in Int, \A x \in B : h[x] \in Int,
         A \ {r} = B \ {r}, \A x \in A \ {r} : f[x] = h[x]
  PROVE  Total(h, B) = Total(f, A) - Term(f, A, r) + Term(h, B, r)
<1> DEFINE R == A \ {r}
<1>1. R = A \ {r} /\ R = B \ {r}
  OBVIOUS
<1>2. IsFiniteSet(R)
  BY FS_Subset
<1>3. \A x \in R : f[x] = h[x] /\ f[x] \in Int
  OBVIOUS
<1> HIDE DEF R
<1>4. Total(f, R) = Total(h, R) /\ Total(f, R) \in Int
  BY <1>2, <1>3, TotalSame, TotalTyped
<1>5. Total(f, A) = Total(f, R) + Term(f, A, r) /\ Term(f, A, r) \in Int
  <2>1. CASE r \in A
    <3>1. Total(f, A) = f[r] + Total(f, A \ {r})
      BY <2>1, TotalRemove
    <3> QED
      BY <1>1, <1>4, <2>1, <3>1 DEF Term
  <2>2. CASE r \notin A
    <3>1. R = A
      BY <1>1, <2>2
    <3>2. Term(f, A, r) = 0
      BY <2>2 DEF Term
    <3> QED
      BY <3>1, <3>2, <1>4
  <2> QED
    BY <2>1, <2>2
<1>6. Total(h, B) = Total(h, R) + Term(h, B, r) /\ Term(h, B, r) \in Int
  <2>1. CASE r \in B
    <3>1. Total(h, B) = h[r] + Total(h, B \ {r})
      BY <2>1, TotalRemove
    <3>2. h[r] \in Int /\ Term(h, B, r) = h[r]
      BY <2>1 DEF Term
    <3>3. Total(h, B \ {r}) = Total(h, R)
      BY <1>1
    <3> QED
      BY <1>4, <3>1, <3>2, <3>3
  <2>2. CASE r \notin B
    <3>1. R = B
      BY <1>1, <2>2
    <3>2. Term(h, B, r) = 0
      BY <2>2 DEF Term
    <3> QED
      BY <3>1, <3>2, <1>4
  <2> QED
    BY <2>1, <2>2
<1> QED
  BY <1>4, <1>5, <1>6

-----------------------------------------------------------------------------
(* The book *)

IntCell == [granted : Int, reserved : Int, consumed : Int]
NatCell == [granted : Nat, reserved : Nat, consumed : Nat]
Balances == [Type \X Year -> IntCell]

\* What the projection's WHERE lets through has no negative column.
LEMMA SoundIsNat ==
  ASSUME NEW bal \in Balances, Sound(bal)
  PROVE  bal \in [Type \X Year -> NatCell]
<1>1. ASSUME NEW a \in Type \X Year
      PROVE  bal[a] \in NatCell
  <2>1. bal[a] \in IntCell
    BY DEF Balances
  <2>2. bal[a].granted >= 0 /\ bal[a].reserved >= 0 /\ bal[a].consumed >= 0
    BY DEF Sound
  <2> QED
    BY <2>1, <2>2 DEF IntCell, NatCell
<1> QED
  BY <1>1 DEF Balances

\* The counted days of a range are at most all of them.
LEMMA CountedTyped ==
  ASSUME NEW first, NEW last
  PROVE  Counted(first, last) \in [Year -> 0..Cardinality(Date)]
<1>1. ASSUME NEW D, D \subseteq Date
      PROVE  Cardinality(D) \in 0..Cardinality(Date)
  <2>1. IsFiniteSet(D) /\ Cardinality(D) <= Cardinality(Date)
    BY <1>1, BalanceAssumption, FS_Subset
  <2>2. Cardinality(D) \in Nat /\ Cardinality(Date) \in Nat
    BY <2>1, BalanceAssumption, FS_CardinalityType
  <2> QED
    BY <2>1, <2>2
<1>2. ASSUME NEW y \in Year
      PROVE  Cardinality({d \in Date \ holidays : first <= d /\ d <= last /\ YearOf[d] = y})
               \in 0..Cardinality(Date)
  BY <1>1
<1> QED
  BY <1>2 DEF Counted

LEMMA DaysAreNat == [Year -> 0..Cardinality(Date)] \subseteq [Year -> Nat]
<1>1. Cardinality(Date) \in Nat
  BY BalanceAssumption, FS_CardinalityType
<1> QED
  BY <1>1

\* An absence of some days has them in some year.
LEMMA SomeYear ==
  ASSUME NEW days \in [Year -> Nat], days # NoDays
  PROVE  \E y \in Year : days[y] > 0
<1> SUFFICES ASSUME \A y \in Year : ~ (days[y] > 0) PROVE FALSE
  OBVIOUS
<1>1. \A y \in Year : days[y] = 0
  OBVIOUS
<1> QED
  BY <1>1 DEF NoDays

LEMMA EffectFacts ==
  ASSUME NEW kind \in DayKind, NEW q \in Nat, NEW direct \in BOOLEAN
  PROVE  /\ Effect(kind, q, direct) \in IntCell
         /\ Effect(kind, q, direct).granted = 0
         /\ q = 0 => /\ Effect(kind, q, direct).reserved = 0
                     /\ Effect(kind, q, direct).consumed = 0
BY DEF DayKind, Effect, IntCell

\* No movement of this kind and version of a request is booked.
Unbooked(ms, kind, r, v, t) == \A y \in Year : ~ Booked(ms, kind, r, v, t, y)

\* p is the book after a posting: every year of the allocation moved by the
\* effect of its days, and the movements are there.
Posted(p, book, kind, r, v, t, days, direct) ==
    /\ p.balance \in Balances
    /\ \A y \in Year :
         /\ p.balance[<<t, y>>].reserved =
              book.balance[<<t, y>>].reserved + Effect(kind, days[y], direct).reserved
         /\ p.balance[<<t, y>>].consumed =
              book.balance[<<t, y>>].consumed + Effect(kind, days[y], direct).consumed
    /\ \A u \in Type \ {t}, y \in Year : p.balance[<<u, y>>] = book.balance[<<u, y>>]
    /\ book.moves \subseteq p.moves
    /\ \A m \in p.moves : m \in book.moves \/
         \E y \in Year : m = Movement(kind, r, v, t, y, days[y])
    /\ days # NoDays => \E m \in p.moves : m.kind = kind /\ m.ref = r

\* A posting whose key is not booked yet is made in full.
LEMMA PostFacts ==
  ASSUME NEW book, book.balance \in Balances,
         NEW kind \in DayKind, NEW r, NEW v, NEW t \in Type,
         NEW days \in [Year -> Nat], NEW direct \in BOOLEAN,
         Unbooked(book.moves, kind, r, v, t)
  PROVE  Posted(Post(book, kind, r, v, t, days, direct), book, kind, r, v, t, days, direct)
<1> DEFINE p == Post(book, kind, r, v, t, days, direct)
<1> DEFINE fresh == {y \in Year : days[y] > 0 /\ ~ Booked(book.moves, kind, r, v, t, y)}
<1>1. /\ p.balance = [a \in Type \X Year |->
             IF a[1] = t /\ a[2] \in fresh
             THEN Shifted(book.balance[a], Effect(kind, days[a[2]], direct))
             ELSE book.balance[a]]
      /\ p.moves = book.moves \cup {Movement(kind, r, v, t, y, days[y]) : y \in fresh}
  BY DEF Post
<1>2. fresh = {y \in Year : days[y] > 0}
  BY DEF Unbooked
<1> HIDE DEF fresh, p
<1>3. ASSUME NEW a \in Type \X Year
      PROVE  /\ a[2] \in Year /\ days[a[2]] \in Nat /\ book.balance[a] \in IntCell
             /\ Effect(kind, days[a[2]], direct) \in IntCell
  BY EffectFacts DEF Balances
<1>4. p.balance \in Balances
  <2>1. ASSUME NEW b \in IntCell, NEW e \in IntCell
        PROVE  Shifted(b, e) \in IntCell
    BY DEF Shifted, IntCell
  <2> QED
    BY <1>1, <1>3, <2>1 DEF Balances
<1>5. ASSUME NEW y \in Year
      PROVE  /\ p.balance[<<t, y>>].reserved =
                  book.balance[<<t, y>>].reserved + Effect(kind, days[y], direct).reserved
             /\ p.balance[<<t, y>>].consumed =
                  book.balance[<<t, y>>].consumed + Effect(kind, days[y], direct).consumed
  <2>1. <<t, y>> \in Type \X Year /\ <<t, y>>[1] = t /\ <<t, y>>[2] = y
    OBVIOUS
  <2>2. book.balance[<<t, y>>] \in IntCell /\ days[y] \in Nat
    BY <1>3, <2>1
  <2>3. CASE y \in fresh
    <3>1. p.balance[<<t, y>>] = Shifted(book.balance[<<t, y>>], Effect(kind, days[y], direct))
      BY <1>1, <2>1, <2>3
    <3> QED
      BY <3>1 DEF Shifted
  <2>4. CASE y \notin fresh
    <3>1. p.balance[<<t, y>>] = book.balance[<<t, y>>]
      BY <1>1, <2>1, <2>4
    <3>2. days[y] = 0
      BY <1>2, <2>2, <2>4
    <3>3. /\ Effect(kind, days[y], direct).reserved = 0
          /\ Effect(kind, days[y], direct).consumed = 0
      BY <2>2, <3>2, EffectFacts
    <3> QED
      BY <2>2, <3>1, <3>3 DEF IntCell
  <2> QED
    BY <2>3, <2>4
<1>6. ASSUME NEW u \in Type \ {t}, NEW y \in Year
      PROVE  p.balance[<<u, y>>] = book.balance[<<u, y>>]
  <2>1. <<u, y>> \in Type \X Year /\ <<u, y>>[1] # t
    OBVIOUS
  <2> QED
    BY <1>1, <2>1
<1>7. ASSUME days # NoDays
      PROVE  \E m \in p.moves : m.kind = kind /\ m.ref = r
  <2>1. PICK y \in Year : days[y] > 0
    BY <1>7, SomeYear
  <2>2. Movement(kind, r, v, t, y, days[y]) \in p.moves
    BY <1>1, <1>2, <2>1
  <2> QED
    BY <2>2 DEF Movement
<1>8. /\ book.moves \subseteq p.moves
      /\ \A m \in p.moves : m \in book.moves \/
           \E y \in Year : m = Movement(kind, r, v, t, y, days[y])
  BY <1>1, <1>2
<1> QED
  BY <1>4, <1>5, <1>6, <1>7, <1>8 DEF Posted, p

-----------------------------------------------------------------------------
(* What the requests say *)

LEMMA RowTyped ==
  ASSUME BalanceTypeOK, NEW r \in Request
  PROVE  /\ request[r] \in RequestRow
         /\ request[r].days \in [Year -> Nat]
         /\ request[r].type \in Type
<1>1. request[r] \in RequestRow
  BY DEF BalanceTypeOK
<1> QED
  BY <1>1, DaysAreNat DEF RequestRow

\* What one request adds to the days of a status, a type and a year.
Share(r, status, t, y) ==
    IF r \in Entered /\ request[r].status \in status /\ request[r].type = t
    THEN request[r].days[y] ELSE 0

LEMMA ShareTyped ==
  ASSUME BalanceTypeOK, NEW r \in Request, NEW status, NEW t, NEW y \in Year
  PROVE  Share(r, status, t, y) \in Nat
BY RowTyped DEF Share

\* Where a step touches one request and its movements, the days of every
\* status, type and year change by its share.
LEMMA DaysMove ==
  ASSUME BalanceTypeOK, BalanceTypeOK', NEW r \in Request,
         \A s \in Request \ {r} : request'[s] = request[s] /\ (s \in Entered' <=> s \in Entered),
         NEW status, NEW t, NEW y \in Year
  PROVE  DaysOf(status, t, y)' =
           DaysOf(status, t, y) - Share(r, status, t, y) + Share(r, status, t, y)'
<1> DEFINE f == [s \in Request |-> request[s].days[y]]
           h == [s \in Request |-> request'[s].days[y]]
           A == {s \in Entered : request[s].status \in status /\ request[s].type = t}
           B == {s \in Entered' : request'[s].status \in status /\ request'[s].type = t}
<1>1. DaysOf(status, t, y) = Total(f, A) /\ DaysOf(status, t, y)' = Total(h, B)
  BY DEF DaysOf
<1>2. A \subseteq Request /\ B \subseteq Request
  BY DEF Entered
<1>3. IsFiniteSet(A) /\ IsFiniteSet(B)
  BY <1>2, BalanceAssumption, FS_Subset
<1>4. \A s \in Request : request[s].days[y] \in Int
  BY RowTyped
<1>5. \A s \in Request : request'[s].days[y] \in Int
  <2>1. \A s \in Request : request'[s] \in RequestRow
    BY DEF BalanceTypeOK
  <2> QED
    BY <2>1, DaysAreNat DEF RequestRow
<1>6. (\A s \in A : f[s] \in Int) /\ (\A s \in B : h[s] \in Int)
  BY <1>2, <1>4, <1>5
<1>7. A \ {r} = B \ {r} /\ \A s \in A \ {r} : f[s] = h[s]
  BY <1>2
<1>8. Term(f, A, r) = Share(r, status, t, y)
  BY DEF Term, Share
<1>9. Term(h, B, r) = Share(r, status, t, y)'
  BY DEF Term, Share
<1> HIDE DEF f, h, A, B
<1>10. Total(h, B) = Total(f, A) - Term(f, A, r) + Term(h, B, r)
  BY <1>3, <1>6, <1>7, TotalDiffers
<1> QED
  BY <1>1, <1>8, <1>9, <1>10

\* A request without movements holds nothing.
LEMMA NothingHeld ==
  ASSUME NEW r \in Request, r \notin Entered, NEW t, NEW y
  PROVE  HeldDays(r, t, y) = 0
<1> DEFINE of(kind) == {m \in moves : m.kind = kind /\ m.ref = r /\ m.type = t /\ m.year = y}
<1>1. of("RESERVE") = {} /\ of("RELEASE") = {} /\ of("CONSUME") = {}
  BY DEF Entered, DayKind
<1>2. HeldDays(r, t, y) = Total([m \in moves |-> m.quantity], of("RESERVE"))
          - Total([m \in moves |-> m.quantity], of("RELEASE"))
          - Total([m \in moves |-> m.quantity], of("CONSUME"))
  BY DEF HeldDays
<1> HIDE DEF of
<1> QED
  BY <1>1, <1>2, TotalOfNone

\* Whoever holds the days of his request has entered the ledger.
LEMMA HoldersEntered ==
  ASSUME BalanceTypeOK, NEW r \in Request, request[r].days # NoDays, HoldsAll(r)
  PROVE  r \in Entered
<1> SUFFICES ASSUME r \notin Entered PROVE FALSE
  OBVIOUS
<1>1. PICK y \in Year : request[r].days[y] > 0
  BY RowTyped, SomeYear
<1>2. HeldDays(r, request[r].type, y) >= request[r].days[y]
  BY <1>1 DEF HoldsAll
<1>3. request[r].days[y] \in Nat
  BY RowTyped
<1> QED
  BY <1>1, <1>2, <1>3, NothingHeld

-----------------------------------------------------------------------------
(* The invariant *)

\* A movement of days belongs to a request that exists, was booked at one of
\* its versions, and with the ledger on.  What was released or consumed of a
\* request that is still open was so at an earlier version.
Numbered ==
    \A m \in moves : m.kind \in DayKind =>
        /\ enabled
        /\ request[m.ref].status # "NONE"
        /\ m.version <= request[m.ref].version
        /\ m.kind # "RESERVE" /\ request[m.ref].status \in Open =>
               m.version < request[m.ref].version

\* Nobody asks for no day.
Counting == \A r \in Request : request[r].status # "NONE" => request[r].days # NoDays

\* A form has days; a correction is of an open request, and the only one.
Editing ==
    \A k \in Desk :
        /\ desk[k].step \in {"create", "edit"} => desk[k].days # NoDays
        /\ desk[k].step = "edit" =>
               /\ desk[k].request \in Request
               /\ request[desk[k].request].status \in Open
               /\ request[desk[k].request].version < MaxVersion
        /\ \A j \in Desk : desk[k].step = "edit" /\ desk[j].step = "edit" /\ j # k =>
               desk[j].request # desk[k].request

Inv == BalanceTypeOK /\ Numbered /\ Counting /\ Editing /\ DaysAreHeld /\ AbsencesAreDisjoint

LEMMA DayMoveTyped ==
  ASSUME BalanceTypeOK, NEW m \in moves, m.kind \in DayKind
  PROVE  m \in DayMove /\ m.ref \in Request /\ m.version \in Nat
<1>1. m \in DayMove
  BY DEF BalanceTypeOK, DayKind, ManualMove, ReversalMove
<1> QED
  BY <1>1, BalanceAssumption DEF DayMove

LEMMA DeskTyped ==
  ASSUME BalanceTypeOK, NEW k \in Desk
  PROVE  /\ desk[k].step \in {"create", "edit"} => desk[k] \in Form
         /\ desk[k].step = "reverse" => desk[k] \in Reversing
<1>1. desk[k] \in {AtRest} \cup Form \cup Reversing
  BY DEF BalanceTypeOK
<1>2. AtRest.step = "idle"
  BY DEF AtRest
<1>3. \A x \in Form : x.step \in {"create", "edit"}
  BY DEF Form
<1>4. \A x \in Reversing : x.step = "reverse"
  BY DEF Reversing
<1> QED
  BY <1>1, <1>2, <1>3, <1>4

\* A step beside the requests: none changes, no movement of days is added,
\* and no counter of days moves.
LEMMA BesideRequests ==
  ASSUME Inv, BalanceTypeOK', Editing', request' = request, enabled => enabled',
         \A m \in moves' : m.kind \in DayKind => m \in moves, moves \subseteq moves',
         \A t \in Type, y \in Year :
           /\ balance'[<<t, y>>].reserved = balance[<<t, y>>].reserved
           /\ balance'[<<t, y>>].consumed = balance[<<t, y>>].consumed
  PROVE  Inv'
<1>1. Numbered'
  BY DEF Inv, Numbered
<1>2. Counting'
  BY DEF Inv, Counting
<1>3. DaysAreHeld'
  <2>1. Entered' = Entered
    BY DEF Entered
  <2>2. \A status, t, y : DaysOf(status, t, y)' = DaysOf(status, t, y)
    BY <2>1 DEF DaysOf
  <2> QED
    BY <2>2, BalanceAssumption DEF Inv, DaysAreHeld
<1>4. AbsencesAreDisjoint'
  BY DEF Inv, AbsencesAreDisjoint
<1> QED
  BY <1>1, <1>2, <1>3, <1>4 DEF Inv

\* A step of one request r: movements of its days alone are added, numbered
\* as they must be, the counters move by its share, no two absences meet, and
\* nobody goes on correcting it.
LEMMA StepOfRequest ==
  ASSUME Inv, BalanceTypeOK', enabled' = enabled, NEW r \in Request,
         \A s \in Request \ {r} : request'[s] = request[s],
         request'[r].status # "NONE", request'[r].days # NoDays,
         request[r].status # "NONE" => request'[r].version >= request[r].version,
         request'[r].status \in Open => request[r].status \in Open \cup {"NONE"},
         moves \subseteq moves',
         \A m \in moves' : m \in moves \/
           /\ m.kind \in DayKind /\ m.ref = r /\ enabled
           /\ m.version <= request'[r].version
           /\ m.kind # "RESERVE" /\ request'[r].status \in Open =>
                m.version < request'[r].version,
         \A t \in Deducting, y \in Year :
           /\ balance'[<<t, y>>].reserved =
                balance[<<t, y>>].reserved - Share(r, Open, t, y) + Share(r, Open, t, y)'
           /\ balance'[<<t, y>>].consumed =
                balance[<<t, y>>].consumed - Share(r, {"APPROVED"}, t, y)
                                           + Share(r, {"APPROVED"}, t, y)',
         request'[r].status \in Active =>
           \A s \in Request \ {r} : request[s].status \in Active =>
             request'[r].last < request[s].first \/ request[s].last < request'[r].first,
         \A j \in Desk : \/ desk'[j] = AtRest
                         \/ /\ desk'[j] = desk[j]
                            /\ desk[j].step = "edit" => desk[j].request # r
  PROVE  Inv'
<1>0. BalanceTypeOK /\ Numbered /\ Counting /\ Editing /\ DaysAreHeld /\ AbsencesAreDisjoint
  BY DEF Inv
<1>1. request[r] \in RequestRow /\ request'[r] \in RequestRow
  BY <1>0 DEF BalanceTypeOK
<1>2. Numbered'
  <2> SUFFICES ASSUME NEW m \in moves', m.kind \in DayKind
               PROVE  /\ enabled'
                      /\ request'[m.ref].status # "NONE"
                      /\ m.version <= request'[m.ref].version
                      /\ m.kind # "RESERVE" /\ request'[m.ref].status \in Open =>
                           m.version < request'[m.ref].version
    BY DEF Numbered
  <2>1. CASE m \in moves
    <3>1. m.ref \in Request /\ m.version \in Nat
      BY <1>0, <2>1, DayMoveTyped
    <3>2. /\ enabled /\ request[m.ref].status # "NONE"
          /\ m.version <= request[m.ref].version
          /\ m.kind # "RESERVE" /\ request[m.ref].status \in Open =>
                m.version < request[m.ref].version
      BY <1>0, <2>1 DEF Numbered
    <3>3. CASE m.ref # r
      BY <3>1, <3>2, <3>3
    <3>4. CASE m.ref = r
      <4>1. request[r].version \in Nat /\ request'[r].version \in Nat
        BY <1>1, BalanceAssumption DEF RequestRow
      <4> QED
        BY <3>1, <3>2, <3>4, <4>1
    <3> QED
      BY <3>3, <3>4
  <2>2. CASE m \notin moves
    BY <2>2
  <2> QED
    BY <2>1, <2>2
<1>3. Counting'
  BY <1>0 DEF Counting
<1>4. Editing'
  <2>1. AtRest.step = "idle"
    BY DEF AtRest
  <2> QED
    BY <1>0, <2>1 DEF Editing
<1>5. DaysAreHeld'
  <2>1. \A s \in Request \ {r} : s \in Entered' <=> s \in Entered
    BY DEF Entered
  <2>2. ASSUME NEW status, NEW t \in Deducting, NEW y \in Year
        PROVE  DaysOf(status, t, y)' =
                 DaysOf(status, t, y) - Share(r, status, t, y) + Share(r, status, t, y)'
    BY <1>0, <2>1, DaysMove
  <2> SUFFICES ASSUME NEW t \in Deducting, NEW y \in Year
               PROVE  /\ balance'[<<t, y>>].reserved = DaysOf(Open, t, y)'
                      /\ balance'[<<t, y>>].consumed = DaysOf({"APPROVED"}, t, y)'
    BY DEF DaysAreHeld
  <2>3. /\ balance[<<t, y>>].reserved = DaysOf(Open, t, y)
        /\ balance[<<t, y>>].consumed = DaysOf({"APPROVED"}, t, y)
    BY <1>0 DEF DaysAreHeld
  <2>4. /\ DaysOf(Open, t, y)' =
             DaysOf(Open, t, y) - Share(r, Open, t, y) + Share(r, Open, t, y)'
        /\ DaysOf({"APPROVED"}, t, y)' =
             DaysOf({"APPROVED"}, t, y) - Share(r, {"APPROVED"}, t, y)
                                        + Share(r, {"APPROVED"}, t, y)'
    BY <2>2
  <2> QED
    BY <2>3, <2>4
<1>6. AbsencesAreDisjoint'
  BY <1>0 DEF AbsencesAreDisjoint
<1> QED
  BY <1>2, <1>3, <1>4, <1>5, <1>6 DEF Inv

-----------------------------------------------------------------------------
(* The ledger's steps *)

LEMMA BookTyped ==
  ASSUME BalanceTypeOK
  PROVE  /\ Book.balance = balance /\ Book.moves = moves
         /\ balance \in Balances
<1>1. NatCell \subseteq IntCell
  BY DEF NatCell, IntCell
<1> QED
  BY <1>1 DEF BalanceTypeOK, Balances, Book, NatCell

\* A book that is kept has no negative column.
LEMMA KeptTyped ==
  ASSUME NEW book, book.balance \in Balances, Keep(book)
  PROVE  balance' \in [Type \X Year -> [granted : Nat, reserved : Nat, consumed : Nat]]
BY SoundIsNat DEF Keep, NatCell

\* The movements of a posting for a request of the table.
LEMMA PostedMoves ==
  ASSUME NEW kind \in DayKind, NEW r \in Request, NEW v \in 1..MaxVersion, NEW t \in Type,
         NEW days \in [Year -> Nat], NEW m,
         \E y \in Year : m = Movement(kind, r, v, t, y, days[y])
  PROVE  m \in DayMove /\ m.kind = kind /\ m.ref = r /\ m.version = v
BY DEF Movement, DayMove

\* What is given back or used of an open request that holds its days is its
\* share of the reserved ones.
LEMMA Settled ==
  ASSUME BalanceTypeOK, Numbered, Counting,
         NEW r \in Request, request[r].status \in Open,
         NEW kind \in {"RELEASE", "CONSUME"}, HoldsAll(r),
         NEW p, p = Settle(kind, r)
  PROVE  /\ r \in Entered
         /\ p.balance \in Balances
         /\ \A t \in Type, y \in Year :
              /\ p.balance[<<t, y>>].reserved =
                   balance[<<t, y>>].reserved - Share(r, Open, t, y)
              /\ p.balance[<<t, y>>].consumed =
                   balance[<<t, y>>].consumed
                     + IF kind = "CONSUME" THEN Share(r, Open, t, y) ELSE 0
         /\ moves \subseteq p.moves
         /\ \A m \in p.moves : m \in moves \/
              (m \in DayMove /\ m.kind = kind /\ m.ref = r /\ m.version = request[r].version)
<1> DEFINE x == request[r]
<1>1. x.days \in [Year -> Nat] /\ x.type \in Type /\ x.version \in 1..MaxVersion
  BY RowTyped DEF RequestRow
<1>2. x.days # NoDays
  BY DEF Counting, Open
<1>3. r \in Entered
  BY <1>2, HoldersEntered
<1>4. kind \in DayKind
  BY DEF DayKind
<1>5. Unbooked(Book.moves, kind, r, x.version, x.type)
  <2> SUFFICES ASSUME NEW m \in moves, m.kind = kind, m.ref = r, m.version = x.version
               PROVE  FALSE
    BY BookTyped DEF Booked, Unbooked
  <2>1. m.version < request[r].version
    BY <1>4 DEF Numbered
  <2> QED
    BY <1>1, <2>1, BalanceAssumption
<1>6. p = Post(Book, kind, r, x.version, x.type, x.days, FALSE)
  BY DEF Settle
<1>7. balance \in Balances /\ Book.balance = balance /\ Book.moves = moves
  BY BookTyped
<1> HIDE DEF x
<1>8. /\ p.balance \in Balances
      /\ \A y \in Year :
           /\ p.balance[<<x.type, y>>].reserved =
                balance[<<x.type, y>>].reserved + Effect(kind, x.days[y], FALSE).reserved
           /\ p.balance[<<x.type, y>>].consumed =
                balance[<<x.type, y>>].consumed + Effect(kind, x.days[y], FALSE).consumed
      /\ \A u \in Type \ {x.type}, y \in Year : p.balance[<<u, y>>] = balance[<<u, y>>]
      /\ moves \subseteq p.moves
      /\ \A m \in p.moves : m \in moves \/
           \E y \in Year : m = Movement(kind, r, x.version, x.type, y, x.days[y])
  <2>1. Posted(p, Book, kind, r, x.version, x.type, x.days, FALSE)
    BY <1>1, <1>4, <1>5, <1>6, <1>7, PostFacts
  <2> QED
    BY <1>7, <2>1 DEF Posted
<1>9. ASSUME NEW t \in Type, NEW y \in Year
      PROVE  /\ p.balance[<<t, y>>].reserved =
                  balance[<<t, y>>].reserved - Share(r, Open, t, y)
             /\ p.balance[<<t, y>>].consumed =
                  balance[<<t, y>>].consumed
                    + IF kind = "CONSUME" THEN Share(r, Open, t, y) ELSE 0
  <2>1. balance[<<t, y>>] \in IntCell
    BY <1>7 DEF Balances
  <2>2. CASE t = x.type
    <3>1. Share(r, Open, t, y) = x.days[y]
      BY <1>3, <2>2 DEF Share, x
    <3>2. x.days[y] \in Nat
      BY <1>1
    <3>3. /\ Effect(kind, x.days[y], FALSE).reserved = - x.days[y]
          /\ Effect(kind, x.days[y], FALSE).consumed =
               IF kind = "CONSUME" THEN x.days[y] ELSE 0
      BY <3>2 DEF Effect
    <3> QED
      BY <1>8, <2>1, <2>2, <3>1, <3>2, <3>3 DEF IntCell
  <2>3. CASE t # x.type
    <3>1. Share(r, Open, t, y) = 0
      BY <2>3 DEF Share, x
    <3>2. p.balance[<<t, y>>] = balance[<<t, y>>]
      BY <1>8, <2>3
    <3> QED
      BY <2>1, <3>1, <3>2 DEF IntCell
  <2> QED
    BY <2>2, <2>3
<1>10. \A m \in p.moves : m \in moves \/
         (m \in DayMove /\ m.kind = kind /\ m.ref = r /\ m.version = x.version)
  BY <1>1, <1>4, <1>8, PostedMoves
<1> QED
  BY <1>3, <1>8, <1>9, <1>10 DEF x

\* A review of an open request settles its share, with the ledger or without.
LEMMA ReviewSettles ==
  ASSUME Inv, NEW r \in Request, request[r].status \in Open,
         NEW kind \in {"RELEASE", "CONSUME"}, SettleReservation(kind, r)
  PROVE  /\ balance' \in [Type \X Year -> [granted : Nat, reserved : Nat, consumed : Nat]]
         /\ \A t \in Deducting, y \in Year :
              /\ balance'[<<t, y>>].reserved =
                   balance[<<t, y>>].reserved - Share(r, Open, t, y)
              /\ balance'[<<t, y>>].consumed =
                   balance[<<t, y>>].consumed
                     + IF kind = "CONSUME" THEN Share(r, Open, t, y) ELSE 0
         /\ moves \subseteq moves'
         /\ \A m \in moves' : m \in moves \/
              /\ m \in DayMove /\ m.kind = kind /\ m.ref = r
              /\ m.version = request[r].version /\ enabled
         /\ r \in Entered' <=> r \in Entered
<1>0. BalanceTypeOK /\ Numbered /\ Counting
  BY DEF Inv
<1>1. CASE Ledgered(request[r].type)
  <2> DEFINE p == Settle(kind, r)
  <2>1. HoldsAll(r) /\ Keep(p)
    BY <1>1 DEF SettleReservation
  <2> HIDE DEF p
  <2>2. /\ r \in Entered
        /\ p.balance \in Balances
        /\ \A t \in Type, y \in Year :
             /\ p.balance[<<t, y>>].reserved =
                  balance[<<t, y>>].reserved - Share(r, Open, t, y)
             /\ p.balance[<<t, y>>].consumed =
                  balance[<<t, y>>].consumed
                    + IF kind = "CONSUME" THEN Share(r, Open, t, y) ELSE 0
        /\ moves \subseteq p.moves
        /\ \A m \in p.moves : m \in moves \/
             (m \in DayMove /\ m.kind = kind /\ m.ref = r /\ m.version = request[r].version)
    BY <1>0, <2>1, Settled DEF p
  <2>3. balance' = p.balance /\ moves' = p.moves
    BY <2>1 DEF Keep
  <2>4. balance' \in [Type \X Year -> [granted : Nat, reserved : Nat, consumed : Nat]]
    BY <2>1, <2>2, KeptTyped
  <2>5. r \in Entered'
    BY <2>2, <2>3 DEF Entered
  <2>6. enabled
    BY <1>1 DEF Ledgered
  <2> QED
    BY <2>2, <2>3, <2>4, <2>5, <2>6, BalanceAssumption
<1>2. CASE ~ Ledgered(request[r].type)
  <2>1. balance' = balance /\ moves' = moves
    BY <1>2 DEF SettleReservation, books
  <2>2. Entered' = Entered
    BY <2>1 DEF Entered
  <2>3. ASSUME NEW t \in Deducting, NEW y \in Year
        PROVE  /\ Share(r, Open, t, y) = 0
               /\ balance[<<t, y>>].reserved \in Nat /\ balance[<<t, y>>].consumed \in Nat
    <3>1. enabled \/ r \notin Entered
      BY <1>0 DEF Numbered, Entered
    <3>2. Share(r, Open, t, y) = 0
      BY <1>2, <3>1 DEF Share, Ledgered
    <3>3. <<t, y>> \in Type \X Year
      BY BalanceAssumption
    <3> QED
      BY <1>0, <3>2, <3>3 DEF BalanceTypeOK
  <2> QED
    BY <1>0, <2>1, <2>2, <2>3 DEF BalanceTypeOK
<1> QED
  BY <1>1, <1>2

-----------------------------------------------------------------------------
(* Reviews *)

LEMMA ReviewTyped ==
  ASSUME BalanceTypeOK, NEW r \in Request,
         NEW status \in Active \cup {"REJECTED", "CANCELLED"}, Reviewed(r, status),
         balance' \in [Type \X Year -> [granted : Nat, reserved : Nat, consumed : Nat]],
         \A m \in moves' : m \in moves \/ m \in DayMove
  PROVE  /\ BalanceTypeOK'
         /\ request'[r] \in RequestRow /\ request'[r].status = status
         /\ request'[r].type = request[r].type /\ request'[r].days = request[r].days
         /\ request'[r].first = request[r].first /\ request'[r].last = request[r].last
         /\ request'[r].version = request[r].version
         /\ \A s \in Request \ {r} : request'[s] = request[s]
         /\ \A j \in Desk : desk'[j] = desk[j] /\ (desk[j].step = "edit" => desk[j].request # r)
         /\ enabled' = enabled
<1>1. request[r] \in RequestRow /\ request \in [Request -> RequestRow]
  BY DEF BalanceTypeOK
<1>2. request' = [request EXCEPT ![r].status = status]
  BY DEF Reviewed
<1>3. /\ request'[r] \in RequestRow /\ request'[r].status = status
      /\ request'[r].type = request[r].type /\ request'[r].days = request[r].days
      /\ request'[r].first = request[r].first /\ request'[r].last = request[r].last
      /\ request'[r].version = request[r].version
  BY <1>1, <1>2 DEF RequestRow
<1>4. request' \in [Request -> RequestRow]
  BY <1>1, <1>2, <1>3
<1>5. BalanceTypeOK'
  BY <1>4 DEF BalanceTypeOK, Reviewed
<1>6. \A s \in Request \ {r} : request'[s] = request[s]
  BY <1>1, <1>2
<1>7. \A j \in Desk : desk'[j] = desk[j] /\ (desk[j].step = "edit" => desk[j].request # r)
  BY DEF Reviewed, Locked
<1> QED
  BY <1>3, <1>5, <1>6, <1>7 DEF Reviewed

\* A decision: the request is used up or given back, and closed.
LEMMA Decided ==
  ASSUME Inv, NEW r \in Request, request[r].status \in Open,
         NEW kind \in {"RELEASE", "CONSUME"}, SettleReservation(kind, r),
         NEW status, Reviewed(r, status),
         \/ kind = "CONSUME" /\ status = "APPROVED"
         \/ kind = "RELEASE" /\ status \in {"REJECTED", "CANCELLED"}
  PROVE  Inv'
<1>0. BalanceTypeOK /\ Numbered /\ Counting /\ AbsencesAreDisjoint
  BY DEF Inv
<1>1. status \in Active \cup {"REJECTED", "CANCELLED"}
      /\ status \notin Open /\ status # "NONE"
  BY DEF Active, Open
<1>2. /\ balance' \in [Type \X Year -> [granted : Nat, reserved : Nat, consumed : Nat]]
      /\ \A t \in Deducting, y \in Year :
           /\ balance'[<<t, y>>].reserved =
                balance[<<t, y>>].reserved - Share(r, Open, t, y)
           /\ balance'[<<t, y>>].consumed =
                balance[<<t, y>>].consumed
                  + IF kind = "CONSUME" THEN Share(r, Open, t, y) ELSE 0
      /\ moves \subseteq moves'
      /\ \A m \in moves' : m \in moves \/
           /\ m \in DayMove /\ m.kind = kind /\ m.ref = r
           /\ m.version = request[r].version /\ enabled
      /\ r \in Entered' <=> r \in Entered
  BY ReviewSettles
<1>3. /\ BalanceTypeOK'
      /\ request'[r] \in RequestRow /\ request'[r].status = status
      /\ request'[r].type = request[r].type /\ request'[r].days = request[r].days
      /\ request'[r].first = request[r].first /\ request'[r].last = request[r].last
      /\ request'[r].version = request[r].version
      /\ \A s \in Request \ {r} : request'[s] = request[s]
      /\ \A j \in Desk : desk'[j] = desk[j] /\ (desk[j].step = "edit" => desk[j].request # r)
      /\ enabled' = enabled
  BY <1>0, <1>1, <1>2, ReviewTyped
<1>4. request[r].days # NoDays /\ request[r].version \in Nat
  BY <1>0, BalanceAssumption, RowTyped DEF Counting, Open, RequestRow
<1>5. ASSUME NEW t \in Deducting, NEW y \in Year
      PROVE  /\ balance'[<<t, y>>].reserved =
                  balance[<<t, y>>].reserved - Share(r, Open, t, y) + Share(r, Open, t, y)'
             /\ balance'[<<t, y>>].consumed =
                  balance[<<t, y>>].consumed - Share(r, {"APPROVED"}, t, y)
                                             + Share(r, {"APPROVED"}, t, y)'
  <2>1. Share(r, Open, t, y)' = 0 /\ Share(r, {"APPROVED"}, t, y) = 0
    BY <1>1, <1>3 DEF Share, Open
  <2>2. Share(r, {"APPROVED"}, t, y)' = IF kind = "CONSUME" THEN Share(r, Open, t, y) ELSE 0
    BY <1>2, <1>3 DEF Share
  <2>3. Share(r, Open, t, y) \in Nat
    BY <1>0, ShareTyped
  <2>4. balance[<<t, y>>].reserved \in Nat /\ balance[<<t, y>>].consumed \in Nat
    BY <1>0, BalanceAssumption DEF BalanceTypeOK
  <2> QED
    BY <1>2, <2>1, <2>2, <2>3, <2>4
<1>6. \A m \in moves' : m \in moves \/
        /\ m.kind \in DayKind /\ m.ref = r /\ enabled
        /\ m.version <= request'[r].version
        /\ m.kind # "RESERVE" /\ request'[r].status \in Open => m.version < request'[r].version
  BY <1>1, <1>2, <1>3, <1>4 DEF DayKind
<1>7. request'[r].status \in Active =>
        \A s \in Request \ {r} : request[s].status \in Active =>
          request'[r].last < request[s].first \/ request[s].last < request'[r].first
  BY <1>0, <1>3 DEF AbsencesAreDisjoint, Active
<1> QED
  BY <1>1, <1>2, <1>3, <1>4, <1>5, <1>6, <1>7, StepOfRequest

\* A request that stays open moves no days.
LEMMA StaysOpen ==
  ASSUME Inv, NEW r \in Request, request[r].status \in Open,
         NEW status \in Open, Reviewed(r, status), UNCHANGED books
  PROVE  Inv'
<1>0. BalanceTypeOK /\ Numbered /\ Counting /\ AbsencesAreDisjoint
  BY DEF Inv
<1>1. balance' = balance /\ moves' = moves
  BY DEF books
<1>2. status \in Active \cup {"REJECTED", "CANCELLED"} /\ status # "NONE" /\ status # "APPROVED"
  BY DEF Active, Open
<1>3. /\ BalanceTypeOK'
      /\ request'[r] \in RequestRow /\ request'[r].status = status
      /\ request'[r].type = request[r].type /\ request'[r].days = request[r].days
      /\ request'[r].first = request[r].first /\ request'[r].last = request[r].last
      /\ request'[r].version = request[r].version
      /\ \A s \in Request \ {r} : request'[s] = request[s]
      /\ \A j \in Desk : desk'[j] = desk[j] /\ (desk[j].step = "edit" => desk[j].request # r)
      /\ enabled' = enabled
  <2>1. balance' \in [Type \X Year -> [granted : Nat, reserved : Nat, consumed : Nat]]
    BY <1>0, <1>1 DEF BalanceTypeOK
  <2> QED
    BY <1>0, <1>1, <1>2, <2>1, ReviewTyped
<1>4. request[r].days # NoDays /\ request[r].version \in Nat
  BY <1>0, BalanceAssumption, RowTyped DEF Counting, Open, RequestRow
<1>5. ASSUME NEW t \in Deducting, NEW y \in Year
      PROVE  /\ balance'[<<t, y>>].reserved =
                  balance[<<t, y>>].reserved - Share(r, Open, t, y) + Share(r, Open, t, y)'
             /\ balance'[<<t, y>>].consumed =
                  balance[<<t, y>>].consumed - Share(r, {"APPROVED"}, t, y)
                                             + Share(r, {"APPROVED"}, t, y)'
  <2>0. Entered' = Entered
    BY <1>1 DEF Entered
  <2>1. Share(r, {"APPROVED"}, t, y)' = 0 /\ Share(r, {"APPROVED"}, t, y) = 0
    BY <1>2, <1>3 DEF Share, Open
  <2>2. Share(r, Open, t, y)' = Share(r, Open, t, y)
    BY <1>3, <2>0 DEF Share
  <2>3. Share(r, Open, t, y) \in Nat
    BY <1>0, ShareTyped
  <2>4. balance[<<t, y>>].reserved \in Nat /\ balance[<<t, y>>].consumed \in Nat
    BY <1>0, BalanceAssumption DEF BalanceTypeOK
  <2> QED
    BY <1>1, <2>1, <2>2, <2>3, <2>4
<1>6. \A s \in Request \ {r} : request[s].status \in Active =>
        request'[r].last < request[s].first \/ request[s].last < request'[r].first
  BY <1>0, <1>3 DEF AbsencesAreDisjoint, Active
<1> QED
  BY <1>1, <1>2, <1>3, <1>4, <1>5, <1>6, StepOfRequest

LEMMA ApproveKeeps ==
  ASSUME Inv, NEW r \in Request, NEW override \in BOOLEAN, Approve(r, override)
  PROVE  Inv'
BY Decided DEF Approve

LEMMA RejectOrCancelKeeps ==
  ASSUME Inv, NEW r \in Request, RejectOrCancel(r)
  PROVE  Inv'
BY Decided DEF RejectOrCancel

LEMMA NeedsInfoKeeps ==
  ASSUME Inv, NEW r \in Request, NeedsInfo(r)
  PROVE  Inv'
BY StaysOpen DEF NeedsInfo, Open

LEMMA ResubmitKeeps ==
  ASSUME Inv, NEW r \in Request, Resubmit(r)
  PROVE  Inv'
<1>1. CASE request[r].type \in Automatic
  BY <1>1, Decided DEF Resubmit, Open
<1>2. CASE request[r].type \notin Automatic
  BY <1>2, StaysOpen DEF Resubmit, Open
<1> QED
  BY <1>1, <1>2

-----------------------------------------------------------------------------
(* Creation and corrections *)

\* A range that overlaps no absence under way is before or after each.
LEMMA NoOverlap ==
  ASSUME BalanceTypeOK, NEW first \in Date, NEW last \in Date, NEW self,
         ~ Overlaps(first, last, self)
  PROVE  \A s \in Request \ {self} : request[s].status \in Active =>
           last < request[s].first \/ request[s].last < first
<1> SUFFICES ASSUME NEW s \in Request \ {self}, request[s].status \in Active
             PROVE  last < request[s].first \/ request[s].last < first
  OBVIOUS
<1>1. request[s].first \in Int /\ request[s].last \in Int /\ first \in Int /\ last \in Int
  BY RowTyped, BalanceAssumption DEF RequestRow
<1>2. ~ (request[s].first <= last /\ request[s].last >= first)
  BY DEF Overlaps, Blocking
<1> QED
  BY <1>1, <1>2

LEMMA CreateKeeps ==
  ASSUME Inv, NEW k \in Desk, Create(k)
  PROVE  Inv'
<1>2. PICK r \in Request : r = NextRow /\ request[r].status = "NONE"
  BY DEF Create, NextRow
<1> DEFINE x == desk[k]
           auto == x.type \in Automatic /\ x.type \notin NeedsFile
           row == [status |-> IF auto THEN "APPROVED" ELSE "PENDING", type |-> x.type,
                   first |-> x.first, last |-> x.last, days |-> x.days, version |-> 1,
                   source |-> x.via]
           kind == IF auto THEN "CONSUME" ELSE "RESERVE"
           p == Post(Book, kind, r, 1, x.type, x.days, auto)
<1>0. BalanceTypeOK /\ Numbered /\ Counting /\ Editing /\ AbsencesAreDisjoint
  BY DEF Inv
<1>1. /\ x.step = "create" /\ ~ Overlaps(x.first, x.last, NoRequest)
      /\ request' = [request EXCEPT ![r] = row]
      /\ ~ Ledgered(x.type) => UNCHANGED books
      /\ Ledgered(x.type) => Keep(p)
      /\ desk' = [desk EXCEPT ![k] = AtRest]
      /\ UNCHANGED <<enabled, applied, holidays, calendarEdits>>
  BY <1>2 DEF Create, ReserveDays
<1>3. x \in Form /\ x.days # NoDays
  BY <1>0, <1>1, DeskTyped DEF Editing
<1>4. /\ x.type \in Type /\ x.days \in [Year -> Nat]
      /\ x.first \in Date /\ x.last \in Date
  BY <1>3, DaysAreNat DEF Form
<1>5. row \in RequestRow
  BY <1>3, BalanceAssumption DEF Form, RequestRow, Active, Open
<1>6. kind \in DayKind /\ auto \in BOOLEAN /\ row.status = (IF auto THEN "APPROVED" ELSE "PENDING")
      /\ row.type = x.type /\ row.days = x.days /\ row.version = 1
      /\ row.first = x.first /\ row.last = x.last
  BY DEF DayKind
<1> HIDE DEF row, auto
<1>7. /\ request'[r] = row /\ request' \in [Request -> RequestRow]
      /\ \A s \in Request \ {r} : request'[s] = request[s]
  BY <1>0, <1>1, <1>2, <1>5 DEF BalanceTypeOK
<1>8. r \notin Entered
  BY <1>0, <1>2 DEF Entered, Numbered
<1>9. \A t, y : Share(r, Open, t, y) = 0 /\ Share(r, {"APPROVED"}, t, y) = 0
  BY <1>8 DEF Share
<1>10. /\ balance' \in [Type \X Year -> [granted : Nat, reserved : Nat, consumed : Nat]]
       /\ moves \subseteq moves'
       /\ \A m \in moves' : m \in moves \/
            (m \in DayMove /\ m.kind = kind /\ m.ref = r /\ m.version = 1 /\ enabled)
       /\ \A t \in Deducting, y \in Year :
            /\ balance'[<<t, y>>].reserved =
                 balance[<<t, y>>].reserved + Share(r, Open, t, y)'
            /\ balance'[<<t, y>>].consumed =
                 balance[<<t, y>>].consumed + Share(r, {"APPROVED"}, t, y)'
  <2>0. balance \in Balances /\ Book.balance = balance /\ Book.moves = moves
    BY <1>0, BookTyped
  <2>1. CASE ~ Ledgered(x.type)
    <3>1. balance' = balance /\ moves' = moves
      BY <1>1, <2>1 DEF books
    <3>2. r \notin Entered'
      BY <1>8, <3>1 DEF Entered
    <3>3. \A t, y : Share(r, Open, t, y)' = 0 /\ Share(r, {"APPROVED"}, t, y)' = 0
      BY <3>2 DEF Share
    <3>4. \A t \in Deducting, y \in Year :
            balance[<<t, y>>].reserved \in Nat /\ balance[<<t, y>>].consumed \in Nat
      BY <1>0, BalanceAssumption DEF BalanceTypeOK
    <3> QED
      BY <1>0, <3>1, <3>3, <3>4 DEF BalanceTypeOK
  <2>2. CASE Ledgered(x.type)
    <3>1. Keep(p) /\ enabled
      BY <1>1, <2>2 DEF Ledgered
    <3>2. Unbooked(Book.moves, kind, r, 1, x.type)
      BY <1>6, <1>8, <1>2, <2>0 DEF Unbooked, Booked, Entered
    <3>3. Posted(p, Book, kind, r, 1, x.type, x.days, auto)
      BY <1>4, <1>6, <2>0, <3>2, PostFacts
    <3> HIDE DEF p
    <3>4. p.balance \in Balances /\ balance' = p.balance /\ moves' = p.moves
      BY <3>1, <3>3 DEF Posted, Keep
    <3>5. balance' \in [Type \X Year -> [granted : Nat, reserved : Nat, consumed : Nat]]
      BY <3>1, <3>4, KeptTyped
    <3>6. moves \subseteq moves'
      BY <2>0, <3>3, <3>4 DEF Posted
    <3>7. \A m \in moves' : m \in moves \/
            (m \in DayMove /\ m.kind = kind /\ m.ref = r /\ m.version = 1 /\ enabled)
      <4>1. 1 \in 1..MaxVersion
        BY BalanceAssumption
      <4>2. \A m \in moves' : m \in moves \/
              \E y \in Year : m = Movement(kind, r, 1, x.type, y, x.days[y])
        BY <2>0, <3>3, <3>4 DEF Posted
      <4> HIDE DEF x, kind
      <4> QED
        BY <1>2, <1>4, <1>6, <3>1, <4>1, <4>2, PostedMoves
    <3>8. r \in Entered'
      <4>1. \E m \in moves' : m.kind = kind /\ m.ref = r
        BY <1>3, <3>3, <3>4 DEF Posted
      <4> QED
        BY <1>2, <1>6, <4>1 DEF Entered
    <3>9. ASSUME NEW t \in Deducting, NEW y \in Year
          PROVE  /\ balance'[<<t, y>>].reserved =
                      balance[<<t, y>>].reserved + Share(r, Open, t, y)'
                 /\ balance'[<<t, y>>].consumed =
                      balance[<<t, y>>].consumed + Share(r, {"APPROVED"}, t, y)'
      <4>0. balance[<<t, y>>].reserved \in Nat /\ balance[<<t, y>>].consumed \in Nat
        BY <1>0, BalanceAssumption DEF BalanceTypeOK
      <4>1. CASE t # x.type
        <5>1. Share(r, Open, t, y)' = 0 /\ Share(r, {"APPROVED"}, t, y)' = 0
          BY <1>6, <1>7, <4>1 DEF Share
        <5>2. balance'[<<t, y>>] = balance[<<t, y>>]
          BY <2>0, <3>3, <3>4, <4>1, BalanceAssumption DEF Posted
        <5> QED
          BY <4>0, <5>1, <5>2
      <4>2. CASE t = x.type
        <5>0. x.days[y] \in Nat
          BY <1>4
        <5>1. /\ Share(r, Open, t, y)' = (IF auto THEN 0 ELSE x.days[y])
              /\ Share(r, {"APPROVED"}, t, y)' = (IF auto THEN x.days[y] ELSE 0)
          BY <1>6, <1>7, <3>8, <4>2 DEF Share, Open
        <5>2. /\ balance'[<<t, y>>].reserved =
                   balance[<<t, y>>].reserved + Effect(kind, x.days[y], auto).reserved
              /\ balance'[<<t, y>>].consumed =
                   balance[<<t, y>>].consumed + Effect(kind, x.days[y], auto).consumed
          BY <2>0, <3>3, <3>4, <4>2 DEF Posted
        <5>3. /\ Effect(kind, x.days[y], auto).reserved = (IF auto THEN 0 ELSE x.days[y])
              /\ Effect(kind, x.days[y], auto).consumed = (IF auto THEN x.days[y] ELSE 0)
          BY <1>6, <5>0 DEF Effect
        <5> QED
          BY <4>0, <5>0, <5>1, <5>2, <5>3
      <4> QED
        BY <4>1, <4>2
    <3> QED
      BY <3>5, <3>6, <3>7, <3>9
  <2> QED
    BY <2>1, <2>2
<1>11. BalanceTypeOK'
  <2>1. desk' \in [Desk -> {AtRest} \cup Form \cup Reversing]
    BY <1>0, <1>1 DEF BalanceTypeOK
  <2>2. moves' \subseteq DayMove \cup ManualMove \cup ReversalMove
    BY <1>0, <1>10 DEF BalanceTypeOK
  <2> QED
    BY <1>0, <1>1, <1>7, <1>10, <2>1, <2>2 DEF BalanceTypeOK
<1>12. \A j \in Desk : \/ desk'[j] = AtRest
                       \/ /\ desk'[j] = desk[j]
                          /\ desk[j].step = "edit" => desk[j].request # r
  <2>1. desk \in [Desk -> {AtRest} \cup Form \cup Reversing]
    BY <1>0 DEF BalanceTypeOK
  <2>2. \A j \in Desk : desk[j].step = "edit" => desk[j].request # r
    BY <1>0, <1>2 DEF Editing, Open
  <2> QED
    BY <1>1, <2>1, <2>2
<1>13. \A s \in Request \ {r} : request[s].status \in Active =>
         request'[r].last < request[s].first \/ request[s].last < request'[r].first
  <2>1. \A s \in Request \ {NoRequest} : request[s].status \in Active =>
          x.last < request[s].first \/ request[s].last < x.first
    BY <1>0, <1>1, <1>4, NoOverlap
  <2> QED
    BY <1>6, <1>7, <2>1, BalanceAssumption
<1>14. ASSUME NEW t \in Deducting, NEW y \in Year
       PROVE  /\ balance'[<<t, y>>].reserved =
                   balance[<<t, y>>].reserved - Share(r, Open, t, y) + Share(r, Open, t, y)'
              /\ balance'[<<t, y>>].consumed =
                   balance[<<t, y>>].consumed - Share(r, {"APPROVED"}, t, y)
                                              + Share(r, {"APPROVED"}, t, y)'
  <2>1. balance[<<t, y>>].reserved \in Nat /\ balance[<<t, y>>].consumed \in Nat
    BY <1>0, BalanceAssumption DEF BalanceTypeOK
  <2>2. balance[<<t, y>>].reserved - 0 = balance[<<t, y>>].reserved
        /\ balance[<<t, y>>].consumed - 0 = balance[<<t, y>>].consumed
    BY <2>1
  <2> QED
    BY <1>9, <1>10, <2>2
<1>15. \A m \in moves' : m \in moves \/
         /\ m.kind \in DayKind /\ m.ref = r /\ enabled
         /\ m.version <= request'[r].version
         /\ m.kind # "RESERVE" /\ request'[r].status \in Open => m.version < request'[r].version
  BY <1>6, <1>7, <1>10 DEF Open
<1>16. request'[r].status \in Open \cup {"APPROVED"} /\ request'[r].days # NoDays
  BY <1>3, <1>6, <1>7 DEF Open
<1> HIDE DEF x, kind, p
<1> QED
  BY <1>1, <1>2, <1>10, <1>11, <1>12, <1>13, <1>14, <1>15, <1>16, StepOfRequest DEF Open

\* A correction gives back what the old version holds and reserves the days
\* of the new one.
LEMMA CommitEditKeeps ==
  ASSUME Inv, NEW k \in Desk, CommitEdit(k)
  PROVE  Inv'
<1>0. BalanceTypeOK /\ Numbered /\ Counting /\ Editing /\ AbsencesAreDisjoint
  BY DEF Inv
<1>1. PICK r \in Request : r = desk[k].request
  BY <1>0 DEF Editing, CommitEdit
<1> DEFINE x == desk[k]
           old == request[r]
           v == NextVersion(r)
           released == IF Ledgered(old.type) THEN Settle("RELEASE", r) ELSE Book
           reserved == IF Ledgered(x.type)
                       THEN ReserveDays(released, r, v, x.type, x.days) ELSE released
           row == [old EXCEPT !.type = x.type, !.first = x.first, !.last = x.last,
                              !.days = x.days, !.version = v]
<1>2. /\ x.step = "edit" /\ ~ Overlaps(x.first, x.last, r)
      /\ Ledgered(old.type) => HoldsAll(r)
      /\ Keep(reserved)
      /\ request' = [request EXCEPT ![r] = row]
      /\ applied' = IF x.via = NoMessage THEN applied ELSE applied \cup {<<r, x.via>>}
      /\ desk' = [desk EXCEPT ![k] = AtRest]
      /\ UNCHANGED <<enabled, holidays, calendarEdits>>
  BY <1>0, <1>1 DEF CommitEdit, BalanceTypeOK
<1>3. /\ x \in Form /\ x.days # NoDays /\ old.status \in Open /\ old.version < MaxVersion
      /\ \A j \in Desk \ {k} : desk[j].step = "edit" => desk[j].request # r
  BY <1>0, <1>1, <1>2, DeskTyped DEF Editing
<1>4. /\ x.type \in Type /\ x.days \in [Year -> Nat]
      /\ x.first \in Date /\ x.last \in Date
  BY <1>3, DaysAreNat DEF Form
<1>5. old \in RequestRow /\ old.version \in Nat /\ v = old.version + 1 /\ v \in 1..MaxVersion
      /\ old.version \in 1..MaxVersion
  BY <1>0, <1>3, RowTyped, BalanceAssumption DEF RequestRow, NextVersion
<1>6. /\ row \in RequestRow /\ row.status = old.status /\ row.type = x.type
      /\ row.days = x.days /\ row.version = v /\ row.first = x.first /\ row.last = x.last
  BY <1>3, <1>5 DEF Form, RequestRow
<1>7. /\ request'[r] = row /\ request' \in [Request -> RequestRow]
      /\ \A s \in Request \ {r} : request'[s] = request[s]
  BY <1>0, <1>2, <1>6 DEF BalanceTypeOK
<1>8. balance \in Balances /\ Book.balance = balance /\ Book.moves = moves
  BY <1>0, BookTyped
<1>9. ASSUME NEW t \in Deducting, NEW y \in Year
      PROVE  /\ balance[<<t, y>>].reserved \in Nat /\ balance[<<t, y>>].consumed \in Nat
             /\ Share(r, Open, t, y) \in Nat
             /\ ~ Ledgered(old.type) => Share(r, Open, t, y) = 0
  <2>1. enabled \/ r \notin Entered
    BY <1>0 DEF Numbered, Entered
  <2>2. ~ Ledgered(old.type) => Share(r, Open, t, y) = 0
    BY <2>1 DEF Share, Ledgered
  <2>3. Share(r, Open, t, y) \in Nat
    BY <1>0, ShareTyped
  <2>4. balance[<<t, y>>].reserved \in Nat /\ balance[<<t, y>>].consumed \in Nat
    BY <1>0, BalanceAssumption DEF BalanceTypeOK
  <2> QED
    BY <2>2, <2>3, <2>4
<1>10. /\ released.balance \in Balances
       /\ \A t \in Deducting, y \in Year :
            /\ released.balance[<<t, y>>].reserved =
                 balance[<<t, y>>].reserved - Share(r, Open, t, y)
            /\ released.balance[<<t, y>>].consumed = balance[<<t, y>>].consumed
       /\ moves \subseteq released.moves
       /\ \A m \in released.moves : m \in moves \/
            /\ m \in DayMove /\ m.kind = "RELEASE" /\ m.ref = r
            /\ m.version = old.version /\ enabled
  <2>1. CASE Ledgered(old.type)
    <3> DEFINE p == Settle("RELEASE", r)
    <3>1. HoldsAll(r) /\ enabled /\ released = p
      BY <1>2, <2>1 DEF Ledgered
    <3> HIDE DEF p, released
    <3>2. /\ p.balance \in Balances
          /\ \A t \in Type, y \in Year :
               /\ p.balance[<<t, y>>].reserved =
                    balance[<<t, y>>].reserved - Share(r, Open, t, y)
               /\ p.balance[<<t, y>>].consumed =
                    balance[<<t, y>>].consumed
                      + IF "RELEASE" = "CONSUME" THEN Share(r, Open, t, y) ELSE 0
          /\ moves \subseteq p.moves
          /\ \A m \in p.moves : m \in moves \/
               /\ m \in DayMove /\ m.kind = "RELEASE" /\ m.ref = r
               /\ m.version = request[r].version
      BY <1>0, <1>3, <3>1, Settled DEF p
    <3> QED
      BY <1>9, <3>1, <3>2, BalanceAssumption
  <2>2. CASE ~ Ledgered(old.type)
    <3>1. released = Book
      BY <2>2
    <3> HIDE DEF released
    <3> QED
      BY <1>8, <1>9, <2>2, <3>1
  <2> QED
    BY <2>1, <2>2
<1> HIDE DEF released
<1>11. /\ reserved.balance \in Balances
       /\ \A t \in Deducting, y \in Year :
            /\ reserved.balance[<<t, y>>].reserved =
                 released.balance[<<t, y>>].reserved
                   + IF Ledgered(x.type) /\ t = x.type THEN x.days[y] ELSE 0
            /\ reserved.balance[<<t, y>>].consumed = released.balance[<<t, y>>].consumed
       /\ released.moves \subseteq reserved.moves
       /\ \A m \in reserved.moves : m \in released.moves \/
            (m \in DayMove /\ m.kind = "RESERVE" /\ m.ref = r /\ m.version = v /\ enabled)
       /\ Ledgered(x.type) => \E m \in reserved.moves : m.kind = "RESERVE" /\ m.ref = r
  <2>0. ASSUME NEW t \in Deducting, NEW y \in Year
        PROVE  released.balance[<<t, y>>] \in IntCell /\ x.days[y] \in Nat
    BY <1>4, <1>10, BalanceAssumption DEF Balances
  <2>1. CASE Ledgered(x.type)
    <3>1. Unbooked(released.moves, "RESERVE", r, v, x.type)
      <4> SUFFICES ASSUME NEW m \in released.moves, m.kind = "RESERVE", m.ref = r, m.version = v
                   PROVE  FALSE
        BY DEF Unbooked, Booked
      <4>1. m \in moves
        BY <1>10
      <4>2. m.version <= old.version
        BY <1>0, <4>1 DEF Numbered, DayKind
      <4> QED
        BY <1>5, <4>2
    <3>2. reserved = Post(released, "RESERVE", r, v, x.type, x.days, FALSE)
      BY <2>1 DEF ReserveDays
    <3> HIDE DEF reserved, x, v
    <3>3. Posted(reserved, released, "RESERVE", r, v, x.type, x.days, FALSE)
      <4>1. "RESERVE" \in DayKind
        BY DEF DayKind
      <4> QED
        BY <1>4, <1>10, <3>1, <3>2, <4>1, PostFacts
    <3>4. enabled
      BY <2>1 DEF Ledgered
    <3>5. \A m \in reserved.moves : m \in released.moves \/
            (m \in DayMove /\ m.kind = "RESERVE" /\ m.ref = r /\ m.version = v /\ enabled)
      <4>1. "RESERVE" \in DayKind
        BY DEF DayKind
      <4>2. \A m \in reserved.moves : m \in released.moves \/
              \E y \in Year : m = Movement("RESERVE", r, v, x.type, y, x.days[y])
        BY <3>3 DEF Posted
      <4> QED
        BY <1>4, <1>5, <3>4, <4>1, <4>2, PostedMoves
    <3>6. ASSUME NEW t \in Deducting, NEW y \in Year
          PROVE  /\ reserved.balance[<<t, y>>].reserved =
                      released.balance[<<t, y>>].reserved
                        + IF t = x.type THEN x.days[y] ELSE 0
                 /\ reserved.balance[<<t, y>>].consumed = released.balance[<<t, y>>].consumed
      <4>1. CASE t = x.type
        <5>1. /\ Effect("RESERVE", x.days[y], FALSE).reserved = x.days[y]
              /\ Effect("RESERVE", x.days[y], FALSE).consumed = 0
          BY DEF Effect
        <5>2. /\ reserved.balance[<<t, y>>].reserved =
                   released.balance[<<t, y>>].reserved
                     + Effect("RESERVE", x.days[y], FALSE).reserved
              /\ reserved.balance[<<t, y>>].consumed =
                   released.balance[<<t, y>>].consumed
                     + Effect("RESERVE", x.days[y], FALSE).consumed
          BY <3>3, <4>1 DEF Posted
        <5>3. released.balance[<<t, y>>].consumed \in Int
          BY <2>0 DEF IntCell
        <5>4. reserved.balance[<<t, y>>].consumed = released.balance[<<t, y>>].consumed
          <6>1. \A c \in Int : c + 0 = c
            OBVIOUS
          <6>2. reserved.balance[<<t, y>>].consumed = released.balance[<<t, y>>].consumed + 0
            BY <5>1, <5>2
          <6> QED
            BY <5>3, <6>1, <6>2
        <5>5. reserved.balance[<<t, y>>].reserved = released.balance[<<t, y>>].reserved + x.days[y]
          BY <5>1, <5>2
        <5> QED
          BY <4>1, <5>4, <5>5
      <4>2. CASE t # x.type
        <5>1. reserved.balance[<<t, y>>] = released.balance[<<t, y>>]
          BY <3>3, <4>2, BalanceAssumption DEF Posted
        <5> QED
          BY <2>0, <4>2, <5>1 DEF IntCell
      <4> QED
        BY <4>1, <4>2
    <3>7. /\ reserved.balance \in Balances /\ released.moves \subseteq reserved.moves
          /\ \E m \in reserved.moves : m.kind = "RESERVE" /\ m.ref = r
      BY <1>3, <3>3 DEF Posted, x
    <3> QED
      BY <2>1, <3>5, <3>6, <3>7
  <2>2. CASE ~ Ledgered(x.type)
    <3>1. reserved = released
      BY <2>2
    <3> HIDE DEF reserved
    <3> QED
      BY <1>10, <2>0, <2>2, <3>1 DEF IntCell
  <2> QED
    BY <2>1, <2>2
<1> HIDE DEF reserved
<1>12. balance' = reserved.balance /\ moves' = reserved.moves
  BY <1>2 DEF Keep
<1>13. balance' \in [Type \X Year -> [granted : Nat, reserved : Nat, consumed : Nat]]
  BY <1>2, <1>11, KeptTyped
<1>14. /\ moves \subseteq moves'
       /\ \A m \in moves' : m \in moves \/
            /\ m \in DayMove /\ m.ref = r /\ enabled
            /\ \/ m.kind = "RELEASE" /\ m.version = old.version
               \/ m.kind = "RESERVE" /\ m.version = v
  BY <1>10, <1>11, <1>12
<1>15. ASSUME NEW t \in Deducting, NEW y \in Year
       PROVE  /\ balance'[<<t, y>>].reserved =
                   balance[<<t, y>>].reserved - Share(r, Open, t, y) + Share(r, Open, t, y)'
              /\ balance'[<<t, y>>].consumed =
                   balance[<<t, y>>].consumed - Share(r, {"APPROVED"}, t, y)
                                              + Share(r, {"APPROVED"}, t, y)'
  <2>1. Share(r, {"APPROVED"}, t, y) = 0 /\ Share(r, {"APPROVED"}, t, y)' = 0
    BY <1>3, <1>6, <1>7 DEF Share, Open
  <2>2. Share(r, Open, t, y)' = IF Ledgered(x.type) /\ t = x.type THEN x.days[y] ELSE 0
    <3>1. CASE Ledgered(x.type)
      <4>1. r \in Entered'
        BY <1>11, <1>12, <3>1 DEF Entered, DayKind
      <4> QED
        BY <1>3, <1>6, <1>7, <3>1, <4>1 DEF Share
    <3>2. CASE ~ Ledgered(x.type)
      <4>1. x.type # t \/ r \notin Entered'
        <5>1. CASE enabled
          BY <3>2, <5>1 DEF Ledgered
        <5>2. CASE ~ enabled
          <6>1. r \notin Entered
            BY <1>0, <5>2 DEF Numbered, Entered
          <6>2. \A m \in moves' : m \in moves
            BY <1>14, <5>2
          <6> QED
            BY <6>1, <6>2 DEF Entered
        <5> QED
          BY <5>1, <5>2
      <4> QED
        BY <1>6, <1>7, <3>2, <4>1 DEF Share
    <3> QED
      BY <3>1, <3>2
  <2>3. x.days[y] \in Nat
    BY <1>4
  <2> QED
    BY <1>9, <1>10, <1>11, <1>12, <2>1, <2>2, <2>3
<1>16. BalanceTypeOK'
  <2>1. desk' \in [Desk -> {AtRest} \cup Form \cup Reversing]
    BY <1>0, <1>2 DEF BalanceTypeOK
  <2>2. moves' \subseteq DayMove \cup ManualMove \cup ReversalMove
    BY <1>0, <1>14 DEF BalanceTypeOK
  <2>3. applied' \subseteq Request \X Message
    BY <1>0, <1>2, <1>3 DEF BalanceTypeOK, Form
  <2> QED
    BY <1>0, <1>2, <1>7, <1>13, <2>1, <2>2, <2>3 DEF BalanceTypeOK
<1>17. \A j \in Desk : \/ desk'[j] = AtRest
                       \/ /\ desk'[j] = desk[j]
                          /\ desk[j].step = "edit" => desk[j].request # r
  <2>1. desk \in [Desk -> {AtRest} \cup Form \cup Reversing]
    BY <1>0 DEF BalanceTypeOK
  <2> QED
    BY <1>2, <1>3, <2>1
<1>18. \A s \in Request \ {r} : request[s].status \in Active =>
         request'[r].last < request[s].first \/ request[s].last < request'[r].first
  BY <1>0, <1>2, <1>4, <1>6, <1>7, NoOverlap
<1>19. \A m \in moves' : m \in moves \/
         /\ m.kind \in DayKind /\ m.ref = r /\ enabled
         /\ m.version <= request'[r].version
         /\ m.kind # "RESERVE" /\ request'[r].status \in Open => m.version < request'[r].version
  BY <1>5, <1>6, <1>7, <1>14 DEF DayKind
<1>20. /\ request'[r].status \in Open /\ request[r].status \in Open
       /\ request'[r].status # "NONE" /\ request'[r].days # NoDays
       /\ request'[r].version >= request[r].version
  BY <1>3, <1>5, <1>6, <1>7 DEF Open
<1> HIDE DEF x, v, row, old
<1> QED
  BY <1>2, <1>7, <1>14, <1>15, <1>16, <1>17, <1>18, <1>19, <1>20, StepOfRequest

-----------------------------------------------------------------------------
(* Steps beside the requests *)

LEMMA PrepareKeeps ==
  ASSUME Inv, NEW k \in Desk, Prepare(k)
  PROVE  Inv'
<1>0. BalanceTypeOK /\ Editing
  BY DEF Inv
<1>1. PICK first \in Date, last \in Date, t \in Type, via \in Message \cup {NoMessage} :
        /\ Counted(first, last) # NoDays
        /\ desk' = [desk EXCEPT ![k] =
             [step |-> "create", request |-> NoRequest, type |-> t, first |-> first,
              last |-> last, days |-> Counted(first, last), via |-> via]]
  BY DEF Prepare
<1>2. /\ UNCHANGED <<enabled, request, applied, holidays, calendarEdits>>
      /\ balance' = balance /\ moves' = moves
  BY DEF Prepare, books
<1> DEFINE x == [step |-> "create", request |-> NoRequest, type |-> t, first |-> first,
                 last |-> last, days |-> Counted(first, last), via |-> via]
<1>3. x \in Form /\ x.step = "create" /\ x.days # NoDays
  BY <1>1, CountedTyped DEF Form
<1>4. desk' = [desk EXCEPT ![k] = x]
  BY <1>1
<1> HIDE DEF x
<1>5. desk \in [Desk -> {AtRest} \cup Form \cup Reversing]
  BY <1>0 DEF BalanceTypeOK
<1>6. BalanceTypeOK'
  <2>1. desk' \in [Desk -> {AtRest} \cup Form \cup Reversing]
    BY <1>3, <1>4, <1>5
  <2> QED
    BY <1>0, <1>2, <2>1 DEF BalanceTypeOK
<1>7. Editing'
  <2>1. desk'[k] = x /\ \A j \in Desk \ {k} : desk'[j] = desk[j]
    BY <1>4, <1>5
  <2> QED
    BY <1>0, <1>2, <1>3, <2>1 DEF Editing
<1> QED
  BY <1>2, <1>6, <1>7, BesideRequests

LEMMA BeginEditKeeps ==
  ASSUME Inv, NEW k \in Desk, NEW r \in Request, BeginEdit(k, r)
  PROVE  Inv'
<1>0. BalanceTypeOK /\ Editing
  BY DEF Inv
<1>1. PICK first \in Date, last \in Date, t \in Type, via \in Message \cup {NoMessage} :
        /\ Counted(first, last) # NoDays
        /\ request[r].status \in Open
        /\ desk' = [desk EXCEPT ![k] =
             [step |-> "edit", request |-> r, type |-> t, first |-> first,
              last |-> last, days |-> Counted(first, last), via |-> via]]
  BY DEF BeginEdit, Open
<1>2. /\ UNCHANGED <<enabled, request, applied, holidays, calendarEdits>>
      /\ balance' = balance /\ moves' = moves
      /\ ~ Locked(r) /\ request[r].version < MaxVersion
  BY DEF BeginEdit, books
<1> DEFINE x == [step |-> "edit", request |-> r, type |-> t, first |-> first,
                 last |-> last, days |-> Counted(first, last), via |-> via]
<1>3. x \in Form /\ x.step = "edit" /\ x.days # NoDays /\ x.request = r
  BY <1>1, CountedTyped DEF Form
<1>4. desk' = [desk EXCEPT ![k] = x]
  BY <1>1
<1> HIDE DEF x
<1>5. desk \in [Desk -> {AtRest} \cup Form \cup Reversing]
  BY <1>0 DEF BalanceTypeOK
<1>6. BalanceTypeOK'
  <2>1. desk' \in [Desk -> {AtRest} \cup Form \cup Reversing]
    BY <1>3, <1>4, <1>5
  <2> QED
    BY <1>0, <1>2, <2>1 DEF BalanceTypeOK
<1>7. Editing'
  <2>1. desk'[k] = x /\ \A j \in Desk \ {k} : desk'[j] = desk[j]
    BY <1>4, <1>5
  <2>2. \A j \in Desk : desk[j].step = "edit" => desk[j].request # r
    BY <1>2 DEF Locked
  <2> QED
    BY <1>0, <1>1, <1>2, <1>3, <2>1, <2>2 DEF Editing
<1> QED
  BY <1>2, <1>6, <1>7, BesideRequests

\* A desk that rests is no obstacle to the others.
LEMMA RestingDesk ==
  ASSUME BalanceTypeOK, Editing, NEW k \in Desk, desk' = [desk EXCEPT ![k] = AtRest],
         request' = request
  PROVE  Editing' /\ desk' \in [Desk -> {AtRest} \cup Form \cup Reversing]
<1>1. desk \in [Desk -> {AtRest} \cup Form \cup Reversing]
  BY DEF BalanceTypeOK
<1>2. desk'[k] = AtRest /\ \A j \in Desk \ {k} : desk'[j] = desk[j]
  BY <1>1
<1>3. AtRest.step = "idle"
  BY DEF AtRest
<1> QED
  BY <1>1, <1>2, <1>3 DEF Editing

LEMMA AbandonKeeps ==
  ASSUME Inv, NEW k \in Desk, Abandon(k)
  PROVE  Inv'
<1>0. BalanceTypeOK /\ Editing
  BY DEF Inv
<1>1. /\ UNCHANGED <<enabled, request, applied, holidays, calendarEdits>>
      /\ balance' = balance /\ moves' = moves
      /\ desk' = [desk EXCEPT ![k] = AtRest]
  BY DEF Abandon, books
<1>2. Editing' /\ desk' \in [Desk -> {AtRest} \cup Form \cup Reversing]
  BY <1>0, <1>1, RestingDesk
<1>3. BalanceTypeOK'
  BY <1>0, <1>1, <1>2 DEF BalanceTypeOK
<1> QED
  BY <1>1, <1>2, <1>3, BesideRequests

LEMMA BeginReversalKeeps ==
  ASSUME Inv, NEW k \in Desk, NEW m \in Manual, BeginReversal(k, m)
  PROVE  Inv'
<1>0. BalanceTypeOK /\ Editing
  BY DEF Inv
<1> DEFINE x == [step |-> "reverse", of |-> m]
<1>1. /\ UNCHANGED <<enabled, request, applied, holidays, calendarEdits>>
      /\ balance' = balance /\ moves' = moves
      /\ desk' = [desk EXCEPT ![k] = x]
  BY DEF BeginReversal, books
<1>2. m \in ManualMove
  BY <1>0 DEF Manual, BalanceTypeOK, DayMove, DayKind, ReversalMove
<1>3. x \in Reversing /\ x.step = "reverse"
  BY <1>2 DEF Reversing
<1> HIDE DEF x
<1>4. desk \in [Desk -> {AtRest} \cup Form \cup Reversing]
  BY <1>0 DEF BalanceTypeOK
<1>5. desk'[k] = x /\ \A j \in Desk \ {k} : desk'[j] = desk[j]
  BY <1>1, <1>4
<1>6. desk' \in [Desk -> {AtRest} \cup Form \cup Reversing]
  BY <1>1, <1>3, <1>4
<1>7. Editing'
  BY <1>0, <1>1, <1>3, <1>5 DEF Editing
<1>8. BalanceTypeOK'
  BY <1>0, <1>1, <1>6 DEF BalanceTypeOK
<1> QED
  BY <1>1, <1>7, <1>8, BesideRequests

Granted(t, y, g) == [balance EXCEPT ![<<t, y>>].granted = g]

\* A balance whose reserved and consumed columns are those of now.
DaysKept(bal) ==
    /\ bal \in Balances
    /\ \A u \in Type, z \in Year :
         /\ bal[<<u, z>>].reserved = balance[<<u, z>>].reserved
         /\ bal[<<u, z>>].consumed = balance[<<u, z>>].consumed

\* Granting days leaves them alone.
LEMMA Granting ==
  ASSUME balance \in Balances, NEW t \in Type, NEW y \in Year, NEW g \in Int
  PROVE  DaysKept(Granted(t, y, g))
<1> DEFINE bal == Granted(t, y, g)
<1>1. \A a \in Type \X Year : balance[a] \in IntCell
  BY DEF Balances
<1> DEFINE cell == [balance[<<t, y>>] EXCEPT !.granted = g]
<1>2. <<t, y>> \in Type \X Year
  OBVIOUS
<1>3. /\ cell \in IntCell
      /\ cell.reserved = balance[<<t, y>>].reserved
      /\ cell.consumed = balance[<<t, y>>].consumed
  BY <1>1, <1>2 DEF IntCell
<1>4. bal = [balance EXCEPT ![<<t, y>>] = cell]
  BY DEF Granted
<1> HIDE DEF cell, bal
<1>5. \A a \in Type \X Year : bal[a] = IF a = <<t, y>> THEN cell ELSE balance[a]
  BY <1>2, <1>4 DEF Balances
<1>6. bal \in Balances
  BY <1>1, <1>3, <1>4 DEF Balances
<1> QED
  BY <1>3, <1>5, <1>6 DEF DaysKept, bal

LEMMA AdjustKeeps ==
  ASSUME Inv, NEW c \in Command, NEW t \in Type, NEW y \in Year,
         NEW kind \in {"CREDIT", "DEBIT"}, Adjust(c, t, y, kind)
  PROVE  Inv'
<1>0. BalanceTypeOK /\ Editing
  BY DEF Inv
<1> DEFINE bal == [balance EXCEPT ![<<t, y>>].granted = @ + Signed(kind, 1)]
           m == Movement(kind, c, 1, t, y, 1)
           book == [balance |-> bal, moves |-> moves \cup {m}]
<1>1. /\ UNCHANGED <<enabled, request, applied, holidays, calendarEdits, desk>>
      /\ Keep(book)
  BY DEF Adjust
<1>2. book.balance = bal /\ book.moves = moves \cup {m}
  OBVIOUS
<1>3. m \in ManualMove /\ m.kind \notin DayKind
  BY DEF Movement, ManualMove, DayKind
<1>4. balance \in Balances
  BY <1>0, BookTyped
<1>5. /\ bal \in Balances
      /\ \A u \in Type, z \in Year :
           /\ bal[<<u, z>>].reserved = balance[<<u, z>>].reserved
           /\ bal[<<u, z>>].consumed = balance[<<u, z>>].consumed
  <2> DEFINE g == balance[<<t, y>>].granted + Signed(kind, 1)
  <2>1. g \in Int
    BY <1>4 DEF Balances, IntCell, Signed
  <2>2. bal = Granted(t, y, g)
    BY DEF Granted
  <2> HIDE DEF g, bal
  <2> QED
    BY <1>4, <2>1, <2>2, Granting DEF DaysKept
<1> HIDE DEF book, bal, m
<1>6. balance' = bal /\ moves' = moves \cup {m}
  BY <1>1, <1>2 DEF Keep
<1>7. balance' \in [Type \X Year -> [granted : Nat, reserved : Nat, consumed : Nat]]
  BY <1>1, <1>2, <1>5, KeptTyped
<1>8. BalanceTypeOK'
  BY <1>0, <1>1, <1>3, <1>6, <1>7 DEF BalanceTypeOK
<1>9. Editing'
  BY <1>0, <1>1 DEF Editing
<1> QED
  BY <1>1, <1>3, <1>5, <1>6, <1>8, <1>9, BesideRequests

LEMMA AssignKeeps ==
  ASSUME Inv, NEW t \in Type, NEW y \in Year, NEW total \in 0..Start, Assign(t, y, total)
  PROVE  Inv'
<1>0. BalanceTypeOK /\ Editing
  BY DEF Inv
<1>1. /\ UNCHANGED <<enabled, request, applied, moves, holidays, calendarEdits, desk>>
      /\ balance' = [balance EXCEPT ![<<t, y>>].granted = total]
      /\ Sound(balance')
  BY DEF Assign
<1>2. balance \in Balances /\ total \in Int
  BY <1>0, BookTyped
<1>3. /\ balance' \in Balances
      /\ \A u \in Type, z \in Year :
           /\ balance'[<<u, z>>].reserved = balance[<<u, z>>].reserved
           /\ balance'[<<u, z>>].consumed = balance[<<u, z>>].consumed
  <2>1. balance' = Granted(t, y, total)
    BY <1>1 DEF Granted
  <2> QED
    BY <1>2, <2>1, Granting DEF DaysKept
<1>4. balance' \in [Type \X Year -> [granted : Nat, reserved : Nat, consumed : Nat]]
  BY <1>1, <1>3, SoundIsNat DEF NatCell
<1>5. BalanceTypeOK'
  BY <1>0, <1>1, <1>4 DEF BalanceTypeOK
<1>6. Editing'
  BY <1>0, <1>1 DEF Editing
<1> QED
  BY <1>1, <1>3, <1>5, <1>6, BesideRequests

LEMMA CommitReversalKeeps ==
  ASSUME Inv, NEW k \in Desk, CommitReversal(k)
  PROVE  Inv'
<1>0. BalanceTypeOK /\ Editing
  BY DEF Inv
<1> DEFINE o == desk[k].of
           bal == [balance EXCEPT ![<<o.type, o.year>>].granted = @ - Signed(o.kind, o.quantity)]
           m == Movement("REVERSAL", o, 1, o.type, o.year, o.quantity)
           book == [balance |-> bal, moves |-> moves \cup {m}]
<1>1. /\ UNCHANGED <<enabled, request, applied, holidays, calendarEdits>>
      /\ desk[k].step = "reverse"
      /\ Keep(book)
      /\ desk' = [desk EXCEPT ![k] = AtRest]
  BY DEF CommitReversal
<1>2. book.balance = bal /\ book.moves = moves \cup {m}
  OBVIOUS
<1>3. o \in ManualMove
  BY <1>0, <1>1, DeskTyped DEF Reversing
<1>4. o.type \in Type /\ o.year \in Year /\ o.quantity \in Nat
  BY <1>3 DEF ManualMove
<1>5. m \in ReversalMove /\ m.kind \notin DayKind
  BY <1>3, <1>4 DEF Movement, ReversalMove, DayKind
<1>6. balance \in Balances
  BY <1>0, BookTyped
<1>7. /\ bal \in Balances
      /\ \A u \in Type, z \in Year :
           /\ bal[<<u, z>>].reserved = balance[<<u, z>>].reserved
           /\ bal[<<u, z>>].consumed = balance[<<u, z>>].consumed
  <2> DEFINE g == balance[<<o.type, o.year>>].granted - Signed(o.kind, o.quantity)
  <2>1. g \in Int
    BY <1>4, <1>6 DEF Balances, IntCell, Signed
  <2>2. bal = Granted(o.type, o.year, g)
    BY DEF Granted
  <2> HIDE DEF g, bal, o
  <2> QED
    BY <1>4, <1>6, <2>1, <2>2, Granting DEF DaysKept
<1> HIDE DEF book, bal, m, o
<1>8. balance' = bal /\ moves' = moves \cup {m}
  BY <1>1, <1>2 DEF Keep
<1>9. balance' \in [Type \X Year -> [granted : Nat, reserved : Nat, consumed : Nat]]
  BY <1>1, <1>2, <1>7, KeptTyped
<1>10. Editing' /\ desk' \in [Desk -> {AtRest} \cup Form \cup Reversing]
  BY <1>0, <1>1, RestingDesk
<1>11. BalanceTypeOK'
  BY <1>0, <1>1, <1>5, <1>8, <1>9, <1>10 DEF BalanceTypeOK
<1> QED
  BY <1>1, <1>5, <1>7, <1>8, <1>10, <1>11, BesideRequests

LEMMA EnableLedgerKeeps ==
  ASSUME Inv, EnableLedger
  PROVE  Inv'
<1>1. /\ UNCHANGED <<request, applied, holidays, calendarEdits, desk>> /\ enabled' = TRUE
      /\ balance' = balance /\ moves' = moves
  BY DEF EnableLedger, books
<1>2. BalanceTypeOK' /\ Editing'
  BY <1>1 DEF Inv, BalanceTypeOK, Editing
<1> QED
  BY <1>1, <1>2, BesideRequests

LEMMA EditCalendarKeeps ==
  ASSUME Inv, NEW d \in Date, EditCalendar(d)
  PROVE  Inv'
<1>0. BalanceTypeOK /\ Editing
  BY DEF Inv
<1>1. /\ UNCHANGED <<enabled, request, applied, desk>>
      /\ balance' = balance /\ moves' = moves
  BY DEF EditCalendar, books
<1>2. holidays' \subseteq Date /\ calendarEdits' \in 0..MaxHolidays
  BY <1>0, BalanceAssumption DEF BalanceTypeOK, EditCalendar
<1>3. BalanceTypeOK' /\ Editing'
  BY <1>0, <1>1, <1>2 DEF BalanceTypeOK, Editing
<1> QED
  BY <1>1, <1>3, BesideRequests

-----------------------------------------------------------------------------
(* The theorems *)

LEMMA InitHolds ==
  ASSUME BalanceInit
  PROVE  Inv
<1>1. NoDays \in [Year -> 0..Cardinality(Date)]
  BY BalanceAssumption, FS_CardinalityType DEF NoDays
<1>2. BalanceTypeOK
  <2>1. (CHOOSE t \in Type : TRUE) \in Type /\ AnyDate \in Date
    BY BalanceAssumption DEF AnyDate
  <2> QED
    BY <1>1, <2>1, BalanceAssumption DEF BalanceInit, BalanceTypeOK, RequestRow
<1>3. Numbered /\ Counting
  BY DEF BalanceInit, Numbered, Counting
<1>4. Editing
  BY DEF BalanceInit, Editing, AtRest
<1>5. DaysAreHeld
  <2>1. Entered = {}
    BY DEF BalanceInit, Entered
  <2>2. ASSUME NEW status, NEW t, NEW y
        PROVE  DaysOf(status, t, y) = 0
    <3>1. {r \in Entered : request[r].status \in status /\ request[r].type = t} = {}
      BY <2>1
    <3> QED
      BY <3>1, TotalOfNone DEF DaysOf
  <2>3. \A t \in Deducting, y \in Year :
          balance[<<t, y>>].reserved = 0 /\ balance[<<t, y>>].consumed = 0
    BY BalanceAssumption DEF BalanceInit
  <2> QED
    BY <2>2, <2>3 DEF DaysAreHeld
<1>6. AbsencesAreDisjoint
  BY DEF BalanceInit, AbsencesAreDisjoint, Active, Open
<1> QED
  BY <1>2, <1>3, <1>4, <1>5, <1>6 DEF Inv

LEMMA StepKeeps ==
  ASSUME Inv, [BalanceNext]_balanceVars
  PROVE  Inv'
<1>1. CASE UNCHANGED balanceVars
  <2>1. /\ request' = request /\ enabled' = enabled /\ moves' = moves /\ balance' = balance
        /\ desk' = desk /\ applied' = applied /\ holidays' = holidays
        /\ calendarEdits' = calendarEdits
    BY <1>1 DEF balanceVars
  <2>2. BalanceTypeOK' /\ Editing'
    BY <2>1 DEF Inv, BalanceTypeOK, Editing
  <2> QED
    BY <2>1, <2>2, BesideRequests
<1>2. ASSUME NEW k \in Desk,
             \/ Prepare(k) \/ Create(k) \/ CommitEdit(k) \/ Abandon(k) \/ CommitReversal(k)
             \/ \E r \in Request : BeginEdit(k, r)
             \/ \E m \in Manual : BeginReversal(k, m)
      PROVE  Inv'
  BY <1>2, PrepareKeeps, CreateKeeps, CommitEditKeeps, AbandonKeeps, CommitReversalKeeps,
     BeginEditKeeps, BeginReversalKeeps
<1>3. ASSUME NEW r \in Request,
             \/ RejectOrCancel(r) \/ NeedsInfo(r) \/ Resubmit(r)
             \/ \E override \in BOOLEAN : Approve(r, override)
      PROVE  Inv'
  BY <1>3, RejectOrCancelKeeps, NeedsInfoKeeps, ResubmitKeeps, ApproveKeeps
<1>4. ASSUME NEW t \in Type, NEW y \in Year,
             \/ \E c \in Command, kind \in {"CREDIT", "DEBIT"} : Adjust(c, t, y, kind)
             \/ \E total \in 0..Start : Assign(t, y, total)
      PROVE  Inv'
  BY <1>4, AdjustKeeps, AssignKeeps
<1>5. CASE EnableLedger
  BY <1>5, EnableLedgerKeeps
<1>6. CASE \E d \in Date : EditCalendar(d)
  BY <1>6, EditCalendarKeeps
<1> QED
  BY <1>1, <1>2, <1>3, <1>4, <1>5, <1>6 DEF BalanceNext

\* The invariant holds of every behaviour of createRequest, its corrections,
\* reviews, manual movements and the switch of the ledger.
THEOREM Invariance == BalanceSpec => []Inv
<1>1. BalanceInit => Inv
  BY InitHolds
<1>2. Inv /\ [BalanceNext]_balanceVars => Inv'
  BY StepKeeps
<1> QED
  BY <1>1, <1>2, PTL DEF BalanceSpec

\* Every row, movement and form has its type; no column of a balance goes
\* below zero.
THEOREM TypeCorrect == BalanceSpec => []BalanceTypeOK
<1>1. Inv => BalanceTypeOK
  BY DEF Inv
<1> QED
  BY <1>1, Invariance, PTL

\* applyMovement, onRequestUpdated and the reviews: the reserved days of a type
\* and year are those of the open requests that entered the ledger, the
\* consumed ones those of the approved.
THEOREM BalancesAreRequests == BalanceSpec => []DaysAreHeld
<1>1. Inv => DaysAreHeld
  BY DEF Inv
<1> QED
  BY <1>1, Invariance, PTL

\* hasOverlappingRequest under the employee's lock: no two absences under way
\* share a day.
THEOREM AbsencesNeverMeet == BalanceSpec => []AbsencesAreDisjoint
<1>1. Inv => AbsencesAreDisjoint
  BY DEF Inv
<1> QED
  BY <1>1, Invariance, PTL

=============================================================================
