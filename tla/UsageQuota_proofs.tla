-------------------------- MODULE UsageQuota_proofs --------------------------
(***************************************************************************)
(* Theorems about UsageQuota, for every set of MessageSids, employees,     *)
(* settings and lanes and every bound.  The counters are inductive only    *)
(* with what Books adds: a row that was never opened is empty, and a unit  *)
(* in the ledger is in the counter it is taken from.                       *)
(***************************************************************************)
EXTENDS UsageQuota, FiniteSetTheorems, TLAPS

\* A row that no transaction has opened counts nothing.
ClosedIsEmpty ==
    \A p \in Periods :
        ~period[p].open =>
            period[p].turns = 0 /\ period[p].reserved = 0 /\ period[p].consumed = 0

\* A lane that walks over documents stands at one.
PhaseUnits == \A w \in Worker : lane[w].phase \in {"pre", "send"} => lane[w].unit \in Doc

LanesTyped == lane \in [Worker -> Lane] /\ PhaseUnits

RowsTyped ==
    /\ period \in [Periods -> PeriodRow]
    /\ admission \in [Sid -> Admission]
    /\ ledger \in [Key -> Reservation]

RestTyped ==
    /\ today \in Day
    /\ policy \in Policy
    /\ recent \in SUBSET Sid
    /\ notice \in [Episode -> {"NONE", "RESERVED", "SENT", "SUPPRESSED"}]
    /\ taken \in [Sid -> 0 .. MaxTakes]
    /\ attempted \in SUBSET Key
    /\ sent \in SUBSET Key
    /\ told \in [Episode -> Nat]

Books == RowsTyped /\ ClosedIsEmpty /\ CountersMatchLedger /\ WithinLimits

IInv == TypeOK /\ PhaseUnits /\ Books

-----------------------------------------------------------------------------
(* Periods and keys *)

LEMMA PeriodsOfDay ==
  ASSUME NEW s \in Sid, NEW d \in Day
  PROVE  OutboundPeriods(s, d) \subseteq Periods /\ TurnPeriods(s, d) \subseteq Periods
<1>1. OutboundPeriods(s, d) \in {OutboundPeriods(r, e) : r \in Sid, e \in Day}
  OBVIOUS
<1>2. OutboundPeriods(s, d) \subseteq Periods
  BY <1>1 DEF Periods
<1>3. TurnPeriods(s, d) \subseteq OutboundPeriods(s, d)
  BY DEF OutboundPeriods
<1> QED
  BY <1>2, <1>3

LEMMA PeriodKind == \A p \in Periods : p.kind \in Kind
BY DEF Periods, OutboundPeriods, TurnPeriods, Kind

LEMMA TurnPeriodKind ==
  ASSUME NEW s, NEW d, NEW p \in TurnPeriods(s, d)
  PROVE  p.kind = "DAY" \/ p.kind = "WEEK"
BY DEF TurnPeriods

LEMMA KeysFinite == IsFiniteSet(Key)
<1>1. IsFiniteSet(0 .. NDocs + 1)
  BY FS_Interval, QuotaAssumption
<1> QED
  BY <1>1, FS_Product, QuotaAssumption DEF Key

\* What the ledger owes is a number.
LEMMA OwedFinite ==
  ASSUME NEW p
  PROVE  /\ IsFiniteSet(HeldIn(p)) /\ Cardinality(HeldIn(p)) \in Nat
         /\ IsFiniteSet(SpentIn(p)) /\ Cardinality(SpentIn(p)) \in Nat
         /\ IsFiniteSet(AdmittedIn(p)) /\ Cardinality(AdmittedIn(p)) \in Nat
<1>1. HeldIn(p) \in SUBSET Key /\ SpentIn(p) \in SUBSET Key /\ AdmittedIn(p) \in SUBSET Sid
  BY DEF HeldIn, SpentIn, AdmittedIn
<1>2. IsFiniteSet(HeldIn(p)) /\ IsFiniteSet(SpentIn(p))
  BY <1>1, KeysFinite, FS_Subset
<1>3. IsFiniteSet(AdmittedIn(p))
  BY <1>1, QuotaAssumption, FS_Subset
<1> QED
  BY <1>2, <1>3, FS_CardinalityType

\* Ensured gives a row of the table, opened, with the counters it had.
LEMMA EnsuredRow ==
  ASSUME period \in [Periods -> PeriodRow], ClosedIsEmpty,
         NEW p \in Periods, NEW pol \in Setting
  PROVE  /\ Ensured(p, pol) \in PeriodRow
         /\ Ensured(p, pol).open
         /\ Ensured(p, pol).turns = period[p].turns
         /\ Ensured(p, pol).reserved = period[p].reserved
         /\ Ensured(p, pol).consumed = period[p].consumed
         /\ Ensured(p, pol).turns <= Ensured(p, pol).turnLimit \/ period[p].open
         /\ Ensured(p, pol).reserved + Ensured(p, pol).consumed <= Ensured(p, pol).limit
              \/ period[p].open
         /\ period[p].open => Ensured(p, pol) = period[p]
<1>1. period[p] \in PeriodRow
  OBVIOUS
<1>2. CASE period[p].open
  BY <1>1, <1>2 DEF Ensured, PeriodRow
<1>3. CASE ~period[p].open
  <2>1. pol.turns[p.kind] \in Nat /\ pol.outbounds[p.kind] \in Nat
    BY PeriodKind DEF Setting
  <2>2. period[p].turns = 0 /\ period[p].reserved = 0 /\ period[p].consumed = 0
    BY <1>3 DEF ClosedIsEmpty
  <2>3. Ensured(p, pol) = [open |-> TRUE, turnLimit |-> pol.turns[p.kind], turns |-> 0,
                           limit |-> pol.outbounds[p.kind], reserved |-> 0, consumed |-> 0]
    BY <1>3 DEF Ensured
  <2> QED
    BY <1>3, <2>1, <2>2, <2>3 DEF PeriodRow
<1> QED
  BY <1>2, <1>3

-----------------------------------------------------------------------------
(* One row of the ledger changes: what becomes of the sums *)

\* A row that keeps its class and its day changes no sum.
LEMMA SameClass ==
  ASSUME NEW k \in Key, NEW p,
         \A j \in Key \ {k} : ledger'[j] = ledger[j],
         ledger'[k].day = ledger[k].day,
         ledger'[k].status \in Held <=> ledger[k].status \in Held,
         ledger'[k].status \in Spent <=> ledger[k].status \in Spent
  PROVE  HeldIn(p)' = HeldIn(p) /\ SpentIn(p)' = SpentIn(p)
<1>1. \A j \in Key : Charged(j)' = Charged(j)
  BY DEF Charged
<1> QED
  BY <1>1 DEF HeldIn, SpentIn

\* A new unit is held in the periods of its day.
LEMMA TakenClass ==
  ASSUME NEW k \in Key, NEW p, NEW d,
         \A j \in Key \ {k} : ledger'[j] = ledger[j],
         ledger[k].status = "NONE",
         ledger'[k].status = "RESERVED", ledger'[k].day = d
  PROVE  /\ SpentIn(p)' = SpentIn(p)
         /\ p \in OutboundPeriods(k[1], d) =>
               Cardinality(HeldIn(p))' = Cardinality(HeldIn(p)) + 1
         /\ p \notin OutboundPeriods(k[1], d) => HeldIn(p)' = HeldIn(p)
<1>1. \A j \in Key \ {k} : Charged(j)' = Charged(j)
  BY DEF Charged
<1>2. Charged(k)' = OutboundPeriods(k[1], d)
  BY DEF Charged
<1>3. k \notin HeldIn(p)
  BY DEF HeldIn, Held
<1>4. SpentIn(p)' = SpentIn(p)
  BY <1>1 DEF SpentIn, Spent
<1>5. p \in OutboundPeriods(k[1], d) => HeldIn(p)' = HeldIn(p) \cup {k}
  BY <1>1, <1>2 DEF HeldIn, Held
<1>6. p \notin OutboundPeriods(k[1], d) => HeldIn(p)' = HeldIn(p)
  BY <1>1, <1>2, <1>3 DEF HeldIn
<1> QED
  BY <1>3, <1>4, <1>5, <1>6, OwedFinite, FS_AddElement

\* A unit that leaves Held without being spent.
LEMMA FreedClass ==
  ASSUME NEW k \in Key, NEW p,
         \A j \in Key \ {k} : ledger'[j] = ledger[j],
         ledger'[k].day = ledger[k].day,
         ledger[k].status \in Held, ledger'[k].status = "RELEASED"
  PROVE  /\ SpentIn(p)' = SpentIn(p)
         /\ p \in Charged(k) =>
               /\ Cardinality(HeldIn(p)) > 0
               /\ Cardinality(HeldIn(p))' = Cardinality(HeldIn(p)) - 1
         /\ p \notin Charged(k) => HeldIn(p)' = HeldIn(p)
<1>1. \A j \in Key : Charged(j)' = Charged(j)
  BY DEF Charged
<1>2. SpentIn(p)' = SpentIn(p)
  BY <1>1 DEF SpentIn, Spent, Held
<1>3. p \in Charged(k) => k \in HeldIn(p) /\ HeldIn(p)' = HeldIn(p) \ {k}
  BY <1>1 DEF HeldIn, Held
<1>4. p \notin Charged(k) => HeldIn(p)' = HeldIn(p)
  BY <1>1 DEF HeldIn
<1>5. p \in Charged(k) =>
         /\ Cardinality(HeldIn(p))' = Cardinality(HeldIn(p)) - 1
         /\ Cardinality(HeldIn(p))' \in Nat
  BY <1>3, OwedFinite, FS_RemoveElement, FS_CardinalityType
<1> QED
  BY <1>2, <1>4, <1>5, OwedFinite

\* A held unit that is spent.
LEMMA SpentClass ==
  ASSUME NEW k \in Key, NEW p,
         \A j \in Key \ {k} : ledger'[j] = ledger[j],
         ledger'[k].day = ledger[k].day,
         ledger[k].status \in Held, ledger'[k].status \in Spent
  PROVE  /\ p \in Charged(k) =>
               /\ Cardinality(HeldIn(p)) > 0
               /\ Cardinality(HeldIn(p))' = Cardinality(HeldIn(p)) - 1
               /\ Cardinality(SpentIn(p))' = Cardinality(SpentIn(p)) + 1
         /\ p \notin Charged(k) => HeldIn(p)' = HeldIn(p) /\ SpentIn(p)' = SpentIn(p)
<1>1. \A j \in Key : Charged(j)' = Charged(j)
  BY DEF Charged
<1>2. p \in Charged(k) => k \notin SpentIn(p) /\ SpentIn(p)' = SpentIn(p) \cup {k}
  BY <1>1 DEF SpentIn, Spent, Held
<1>3. p \in Charged(k) => k \in HeldIn(p) /\ HeldIn(p)' = HeldIn(p) \ {k}
  BY <1>1 DEF HeldIn, Held, Spent
<1>4. p \notin Charged(k) => HeldIn(p)' = HeldIn(p) /\ SpentIn(p)' = SpentIn(p)
  BY <1>1 DEF HeldIn, SpentIn
<1>5. p \in Charged(k) =>
         /\ Cardinality(HeldIn(p))' = Cardinality(HeldIn(p)) - 1
         /\ Cardinality(HeldIn(p))' \in Nat
  BY <1>3, OwedFinite, FS_RemoveElement, FS_CardinalityType
<1>6. p \in Charged(k) => Cardinality(SpentIn(p))' = Cardinality(SpentIn(p)) + 1
  BY <1>2, OwedFinite, FS_AddElement
<1> QED
  BY <1>4, <1>5, <1>6, OwedFinite

-----------------------------------------------------------------------------
(* The actions that touch counters or rows: each keeps the books *)

\* A status moves and the rest of the ledger stays.
LEMMA StatusEffect ==
  ASSUME ledger \in [Key -> Reservation], NEW k \in Key,
         NEW status \in Held \cup Spent \cup {"NONE", "RELEASED", "SHADOW"},
         ledger' = [ledger EXCEPT ![k].status = status]
  PROVE  /\ ledger' \in [Key -> Reservation]
         /\ ledger'[k].status = status
         /\ ledger'[k].day = ledger[k].day
         /\ \A j \in Key \ {k} : ledger'[j] = ledger[j]
BY DEF Reservation

\* Rows and admissions that stay keep their part of the books.
LEMMA SameLedgerBooks ==
  ASSUME Books, RowsTyped', UNCHANGED period,
         \A p \in Periods : HeldIn(p)' = HeldIn(p) /\ SpentIn(p)' = SpentIn(p),
         \A p \in Periods : AdmittedIn(p)' = AdmittedIn(p)
  PROVE  Books'
<1>1. CountersMatchLedger'
  <2> SUFFICES ASSUME NEW p \in Periods
               PROVE  /\ period'[p].reserved = Cardinality(HeldIn(p))'
                      /\ period'[p].consumed = Cardinality(SpentIn(p))'
                      /\ period'[p].turns = Cardinality(AdmittedIn(p))'
    BY DEF CountersMatchLedger
  <2>1. /\ Cardinality(HeldIn(p))' = Cardinality(HeldIn(p))
        /\ Cardinality(SpentIn(p))' = Cardinality(SpentIn(p))
        /\ Cardinality(AdmittedIn(p))' = Cardinality(AdmittedIn(p))
    OBVIOUS
  <2> QED
    BY <2>1 DEF Books, CountersMatchLedger
<1>2. ClosedIsEmpty' /\ WithinLimits'
  BY DEF Books, ClosedIsEmpty, WithinLimits
<1> QED
  BY <1>1, <1>2 DEF Books

LEMMA SameAdmissions ==
  ASSUME UNCHANGED admission
  PROVE  \A p \in Periods : AdmittedIn(p)' = AdmittedIn(p)
BY DEF AdmittedIn

LEMMA QuietBooks == Books /\ UNCHANGED <<period, ledger, admission>> => Books'
<1> SUFFICES ASSUME Books, UNCHANGED <<period, ledger, admission>> PROVE Books'
  OBVIOUS
<1>1. \A p \in Periods : HeldIn(p)' = HeldIn(p) /\ SpentIn(p)' = SpentIn(p)
  BY DEF HeldIn, SpentIn, Charged
<1>2. RowsTyped'
  BY DEF Books, RowsTyped
<1> QED
  BY <1>1, <1>2, SameAdmissions, SameLedgerBooks

\* A status that moves inside its class moves no counter.
LEMMA MarkBooks ==
  ASSUME Books, NEW k \in Key, UNCHANGED <<period, admission>>,
         NEW status \in Held \cup Spent \cup {"NONE", "RELEASED", "SHADOW"},
         ledger' = [ledger EXCEPT ![k].status = status],
         status \in Held <=> ledger[k].status \in Held,
         status \in Spent <=> ledger[k].status \in Spent
  PROVE  Books'
<1>1. ledger \in [Key -> Reservation]
  BY DEF Books, RowsTyped
<1>2. /\ ledger' \in [Key -> Reservation]
      /\ ledger'[k].status = status
      /\ ledger'[k].day = ledger[k].day
      /\ \A j \in Key \ {k} : ledger'[j] = ledger[j]
  BY <1>1, StatusEffect
<1>3. \A p \in Periods : HeldIn(p)' = HeldIn(p) /\ SpentIn(p)' = SpentIn(p)
  BY <1>2, SameClass
<1>4. RowsTyped'
  BY <1>2 DEF Books, RowsTyped
<1> QED
  BY <1>3, <1>4, SameAdmissions, SameLedgerBooks

\* A decision that does not admit adds no turn, and one on record stays.
LEMMA DecideBooks ==
  ASSUME Books, NEW s \in Sid, NEW decision \in Decision \ {"ADMITTED"}, NEW mode \in Mode,
         NEW reason \in Reason \cup {"NONE"}, NEW day \in Day,
         Decide(s, decision, mode, reason, day), UNCHANGED <<period, ledger>>
  PROVE  Books'
<1>1. admission \in [Sid -> Admission]
  BY DEF Books, RowsTyped
<1>2. [decision |-> decision, mode |-> mode, reason |-> reason, day |-> day] \in Admission
  BY DEF Admission
<1>3. admission' \in [Sid -> Admission]
  BY <1>1, <1>2 DEF Decide
<1>4. \A q \in Sid : admission'[q] = admission[q]
        \/ (admission[q].decision = "NONE" /\ admission'[q].decision = decision)
  <2>1. \A q \in Sid \ {s} : admission'[q] = admission[q]
    BY <1>1 DEF Decide
  <2>2. admission'[s] = IF admission[s].decision = "NONE"
                        THEN [decision |-> decision, mode |-> mode,
                              reason |-> reason, day |-> day]
                        ELSE admission[s]
    BY <1>1 DEF Decide
  <2>3. admission'[s] = admission[s]
          \/ (admission[s].decision = "NONE" /\ admission'[s].decision = decision)
    BY <2>2
  <2> QED
    BY <2>1, <2>3
<1>5. \A p \in Periods : AdmittedIn(p)' = AdmittedIn(p)
  BY <1>4 DEF AdmittedIn, Decision
<1>6. \A p \in Periods : HeldIn(p)' = HeldIn(p) /\ SpentIn(p)' = SpentIn(p)
  BY DEF HeldIn, SpentIn, Charged
<1>7. RowsTyped'
  BY <1>3 DEF Books, RowsTyped
<1> QED
  BY <1>5, <1>6, <1>7, SameLedgerBooks

\* A turn is counted in the periods it is admitted to, where it fits.
LEMMA AdmitBooks ==
  ASSUME TypeOK, Books, NEW w \in Worker, AdmitTurn(w)
  PROVE  Books'
<1> DEFINE s == lane[w].sid
           d == lane[w].day
           charge == TurnPeriods(s, d)
           pol == lane[w].policy
           new == [decision |-> "ADMITTED", mode |-> "ENFORCE", reason |-> "NONE", day |-> d]
<1>1. s \in Sid /\ d \in Day /\ pol \in Setting
  BY QuotaAssumption DEF TypeOK, Lane
<1>2. \A p \in Periods : /\ Ensured(p, pol) \in PeriodRow
                         /\ Ensured(p, pol).open
                         /\ Ensured(p, pol).turns = period[p].turns
                         /\ Ensured(p, pol).reserved = period[p].reserved
                         /\ Ensured(p, pol).consumed = period[p].consumed
                         /\ Ensured(p, pol).reserved + Ensured(p, pol).consumed
                               <= Ensured(p, pol).limit
  <2> TAKE p \in Periods
  <2>1. period \in [Periods -> PeriodRow] /\ ClosedIsEmpty
    BY DEF Books, RowsTyped
  <2>2. period[p].open => period[p].reserved + period[p].consumed <= period[p].limit
    BY DEF Books, WithinLimits
  <2> QED
    BY <1>1, <2>1, <2>2, EnsuredRow
<1>3. admission[s].decision = "NONE" /\ admission' = [admission EXCEPT ![s] = new]
  <2>1. admission[s].decision = "NONE" /\ Decide(s, "ADMITTED", "ENFORCE", "NONE", d)
    BY DEF AdmitTurn
  <2> QED
    BY <2>1, <1>1 DEF Decide, TypeOK
<1>4. new \in Admission
  BY <1>1 DEF Admission, Decision, Mode
<1>5. \A p \in Periods :
        /\ p \in charge => period'[p] = [Ensured(p, pol) EXCEPT !.turns = @ + 1]
        /\ p \notin charge => period'[p] = period[p]
  BY DEF AdmitTurn
<1>6. RowsTyped'
  <2>1. admission' \in [Sid -> Admission]
    BY <1>1, <1>3, <1>4 DEF TypeOK
  <2>2. period' = [p \in Periods |-> IF p \in charge
                                      THEN [Ensured(p, pol) EXCEPT !.turns = @ + 1]
                                      ELSE period[p]]
    BY DEF AdmitTurn
  <2>3. \A p \in Periods : [Ensured(p, pol) EXCEPT !.turns = @ + 1] \in PeriodRow
    BY <1>2 DEF PeriodRow
  <2>4. period' \in [Periods -> PeriodRow]
    BY <2>2, <2>3 DEF TypeOK
  <2>5. ledger' \in [Key -> Reservation]
    BY DEF AdmitTurn, TypeOK
  <2> QED
    BY <2>1, <2>4, <2>5 DEF RowsTyped
<1>7. \A p \in Periods : p \in charge =>
        /\ period'[p].open
        /\ period'[p].turns = period[p].turns + 1
        /\ period'[p].reserved = period[p].reserved
        /\ period'[p].consumed = period[p].consumed
        /\ period'[p].turns <= period'[p].turnLimit
        /\ period'[p].reserved + period'[p].consumed <= period'[p].limit
  <2> TAKE p \in Periods
  <2> HAVE p \in charge
  <2>1. period'[p] = [Ensured(p, pol) EXCEPT !.turns = @ + 1]
    BY <1>5
  <2>2. Ensured(p, pol).turns + 1 <= Ensured(p, pol).turnLimit
    <3>1. DayFits(w) /\ WeekFits(w)
      BY DEF AdmitTurn, TurnAllowed
    <3>2. p.kind = "DAY" \/ p.kind = "WEEK"
      BY TurnPeriodKind
    <3> QED
      BY <3>1, <3>2 DEF DayFits, WeekFits, TurnFits
  <2> QED
    BY <1>2, <2>1, <2>2 DEF PeriodRow
<1>8. CountersMatchLedger'
  <2> SUFFICES ASSUME NEW p \in Periods
               PROVE  /\ period'[p].reserved = Cardinality(HeldIn(p))'
                      /\ period'[p].consumed = Cardinality(SpentIn(p))'
                      /\ period'[p].turns = Cardinality(AdmittedIn(p))'
    BY DEF CountersMatchLedger
  <2>1. HeldIn(p)' = HeldIn(p) /\ SpentIn(p)' = SpentIn(p)
    BY DEF HeldIn, SpentIn, Charged, AdmitTurn
  <2>2. /\ period[p].reserved = Cardinality(HeldIn(p))
        /\ period[p].consumed = Cardinality(SpentIn(p))
        /\ period[p].turns = Cardinality(AdmittedIn(p))
    BY DEF Books, CountersMatchLedger
  <2>3. /\ admission'[s].decision = "ADMITTED"
        /\ admission'[s].day = d
        /\ \A q \in Sid \ {s} : admission'[q] = admission[q]
    BY <1>1, <1>3 DEF TypeOK
  <2>4. CASE p \in charge
    <3>1. AdmittedIn(p)' = AdmittedIn(p) \cup {s} /\ s \notin AdmittedIn(p)
      BY <1>1, <1>3, <2>3, <2>4 DEF AdmittedIn
    <3>2. Cardinality(AdmittedIn(p))' = Cardinality(AdmittedIn(p)) + 1
      BY <3>1, OwedFinite, FS_AddElement
    <3> QED
      BY <1>7, <2>1, <2>2, <2>4, <3>2
  <2>5. CASE p \notin charge
    <3>1. AdmittedIn(p)' = AdmittedIn(p)
      BY <1>1, <1>3, <2>3, <2>5 DEF AdmittedIn
    <3> QED
      BY <1>5, <2>1, <2>2, <2>5, <3>1
  <2> QED
    BY <2>4, <2>5
<1>9. ClosedIsEmpty' /\ WithinLimits'
  BY <1>5, <1>7 DEF Books, ClosedIsEmpty, WithinLimits
<1> QED
  BY <1>6, <1>8, <1>9 DEF Books

\* A unit is taken in the periods of its day, where it fits.
LEMMA TakeBooks ==
  ASSUME TypeOK, Books, NEW w \in Worker, TakeUnit(w)
  PROVE  Books'
<1> DEFINE d == lane[w].day
           pol == lane[w].policy
           charge == OutboundPeriods(lane[w].sid, d)
<1>1. lane[w].sid \in Sid /\ d \in Day /\ pol \in Setting
  BY QuotaAssumption DEF TypeOK, Lane
<1>2. PICK k \in Key : k = KeyOf(w)
  BY <1>1 DEF KeyOf, Key, TypeOK, Lane
<1>3. k[1] = lane[w].sid
  BY <1>2 DEF KeyOf
<1>4. /\ ledger[k].status = "NONE"
      /\ ledger' = [ledger EXCEPT ![k] = [status |-> "RESERVED", day |-> d]]
  BY <1>2 DEF TakeUnit
<1>5. [status |-> "RESERVED", day |-> d] \in Reservation
  BY <1>1 DEF Reservation, Held
<1>6. /\ ledger' \in [Key -> Reservation]
      /\ ledger'[k].status = "RESERVED"
      /\ ledger'[k].day = d
      /\ \A j \in Key \ {k} : ledger'[j] = ledger[j]
  BY <1>4, <1>5 DEF TypeOK
<1>7. \A p \in Periods : /\ Ensured(p, pol) \in PeriodRow
                         /\ Ensured(p, pol).open
                         /\ Ensured(p, pol).turns = period[p].turns
                         /\ Ensured(p, pol).reserved = period[p].reserved
                         /\ Ensured(p, pol).consumed = period[p].consumed
                         /\ Ensured(p, pol).turns <= Ensured(p, pol).turnLimit
  <2> TAKE p \in Periods
  <2>1. period \in [Periods -> PeriodRow] /\ ClosedIsEmpty
    BY DEF Books, RowsTyped
  <2>2. period[p].open => period[p].turns <= period[p].turnLimit
    BY DEF Books, WithinLimits
  <2> QED
    BY <1>1, <2>1, <2>2, EnsuredRow
<1>8. \A p \in Periods :
        /\ p \in charge => period'[p] = [Ensured(p, pol) EXCEPT !.reserved = @ + 1]
        /\ p \notin charge => period'[p] = period[p]
  BY DEF TakeUnit
<1>9. RowsTyped'
  <2>1. admission' \in [Sid -> Admission]
    BY DEF TakeUnit, TypeOK
  <2>2. period' = [p \in Periods |-> IF p \in charge
                                      THEN [Ensured(p, pol) EXCEPT !.reserved = @ + 1]
                                      ELSE period[p]]
    BY DEF TakeUnit
  <2>3. \A p \in Periods : [Ensured(p, pol) EXCEPT !.reserved = @ + 1] \in PeriodRow
    BY <1>7 DEF PeriodRow
  <2>4. period' \in [Periods -> PeriodRow]
    BY <2>2, <2>3 DEF TypeOK
  <2> QED
    BY <2>1, <2>4, <1>6 DEF RowsTyped
<1>10. \A p \in Periods : p \in charge =>
        /\ period'[p].open
        /\ period'[p].turns = period[p].turns
        /\ period'[p].reserved = period[p].reserved + 1
        /\ period'[p].consumed = period[p].consumed
        /\ period'[p].turns <= period'[p].turnLimit
        /\ period'[p].reserved + period'[p].consumed <= period'[p].limit
  <2> TAKE p \in Periods
  <2> HAVE p \in charge
  <2>1. period'[p] = [Ensured(p, pol) EXCEPT !.reserved = @ + 1]
    BY <1>8
  <2>2. Ensured(p, pol).consumed + Ensured(p, pol).reserved + 1 <= Ensured(p, pol).limit
    BY DEF TakeUnit, OutboundFits
  <2> QED
    BY <1>7, <2>1, <2>2 DEF PeriodRow
<1>11. CountersMatchLedger'
  <2> SUFFICES ASSUME NEW p \in Periods
               PROVE  /\ period'[p].reserved = Cardinality(HeldIn(p))'
                      /\ period'[p].consumed = Cardinality(SpentIn(p))'
                      /\ period'[p].turns = Cardinality(AdmittedIn(p))'
    BY DEF CountersMatchLedger
  <2>1. AdmittedIn(p)' = AdmittedIn(p)
    BY SameAdmissions DEF TakeUnit
  <2>2. /\ period[p].reserved = Cardinality(HeldIn(p))
        /\ period[p].consumed = Cardinality(SpentIn(p))
        /\ period[p].turns = Cardinality(AdmittedIn(p))
    BY DEF Books, CountersMatchLedger
  <2>3. PICK e \in Day : e = d
    BY <1>1
  <2>4. /\ SpentIn(p)' = SpentIn(p)
        /\ p \in OutboundPeriods(k[1], e) =>
              Cardinality(HeldIn(p))' = Cardinality(HeldIn(p)) + 1
        /\ p \notin OutboundPeriods(k[1], e) => HeldIn(p)' = HeldIn(p)
    BY <1>4, <1>6, <2>3, TakenClass
  <2>5. OutboundPeriods(k[1], e) = charge
    BY <1>3, <2>3
  <2>6. CASE p \in charge
    BY <1>10, <2>1, <2>2, <2>4, <2>5, <2>6
  <2>7. CASE p \notin charge
    BY <1>8, <2>1, <2>2, <2>4, <2>5, <2>7
  <2> QED
    BY <2>6, <2>7
<1>12. ClosedIsEmpty' /\ WithinLimits'
  BY <1>8, <1>10 DEF Books, ClosedIsEmpty, WithinLimits
<1> QED
  BY <1>9, <1>11, <1>12 DEF Books

\* Returned and Converted, field by field.
LEMMA ReturnedRow ==
  ASSUME NEW row \in PeriodRow
  PROVE  /\ Returned(row) \in PeriodRow
         /\ Returned(row).open = row.open
         /\ Returned(row).turns = row.turns
         /\ Returned(row).turnLimit = row.turnLimit
         /\ Returned(row).limit = row.limit
         /\ Returned(row).consumed = row.consumed
         /\ row.reserved > 0 => Returned(row).reserved = row.reserved - 1
BY DEF Returned, PeriodRow

LEMMA ConvertedRow ==
  ASSUME NEW row \in PeriodRow
  PROVE  /\ Converted(row) \in PeriodRow
         /\ Converted(row).open = row.open
         /\ Converted(row).turns = row.turns
         /\ Converted(row).turnLimit = row.turnLimit
         /\ Converted(row).limit = row.limit
         /\ Converted(row).consumed = row.consumed + 1
         /\ row.reserved > 0 => Converted(row).reserved = row.reserved - 1
<1>1. PICK r \in PeriodRow : r = Returned(row)
  BY ReturnedRow
<1>2. Converted(row) = [r EXCEPT !.consumed = @ + 1]
  BY <1>1 DEF Converted
<1>3. /\ Converted(row) \in PeriodRow
      /\ Converted(row).open = r.open
      /\ Converted(row).turns = r.turns
      /\ Converted(row).turnLimit = r.turnLimit
      /\ Converted(row).limit = r.limit
      /\ Converted(row).consumed = r.consumed + 1
      /\ Converted(row).reserved = r.reserved
  BY <1>2 DEF PeriodRow
<1> QED
  BY <1>1, <1>3, ReturnedRow

\* A released unit leaves the periods it was taken from.
LEMMA ReleaseBooks ==
  ASSUME Books, NEW k \in Key, ledger[k].status \in Held, ReleaseRow(k), UNCHANGED admission
  PROVE  Books'
<1>1. /\ period \in [Periods -> PeriodRow]
      /\ ledger \in [Key -> Reservation]
  BY DEF Books, RowsTyped
<1>2. /\ ledger' \in [Key -> Reservation]
      /\ ledger'[k].status = "RELEASED"
      /\ ledger'[k].day = ledger[k].day
      /\ \A j \in Key \ {k} : ledger'[j] = ledger[j]
  <2>1. ledger' = [ledger EXCEPT ![k].status = "RELEASED"]
    BY DEF ReleaseRow
  <2> QED
    BY <1>1, <2>1, StatusEffect
<1>3. \A p \in Periods : period'[p] = IF p \in Charged(k) THEN Returned(period[p])
                                                          ELSE period[p]
  BY DEF ReleaseRow
<1>4. \A p \in Periods :
        /\ Returned(period[p]) \in PeriodRow
        /\ Returned(period[p]).open = period[p].open
        /\ Returned(period[p]).turns = period[p].turns
        /\ Returned(period[p]).turnLimit = period[p].turnLimit
        /\ Returned(period[p]).limit = period[p].limit
        /\ Returned(period[p]).consumed = period[p].consumed
        /\ period[p].reserved > 0 => Returned(period[p]).reserved = period[p].reserved - 1
  BY <1>1, ReturnedRow
<1>5. RowsTyped'
  <2>1. period' \in [Periods -> PeriodRow]
    BY <1>1, <1>4 DEF ReleaseRow
  <2> QED
    BY <2>1, <1>2 DEF Books, RowsTyped
<1>6. ASSUME NEW p \in Periods
      PROVE  /\ period[p].reserved = Cardinality(HeldIn(p))
             /\ period[p].consumed = Cardinality(SpentIn(p))
             /\ period[p].turns = Cardinality(AdmittedIn(p))
             /\ p \in Charged(k) => period[p].reserved > 0
             /\ Cardinality(HeldIn(p))' = Cardinality(HeldIn(p))
                                            - (IF p \in Charged(k) THEN 1 ELSE 0)
             /\ SpentIn(p)' = SpentIn(p)
             /\ AdmittedIn(p)' = AdmittedIn(p)
  <2>1. /\ period[p].reserved = Cardinality(HeldIn(p))
        /\ period[p].consumed = Cardinality(SpentIn(p))
        /\ period[p].turns = Cardinality(AdmittedIn(p))
    BY DEF Books, CountersMatchLedger
  <2>2. /\ SpentIn(p)' = SpentIn(p)
        /\ p \in Charged(k) =>
               /\ Cardinality(HeldIn(p)) > 0
               /\ Cardinality(HeldIn(p))' = Cardinality(HeldIn(p)) - 1
        /\ p \notin Charged(k) => HeldIn(p)' = HeldIn(p)
    BY <1>2, FreedClass
  <2> QED
    BY <2>1, <2>2, SameAdmissions, OwedFinite
<1>7. CountersMatchLedger'
  <2> SUFFICES ASSUME NEW p \in Periods
               PROVE  /\ period'[p].reserved = Cardinality(HeldIn(p))'
                      /\ period'[p].consumed = Cardinality(SpentIn(p))'
                      /\ period'[p].turns = Cardinality(AdmittedIn(p))'
    BY DEF CountersMatchLedger
  <2>1. Cardinality(HeldIn(p)) \in Nat
    BY OwedFinite
  <2> QED
    BY <2>1, <1>3, <1>4, <1>6
<1>8. ClosedIsEmpty'
  <2> SUFFICES ASSUME NEW p \in Periods, ~period'[p].open
               PROVE  /\ period'[p].turns = 0
                      /\ period'[p].reserved = 0
                      /\ period'[p].consumed = 0
    BY DEF ClosedIsEmpty
  <2>1. ~period[p].open
    BY <1>3, <1>4
  <2>2. /\ period[p].turns = 0
        /\ period[p].reserved = 0
        /\ period[p].consumed = 0
    BY <2>1 DEF Books, ClosedIsEmpty
  <2> QED
    BY <1>3, <1>6, <2>2
<1>9. WithinLimits'
  <2> SUFFICES ASSUME NEW p \in Periods
               PROVE  /\ period'[p].turns <= period'[p].turnLimit
                      /\ period'[p].reserved + period'[p].consumed <= period'[p].limit
    BY DEF WithinLimits
  <2>1. /\ period[p].turns <= period[p].turnLimit
        /\ period[p].reserved + period[p].consumed <= period[p].limit
    BY DEF Books, WithinLimits
  <2>2. period[p] \in PeriodRow
    BY <1>1
  <2> QED
    BY <1>3, <1>4, <1>6, <2>1, <2>2 DEF PeriodRow
<1> QED
  BY <1>5, <1>7, <1>8, <1>9 DEF Books

\* A settled unit moves from reserved to consumed.
LEMMA SpendBooks ==
  ASSUME Books, NEW k \in Key, ledger[k].status \in Held, NEW status \in Spent,
         ledger' = [ledger EXCEPT ![k].status = status],
         period' = [p \in Periods |->
                      IF p \in Charged(k) THEN Converted(period[p]) ELSE period[p]],
         UNCHANGED admission
  PROVE  Books'
<1>1. /\ period \in [Periods -> PeriodRow]
      /\ ledger \in [Key -> Reservation]
  BY DEF Books, RowsTyped
<1>2. /\ ledger' \in [Key -> Reservation]
      /\ ledger'[k].status = status
      /\ ledger'[k].day = ledger[k].day
      /\ \A j \in Key \ {k} : ledger'[j] = ledger[j]
  BY <1>1, StatusEffect
<1>3. \A p \in Periods : period'[p] = IF p \in Charged(k) THEN Converted(period[p])
                                                          ELSE period[p]
  OBVIOUS
<1>4. \A p \in Periods :
        /\ Converted(period[p]) \in PeriodRow
        /\ Converted(period[p]).open = period[p].open
        /\ Converted(period[p]).turns = period[p].turns
        /\ Converted(period[p]).turnLimit = period[p].turnLimit
        /\ Converted(period[p]).limit = period[p].limit
        /\ Converted(period[p]).consumed = period[p].consumed + 1
        /\ period[p].reserved > 0 => Converted(period[p]).reserved = period[p].reserved - 1
  BY <1>1, ConvertedRow
<1>5. RowsTyped'
  <2>1. period' \in [Periods -> PeriodRow]
    BY <1>1, <1>4
  <2> QED
    BY <2>1, <1>2 DEF Books, RowsTyped
<1>6. ASSUME NEW p \in Periods
      PROVE  /\ period[p].reserved = Cardinality(HeldIn(p))
             /\ period[p].consumed = Cardinality(SpentIn(p))
             /\ period[p].turns = Cardinality(AdmittedIn(p))
             /\ p \in Charged(k) => period[p].reserved > 0
             /\ Cardinality(HeldIn(p))' = Cardinality(HeldIn(p))
                                            - (IF p \in Charged(k) THEN 1 ELSE 0)
             /\ Cardinality(SpentIn(p))' = Cardinality(SpentIn(p))
                                            + (IF p \in Charged(k) THEN 1 ELSE 0)
             /\ AdmittedIn(p)' = AdmittedIn(p)
  <2>1. /\ period[p].reserved = Cardinality(HeldIn(p))
        /\ period[p].consumed = Cardinality(SpentIn(p))
        /\ period[p].turns = Cardinality(AdmittedIn(p))
    BY DEF Books, CountersMatchLedger
  <2>2. /\ p \in Charged(k) =>
               /\ Cardinality(HeldIn(p)) > 0
               /\ Cardinality(HeldIn(p))' = Cardinality(HeldIn(p)) - 1
               /\ Cardinality(SpentIn(p))' = Cardinality(SpentIn(p)) + 1
        /\ p \notin Charged(k) => HeldIn(p)' = HeldIn(p) /\ SpentIn(p)' = SpentIn(p)
    BY <1>2, SpentClass
  <2> QED
    BY <2>1, <2>2, SameAdmissions, OwedFinite
<1>7. CountersMatchLedger'
  <2> SUFFICES ASSUME NEW p \in Periods
               PROVE  /\ period'[p].reserved = Cardinality(HeldIn(p))'
                      /\ period'[p].consumed = Cardinality(SpentIn(p))'
                      /\ period'[p].turns = Cardinality(AdmittedIn(p))'
    BY DEF CountersMatchLedger
  <2>1. Cardinality(HeldIn(p)) \in Nat /\ Cardinality(SpentIn(p)) \in Nat
    BY OwedFinite
  <2> QED
    BY <2>1, <1>3, <1>4, <1>6
<1>8. ClosedIsEmpty'
  <2> SUFFICES ASSUME NEW p \in Periods, ~period'[p].open
               PROVE  /\ period'[p].turns = 0
                      /\ period'[p].reserved = 0
                      /\ period'[p].consumed = 0
    BY DEF ClosedIsEmpty
  <2>1. ~period[p].open
    BY <1>3, <1>4
  <2>2. /\ period[p].turns = 0
        /\ period[p].reserved = 0
        /\ period[p].consumed = 0
    BY <2>1 DEF Books, ClosedIsEmpty
  <2> QED
    BY <1>3, <1>6, <2>2
<1>9. WithinLimits'
  <2> SUFFICES ASSUME NEW p \in Periods
               PROVE  /\ period'[p].turns <= period'[p].turnLimit
                      /\ period'[p].reserved + period'[p].consumed <= period'[p].limit
    BY DEF WithinLimits
  <2>1. /\ period[p].turns <= period[p].turnLimit
        /\ period[p].reserved + period[p].consumed <= period[p].limit
    BY DEF Books, WithinLimits
  <2>2. period[p] \in PeriodRow
    BY <1>1
  <2> QED
    BY <1>3, <1>4, <1>6, <2>1, <2>2 DEF PeriodRow
<1> QED
  BY <1>5, <1>7, <1>8, <1>9 DEF Books

-----------------------------------------------------------------------------
(* Where a lane goes *)

LEMMA GotoTyped ==
  ASSUME LanesTyped, NEW w \in Worker, NEW step \in Step, Goto(w, step)
  PROVE  LanesTyped'
<1>1. lane' \in [Worker -> Lane]
  BY DEF LanesTyped, Goto, Lane
<1>2. \A v \in Worker : lane'[v].phase = lane[v].phase /\ lane'[v].unit = lane[v].unit
  BY DEF LanesTyped, Goto, Lane
<1> QED
  BY <1>1, <1>2 DEF LanesTyped, PhaseUnits

LEMMA IdleTyped == Idle \in Lane /\ Idle.phase = "reply"
<1>1. (CHOOSE s \in Sid : TRUE) \in Sid /\ (CHOOSE p \in Policy : TRUE) \in Policy
  BY QuotaAssumption
<1> QED
  BY <1>1, QuotaAssumption DEF Idle, Lane, Step, Mode, Phase, Day, Twiml

LEMMA FinishTyped ==
  ASSUME LanesTyped, NEW w \in Worker, Finish(w)
  PROVE  LanesTyped'
<1>1. lane' \in [Worker -> Lane]
  BY IdleTyped DEF LanesTyped, Finish
<1>2. \A v \in Worker : lane'[v] = lane[v] \/ lane'[v].phase = "reply"
  BY IdleTyped DEF LanesTyped, Finish
<1> QED
  BY <1>1, <1>2 DEF LanesTyped, PhaseUnits

LEMMA NextDocumentTyped ==
  ASSUME LanesTyped, NEW w \in Worker, NextDocument(w)
  PROVE  LanesTyped'
<1>1. CASE /\ lane[w].unit < NDocs
           /\ lane' = [lane EXCEPT ![w].step = "send", ![w].unit = @ + 1]
  <2>1. lane' \in [Worker -> Lane]
    BY <1>1, QuotaAssumption DEF LanesTyped, Lane, Step
  <2>2. lane'[w].unit \in Doc
    BY <1>1, QuotaAssumption DEF LanesTyped, Lane, Doc
  <2>3. \A v \in Worker \ {w} : lane'[v] = lane[v]
    BY <1>1 DEF LanesTyped
  <2> QED
    BY <2>1, <2>2, <2>3 DEF LanesTyped, PhaseUnits
<1>2. CASE lane' = [lane EXCEPT ![w].step = "read", ![w].phase = "reply", ![w].unit = Twiml]
  <2>1. lane' \in [Worker -> Lane]
    <3>1. 0 \in 0 .. NDocs + 1
      BY QuotaAssumption
    <3>2. [lane[w] EXCEPT !.step = "read", !.phase = "reply", !.unit = 0] \in Lane
      BY <3>1 DEF LanesTyped, Lane, Step, Phase
    <3> QED
      BY <1>2, <3>2 DEF LanesTyped, Twiml
  <2>2. lane'[w].phase = "reply"
    BY <1>2 DEF LanesTyped, Lane
  <2>3. \A v \in Worker \ {w} : lane'[v] = lane[v]
    BY <1>2 DEF LanesTyped
  <2> QED
    BY <2>1, <2>2, <2>3 DEF LanesTyped, PhaseUnits
<1>3. CASE Finish(w)
  BY <1>3, FinishTyped
<1> QED
  BY <1>1, <1>2, <1>3 DEF NextDocument

LEMMA GrantedTyped ==
  ASSUME LanesTyped, NEW w \in Worker, Granted(w)
  PROVE  LanesTyped'
<1>1. ASSUME lane[w].phase = "pre",
             lane' = [lane EXCEPT ![w].step = IF lane[w].unit < NDocs THEN "read" ELSE "send",
                               ![w].phase = IF lane[w].unit < NDocs THEN "pre" ELSE "send",
                               ![w].unit = IF lane[w].unit < NDocs THEN @ + 1 ELSE 1,
                               ![w].pre = IF Counts(w) THEN @ \cup {lane[w].unit} ELSE @]
      PROVE  LanesTyped'
  <2>1. lane[w] \in Lane /\ lane[w].unit \in Doc
    BY <1>1 DEF LanesTyped, PhaseUnits
  <2>2. 1 \in Doc /\ (lane[w].unit < NDocs => lane[w].unit + 1 \in Doc)
    BY <2>1, QuotaAssumption DEF Doc
  <2>3. Doc \subseteq 0 .. NDocs + 1
    BY QuotaAssumption DEF Doc
  <2>4. /\ lane'[w].unit \in Doc
        /\ lane'[w].unit = IF lane[w].unit < NDocs THEN lane[w].unit + 1 ELSE 1
    BY <1>1, <2>1, <2>2 DEF LanesTyped, Lane
  <2>5. lane' \in [Worker -> Lane]
    BY <1>1, <2>1, <2>2, <2>3 DEF LanesTyped, Lane, Step, Phase
  <2>6. \A v \in Worker \ {w} : lane'[v] = lane[v]
    BY <1>1 DEF LanesTyped
  <2> QED
    BY <2>4, <2>5, <2>6 DEF LanesTyped, PhaseUnits
<1>2. ASSUME NEW step \in Step, Goto(w, step)
      PROVE  LanesTyped'
  BY <1>2, GotoTyped
<1>3. CASE Finish(w)
  BY <1>3, FinishTyped
<1> QED
  BY <1>1, <1>2, <1>3 DEF Granted, Step

LEMMA DeniedTyped ==
  ASSUME LanesTyped, NEW w \in Worker, Denied(w)
  PROVE  LanesTyped'
<1>1. CASE Granted(w)
  BY <1>1, GrantedTyped
<1>2. CASE Goto(w, "suppress") \/ Goto(w, "release")
  BY <1>2, GotoTyped DEF Step
<1>3. CASE NextDocument(w) \/ Finish(w)
  BY <1>3, NextDocumentTyped, FinishTyped
<1> QED
  BY <1>1, <1>2, <1>3 DEF Denied

LEMMA AdoptTyped ==
  ASSUME TypeOK, PhaseUnits, NEW w \in Worker, NEW scope \in Mode, Adopt(w, scope)
  PROVE  LanesTyped'
<1>1. admission[lane[w].sid].reason \in Reason \cup {"NONE"}
  BY DEF TypeOK, Admission, Lane
<1>2. PICK step \in Step, reason \in Reason \cup {"NONE"} :
        lane' = [lane EXCEPT ![w].step = step, ![w].scope = scope, ![w].reason = reason]
  <2>1. (IF admission[lane[w].sid].decision = "REJECTED" THEN "notice" ELSE "dispatch") \in Step
    BY DEF Step
  <2> QED
    BY <1>1, <2>1 DEF Adopt
<1>3. lane' \in [Worker -> Lane]
  <2>1. [lane[w] EXCEPT !.step = step, !.scope = scope, !.reason = reason] \in Lane
    BY DEF TypeOK, Lane
  <2> QED
    BY <1>2, <2>1 DEF TypeOK
<1>4. \A v \in Worker : lane'[v].phase = lane[v].phase /\ lane'[v].unit = lane[v].unit
  BY <1>2 DEF TypeOK, Lane
<1> QED
  BY <1>3, <1>4 DEF LanesTyped, PhaseUnits

\* A step of the lane that writes step, phase and unit.
LEMMA WalkTyped ==
  ASSUME LanesTyped, NEW w \in Worker, NEW step \in Step, NEW phase \in Phase,
         NEW unit \in 0 .. NDocs + 1, phase \in {"pre", "send"} => unit \in Doc,
         lane' = [lane EXCEPT ![w].step = step, ![w].phase = phase, ![w].unit = unit]
  PROVE  LanesTyped'
<1>1. lane' \in [Worker -> Lane]
  <2>1. [lane[w] EXCEPT !.step = step, !.phase = phase, !.unit = unit] \in Lane
    BY DEF LanesTyped, Lane
  <2> QED
    BY <2>1 DEF LanesTyped
<1>2. lane'[w].phase = phase /\ lane'[w].unit = unit
  BY DEF LanesTyped, Lane
<1>3. \A v \in Worker \ {w} : lane'[v] = lane[v]
  BY DEF LanesTyped
<1> QED
  BY <1>1, <1>2, <1>3 DEF LanesTyped, PhaseUnits

\* A step of the lane that leaves phase and unit.
LEMMA KeepTyped ==
  ASSUME LanesTyped, lane' \in [Worker -> Lane],
         \A v \in Worker : lane'[v].phase = lane[v].phase /\ lane'[v].unit = lane[v].unit
  PROVE  LanesTyped'
BY DEF LanesTyped, PhaseUnits

LEMMA LaneStep == TypeOK /\ PhaseUnits /\ [Next]_vars => LanesTyped'
<1> SUFFICES ASSUME TypeOK, PhaseUnits, [Next]_vars PROVE LanesTyped'
  OBVIOUS
<1>0. LanesTyped
  BY DEF TypeOK, LanesTyped
<1>1. ASSUME NEW w \in Worker, NEW s \in Sid, Begin(w, s)
      PROVE  LanesTyped'
  <2>1. [Idle EXCEPT !.step = "lookup", !.sid = s, !.day = today, !.policy = policy,
                     !.scope = policy.mode] \in Lane
    <3>1. policy.mode \in Mode
      BY QuotaAssumption DEF TypeOK, Setting
    <3> QED
      BY <3>1, IdleTyped DEF TypeOK, Lane, Step
  <2>2. [Idle EXCEPT !.step = "lookup", !.sid = s, !.day = today, !.policy = policy,
                     !.scope = policy.mode].phase = "reply"
    BY IdleTyped DEF Lane
  <2>3. lane' = [lane EXCEPT ![w] = [Idle EXCEPT !.step = "lookup", !.sid = s,
                                                 !.day = today, !.policy = policy,
                                                 !.scope = policy.mode]]
    BY <1>1 DEF Begin
  <2> QED
    BY <1>0, <2>1, <2>2, <2>3 DEF LanesTyped, PhaseUnits
<1>2. ASSUME NEW w \in Worker,
             \/ AdmitTurn(w) \/ AdmitDuplicate(w) \/ Refuse(w) \/ ShadowTurn(w)
             \/ StartDocument(w) \/ StartAttempt(w) \/ SettleDocumentThrows(w)
             \/ SettleTwiml(w)
      PROVE  LanesTyped'
  <2>1. PICK step \in Step : Goto(w, step)
    BY <1>2 DEF AdmitTurn, AdmitDuplicate, Refuse, ShadowTurn, StartDocument, StartAttempt,
                SettleDocumentThrows, SettleTwiml, Step
  <2> QED
    BY <1>0, <2>1, GotoTyped
<1>3. ASSUME NEW w \in Worker,
             \/ StaySilent(w) \/ SuppressNotice(w) \/ CompleteNotice(w) \/ ReturnTwiml(w)
             \/ Crash(w)
      PROVE  LanesTyped'
  BY <1>0, <1>3, FinishTyped
     DEF StaySilent, SuppressNotice, CompleteNotice, ReturnTwiml, Crash
<1>4. ASSUME NEW w \in Worker,
             \/ SkipDocument(w) \/ SettleDocument(w) \/ MarkAmbiguous(w)
             \/ SendDocument(w) \/ SendThrows(w)
      PROVE  LanesTyped'
  <2>1. NextDocument(w) \/ Goto(w, "settle") \/ Goto(w, "ambiguous")
    BY <1>4 DEF SkipDocument, SettleDocument, MarkAmbiguous, SendDocument, SendThrows
  <2> QED
    BY <1>0, <2>1, NextDocumentTyped, GotoTyped DEF Step
<1>5. ASSUME NEW w \in Worker,
             \/ ShadowReserve(w) \/ TakeUnit(w) \/ TakeDuplicate(w) \/ TakeBlocked(w)
             \/ ReserveThrows(w)
      PROVE  LanesTyped'
  <2>1. Granted(w) \/ Denied(w)
    BY <1>5 DEF ShadowReserve, TakeUnit, TakeDuplicate, TakeBlocked, ReserveThrows
  <2> QED
    BY <1>0, <2>1, GrantedTyped, DeniedTyped
<1>6. ASSUME NEW w \in Worker, Lookup(w) \/ Again(w)
      PROVE  LanesTyped'
  <2>1. admission[lane[w].sid].mode \in Mode /\ lane[w].policy.mode \in Mode
    BY QuotaAssumption DEF TypeOK, Admission, Lane, Setting
  <2>2. Goto(w, "admit") \/ (\E scope \in Mode : Adopt(w, scope))
    BY <1>6, <2>1 DEF Lookup, Again
  <2> QED
    BY <1>0, <2>2, AdoptTyped, GotoTyped DEF Step
<1>7. ASSUME NEW w \in Worker, AdmitBlocked(w) \/ AdmissionThrows(w)
      PROVE  LanesTyped'
  <2>1. PICK step \in Step, reason \in Reason :
          lane' = [lane EXCEPT ![w].step = step, ![w].reason = reason]
    BY <1>7 DEF AdmitBlocked, AdmissionThrows, Step, Reason
  <2>2. lane' \in [Worker -> Lane]
    BY <1>0, <2>1 DEF LanesTyped, Lane
  <2>3. \A v \in Worker : lane'[v].phase = lane[v].phase /\ lane'[v].unit = lane[v].unit
    BY <1>0, <2>1 DEF LanesTyped, Lane
  <2> QED
    BY <1>0, <2>2, <2>3, KeepTyped
<1>8. ASSUME NEW w \in Worker, ClaimNotice(w) \/ ChooseReply(w) \/ ChooseDocuments(w)
                               \/ Released(w)
      PROVE  LanesTyped'
  <2>1. 0 \in 0 .. NDocs + 1 /\ NDocs + 1 \in 0 .. NDocs + 1
    BY QuotaAssumption
  <2>2. CASE ClaimNotice(w)
    <3>1. lane' = [lane EXCEPT ![w].step = "read", ![w].phase = "notice",
                               ![w].unit = NDocs + 1]
      BY <2>2 DEF ClaimNotice, Notice
    <3> QED
      BY <1>0, <2>1, <3>1, WalkTyped DEF Step, Phase
  <2>3. CASE ChooseReply(w) \/ Released(w)
    <3>1. lane' = [lane EXCEPT ![w].step = "read", ![w].phase = "reply", ![w].unit = 0]
      BY <2>3 DEF ChooseReply, Released, Twiml
    <3> QED
      BY <1>0, <2>1, <3>1, WalkTyped DEF Step, Phase
  <2>4. CASE ChooseDocuments(w)
    <3>1. lane' = [lane EXCEPT ![w].step = "read", ![w].phase = "pre", ![w].unit = 1]
      BY <2>4 DEF ChooseDocuments
    <3>2. 1 \in Doc /\ 1 \in 0 .. NDocs + 1
      BY <2>4, QuotaAssumption DEF ChooseDocuments, Doc
    <3> QED
      BY <1>0, <3>1, <3>2, WalkTyped DEF Step, Phase
  <2> QED
    BY <1>8, <2>2, <2>3, <2>4
<1>9. ASSUME NEW w \in Worker, ReadKey(w)
      PROVE  LanesTyped'
  <2>1. CASE Granted(w)
    BY <1>0, <2>1, GrantedTyped
  <2>2. CASE lane' = [lane EXCEPT ![w].step = "take",
                                  ![w].day = IF lane[w].phase = "notice" THEN @ ELSE today]
    <3>0. PICK d \in Day : lane' = [lane EXCEPT ![w].step = "take", ![w].day = d]
      <4>1. (IF lane[w].phase = "notice" THEN lane[w].day ELSE today) \in Day
        BY DEF TypeOK, Lane
      <4> QED
        BY <2>2, <4>1
    <3>1. lane' \in [Worker -> Lane]
      <4>1. [lane[w] EXCEPT !.step = "take", !.day = d] \in Lane
        BY <1>0 DEF LanesTyped, Lane, Step
      <4> QED
        BY <1>0, <3>0, <4>1 DEF LanesTyped
    <3>2. \A v \in Worker : lane'[v].phase = lane[v].phase /\ lane'[v].unit = lane[v].unit
      BY <1>0, <3>0 DEF LanesTyped, Lane
    <3> QED
      BY <1>0, <3>1, <3>2, KeepTyped
  <2> QED
    BY <1>9, <2>1, <2>2 DEF ReadKey
<1>10. ASSUME NEW w \in Worker, ReleaseNext(w)
       PROVE  LanesTyped'
  <2>1. PICK i \in lane[w].pre : lane' = [lane EXCEPT ![w].pre = @ \ {i}]
    BY <1>10 DEF ReleaseNext
  <2>2. lane' \in [Worker -> Lane]
    BY <1>0, <2>1 DEF LanesTyped, Lane
  <2>3. \A v \in Worker : lane'[v].phase = lane[v].phase /\ lane'[v].unit = lane[v].unit
    BY <1>0, <2>1 DEF LanesTyped, Lane
  <2> QED
    BY <1>0, <2>2, <2>3, KeepTyped
<1>11. CASE \/ NextDay \/ (\E s \in Sid : BurstPasses(s))
            \/ (\E p \in Policy : ChangePolicy(p)) \/ UNCHANGED vars
  <2>1. UNCHANGED lane
    BY <1>11 DEF NextDay, BurstPasses, ChangePolicy, vars
  <2> QED
    BY <1>0, <2>1 DEF LanesTyped, PhaseUnits
<1> QED
  BY <1>1, <1>2, <1>3, <1>4, <1>5, <1>6, <1>7, <1>8, <1>9, <1>10, <1>11
     DEF Next, Admit, Notify, Reserve, Send

-----------------------------------------------------------------------------
(* The invariant, and its three theorems *)

LEMMA BooksStep == TypeOK /\ Books /\ [Next]_vars => Books'
<1> SUFFICES ASSUME TypeOK, Books, [Next]_vars PROVE Books'
  OBVIOUS
<1>1. ASSUME NEW w \in Worker, AdmitTurn(w)
      PROVE  Books'
  BY <1>1, AdmitBooks
<1>2. ASSUME NEW w \in Worker, Refuse(w) \/ ShadowTurn(w)
      PROVE  Books'
  <2>1. PICK s \in Sid : s = lane[w].sid
    BY DEF TypeOK, Lane
  <2>2. PICK d \in Day : d = lane[w].day
    BY DEF TypeOK, Lane
  <2>3. PICK r \in Reason \cup {"NONE"} : r = lane[w].reason
    BY DEF TypeOK, Lane
  <2>4. CASE Refuse(w)
    <3>1. Decide(s, "REJECTED", "ENFORCE", r, d) /\ UNCHANGED <<period, ledger>>
      BY <2>1, <2>2, <2>3, <2>4 DEF Refuse
    <3> QED
      BY <3>1, DecideBooks DEF Decision, Mode
  <2>5. CASE ShadowTurn(w)
    <3>1. PICK decision \in Decision \ {"ADMITTED"} :
            Decide(s, decision, "SHADOW", "NONE", d) /\ UNCHANGED <<period, ledger>>
      BY <2>1, <2>2, <2>5 DEF ShadowTurn, Decision
    <3> QED
      BY <3>1, DecideBooks DEF Mode
  <2> QED
    BY <1>2, <2>4, <2>5
<1>3. ASSUME NEW w \in Worker, TakeUnit(w)
      PROVE  Books'
  BY <1>3, TakeBooks
<1>4. ASSUME NEW w \in Worker, ShadowReserve(w) \/ StartAttempt(w) \/ MarkAmbiguous(w)
      PROVE  Books'
  <2>1. PICK k \in Key : k = KeyOf(w)
    BY DEF KeyOf, Key, TypeOK, Lane
  <2>2. ledger[k].status \in Held \cup Spent \cup {"NONE", "RELEASED", "SHADOW"}
    BY DEF TypeOK, Reservation
  <2>3. UNCHANGED <<period, admission>>
    BY <1>4 DEF ShadowReserve, StartAttempt, MarkAmbiguous
  <2>4. PICK status \in Held \cup Spent \cup {"NONE", "RELEASED", "SHADOW"} :
          /\ ledger' = [ledger EXCEPT ![k].status = status]
          /\ status \in Held <=> ledger[k].status \in Held
          /\ status \in Spent <=> ledger[k].status \in Spent
    BY <1>4, <2>1, <2>2 DEF ShadowReserve, StartAttempt, MarkAmbiguous, Held, Spent
  <2> QED
    BY <2>3, <2>4, MarkBooks
<1>5. ASSUME NEW w \in Worker, ReleaseNext(w)
      PROVE  Books'
  <2>1. PICK i \in lane[w].pre :
          IF ledger[<<lane[w].sid, i>>].status = "RESERVED"
          THEN ReleaseRow(<<lane[w].sid, i>>)
          ELSE UNCHANGED <<ledger, period>>
    BY <1>5 DEF ReleaseNext
  <2>2. UNCHANGED admission
    BY <1>5 DEF ReleaseNext
  <2>3. PICK k \in Key : k = <<lane[w].sid, i>>
    <3>1. lane[w].sid \in Sid /\ i \in Doc
      BY DEF TypeOK, Lane
    <3>2. i \in 0 .. NDocs + 1
      BY <3>1, QuotaAssumption DEF Doc
    <3> QED
      BY <3>1, <3>2 DEF Key
  <2>4. CASE ledger[k].status = "RESERVED"
    <3>1. ReleaseRow(k) /\ ledger[k].status \in Held
      BY <2>1, <2>3, <2>4 DEF Held
    <3> QED
      BY <3>1, <2>2, ReleaseBooks
  <2>5. CASE ledger[k].status # "RESERVED"
    BY <2>1, <2>2, <2>3, <2>5, QuietBooks
  <2> QED
    BY <2>4, <2>5
<1>6. ASSUME NEW w \in Worker, SettleDocument(w) \/ SettleTwiml(w)
      PROVE  Books'
  <2>1. PICK k \in Key : k = KeyOf(w)
    BY DEF KeyOf, Key, TypeOK, Lane
  <2>2. UNCHANGED admission
    BY <1>6 DEF SettleDocument, SettleTwiml
  <2>3. PICK status \in Spent : Finalize(k, status)
    BY <1>6, <2>1 DEF SettleDocument, SettleTwiml, Spent
  <2>4. CASE ledger[k].status \in {"RESERVED", "ATTEMPT_STARTED"}
    <3>1. /\ ledger[k].status \in Held
          /\ ledger' = [ledger EXCEPT ![k].status = status]
          /\ period' = [p \in Periods |->
                          IF p \in Charged(k) THEN Converted(period[p]) ELSE period[p]]
      BY <2>3, <2>4 DEF Finalize, Held
    <3> QED
      BY <3>1, <2>2, SpendBooks
  <2>5. CASE ledger[k].status \notin {"RESERVED", "ATTEMPT_STARTED"}
    <3>1. ledger[k].status \in Held \cup Spent \cup {"NONE", "RELEASED", "SHADOW"}
      BY DEF TypeOK, Reservation
    <3>2. PICK mark \in Held \cup Spent \cup {"NONE", "RELEASED", "SHADOW"} :
            /\ ledger' = [ledger EXCEPT ![k].status = mark]
            /\ mark \in Held <=> ledger[k].status \in Held
            /\ mark \in Spent <=> ledger[k].status \in Spent
      BY <2>3, <2>5, <3>1 DEF Finalize, Held, Spent
    <3>3. UNCHANGED period
      BY <2>3, <2>5 DEF Finalize
    <3> QED
      BY <2>2, <3>2, <3>3, MarkBooks
  <2> QED
    BY <2>4, <2>5
<1>7. ASSUME NEW w \in Worker,
             \/ Lookup(w) \/ AdmitDuplicate(w) \/ Again(w) \/ AdmitBlocked(w)
             \/ AdmissionThrows(w) \/ Notify(w) \/ ReadKey(w) \/ TakeDuplicate(w)
             \/ TakeBlocked(w) \/ ReserveThrows(w) \/ Released(w) \/ ChooseReply(w)
             \/ ChooseDocuments(w) \/ SkipDocument(w) \/ StartDocument(w)
             \/ SendDocument(w) \/ SendThrows(w) \/ SettleDocumentThrows(w)
             \/ ReturnTwiml(w) \/ Crash(w)
      PROVE  Books'
  <2>1. UNCHANGED <<period, ledger, admission>>
    BY <1>7
       DEF Lookup, AdmitDuplicate, Again, AdmitBlocked, AdmissionThrows, Notify,
           ClaimNotice, StaySilent, SuppressNotice, CompleteNotice, ReadKey,
           TakeDuplicate, TakeBlocked, ReserveThrows, Released, ChooseReply,
           ChooseDocuments, SkipDocument, StartDocument, SendDocument, SendThrows,
           SettleDocumentThrows, ReturnTwiml, Crash, rows
  <2> QED
    BY <2>1, QuietBooks
<1>8. CASE \/ (\E w \in Worker, s \in Sid : Begin(w, s)) \/ NextDay
           \/ (\E s \in Sid : BurstPasses(s)) \/ (\E p \in Policy : ChangePolicy(p))
           \/ UNCHANGED vars
  <2>1. UNCHANGED <<period, ledger, admission>>
    BY <1>8 DEF Begin, NextDay, BurstPasses, ChangePolicy, vars, rows
  <2> QED
    BY <2>1, QuietBooks
<1> QED
  BY <1>1, <1>2, <1>3, <1>4, <1>5, <1>6, <1>7, <1>8 DEF Next, Admit, Reserve, Send

LEMMA RestStep == TypeOK /\ [Next]_vars => RestTyped'
<1> SUFFICES ASSUME TypeOK, [Next]_vars PROVE RestTyped'
  OBVIOUS
<1>0. RestTyped
  BY DEF RestTyped, TypeOK
<1>1. ASSUME NEW w \in Worker, NEW s \in Sid, Begin(w, s)
      PROVE  RestTyped'
  <2>1. taken' \in [Sid -> 0 .. MaxTakes]
    BY <1>0, <1>1, QuotaAssumption DEF Begin, RestTyped
  <2> QED
    BY <1>0, <1>1, <2>1 DEF Begin, RestTyped, settings, rows
<1>2. ASSUME NEW w \in Worker, AdmitTurn(w)
      PROVE  RestTyped'
  <2>1. recent' \in SUBSET Sid
    BY <1>0, <1>2 DEF AdmitTurn, RestTyped, TypeOK, Lane
  <2> QED
    BY <1>0, <1>2, <2>1 DEF AdmitTurn, RestTyped, settings, history
<1>3. ASSUME NEW w \in Worker, ClaimNotice(w) \/ SuppressNotice(w) \/ CompleteNotice(w)
      PROVE  RestTyped'
  <2>1. notice' \in [Episode -> {"NONE", "RESERVED", "SENT", "SUPPRESSED"}]
    BY <1>0, <1>3 DEF ClaimNotice, SuppressNotice, CompleteNotice, Conclude, RestTyped
  <2>2. told' \in [Episode -> Nat]
    BY <1>0, <1>3 DEF ClaimNotice, SuppressNotice, CompleteNotice, RestTyped, history
  <2>3. sent' \in SUBSET Key
    BY <1>0, <1>3 DEF ClaimNotice, SuppressNotice, CompleteNotice, RestTyped, history,
                      KeyOf, Key, TypeOK, Lane
  <2> QED
    BY <1>0, <1>3, <2>1, <2>2, <2>3
       DEF ClaimNotice, SuppressNotice, CompleteNotice, RestTyped, settings, history
<1>4. ASSUME NEW w \in Worker, SendDocument(w) \/ SendThrows(w) \/ ReturnTwiml(w)
      PROVE  RestTyped'
  <2>1. attempted' \in SUBSET Key /\ sent' \in SUBSET Key
    BY <1>0, <1>4 DEF SendDocument, SendThrows, ReturnTwiml, RestTyped, KeyOf, Key,
                      TypeOK, Lane
  <2> QED
    BY <1>0, <1>4, <2>1
       DEF SendDocument, SendThrows, ReturnTwiml, RestTyped, settings, rows
<1>5. ASSUME NEW w \in Worker,
             \/ Lookup(w) \/ AdmitDuplicate(w) \/ Again(w) \/ AdmitBlocked(w) \/ Refuse(w)
             \/ ShadowTurn(w) \/ AdmissionThrows(w) \/ StaySilent(w) \/ Reserve(w)
             \/ ChooseReply(w) \/ ChooseDocuments(w) \/ SkipDocument(w)
             \/ StartDocument(w) \/ StartAttempt(w) \/ SettleDocument(w)
             \/ SettleDocumentThrows(w) \/ SettleTwiml(w) \/ MarkAmbiguous(w) \/ Crash(w)
      PROVE  RestTyped'
  <2>1. UNCHANGED <<settings, recent, notice, history>>
    BY <1>5
       DEF Lookup, AdmitDuplicate, Again, AdmitBlocked, Refuse, ShadowTurn,
           AdmissionThrows, StaySilent, Reserve, ReadKey, ShadowReserve, TakeUnit,
           TakeDuplicate, TakeBlocked, ReserveThrows, ReleaseNext, Released,
           ChooseReply, ChooseDocuments, SkipDocument, StartDocument, StartAttempt,
           SettleDocument, SettleDocumentThrows, SettleTwiml, MarkAmbiguous, Crash, rows
  <2> QED
    BY <1>0, <2>1 DEF RestTyped, settings, history
<1>6. CASE NextDay
  BY <1>0, <1>6, QuotaAssumption DEF NextDay, RestTyped, Day, rows, history
<1>7. CASE \/ (\E s \in Sid : BurstPasses(s)) \/ (\E p \in Policy : ChangePolicy(p))
           \/ UNCHANGED vars
  BY <1>0, <1>7 DEF BurstPasses, ChangePolicy, RestTyped, settings, rows, history, vars
<1> QED
  BY <1>1, <1>2, <1>3, <1>4, <1>5, <1>6, <1>7 DEF Next, Admit, Notify, Send

LEMMA InitBooks == Init => RowsTyped /\ ClosedIsEmpty /\ CountersMatchLedger /\ WithinLimits
<1> SUFFICES ASSUME Init
             PROVE  RowsTyped /\ ClosedIsEmpty /\ CountersMatchLedger /\ WithinLimits
  OBVIOUS
<1>1. 1 \in Day
  BY QuotaAssumption DEF Day
<1>2. RowsTyped
  <2>1. period \in [Periods -> PeriodRow]
    BY DEF Init, PeriodRow
  <2>2. admission \in [Sid -> Admission]
    BY <1>1 DEF Init, Admission, Mode
  <2>3. ledger \in [Key -> Reservation]
    BY <1>1 DEF Init, Reservation
  <2> QED
    BY <2>1, <2>2, <2>3 DEF RowsTyped
<1>3. \A p \in Periods : HeldIn(p) = {} /\ SpentIn(p) = {} /\ AdmittedIn(p) = {}
  BY DEF Init, HeldIn, SpentIn, AdmittedIn, Held, Spent
<1>4. CountersMatchLedger
  BY <1>3, FS_EmptySet DEF Init, CountersMatchLedger
<1>5. ClosedIsEmpty /\ WithinLimits
  BY DEF Init, ClosedIsEmpty, WithinLimits
<1> QED
  BY <1>2, <1>4, <1>5

LEMMA InitIInv == Init => IInv
<1> SUFFICES ASSUME Init PROVE IInv
  OBVIOUS
<1>1. Books
  BY InitBooks DEF Books
<1>2. lane \in [Worker -> Lane] /\ PhaseUnits
  BY IdleTyped DEF Init, PhaseUnits
<1>3. RestTyped
  BY QuotaAssumption DEF Init, RestTyped, Day
<1> QED
  BY <1>1, <1>2, <1>3 DEF IInv, TypeOK, Books, RowsTyped, RestTyped

LEMMA StepIInv == IInv /\ [Next]_vars => IInv'
<1> SUFFICES ASSUME IInv, [Next]_vars PROVE IInv'
  OBVIOUS
<1>1. Books'
  BY BooksStep DEF IInv
<1>2. LanesTyped'
  BY LaneStep DEF IInv
<1>3. RestTyped'
  BY RestStep DEF IInv
<1> QED
  BY <1>1, <1>2, <1>3 DEF IInv, TypeOK, Books, RowsTyped, LanesTyped, RestTyped

LEMMA Invariance == Spec => []IInv
BY InitIInv, StepIInv, PTL DEF Spec

\* Every variable keeps its type, whatever the bounds: in particular no lane
\* walks past its documents (NextDocument, Granted) and no counter goes below
\* zero.
THEOREM TypeCorrect == Spec => []TypeOK
<1>1. IInv => TypeOK
  BY DEF IInv
<1> QED
  BY <1>1, Invariance, PTL

\* The counters of the period rows are the ledger's, for any number of lanes,
\* turns, documents and days (finalizeOutboundReservation, releaseOutboundIfReserved,
\* reserveOutboundAtomic, admitTurnAtomic).
THEOREM CountersAreLedger == Spec => []CountersMatchLedger
<1>1. IInv => CountersMatchLedger
  BY DEF IInv, Books
<1> QED
  BY <1>1, Invariance, PTL

\* No period holds more than the limit it was opened with, whatever settings
\* the company changes to.
THEOREM LimitsHold == Spec => []WithinLimits
<1>1. IInv => WithinLimits
  BY DEF IInv, Books
<1> QED
  BY <1>1, Invariance, PTL

-----------------------------------------------------------------------------
(* Rows only go forward: what a later step still knows of them *)

\* The life of a reservation: only a unit nobody has tried to send is released.
Forward(a, b) ==
    \/ b = a
    \/ a = "NONE" /\ b \in {"RESERVED", "SHADOW"}
    \/ a = "RESERVED" /\ b \in {"ATTEMPT_STARTED", "AMBIGUOUS", "RELEASED"} \cup Spent
    \/ a = "ATTEMPT_STARTED" /\ b \in {"AMBIGUOUS"} \cup Spent
    \/ a = "RESPONSE_BUILT" /\ b = "ACCEPTED"

StatusesForward == \A k \in Key : Forward(ledger[k].status, ledger'[k].status)

DecisionsStand ==
    \A s \in Sid : admission[s].decision # "NONE" => admission'[s] = admission[s]

LEMMA KeyOfLane == ASSUME TypeOK, NEW w \in Worker PROVE KeyOf(w) \in Key
BY DEF KeyOf, Key, TypeOK, Lane

LEMMA OneForward ==
  ASSUME ledger \in [Key -> Reservation], NEW k \in Key, NEW status,
         ledger' = [ledger EXCEPT ![k].status = status], Forward(ledger[k].status, status)
  PROVE  StatusesForward
<1>1. \A j \in Key \ {k} : ledger'[j] = ledger[j]
  OBVIOUS
<1>2. ledger'[k].status = status
  BY DEF Reservation
<1> QED
  BY <1>1, <1>2 DEF StatusesForward, Forward

LEMMA NextStatuses == TypeOK /\ [Next]_vars => StatusesForward
<1> SUFFICES ASSUME TypeOK, [Next]_vars PROVE StatusesForward
  OBVIOUS
<1>0. ledger \in [Key -> Reservation]
  BY DEF TypeOK
<1>1. ASSUME NEW w \in Worker, TakeUnit(w)
      PROVE  StatusesForward
  <2>1. PICK k \in Key : k = KeyOf(w)
    BY KeyOfLane
  <2>2. /\ ledger[k].status = "NONE"
        /\ ledger' = [ledger EXCEPT ![k] = [status |-> "RESERVED", day |-> lane[w].day]]
    BY <1>1, <2>1 DEF TakeUnit
  <2>3. ledger'[k].status = "RESERVED" /\ \A j \in Key \ {k} : ledger'[j] = ledger[j]
    BY <1>0, <2>2
  <2> QED
    BY <2>2, <2>3 DEF StatusesForward, Forward
<1>2. ASSUME NEW w \in Worker, ReleaseNext(w)
      PROVE  StatusesForward
  <2>1. PICK i \in lane[w].pre :
          IF ledger[<<lane[w].sid, i>>].status = "RESERVED"
          THEN ReleaseRow(<<lane[w].sid, i>>)
          ELSE UNCHANGED <<ledger, period>>
    BY <1>2 DEF ReleaseNext
  <2>2. PICK k \in Key : k = <<lane[w].sid, i>>
    <3>1. lane[w].sid \in Sid /\ i \in Doc
      BY DEF TypeOK, Lane
    <3>2. i \in 0 .. NDocs + 1
      BY <3>1, QuotaAssumption DEF Doc
    <3> QED
      BY <3>1, <3>2 DEF Key
  <2>3. CASE ledger[k].status = "RESERVED"
    <3>1. ledger' = [ledger EXCEPT ![k].status = "RELEASED"]
      BY <2>1, <2>2, <2>3 DEF ReleaseRow
    <3>2. Forward(ledger[k].status, "RELEASED")
      BY <2>3 DEF Forward
    <3> QED
      BY <1>0, <3>1, <3>2, OneForward
  <2>4. CASE ledger[k].status # "RESERVED"
    BY <2>1, <2>2, <2>4 DEF StatusesForward, Forward
  <2> QED
    BY <2>3, <2>4
<1>3. ASSUME NEW w \in Worker,
             ShadowReserve(w) \/ StartAttempt(w) \/ MarkAmbiguous(w)
      PROVE  StatusesForward
  <2>1. PICK k \in Key : k = KeyOf(w)
    BY KeyOfLane
  <2>2. PICK status : /\ ledger' = [ledger EXCEPT ![k].status = status]
                      /\ Forward(ledger[k].status, status)
    BY <1>3, <2>1 DEF ShadowReserve, StartAttempt, MarkAmbiguous, Forward
  <2> QED
    BY <1>0, <2>2, OneForward
<1>4. ASSUME NEW w \in Worker, SettleDocument(w) \/ SettleTwiml(w)
      PROVE  StatusesForward
  <2>1. PICK k \in Key : k = KeyOf(w)
    BY KeyOfLane
  <2>2. PICK status \in Spent : Finalize(k, status)
    BY <1>4, <2>1 DEF SettleDocument, SettleTwiml, Spent
  <2>3. PICK mark : /\ ledger' = [ledger EXCEPT ![k].status = mark]
                    /\ Forward(ledger[k].status, mark)
    BY <2>2 DEF Finalize, Forward, Spent
  <2> QED
    BY <1>0, <2>3, OneForward
<1>5. ASSUME NEW w \in Worker,
             \/ Admit(w) \/ Notify(w) \/ ReadKey(w) \/ TakeDuplicate(w)
             \/ TakeBlocked(w) \/ ReserveThrows(w) \/ Released(w) \/ ChooseReply(w)
             \/ ChooseDocuments(w) \/ SkipDocument(w) \/ StartDocument(w)
             \/ SendDocument(w) \/ SendThrows(w) \/ SettleDocumentThrows(w)
             \/ ReturnTwiml(w) \/ Crash(w)
      PROVE  StatusesForward
  <2>1. UNCHANGED ledger
    BY <1>5
       DEF Admit, Lookup, AdmitTurn, AdmitDuplicate, Again, AdmitBlocked, Refuse,
           ShadowTurn, AdmissionThrows, Notify, ClaimNotice, StaySilent, SuppressNotice,
           CompleteNotice, ReadKey, TakeDuplicate, TakeBlocked, ReserveThrows, Released,
           ChooseReply, ChooseDocuments, SkipDocument, StartDocument, SendDocument,
           SendThrows, SettleDocumentThrows, ReturnTwiml, Crash, rows
  <2> QED
    BY <2>1 DEF StatusesForward, Forward
<1>6. CASE \/ (\E w \in Worker, s \in Sid : Begin(w, s)) \/ NextDay
           \/ (\E s \in Sid : BurstPasses(s)) \/ (\E p \in Policy : ChangePolicy(p))
           \/ UNCHANGED vars
  <2>1. UNCHANGED ledger
    BY <1>6 DEF Begin, NextDay, BurstPasses, ChangePolicy, vars, rows
  <2> QED
    BY <2>1 DEF StatusesForward, Forward
<1> QED
  BY <1>1, <1>2, <1>3, <1>4, <1>5, <1>6 DEF Next, Reserve, Send

LEMMA DecideStands ==
  ASSUME admission \in [Sid -> Admission], NEW s, NEW decision, NEW mode, NEW reason, NEW day,
         Decide(s, decision, mode, reason, day)
  PROVE  DecisionsStand
BY DEF Decide, DecisionsStand

LEMMA NextDecisions == TypeOK /\ [Next]_vars => DecisionsStand
<1> SUFFICES ASSUME TypeOK, [Next]_vars PROVE DecisionsStand
  OBVIOUS
<1>0. admission \in [Sid -> Admission]
  BY DEF TypeOK
<1>1. ASSUME NEW w \in Worker, AdmitTurn(w) \/ Refuse(w) \/ ShadowTurn(w)
      PROVE  DecisionsStand
  <2>1. PICK s, decision, mode, reason, day : Decide(s, decision, mode, reason, day)
    BY <1>1 DEF AdmitTurn, Refuse, ShadowTurn
  <2> QED
    BY <1>0, <2>1, DecideStands
<1>2. ASSUME NEW w \in Worker,
             \/ Lookup(w) \/ AdmitDuplicate(w) \/ Again(w) \/ AdmitBlocked(w)
             \/ AdmissionThrows(w) \/ Notify(w) \/ Reserve(w) \/ Send(w) \/ Crash(w)
      PROVE  DecisionsStand
  <2>1. UNCHANGED admission
    BY <1>2
       DEF Lookup, AdmitDuplicate, Again, AdmitBlocked, AdmissionThrows, Notify,
           ClaimNotice, StaySilent, SuppressNotice, CompleteNotice, Reserve, ReadKey,
           ShadowReserve, TakeUnit, TakeDuplicate, TakeBlocked, ReserveThrows,
           ReleaseNext, Released, Send, ChooseReply, ChooseDocuments, SkipDocument,
           StartDocument, StartAttempt, SendDocument, SendThrows, SettleDocument,
           SettleDocumentThrows, SettleTwiml, MarkAmbiguous, ReturnTwiml, Crash, rows
  <2> QED
    BY <2>1 DEF DecisionsStand
<1>3. CASE \/ (\E w \in Worker, s \in Sid : Begin(w, s)) \/ NextDay
           \/ (\E s \in Sid : BurstPasses(s)) \/ (\E p \in Policy : ChangePolicy(p))
           \/ UNCHANGED vars
  <2>1. UNCHANGED admission
    BY <1>3 DEF Begin, NextDay, BurstPasses, ChangePolicy, vars, rows
  <2> QED
    BY <2>1 DEF DecisionsStand
<1> QED
  BY <1>1, <1>2, <1>3 DEF Next, Admit

-----------------------------------------------------------------------------
(* The course of a turn: where its lane stands and what it may count on *)

\* The steps before a turn is admitted or refused.
Intake == {"idle", "lookup", "admit", "again", "refuse", "notice"}

\* What a lane is doing fits the phase it is in.
Standing(w) ==
    /\ lane[w].step \in Intake \cup {"dispatch"} => lane[w].phase = "reply"
    /\ lane[w].step \in {"send", "effect", "ambiguous"} => lane[w].phase = "send"
    /\ At(w, "release") => lane[w].phase = "pre"
    /\ lane[w].step \in {"suppress", "complete"} => lane[w].phase = "notice"

\* The lane works for a turn whose units count.
Sending(w) == Counts(w) /\ lane[w].step \notin Intake /\ lane[w].phase # "notice"

\* A duplicate found the row it collided with, and a turn that sends is admitted.
Entitled(w) ==
    /\ At(w, "again") => admission[lane[w].sid].decision # "NONE"
    /\ Sending(w) => admission[lane[w].sid].decision \notin {"NONE", "REJECTED"}

\* The unit of the key was reserved, whoever did it and whatever became of it.
Moved(k) == ledger[k].status \notin {"NONE", "RESERVED"}

\* A lane that marks has a row to mark, and one at the provider has marked it.
Covered(w) ==
    /\ At(w, "attempt") => ledger[KeyOf(w)].status # "NONE"
    /\ At(w, "effect") /\ Counts(w) => Moved(KeyOf(w))

Telling(w) == lane[w].phase = "notice"

\* A lane that tells the limit holds the notice of its episode, alone.
TellsAlone(w) ==
    Telling(w) =>
        /\ notice[EpisodeOf(w)] = "RESERVED"
        /\ \A v \in Worker : Telling(v) /\ EpisodeOf(v) = EpisodeOf(w) => v = w

Course == \A w \in Worker : Standing(w) /\ Entitled(w) /\ Covered(w)
AttemptsMoved == \A k \in attempted : Moved(k)
NoticesHeld == (\A w \in Worker : TellsAlone(w)) /\ OneNoticePerEpisode

\* What a move of lane w leaves alone.
Others(w) == \A v \in Worker \ {w} : lane'[v] = lane[v]

Rests(w) == lane'[w] = Idle

Carries(w) ==
    /\ lane'[w].sid = lane[w].sid
    /\ lane'[w].policy = lane[w].policy
    /\ lane'[w].scope = lane[w].scope
    /\ lane'[w].reason = lane[w].reason
    /\ Telling(w) => lane'[w].day = lane[w].day

\* Lane w goes on to a step of a phase; at a mark or a call it keeps its unit.
Goes(w, step, phase) ==
    /\ Others(w)
    /\ Carries(w)
    /\ lane'[w].step = step
    /\ lane'[w].phase = phase
    /\ step \in {"attempt", "effect"} => lane'[w].unit = lane[w].unit

LEMMA GotoGoes ==
  ASSUME LanesTyped, NEW w \in Worker, NEW step, Goto(w, step)
  PROVE  Goes(w, step, lane[w].phase)
BY DEF LanesTyped, Goto, Goes, Others, Carries, Lane

LEMMA FinishRests ==
  ASSUME LanesTyped, NEW w \in Worker, Finish(w)
  PROVE  Others(w) /\ Rests(w)
BY DEF LanesTyped, Finish, Others, Rests

LEMMA WalkGoes ==
  ASSUME LanesTyped, NEW w \in Worker, NEW step, step \notin {"attempt", "effect"},
         NEW phase, NEW unit,
         lane' = [lane EXCEPT ![w].step = step, ![w].phase = phase, ![w].unit = unit]
  PROVE  Goes(w, step, phase)
BY DEF LanesTyped, Goes, Others, Carries, Lane

LEMMA NextDocumentGoes ==
  ASSUME LanesTyped, NEW w \in Worker, NextDocument(w)
  PROVE  \/ Others(w) /\ Rests(w)
         \/ Goes(w, "send", lane[w].phase)
         \/ Goes(w, "read", "reply")
<1>1. CASE lane' = [lane EXCEPT ![w].step = "send", ![w].unit = @ + 1]
  BY <1>1 DEF LanesTyped, Goes, Others, Carries, Lane
<1>2. CASE lane' = [lane EXCEPT ![w].step = "read", ![w].phase = "reply", ![w].unit = Twiml]
  BY <1>2, WalkGoes
<1>3. CASE Finish(w)
  BY <1>3, FinishRests
<1> QED
  BY <1>1, <1>2, <1>3 DEF NextDocument

\* A grant without a unit of its own goes on as if there were none.
Uncounted(w) ==
    \/ Others(w) /\ Rests(w)
    \/ lane[w].phase = "pre" /\ (Goes(w, "read", "pre") \/ Goes(w, "send", "send"))
    \/ ~Counts(w) /\ lane[w].phase = "send" /\ Goes(w, "effect", "send")
    \/ ~Counts(w) /\ lane[w].phase = "reply" /\ Goes(w, "return", "reply")

LEMMA GrantedGoes ==
  ASSUME LanesTyped, NEW w \in Worker, Granted(w)
  PROVE  \/ Uncounted(w)
         \/ lane[w].phase # "pre" /\ Counts(w) /\ Goes(w, "attempt", lane[w].phase)
<1>1. CASE /\ lane[w].phase = "pre"
           /\ lane' = [lane EXCEPT ![w].step = IF lane[w].unit < NDocs THEN "read" ELSE "send",
                               ![w].phase = IF lane[w].unit < NDocs THEN "pre" ELSE "send",
                               ![w].unit = IF lane[w].unit < NDocs THEN @ + 1 ELSE 1,
                               ![w].pre = IF Counts(w) THEN @ \cup {lane[w].unit} ELSE @]
  <2>1. CASE lane[w].unit < NDocs
    BY <1>1, <2>1 DEF LanesTyped, Uncounted, Goes, Others, Carries, Lane
  <2>2. CASE ~(lane[w].unit < NDocs)
    BY <1>1, <2>2 DEF LanesTyped, Uncounted, Goes, Others, Carries, Lane
  <2> QED
    BY <2>1, <2>2
<1>2. CASE lane[w].phase # "pre" /\ Counts(w) /\ Goto(w, "attempt")
  BY <1>2, GotoGoes
<1>3. CASE lane[w].phase = "send" /\ ~Counts(w) /\ Goto(w, "effect")
  BY <1>3, GotoGoes DEF Uncounted
<1>4. CASE lane[w].phase = "reply" /\ ~Counts(w) /\ Goto(w, "return")
  BY <1>4, GotoGoes DEF Uncounted
<1>5. CASE Finish(w)
  BY <1>5, FinishRests DEF Uncounted
<1> QED
  BY <1>1, <1>2, <1>3, <1>4, <1>5 DEF Granted

LEMMA DeniedGoes ==
  ASSUME LanesTyped, NEW w \in Worker, Denied(w)
  PROVE  \/ Uncounted(w)
         \/ lane[w].phase = "notice" /\ Goes(w, "suppress", "notice")
         \/ lane[w].phase = "pre" /\ Goes(w, "release", "pre")
         \/ lane[w].phase = "send" /\ (Goes(w, "send", "send") \/ Goes(w, "read", "reply"))
<1>1. CASE lane[w].scope = "SHADOW" /\ Granted(w)
  BY <1>1, GrantedGoes DEF Counts
<1>2. CASE lane[w].phase = "notice" /\ Goto(w, "suppress")
  BY <1>2, GotoGoes
<1>3. CASE lane[w].phase = "pre" /\ Goto(w, "release")
  BY <1>3, GotoGoes
<1>4. CASE lane[w].phase = "send" /\ NextDocument(w)
  BY <1>4, NextDocumentGoes DEF Uncounted
<1>5. CASE Finish(w)
  BY <1>5, FinishRests DEF Uncounted
<1> QED
  BY <1>1, <1>2, <1>3, <1>4, <1>5 DEF Denied

\* The moves of a lane that reserves or sends.
Onward(w) ==
    \/ Others(w) /\ Rests(w)
    \/ /\ Others(w)
       /\ Carries(w)
       /\ Telling(w)' <=> Telling(w)
       /\ Standing(w)'
       /\ lane'[w].step \notin Intake

\* It reaches a mark only with a row, and the provider with its mark made.
Safely(w) ==
    /\ lane'[w].step = "attempt" =>
          KeyOf(w)' = KeyOf(w) /\ ledger'[KeyOf(w)].status # "NONE"
    /\ lane'[w].step = "effect" /\ Counts(w) =>
          KeyOf(w)' = KeyOf(w) /\ Moved(KeyOf(w))'

LEMMA IdleStands ==
  ASSUME LanesTyped, NEW w \in Worker, Rests(w)
  PROVE  lane'[w].step = "idle" /\ Standing(w)' /\ ~Telling(w)'
BY DEF Rests, Idle, Standing, Telling, At, Intake

LEMMA UncountedOnward ==
  ASSUME LanesTyped, NEW w \in Worker, Uncounted(w)
  PROVE  Onward(w) /\ Safely(w)
BY IdleStands
   DEF Uncounted, Onward, Safely, Goes, Standing, Telling, At, Intake, Rests, Idle

LEMMA GoesOnward ==
  ASSUME NEW w \in Worker, NEW step, step \notin Intake, NEW phase, Goes(w, step, phase),
         phase = "notice" <=> lane[w].phase = "notice",
         step = "dispatch" => phase = "reply",
         step \in {"send", "effect", "ambiguous"} => phase = "send",
         step = "release" => phase = "pre",
         step \in {"suppress", "complete"} => phase = "notice"
  PROVE  Onward(w)
BY DEF Goes, Onward, Telling, Standing, At, Intake

LEMMA GrantedOnward ==
  ASSUME LanesTyped, NEW w \in Worker, Granted(w), KeyOf(w) \in Key,
         Counts(w) => ledger'[KeyOf(w)].status # "NONE"
  PROVE  Onward(w) /\ Safely(w)
<1>1. CASE Uncounted(w)
  BY <1>1, UncountedOnward
<1>2. CASE Counts(w) /\ Goes(w, "attempt", lane[w].phase)
  <2>1. Onward(w)
    BY <1>2, GoesOnward DEF Intake
  <2>2. KeyOf(w)' = KeyOf(w) /\ lane'[w].step = "attempt"
    BY <1>2 DEF Goes, Carries, KeyOf
  <2> QED
    BY <1>2, <2>1, <2>2 DEF Safely
<1> QED
  BY <1>1, <1>2, GrantedGoes

LEMMA DeniedOnward ==
  ASSUME LanesTyped, NEW w \in Worker, Denied(w)
  PROVE  Onward(w) /\ Safely(w)
<1>1. CASE Uncounted(w)
  BY <1>1, UncountedOnward
<1>2. CASE lane[w].phase = "notice" /\ Goes(w, "suppress", "notice")
  <2>1. Onward(w)
    BY <1>2, GoesOnward DEF Intake
  <2> QED
    BY <1>2, <2>1 DEF Safely, Goes
<1>3. CASE lane[w].phase = "pre" /\ Goes(w, "release", "pre")
  <2>1. Onward(w)
    BY <1>3, GoesOnward DEF Intake
  <2> QED
    BY <1>3, <2>1 DEF Safely, Goes
<1>4. CASE lane[w].phase = "send" /\ Goes(w, "send", "send")
  <2>1. Onward(w)
    BY <1>4, GoesOnward DEF Intake
  <2> QED
    BY <1>4, <2>1 DEF Safely, Goes
<1>5. CASE lane[w].phase = "send" /\ Goes(w, "read", "reply")
  <2>1. Onward(w)
    BY <1>5, GoesOnward DEF Intake
  <2> QED
    BY <1>5, <2>1 DEF Safely, Goes
<1> QED
  BY <1>1, <1>2, <1>3, <1>4, <1>5, DeniedGoes

LEMMA NextDocumentOnward ==
  ASSUME LanesTyped, NEW w \in Worker, lane[w].phase = "send", NextDocument(w)
  PROVE  Onward(w) /\ Safely(w)
<1>1. CASE Others(w) /\ Rests(w)
  BY <1>1, UncountedOnward DEF Uncounted
<1>2. CASE Goes(w, "send", "send")
  <2>1. Onward(w)
    BY <1>2, GoesOnward DEF Intake
  <2> QED
    BY <1>2, <2>1 DEF Safely, Goes
<1>3. CASE Goes(w, "read", "reply")
  <2>1. Onward(w)
    BY <1>3, GoesOnward DEF Intake
  <2> QED
    BY <1>3, <2>1 DEF Safely, Goes
<1> QED
  BY <1>1, <1>2, <1>3, NextDocumentGoes

\* A move to a step that neither marks nor calls the provider.
LEMMA PlainOnward ==
  ASSUME LanesTyped, NEW w \in Worker,
         NEW step \in {"read", "send", "settle", "ambiguous", "complete", "return"},
         NEW phase, Goes(w, step, phase),
         phase = "notice" <=> lane[w].phase = "notice",
         step \in {"send", "ambiguous"} => phase = "send",
         step = "complete" => phase = "notice"
  PROVE  Onward(w) /\ Safely(w)
<1>1. Onward(w)
  BY GoesOnward DEF Intake
<1> QED
  BY <1>1 DEF Safely, Goes

LEMMA ReserveOnward ==
  ASSUME TypeOK, PhaseUnits, NEW w \in Worker, Standing(w), Reserve(w), StatusesForward
  PROVE  Onward(w) /\ Safely(w) /\ lane[w].step \notin Intake
<1>0. LanesTyped /\ KeyOf(w) \in Key
  BY KeyOfLane DEF TypeOK, LanesTyped
<1>1. lane[w].step \notin Intake
  BY DEF Reserve, ReadKey, ShadowReserve, TakeUnit, TakeDuplicate, TakeBlocked,
         ReserveThrows, ReleaseNext, Released, At, Intake
<1>2. CASE ReadKey(w)
  <2>1. ASSUME ledger[KeyOf(w)].status \in {"NONE", "RELEASED"},
               lane' = [lane EXCEPT ![w].step = "take",
                                    ![w].day = IF lane[w].phase = "notice" THEN @ ELSE today]
        PROVE  Onward(w) /\ Safely(w)
    <3>1. /\ Others(w)
          /\ Carries(w)
          /\ lane'[w].step = "take"
          /\ lane'[w].phase = lane[w].phase
      BY <1>0, <2>1 DEF LanesTyped, Others, Carries, Telling, Lane
    <3> QED
      BY <3>1 DEF Onward, Safely, Telling, Standing, At, Intake
  <2>2. ASSUME ledger[KeyOf(w)].status \notin {"NONE", "RELEASED"}, Granted(w)
        PROVE  Onward(w) /\ Safely(w)
    <3>1. ledger'[KeyOf(w)].status # "NONE"
      BY <1>2, <2>2 DEF ReadKey, rows
    <3> QED
      BY <1>0, <2>2, <3>1, GrantedOnward
  <2> QED
    BY <1>1, <1>2, <2>1, <2>2 DEF ReadKey
<1>3. CASE ShadowReserve(w)
  <2>1. Granted(w) /\ ~Counts(w)
    BY <1>3 DEF ShadowReserve, Counts
  <2> QED
    BY <1>0, <1>1, <2>1, GrantedOnward
<1>4. CASE TakeUnit(w)
  <2>1. PICK k \in Key : k = KeyOf(w)
    BY <1>0
  <2>2. ledger'[k].status = "RESERVED"
    BY <1>4, <2>1 DEF TakeUnit, TypeOK
  <2>3. Granted(w)
    BY <1>4 DEF TakeUnit
  <2> QED
    BY <1>0, <1>1, <2>1, <2>2, <2>3, GrantedOnward
<1>5. CASE TakeDuplicate(w)
  <2>1. Granted(w) /\ ledger'[KeyOf(w)].status # "NONE"
    BY <1>5 DEF TakeDuplicate, rows
  <2> QED
    BY <1>0, <1>1, <2>1, GrantedOnward
<1>6. CASE TakeBlocked(w)
  BY <1>0, <1>1, <1>6, DeniedOnward DEF TakeBlocked
<1>7. CASE ReserveThrows(w)
  <2>1. CASE lane[w].policy.mode = "ENFORCE"
    BY <1>0, <1>1, <1>7, <2>1, DeniedOnward DEF ReserveThrows
  <2>2. CASE lane[w].policy.mode # "ENFORCE"
    BY <1>0, <1>1, <1>7, <2>2, GrantedOnward DEF ReserveThrows, Counts
  <2> QED
    BY <2>1, <2>2
<1>8. CASE ReleaseNext(w)
  <2>1. PICK i \in lane[w].pre : lane' = [lane EXCEPT ![w].pre = @ \ {i}]
    BY <1>8 DEF ReleaseNext
  <2>2. /\ Others(w)
        /\ Carries(w)
        /\ lane'[w].step = lane[w].step
        /\ lane'[w].phase = lane[w].phase
    BY <1>0, <2>1 DEF LanesTyped, Others, Carries, Lane
  <2>3. lane[w].step = "release"
    BY <1>8 DEF ReleaseNext, At
  <2> QED
    BY <1>1, <2>2, <2>3 DEF Onward, Safely, Telling, Standing, At, Intake
<1>9. CASE Released(w)
  <2>1. Goes(w, "read", "reply")
    BY <1>0, <1>9, WalkGoes DEF Released
  <2>2. lane[w].phase = "pre"
    BY <1>9 DEF Released, Standing
  <2> QED
    BY <1>0, <1>1, <2>1, <2>2, PlainOnward
<1> QED
  BY <1>2, <1>3, <1>4, <1>5, <1>6, <1>7, <1>8, <1>9 DEF Reserve

LEMMA SendOnward ==
  ASSUME TypeOK, PhaseUnits, NEW w \in Worker, Standing(w), Covered(w), Send(w),
         StatusesForward
  PROVE  Onward(w) /\ Safely(w) /\ lane[w].step \notin Intake
<1>0. LanesTyped /\ KeyOf(w) \in Key
  BY KeyOfLane DEF TypeOK, LanesTyped
<1>1. lane[w].step \notin Intake
  BY DEF Send, ChooseReply, ChooseDocuments, SkipDocument, StartDocument, StartAttempt,
         SendDocument, SendThrows, SettleDocument, SettleDocumentThrows, SettleTwiml,
         MarkAmbiguous, ReturnTwiml, At, Intake
<1>2. CASE ChooseReply(w)
  <2>1. Goes(w, "read", "reply")
    BY <1>0, <1>2, WalkGoes DEF ChooseReply
  <2>2. lane[w].phase = "reply"
    BY <1>2 DEF ChooseReply, Standing, At
  <2> QED
    BY <1>0, <1>1, <2>1, <2>2, PlainOnward
<1>3. CASE ChooseDocuments(w)
  <2>1. Goes(w, "read", "pre")
    BY <1>0, <1>3, WalkGoes DEF ChooseDocuments
  <2>2. lane[w].phase = "reply"
    BY <1>3 DEF ChooseDocuments, Standing, At
  <2> QED
    BY <1>0, <1>1, <2>1, <2>2, PlainOnward
<1>4. CASE SkipDocument(w) \/ SettleDocument(w) \/ MarkAmbiguous(w)
  <2>1. NextDocument(w) /\ lane[w].phase = "send"
    BY <1>4 DEF SkipDocument, SettleDocument, MarkAmbiguous, Standing, At
  <2> QED
    BY <1>0, <1>1, <2>1, NextDocumentOnward
<1>5. CASE StartDocument(w)
  <2>1. Goes(w, "read", lane[w].phase)
    BY <1>0, <1>5, GotoGoes DEF StartDocument
  <2> QED
    BY <1>0, <1>1, <2>1, PlainOnward
<1>6. CASE StartAttempt(w) /\ lane[w].phase = "send"
  <2>1. Goes(w, "effect", "send")
    BY <1>0, <1>6, GotoGoes DEF StartAttempt
  <2>2. Onward(w)
    BY <1>6, <2>1, GoesOnward DEF Intake
  <2>3. PICK k \in Key : k = KeyOf(w)
    BY <1>0
  <2>4. ledger[k].status # "NONE"
    BY <1>6, <2>3 DEF StartAttempt, Covered
  <2>5. ledger'[k].status = IF ledger[k].status = "RESERVED" THEN "ATTEMPT_STARTED"
                                                           ELSE ledger[k].status
    BY <1>6, <2>3 DEF StartAttempt, TypeOK, Reservation
  <2>6. KeyOf(w)' = KeyOf(w) /\ lane'[w].step = "effect"
    BY <2>1 DEF Goes, Carries, KeyOf
  <2>7. Moved(KeyOf(w))'
    BY <2>3, <2>4, <2>5, <2>6 DEF Moved
  <2> QED
    BY <1>1, <2>2, <2>6, <2>7 DEF Safely
<1>7. CASE StartAttempt(w) /\ lane[w].phase # "send"
  <2>1. Goes(w, "settle", lane[w].phase)
    BY <1>0, <1>7, GotoGoes DEF StartAttempt
  <2> QED
    BY <1>0, <1>1, <2>1, PlainOnward
<1>8. CASE SendDocument(w) \/ SendThrows(w) \/ SettleDocumentThrows(w)
  <2>1. lane[w].phase = "send"
    BY <1>8 DEF SendDocument, SendThrows, SettleDocumentThrows, Standing, At
  <2>2. CASE NextDocument(w)
    BY <1>0, <1>1, <2>1, <2>2, NextDocumentOnward
  <2>3. CASE Goto(w, "settle")
    <3>1. Goes(w, "settle", "send")
      BY <1>0, <2>1, <2>3, GotoGoes
    <3> QED
      BY <1>0, <1>1, <2>1, <3>1, PlainOnward
  <2>4. CASE Goto(w, "ambiguous")
    <3>1. Goes(w, "ambiguous", "send")
      BY <1>0, <2>1, <2>4, GotoGoes
    <3> QED
      BY <1>0, <1>1, <2>1, <3>1, PlainOnward
  <2> QED
    BY <1>8, <2>2, <2>3, <2>4 DEF SendDocument, SendThrows, SettleDocumentThrows
<1>9. CASE SettleTwiml(w)
  <2>1. CASE lane[w].phase = "notice"
    <3>1. Goes(w, "complete", "notice")
      BY <1>0, <1>9, <2>1, GotoGoes DEF SettleTwiml
    <3> QED
      BY <1>0, <1>1, <2>1, <3>1, PlainOnward
  <2>2. CASE lane[w].phase # "notice"
    <3>1. Goes(w, "return", lane[w].phase)
      BY <1>0, <1>9, <2>2, GotoGoes DEF SettleTwiml
    <3> QED
      BY <1>0, <1>1, <2>2, <3>1, PlainOnward
  <2> QED
    BY <2>1, <2>2
<1>10. CASE ReturnTwiml(w)
  <2>1. Others(w) /\ Rests(w)
    BY <1>0, <1>10, FinishRests DEF ReturnTwiml
  <2> QED
    BY <1>0, <1>1, <2>1, UncountedOnward DEF Uncounted
<1> QED
  BY <1>2, <1>3, <1>4, <1>5, <1>6, <1>7, <1>8, <1>9, <1>10 DEF Send

-----------------------------------------------------------------------------
(* Admission: how a lane comes to be entitled *)

\* The lane of a turn still in its intake, or let through to its sending.
Enters(w) ==
    /\ Others(w)
    /\ Standing(w)'
    /\ lane'[w].step \in Intake \cup {"dispatch"}
    /\ ~Telling(w)'
    /\ lane'[w].step = "again" => admission'[lane'[w].sid].decision # "NONE"
    /\ lane'[w].step = "dispatch" /\ Counts(w)' =>
          admission'[lane'[w].sid].decision \notin {"NONE", "REJECTED"}

LEMMA IntakeGoto ==
  ASSUME LanesTyped, NEW w \in Worker, NEW step, Goto(w, step), lane[w].phase = "reply",
         step \in Intake \cup {"dispatch"}
  PROVE  /\ Others(w)
         /\ Carries(w)
         /\ lane'[w].step = step
         /\ Standing(w)'
         /\ ~Telling(w)'
<1>1. Goes(w, step, "reply")
  BY GotoGoes
<1> QED
  BY <1>1 DEF Goes, Standing, Telling, At, Intake

LEMMA AdoptEnters ==
  ASSUME LanesTyped, NEW w \in Worker, NEW scope, Adopt(w, scope),
         lane[w].phase = "reply", UNCHANGED admission,
         admission[lane[w].sid].decision # "NONE"
  PROVE  Enters(w)
<1>1. /\ Others(w)
      /\ lane'[w].sid = lane[w].sid
      /\ lane'[w].phase = "reply"
      /\ lane'[w].step = IF admission[lane[w].sid].decision = "REJECTED"
                         THEN "notice" ELSE "dispatch"
  BY DEF LanesTyped, Adopt, Others, Lane
<1> QED
  BY <1>1 DEF Enters, Standing, Telling, At, Intake

LEMMA BeginEnters ==
  ASSUME LanesTyped, NEW w \in Worker, NEW s \in Sid, Begin(w, s)
  PROVE  Enters(w)
<1>1. lane' = [lane EXCEPT ![w] = [Idle EXCEPT !.step = "lookup", !.sid = s, !.day = today,
                                               !.policy = policy, !.scope = policy.mode]]
  BY DEF Begin
<1>2. /\ Others(w)
      /\ lane'[w].step = "lookup"
      /\ lane'[w].phase = "reply"
  BY <1>1 DEF LanesTyped, Others, Idle
<1> QED
  BY <1>2 DEF Enters, Standing, Telling, At, Intake

LEMMA AdmitEnters ==
  ASSUME TypeOK, PhaseUnits, NEW w \in Worker, Standing(w), Entitled(w), Admit(w)
  PROVE  Enters(w)
<1>0. LanesTyped
  BY DEF TypeOK, LanesTyped
<1>1. lane[w].phase = "reply"
  BY DEF Admit, Lookup, AdmitTurn, AdmitDuplicate, Again, AdmitBlocked, Refuse,
         ShadowTurn, AdmissionThrows, Standing, At, Intake
<1>2. CASE Lookup(w)
  <2>1. CASE admission[lane[w].sid].decision = "NONE"
    <3>1. Goto(w, "admit")
      BY <1>2, <2>1 DEF Lookup
    <3> QED
      BY <1>0, <1>1, <3>1, IntakeGoto DEF Enters, Intake
  <2>2. CASE admission[lane[w].sid].decision # "NONE"
    <3>1. Adopt(w, admission[lane[w].sid].mode) /\ UNCHANGED admission
      BY <1>2, <2>2 DEF Lookup, rows
    <3> QED
      BY <1>0, <1>1, <2>2, <3>1, AdoptEnters
  <2> QED
    BY <2>1, <2>2
<1>3. CASE AdmitTurn(w)
  <2>1. Goto(w, "dispatch")
    BY <1>3 DEF AdmitTurn
  <2>2. PICK s \in Sid : s = lane[w].sid
    BY DEF TypeOK, Lane
  <2>3. admission[s].decision = "NONE"
    BY <1>3, <2>2 DEF AdmitTurn
  <2>4. Decide(s, "ADMITTED", "ENFORCE", "NONE", lane[w].day)
    BY <1>3, <2>2 DEF AdmitTurn
  <2>5. admission'[s].decision = "ADMITTED"
    BY <2>3, <2>4 DEF Decide, TypeOK
  <2>6. lane'[w].sid = s /\ lane'[w].step = "dispatch" /\ Others(w) /\ Standing(w)'
          /\ ~Telling(w)'
    BY <1>0, <1>1, <2>1, <2>2, IntakeGoto DEF Carries
  <2> QED
    BY <2>5, <2>6 DEF Enters
<1>4. CASE AdmitDuplicate(w)
  <2>1. Goto(w, "again") /\ UNCHANGED admission
          /\ admission[lane[w].sid].decision # "NONE"
    BY <1>4 DEF AdmitDuplicate, rows
  <2> QED
    BY <1>0, <1>1, <2>1, IntakeGoto DEF Enters, Intake, Carries
<1>5. CASE Again(w)
  <2>1. Adopt(w, lane[w].policy.mode) /\ UNCHANGED admission
    BY <1>5 DEF Again, rows
  <2>2. admission[lane[w].sid].decision # "NONE"
    BY <1>5 DEF Again, Entitled
  <2> QED
    BY <1>0, <1>1, <2>1, <2>2, AdoptEnters
<1>6. CASE AdmitBlocked(w) \/ AdmissionThrows(w)
  <2>0. PICK step \in {"refuse", "notice"} :
          \E reason : lane' = [lane EXCEPT ![w].step = step, ![w].reason = reason]
    BY <1>6 DEF AdmitBlocked, AdmissionThrows
  <2>1. PICK reason : lane' = [lane EXCEPT ![w].step = step, ![w].reason = reason]
    BY <2>0
  <2>2. Others(w) /\ lane'[w].step = step /\ lane'[w].phase = "reply"
    BY <1>0, <1>1, <2>1 DEF LanesTyped, Others, Lane
  <2> QED
    BY <2>2 DEF Enters, Standing, Telling, At, Intake
<1>7. CASE Refuse(w)
  <2>1. Goto(w, "notice")
    BY <1>7 DEF Refuse
  <2> QED
    BY <1>0, <1>1, <2>1, IntakeGoto DEF Enters, Intake
<1>8. CASE ShadowTurn(w)
  <2>1. Goto(w, "dispatch") /\ ~Counts(w)
    BY <1>8 DEF ShadowTurn, Counts
  <2>2. Others(w) /\ Carries(w) /\ lane'[w].step = "dispatch" /\ Standing(w)'
          /\ ~Telling(w)'
    BY <1>0, <1>1, <2>1, IntakeGoto
  <2>3. ~Counts(w)'
    BY <2>1, <2>2 DEF Carries, Counts
  <2> QED
    BY <2>2, <2>3 DEF Enters
<1> QED
  BY <1>2, <1>3, <1>4, <1>5, <1>6, <1>7, <1>8 DEF Admit

-----------------------------------------------------------------------------
(* The course is kept, by the lane that moves and by the others *)

LEMMA StayersKeep ==
  ASSUME TypeOK, DecisionsStand, StatusesForward, NEW v \in Worker, lane'[v] = lane[v],
         Standing(v), Entitled(v), Covered(v)
  PROVE  Standing(v)' /\ Entitled(v)' /\ Covered(v)'
<1>1. PICK s \in Sid : s = lane[v].sid
  BY DEF TypeOK, Lane
<1>2. admission[s].decision # "NONE" => admission'[s] = admission[s]
  BY DEF DecisionsStand
<1>3. PICK k \in Key : k = KeyOf(v)
  BY KeyOfLane
<1>4. KeyOf(v)' = k
  BY <1>3 DEF KeyOf
<1>5. /\ ledger[k].status # "NONE" => ledger'[k].status # "NONE"
      /\ Moved(k) => Moved(k)'
  <2>1. Forward(ledger[k].status, ledger'[k].status)
    BY DEF StatusesForward
  <2> QED
    BY <2>1 DEF Forward, Spent, Moved
<1>6. Standing(v)'
  BY DEF Standing, At
<1>7. Entitled(v)'
  BY <1>1, <1>2 DEF Entitled, Sending, Counts, At
<1>8. Covered(v)'
  BY <1>3, <1>4, <1>5 DEF Covered, Counts, At, Moved
<1> QED
  BY <1>6, <1>7, <1>8

LEMMA EntersCourse ==
  ASSUME NEW w \in Worker, Enters(w)
  PROVE  Standing(w)' /\ Entitled(w)' /\ Covered(w)'
BY DEF Enters, Entitled, Covered, Sending, Counts, At, Intake

LEMMA RestsCourse ==
  ASSUME LanesTyped, NEW w \in Worker, Rests(w)
  PROVE  Standing(w)' /\ Entitled(w)' /\ Covered(w)'
BY IdleStands DEF Entitled, Covered, Sending, At, Intake

LEMMA OnwardCourse ==
  ASSUME TypeOK, PhaseUnits, DecisionsStand, NEW w \in Worker, Entitled(w),
         Onward(w), Safely(w), lane[w].step \notin Intake
  PROVE  Standing(w)' /\ Entitled(w)' /\ Covered(w)'
<1>1. CASE Rests(w)
  BY <1>1, RestsCourse DEF TypeOK, LanesTyped
<1>2. CASE /\ Carries(w)
           /\ Telling(w)' <=> Telling(w)
           /\ Standing(w)'
           /\ lane'[w].step \notin Intake
  <2>1. PICK s \in Sid : s = lane[w].sid
    BY DEF TypeOK, Lane
  <2>2. lane'[w].sid = s /\ (Counts(w)' <=> Counts(w))
    BY <1>2, <2>1 DEF Carries, Counts
  <2>3. Sending(w)' => Sending(w)
    BY <1>2, <2>2 DEF Sending, Telling
  <2>4. Entitled(w)'
    <3>1. ~At(w, "again")'
      BY <1>2 DEF At, Intake
    <3>2. ASSUME Sending(w)' PROVE admission'[s].decision \notin {"NONE", "REJECTED"}
      BY <2>1, <2>3, <3>2 DEF Entitled, DecisionsStand
    <3> QED
      BY <2>2, <3>1, <3>2 DEF Entitled
  <2>5. Covered(w)'
    BY <2>2 DEF Safely, Covered, At
  <2> QED
    BY <1>2, <2>4, <2>5
<1> QED
  BY <1>1, <1>2 DEF Onward

LEMMA CourseStep ==
  TypeOK /\ PhaseUnits /\ Course /\ [Next]_vars => Course'
<1> SUFFICES ASSUME TypeOK, PhaseUnits, Course, [Next]_vars PROVE Course'
  OBVIOUS
<1>0. LanesTyped /\ StatusesForward /\ DecisionsStand
  BY NextStatuses, NextDecisions DEF TypeOK, LanesTyped
<1>1. ASSUME NEW w \in Worker, Others(w), Standing(w)', Entitled(w)', Covered(w)'
      PROVE  Course'
  <2>1. ASSUME NEW v \in Worker \ {w} PROVE Standing(v)' /\ Entitled(v)' /\ Covered(v)'
    BY <1>0, <1>1, StayersKeep DEF Others, Course
  <2> QED
    BY <1>1, <2>1 DEF Course
<1>2. ASSUME NEW w \in Worker, NEW s \in Sid, Begin(w, s)
      PROVE  Course'
  BY <1>0, <1>1, <1>2, BeginEnters, EntersCourse DEF Enters
<1>3. ASSUME NEW w \in Worker, Admit(w)
      PROVE  Course'
  <2>1. Enters(w)
    BY <1>3, AdmitEnters DEF Course
  <2> QED
    BY <1>1, <2>1, EntersCourse DEF Enters
<1>4. ASSUME NEW w \in Worker, ClaimNotice(w)
      PROVE  Course'
  <2>1. lane' = [lane EXCEPT ![w].step = "read", ![w].phase = "notice", ![w].unit = Notice]
    BY <1>4 DEF ClaimNotice
  <2>2. Goes(w, "read", "notice")
    BY <1>0, <2>1, WalkGoes
  <2> QED
    BY <1>1, <2>2 DEF Goes, Standing, Entitled, Covered, Sending, At, Intake
<1>5. ASSUME NEW w \in Worker,
             StaySilent(w) \/ SuppressNotice(w) \/ CompleteNotice(w) \/ Crash(w)
      PROVE  Course'
  <2>1. Others(w) /\ Rests(w)
    BY <1>0, <1>5, FinishRests DEF StaySilent, SuppressNotice, CompleteNotice, Crash
  <2> QED
    BY <1>0, <1>1, <2>1, RestsCourse
<1>6. ASSUME NEW w \in Worker, Reserve(w) \/ Send(w)
      PROVE  Course'
  <2>1. Onward(w) /\ Safely(w) /\ lane[w].step \notin Intake
    BY <1>0, <1>6, ReserveOnward, SendOnward DEF Course
  <2>2. Standing(w)' /\ Entitled(w)' /\ Covered(w)'
    BY <1>0, <2>1, OnwardCourse DEF Course
  <2> QED
    BY <1>1, <2>1, <2>2 DEF Onward
<1>7. CASE \/ NextDay \/ (\E s \in Sid : BurstPasses(s))
           \/ (\E p \in Policy : ChangePolicy(p)) \/ UNCHANGED vars
  <2>1. UNCHANGED lane
    BY <1>7 DEF NextDay, BurstPasses, ChangePolicy, vars
  <2> QED
    BY <1>0, <2>1, StayersKeep DEF Course
<1> QED
  BY <1>2, <1>3, <1>4, <1>5, <1>6, <1>7 DEF Next, Notify

\* A key whose provider call was started stays a unit that has moved.
LEMMA AttemptsStep ==
  TypeOK /\ Course /\ AttemptsMoved /\ [Next]_vars => AttemptsMoved'
<1> SUFFICES ASSUME TypeOK, Course, AttemptsMoved, [Next]_vars, NEW k \in attempted'
             PROVE  Moved(k)'
  BY DEF AttemptsMoved
<1>1. k \in Key => (Moved(k) => Moved(k)')
  <2>1. StatusesForward
    BY NextStatuses
  <2>2. k \in Key => Forward(ledger[k].status, ledger'[k].status)
    BY <2>1 DEF StatusesForward
  <2> QED
    BY <2>2 DEF Forward, Spent, Moved
<1>2. CASE k \in attempted
  BY <1>1, <1>2 DEF AttemptsMoved, TypeOK
<1>3. CASE k \notin attempted
  <2>1. PICK w \in Worker : SendDocument(w) \/ SendThrows(w)
    <3>1. ASSUME UNCHANGED attempted PROVE FALSE
      BY <1>3, <3>1
    <3> QED
      BY <3>1
         DEF Next, vars, Begin, Admit, Lookup, AdmitTurn, AdmitDuplicate, Again,
             AdmitBlocked, Refuse, ShadowTurn, AdmissionThrows, Notify, ClaimNotice,
             StaySilent, SuppressNotice, CompleteNotice, Reserve, ReadKey, ShadowReserve,
             TakeUnit, TakeDuplicate, TakeBlocked, ReserveThrows, ReleaseNext, Released,
             Send, ChooseReply, ChooseDocuments, SkipDocument, StartDocument,
             StartAttempt, SettleDocument, SettleDocumentThrows, SettleTwiml,
             MarkAmbiguous, ReturnTwiml, Crash, NextDay, BurstPasses, ChangePolicy, history
  <2>2. k = KeyOf(w) /\ Counts(w) /\ At(w, "effect")
    BY <1>3, <2>1 DEF SendDocument, SendThrows
  <2>3. Moved(k) /\ k \in Key
    BY <2>2, KeyOfLane DEF Course, Covered
  <2> QED
    BY <1>1, <2>3
<1> QED
  BY <1>2, <1>3

-----------------------------------------------------------------------------
(* The notices: who tells the limit holds the row, alone *)

LEMMA EpisodeOfLane ==
  ASSUME TypeOK, NEW w \in Worker, lane[w].reason # "NONE"
  PROVE  EpisodeOf(w) \in Episode
<1>1. lane[w].sid \in Sid /\ lane[w].day \in Day /\ lane[w].reason \in Reason
  BY DEF TypeOK, Lane
<1>2. EmployeeOf[lane[w].sid] \in Employee
  BY <1>1, QuotaAssumption
<1> QED
  BY <1>1, <1>2 DEF EpisodeOf, Episode

\* A step that leaves the notices alone and makes nobody a teller.
LEMMA QuietNotices ==
  ASSUME NoticesHeld, UNCHANGED <<notice, told>>,
         \A v \in Worker : Telling(v)' => Telling(v) /\ EpisodeOf(v)' = EpisodeOf(v)
  PROVE  NoticesHeld'
<1>1. OneNoticePerEpisode'
  BY DEF NoticesHeld, OneNoticePerEpisode
<1>2. ASSUME NEW w \in Worker, Telling(w)'
      PROVE  TellsAlone(w)'
  <2>1. Telling(w) /\ EpisodeOf(w)' = EpisodeOf(w)
    BY <1>2
  <2>2. notice'[EpisodeOf(w)'] = "RESERVED"
    BY <2>1 DEF NoticesHeld, TellsAlone
  <2>3. ASSUME NEW v \in Worker, Telling(v)', EpisodeOf(v)' = EpisodeOf(w)'
        PROVE  v = w
    BY <2>1, <2>3 DEF NoticesHeld, TellsAlone
  <2> QED
    BY <2>2, <2>3 DEF TellsAlone
<1>3. ASSUME NEW w \in Worker, ~Telling(w)'
      PROVE  TellsAlone(w)'
  BY <1>3 DEF TellsAlone
<1> QED
  BY <1>1, <1>2, <1>3 DEF NoticesHeld

\* A refusal has a reason, on record and in the lane that tells it: without one
\* there would be no episode to hold.
Reasoned(w) ==
    lane[w].step \in {"refuse", "notice"} \/ Telling(w) => lane[w].reason # "NONE"

RefusedForReason ==
    \A s \in Sid : admission[s].decision = "REJECTED" => admission[s].reason # "NONE"

Reasons == RefusedForReason /\ \A w \in Worker : Reasoned(w)

LEMMA ReasonsOnRecord ==
  TypeOK /\ Reasons /\ [Next]_vars => RefusedForReason'
<1> SUFFICES ASSUME TypeOK, Reasons, [Next]_vars PROVE RefusedForReason'
  OBVIOUS
<1>1. ASSUME NEW w \in Worker, AdmitTurn(w) \/ Refuse(w) \/ ShadowTurn(w)
      PROVE  RefusedForReason'
  <2>1. PICK s, decision, mode, reason, day :
          /\ Decide(s, decision, mode, reason, day)
          /\ decision = "REJECTED" => reason # "NONE"
    <3>1. CASE AdmitTurn(w)
      BY <3>1 DEF AdmitTurn
    <3>2. CASE Refuse(w)
      BY <3>2 DEF Refuse, Reasons, Reasoned, At
    <3>3. CASE ShadowTurn(w)
      BY <3>3 DEF ShadowTurn
    <3> QED
      BY <1>1, <3>1, <3>2, <3>3
  <2> QED
    BY <2>1 DEF Decide, RefusedForReason, Reasons, TypeOK
<1>2. CASE UNCHANGED admission
  BY <1>2 DEF RefusedForReason, Reasons
<1> QED
  BY <1>1, <1>2
     DEF Next, vars, Begin, Admit, Lookup, AdmitDuplicate, Again, AdmitBlocked,
         AdmissionThrows, Notify, ClaimNotice, StaySilent, SuppressNotice,
         CompleteNotice, Reserve, ReadKey, ShadowReserve, TakeUnit, TakeDuplicate,
         TakeBlocked, ReserveThrows, ReleaseNext, Released, Send, ChooseReply,
         ChooseDocuments, SkipDocument, StartDocument, StartAttempt, SendDocument,
         SendThrows, SettleDocument, SettleDocumentThrows, SettleTwiml, MarkAmbiguous,
         ReturnTwiml, Crash, NextDay, BurstPasses, ChangePolicy, rows

LEMMA AdoptReasoned ==
  ASSUME LanesTyped, Reasons, NEW w \in Worker, NEW scope, Adopt(w, scope),
         lane[w].phase = "reply", lane[w].sid \in Sid
  PROVE  Others(w) /\ Reasoned(w)'
<1>1. /\ Others(w)
      /\ lane'[w].phase = "reply"
      /\ lane'[w].reason = admission[lane[w].sid].reason
      /\ lane'[w].step = IF admission[lane[w].sid].decision = "REJECTED"
                         THEN "notice" ELSE "dispatch"
  BY DEF LanesTyped, Adopt, Others, Lane
<1> QED
  BY <1>1 DEF Reasoned, Reasons, RefusedForReason, Telling

LEMMA AdmitReasoned ==
  ASSUME TypeOK, PhaseUnits, Reasons, NEW w \in Worker, Standing(w), Admit(w)
  PROVE  Others(w) /\ Reasoned(w)'
<1>0. LanesTyped /\ lane[w].sid \in Sid
  BY DEF TypeOK, LanesTyped, Lane
<1>1. lane[w].phase = "reply"
  BY DEF Admit, Lookup, AdmitTurn, AdmitDuplicate, Again, AdmitBlocked, Refuse,
         ShadowTurn, AdmissionThrows, Standing, At, Intake
<1>2. CASE \E scope : Adopt(w, scope)
  BY <1>0, <1>1, <1>2, AdoptReasoned
<1>3. ASSUME NEW step \in {"admit", "dispatch", "again"}, Goto(w, step)
      PROVE  Others(w) /\ Reasoned(w)'
  <2>1. Others(w) /\ lane'[w].step = step /\ ~Telling(w)'
    BY <1>0, <1>1, <1>3, IntakeGoto DEF Intake
  <2> QED
    BY <2>1 DEF Reasoned
<1>4. CASE Refuse(w)
  <2>1. Others(w) /\ Carries(w) /\ lane'[w].step = "notice"
    BY <1>0, <1>1, <1>4, IntakeGoto DEF Refuse, Intake
  <2>2. lane[w].reason # "NONE"
    BY <1>4 DEF Refuse, Reasons, Reasoned, At
  <2> QED
    BY <2>1, <2>2 DEF Reasoned, Carries
<1>5. CASE AdmitBlocked(w) \/ AdmissionThrows(w)
  <2>1. PICK step \in Step, reason \in Reason :
          lane' = [lane EXCEPT ![w].step = step, ![w].reason = reason]
    BY <1>5 DEF AdmitBlocked, AdmissionThrows, Step, Reason
  <2>2. Others(w) /\ lane'[w].reason # "NONE"
    BY <1>0, <2>1 DEF LanesTyped, Others, Lane, Reason
  <2> QED
    BY <2>2 DEF Reasoned
<1> QED
  BY <1>2, <1>3, <1>4, <1>5
     DEF Admit, Lookup, AdmitTurn, AdmitDuplicate, Again, ShadowTurn

LEMMA ReasonsStep ==
  TypeOK /\ PhaseUnits /\ Course /\ Reasons /\ [Next]_vars => Reasons'
<1> SUFFICES ASSUME TypeOK, PhaseUnits, Course, Reasons, [Next]_vars PROVE Reasons'
  OBVIOUS
<1>0. LanesTyped /\ StatusesForward /\ RefusedForReason'
  BY NextStatuses, ReasonsOnRecord DEF TypeOK, LanesTyped
<1>1. ASSUME NEW w \in Worker, Others(w), Reasoned(w)'
      PROVE  Reasons'
  <2>1. ASSUME NEW v \in Worker \ {w} PROVE Reasoned(v)'
    BY <1>1 DEF Others, Reasons, Reasoned, Telling
  <2> QED
    BY <1>0, <1>1, <2>1 DEF Reasons
<1>2. ASSUME NEW w \in Worker, Others(w), Rests(w)
      PROVE  Reasons'
  <2>1. Reasoned(w)'
    BY <1>0, <1>2, IdleStands DEF Reasoned
  <2> QED
    BY <1>1, <1>2, <2>1
<1>3. ASSUME NEW w \in Worker, NEW s \in Sid, Begin(w, s)
      PROVE  Reasons'
  <2>1. lane' = [lane EXCEPT ![w] = [Idle EXCEPT !.step = "lookup", !.sid = s,
                                      !.day = today, !.policy = policy,
                                      !.scope = policy.mode]]
    BY <1>3 DEF Begin
  <2>2. Others(w) /\ lane'[w].step = "lookup" /\ lane'[w].phase = "reply"
    BY <1>0, <2>1 DEF LanesTyped, Others, Idle
  <2>3. Reasoned(w)'
    BY <2>2 DEF Reasoned, Telling
  <2> QED
    BY <1>1, <2>2, <2>3
<1>4. ASSUME NEW w \in Worker, Admit(w)
      PROVE  Reasons'
  BY <1>1, <1>4, AdmitReasoned DEF Course
<1>5. ASSUME NEW w \in Worker, ClaimNotice(w)
      PROVE  Reasons'
  <2>1. lane' = [lane EXCEPT ![w].step = "read", ![w].phase = "notice", ![w].unit = Notice]
    BY <1>5 DEF ClaimNotice
  <2>2. Others(w) /\ lane'[w].reason = lane[w].reason
    BY <1>0, <2>1 DEF LanesTyped, Others, Lane
  <2>3. lane[w].reason # "NONE"
    BY <1>5 DEF ClaimNotice, Reasons, Reasoned, At
  <2>4. Reasoned(w)'
    BY <2>2, <2>3 DEF Reasoned
  <2> QED
    BY <1>1, <2>2, <2>4
<1>6. ASSUME NEW w \in Worker,
             StaySilent(w) \/ SuppressNotice(w) \/ CompleteNotice(w) \/ Crash(w)
      PROVE  Reasons'
  BY <1>0, <1>2, <1>6, FinishRests DEF StaySilent, SuppressNotice, CompleteNotice, Crash
<1>7. ASSUME NEW w \in Worker, Reserve(w) \/ Send(w)
      PROVE  Reasons'
  <2>1. Onward(w)
    BY <1>0, <1>7, ReserveOnward, SendOnward DEF Course
  <2>2. CASE Others(w) /\ Carries(w) /\ (Telling(w)' <=> Telling(w))
             /\ lane'[w].step \notin Intake
    <3>1. Reasoned(w)'
      BY <2>2 DEF Reasons, Reasoned, Carries, Intake
    <3> QED
      BY <1>1, <2>2, <3>1
  <2> QED
    BY <1>2, <2>1, <2>2 DEF Onward
<1>8. CASE \/ NextDay \/ (\E s \in Sid : BurstPasses(s))
           \/ (\E p \in Policy : ChangePolicy(p)) \/ UNCHANGED vars
  <2>1. UNCHANGED lane
    BY <1>8 DEF NextDay, BurstPasses, ChangePolicy, vars
  <2> QED
    BY <1>0, <2>1 DEF Reasons, Reasoned, Telling
<1> QED
  BY <1>3, <1>4, <1>5, <1>6, <1>7, <1>8 DEF Next, Notify

LEMMA ClaimHolds ==
  ASSUME TypeOK, Reasons, NoticesHeld, NEW w \in Worker, ClaimNotice(w)
  PROVE  NoticesHeld'
<1>1. lane[w].reason # "NONE"
  BY DEF ClaimNotice, Reasons, Reasoned, At
<1>2. PICK e \in Episode : e = EpisodeOf(w)
  BY <1>1, EpisodeOfLane
<1>3. /\ notice[e] = "NONE"
      /\ notice'[e] = "RESERVED"
      /\ \A x \in Episode \ {e} : notice'[x] = notice[x]
      /\ told' = told
  BY <1>2 DEF ClaimNotice, TypeOK, history
<1>4. lane' = [lane EXCEPT ![w].step = "read", ![w].phase = "notice", ![w].unit = Notice]
  BY DEF ClaimNotice
<1>5. Others(w) /\ EpisodeOf(w)' = e
  <2>1. /\ Others(w)
        /\ lane'[w].sid = lane[w].sid
        /\ lane'[w].reason = lane[w].reason
        /\ lane'[w].day = lane[w].day
    BY <1>4 DEF TypeOK, Others, Lane
  <2> QED
    BY <1>2, <2>1 DEF EpisodeOf
<1>6. ASSUME NEW v \in Worker \ {w}, Telling(v)'
      PROVE  /\ Telling(v)
             /\ EpisodeOf(v)' = EpisodeOf(v)
             /\ EpisodeOf(v) \in Episode \ {e}
             /\ notice[EpisodeOf(v)] = "RESERVED"
  <2>1. Telling(v) /\ EpisodeOf(v)' = EpisodeOf(v)
    BY <1>5, <1>6 DEF Others, Telling, EpisodeOf
  <2>2. EpisodeOf(v) \in Episode
    BY <2>1, EpisodeOfLane DEF Reasons, Reasoned
  <2>3. notice[EpisodeOf(v)] = "RESERVED"
    BY <2>1 DEF NoticesHeld, TellsAlone
  <2> QED
    BY <1>3, <2>1, <2>2, <2>3
<1>7. ASSUME NEW v \in Worker, Telling(v)'
      PROVE  TellsAlone(v)'
  <2>1. notice'[EpisodeOf(v)'] = "RESERVED"
    <3>1. CASE v = w
      BY <1>3, <1>5, <3>1
    <3>2. CASE v # w
      <4>1. PICK x \in Episode \ {e} : x = EpisodeOf(v)'
        BY <1>6, <1>7, <3>2
      <4>2. notice'[x] = notice[x] /\ notice[x] = "RESERVED"
        BY <1>3, <1>6, <1>7, <3>2, <4>1
      <4> QED
        BY <4>1, <4>2
    <3> QED
      BY <3>1, <3>2
  <2>2. ASSUME NEW u \in Worker, Telling(u)', EpisodeOf(u)' = EpisodeOf(v)'
        PROVE  u = v
    <3>1. CASE u = w
      BY <1>5, <1>6, <1>7, <2>2, <3>1
    <3>2. CASE v = w
      BY <1>5, <1>6, <2>2, <3>2
    <3>3. CASE u # w /\ v # w
      BY <1>6, <1>7, <2>2, <3>3 DEF NoticesHeld, TellsAlone
    <3> QED
      BY <3>1, <3>2, <3>3
  <2> QED
    BY <2>1, <2>2 DEF TellsAlone
<1>8. ASSUME NEW v \in Worker, ~Telling(v)'
      PROVE  TellsAlone(v)'
  BY <1>8 DEF TellsAlone
<1>9. OneNoticePerEpisode'
  BY <1>3 DEF NoticesHeld, OneNoticePerEpisode
<1> QED
  BY <1>7, <1>8, <1>9 DEF NoticesHeld

LEMMA ConcludeHolds ==
  ASSUME TypeOK, Course, Reasons, NoticesHeld, NEW w \in Worker,
         SuppressNotice(w) \/ CompleteNotice(w)
  PROVE  NoticesHeld'
<1>1. Telling(w)
  BY DEF SuppressNotice, CompleteNotice, Course, Standing, Telling, At
<1>2. PICK e \in Episode : e = EpisodeOf(w)
  BY <1>1, EpisodeOfLane DEF Reasons, Reasoned
<1>3. notice[e] = "RESERVED" /\ told[e] = 0
  BY <1>1, <1>2 DEF NoticesHeld, TellsAlone, OneNoticePerEpisode
<1>4. /\ \A x \in Episode \ {e} : notice'[x] = notice[x] /\ told'[x] = told[x]
      /\ told'[e] = IF notice'[e] = "SENT" THEN 1 ELSE 0
  <2>1. CASE SuppressNotice(w)
    <3>1. notice' = [notice EXCEPT ![e] = "SUPPRESSED"] /\ told' = told
      BY <1>2, <1>3, <2>1 DEF SuppressNotice, Conclude, history
    <3> QED
      BY <1>3, <3>1 DEF TypeOK
  <2>2. CASE CompleteNotice(w)
    <3>1. notice' = [notice EXCEPT ![e] = "SENT"] /\ told' = [told EXCEPT ![e] = @ + 1]
      BY <1>2, <1>3, <2>2 DEF CompleteNotice, Conclude
    <3> QED
      BY <1>3, <3>1 DEF TypeOK
  <2> QED
    BY <2>1, <2>2
<1>5. Others(w) /\ Rests(w)
  BY DEF SuppressNotice, CompleteNotice, TypeOK, Finish, Others, Rests
<1>6. ~Telling(w)'
  BY <1>5 DEF Rests, Idle, Telling
<1>7. ASSUME NEW v \in Worker, Telling(v)'
      PROVE  /\ v # w
             /\ Telling(v)
             /\ EpisodeOf(v)' = EpisodeOf(v)
             /\ EpisodeOf(v) \in Episode \ {e}
             /\ notice[EpisodeOf(v)] = "RESERVED"
  <2>1. v # w /\ Telling(v) /\ EpisodeOf(v)' = EpisodeOf(v)
    BY <1>5, <1>6, <1>7 DEF Others, Telling, EpisodeOf
  <2>2. EpisodeOf(v) \in Episode
    BY <2>1, EpisodeOfLane DEF Reasons, Reasoned
  <2>3. notice[EpisodeOf(v)] = "RESERVED"
    BY <2>1 DEF NoticesHeld, TellsAlone
  <2>4. EpisodeOf(v) # e
    BY <1>1, <1>2, <2>1 DEF NoticesHeld, TellsAlone
  <2> QED
    BY <2>1, <2>2, <2>3, <2>4
<1>8. ASSUME NEW v \in Worker, Telling(v)'
      PROVE  TellsAlone(v)'
  <2>1. notice'[EpisodeOf(v)'] = "RESERVED"
    <3>1. PICK x \in Episode \ {e} : x = EpisodeOf(v)'
      BY <1>7, <1>8
    <3>2. notice'[x] = notice[x] /\ notice[x] = "RESERVED"
      BY <1>4, <1>7, <1>8, <3>1
    <3> QED
      BY <3>1, <3>2
  <2>2. ASSUME NEW u \in Worker, Telling(u)', EpisodeOf(u)' = EpisodeOf(v)'
        PROVE  u = v
    BY <1>7, <1>8, <2>2 DEF NoticesHeld, TellsAlone
  <2> QED
    BY <2>1, <2>2 DEF TellsAlone
<1>9. ASSUME NEW v \in Worker, ~Telling(v)'
      PROVE  TellsAlone(v)'
  BY <1>9 DEF TellsAlone
<1>10. OneNoticePerEpisode'
  BY <1>4 DEF NoticesHeld, OneNoticePerEpisode
<1> QED
  BY <1>8, <1>9, <1>10 DEF NoticesHeld

LEMMA NoticesStep ==
  TypeOK /\ PhaseUnits /\ Course /\ Reasons /\ NoticesHeld /\ [Next]_vars => NoticesHeld'
<1> SUFFICES ASSUME TypeOK, PhaseUnits, Course, Reasons, NoticesHeld, [Next]_vars
             PROVE  NoticesHeld'
  OBVIOUS
<1>0. LanesTyped /\ StatusesForward
  BY NextStatuses DEF TypeOK, LanesTyped
<1>1. ASSUME NEW w \in Worker, Others(w), UNCHANGED <<notice, told>>,
             Telling(w)' => Telling(w) /\ EpisodeOf(w)' = EpisodeOf(w)
      PROVE  NoticesHeld'
  <2>1. ASSUME NEW v \in Worker \ {w}, Telling(v)'
        PROVE  Telling(v) /\ EpisodeOf(v)' = EpisodeOf(v)
    BY <1>1, <2>1 DEF Others, Telling, EpisodeOf
  <2> QED
    BY <1>1, <2>1, QuietNotices
<1>2. ASSUME NEW w \in Worker, (\E s \in Sid : Begin(w, s)) \/ Admit(w)
      PROVE  NoticesHeld'
  <2>1. Enters(w)
    BY <1>0, <1>2, BeginEnters, AdmitEnters DEF Course
  <2>2. UNCHANGED <<notice, told>>
    BY <1>2 DEF Begin, Admit, Lookup, AdmitTurn, AdmitDuplicate, Again, AdmitBlocked,
                Refuse, ShadowTurn, AdmissionThrows, rows, history
  <2> QED
    BY <1>1, <2>1, <2>2 DEF Enters
<1>3. ASSUME NEW w \in Worker, StaySilent(w) \/ Crash(w)
      PROVE  NoticesHeld'
  <2>1. Others(w) /\ Rests(w)
    BY <1>0, <1>3, FinishRests DEF StaySilent, Crash
  <2>2. ~Telling(w)' /\ UNCHANGED <<notice, told>>
    BY <1>0, <1>3, <2>1, IdleStands DEF StaySilent, Crash, rows, history
  <2> QED
    BY <1>1, <2>1, <2>2
<1>4. ASSUME NEW w \in Worker, ClaimNotice(w) \/ SuppressNotice(w) \/ CompleteNotice(w)
      PROVE  NoticesHeld'
  BY <1>4, ClaimHolds, ConcludeHolds
<1>5. ASSUME NEW w \in Worker, Reserve(w) \/ Send(w)
      PROVE  NoticesHeld'
  <2>1. Onward(w)
    BY <1>0, <1>5, ReserveOnward, SendOnward DEF Course
  <2>2. UNCHANGED <<notice, told>>
    BY <1>5
       DEF Reserve, ReadKey, ShadowReserve, TakeUnit, TakeDuplicate, TakeBlocked,
           ReserveThrows, ReleaseNext, Released, Send, ChooseReply, ChooseDocuments,
           SkipDocument, StartDocument, StartAttempt, SendDocument, SendThrows,
           SettleDocument, SettleDocumentThrows, SettleTwiml, MarkAmbiguous,
           ReturnTwiml, rows, history
  <2>3. CASE Others(w) /\ Rests(w)
    BY <1>0, <1>1, <2>2, <2>3, IdleStands
  <2>4. CASE Others(w) /\ Carries(w) /\ (Telling(w)' <=> Telling(w))
    <3>1. Telling(w) => EpisodeOf(w)' = EpisodeOf(w)
      BY <2>4 DEF Carries, EpisodeOf
    <3> QED
      BY <1>1, <2>2, <2>4, <3>1
  <2> QED
    BY <2>1, <2>3, <2>4 DEF Onward
<1>6. CASE \/ NextDay \/ (\E s \in Sid : BurstPasses(s))
           \/ (\E p \in Policy : ChangePolicy(p)) \/ UNCHANGED vars
  <2>1. UNCHANGED <<lane, notice, told>>
    BY <1>6 DEF NextDay, BurstPasses, ChangePolicy, vars, rows, history
  <2> QED
    BY <2>1, QuietNotices DEF Telling, EpisodeOf
<1> QED
  BY <1>2, <1>3, <1>4, <1>5, <1>6 DEF Next, Notify

-----------------------------------------------------------------------------
(* The second invariant, and the theorems it carries *)

TInv == Course /\ AttemptsMoved /\ Reasons /\ NoticesHeld

LEMMA InitTInv == Init => TInv
<1> SUFFICES ASSUME Init PROVE TInv
  OBVIOUS
<1>1. \A w \in Worker : lane[w] = Idle
  BY DEF Init
<1>2. Idle.step = "idle" /\ Idle.phase = "reply"
  BY DEF Idle
<1>3. Course
  BY <1>1, <1>2 DEF Course, Standing, Entitled, Covered, Sending, At, Intake
<1>4. Reasons
  BY <1>1, <1>2 DEF Init, Reasons, RefusedForReason, Reasoned, Telling
<1>5. NoticesHeld
  BY <1>1, <1>2 DEF Init, NoticesHeld, TellsAlone, Telling, OneNoticePerEpisode
<1>6. AttemptsMoved
  BY DEF Init, AttemptsMoved
<1> QED
  BY <1>3, <1>4, <1>5, <1>6 DEF TInv

LEMMA TurnsInvariance == Spec => [](IInv /\ TInv)
<1>1. Init => IInv /\ TInv
  BY InitIInv, InitTInv
<1>2. IInv /\ TInv /\ [Next]_vars => (IInv /\ TInv)'
  <2> SUFFICES ASSUME IInv, TInv, [Next]_vars PROVE IInv' /\ TInv'
    OBVIOUS
  <2>1. IInv'
    BY StepIInv
  <2>2. TInv'
    BY CourseStep, AttemptsStep, ReasonsStep, NoticesStep DEF IInv, TInv
  <2> QED
    BY <2>1, <2>2
<1> QED
  BY <1>1, <1>2, PTL DEF Spec

\* No turn sends under ENFORCE without a decision on record that lets it, however
\* many lanes take it up and however the settings change meanwhile
\* (admitNonCriticalTurn, findTurnAdmission, insertTurnDecision).
THEOREM SendersHaveDecision == Spec => []SendersAreAdmitted
<1>1. IInv /\ TInv => SendersAreAdmitted
  BY DEF TInv, Course, Entitled, Sending, SendersAreAdmitted, Intake
<1> QED
  BY <1>1, TurnsInvariance, PTL

\* The limit of an episode is told once at most, and then the notice is SENT, for
\* any number of turns refused together (claimLimitNotice, completeLimitNotice).
THEOREM NoticesAreSingle == Spec => []OneNoticePerEpisode
<1>1. IInv /\ TInv => OneNoticePerEpisode
  BY DEF TInv, NoticesHeld
<1> QED
  BY <1>1, TurnsInvariance, PTL

\* No reservation goes back: a released, an ambiguous or a spent unit never
\* becomes reserved again (the guards of the UPDATEs on the reservations).
THEOREM UnitsGoForward == Spec => [][StatusesForward]_vars
<1>1. IInv /\ [Next]_vars => [StatusesForward]_vars
  BY NextStatuses DEF IInv
<1> QED
  BY <1>1, Invariance, PTL DEF Spec

\* The first decision about a MessageSid is the one on record for good
\* (insertTurnDecision).
THEOREM DecisionsAreFinal == Spec => [][DecisionsStand]_vars
<1>1. IInv /\ [Next]_vars => [DecisionsStand]_vars
  BY NextDecisions DEF IInv
<1> QED
  BY <1>1, Invariance, PTL DEF Spec

\* A unit whose provider call was started is never given back, for any number of
\* lanes on one key (releaseOutboundIfReserved, markOutboundAttemptStarted).
THEOREM RefundsAreEarly == Spec => RefundOnlyBeforeEffect
<1> DEFINE NoRefund == \A k \in attempted :
                          ledger'[k].status = "RELEASED" => ledger[k].status = "RELEASED"
<1>1. IInv /\ TInv /\ [Next]_vars => [NoRefund]_vars
  <2> SUFFICES ASSUME IInv, TInv, [Next]_vars, NEW k \in attempted,
                      ledger'[k].status = "RELEASED"
               PROVE  ledger[k].status = "RELEASED"
    OBVIOUS
  <2>1. k \in Key /\ Moved(k)
    BY DEF IInv, TypeOK, TInv, AttemptsMoved
  <2>2. Forward(ledger[k].status, ledger'[k].status)
    BY <2>1, NextStatuses DEF IInv, StatusesForward
  <2> QED
    BY <2>1, <2>2 DEF Forward, Moved, Spent
<1>2. Spec => [][NoRefund]_vars
  BY <1>1, TurnsInvariance, PTL DEF Spec
<1> QED
  BY <1>2 DEF RefundOnlyBeforeEffect
=============================================================================
