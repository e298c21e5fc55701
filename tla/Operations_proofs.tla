--------------------------- MODULE Operations_proofs ---------------------------
(***************************************************************************)
(* Theorems about four of the components MCOperations puts side by side,   *)
(* DocumentDelivery, CompanyDeletion, VacancyCoverage and ReportRun, for   *)
(* every set of receipts, requests, operators, companies, employees,       *)
(* managers, recipients, processes and administrators and every bound.     *)
(*                                                                         *)
(* The deliveries of a query implement OneEffect.  The invariant says what *)
(* the fence of token and version is worth: the claims of one row bear     *)
(* different versions, the row has reached each of them, and whoever is    *)
(* sending holds the row's own.                                            *)
(*                                                                         *)
(* A tombstone is put on nothing but an emptied company.  The invariant    *)
(* says what the stage in a company's row and the stage its owner is in    *)
(* are worth: the data of every stage before it is gone, whatever a purge  *)
(* that was overtaken is still doing.                                      *)
(*                                                                         *)
(* A manager's button puts one employee in the place of one other, and     *)
(* what it means never changes.                                            *)
(*                                                                         *)
(* A report is recorded as sent only when it was mailed.  The invariant    *)
(* says what a delivery is worth to whoever holds it - one of the last     *)
(* snapshot, or its recipient has been mailed - and what the holder of the *)
(* run knows when it has found everything sent.                            *)
(***************************************************************************)
EXTENDS DocumentDelivery, CompanyDeletion, VacancyCoverage, ReportRun,
        FiniteSetTheorems, WellFoundedInduction, TLAPS

-----------------------------------------------------------------------------
(* DocumentDelivery *)

\* A request that has claimed a row and not left it.
ClaimStep == {"authorize", "fail", "begin"} \cup SendingStep
Claims(q, r) == lane[q].step \in ClaimStep /\ Mine(q) = r

\* What a request knows of the row it claimed.
LaneFits(q) ==
    LET r == Mine(q) IN
    /\ lane[q].step \in ClaimStep => lane[q].version <= docRow[r].version
    /\ lane[q].step \in SendingStep => Holds(q, "SEND_STARTED")
    /\ LaneAt(q, "call") => delivered[r] = 0
    /\ lane[q].step \in {"taken", "accept", "doubtKnown"} => delivered[r] = 1

Apart ==
    \A p, q \in Request, r \in Receipt :
        p # q /\ Claims(p, r) /\ Claims(q, r) => lane[p].version # lane[q].version

\* What a row says of the document.
RowFits(r) ==
    /\ delivered[r] \in {0, 1}
    /\ docRow[r].status \in {"ABSENT", "PENDING", "PROCESSING", "FAILED"} => delivered[r] = 0
    /\ docRow[r].status = "ACCEPTED" \/ docRow[r].sid => delivered[r] = 1

Fenced ==
    /\ \A q \in Request : LaneFits(q)
    /\ Apart
    /\ \A r \in Receipt : RowFits(r)

LEMMA Bounds == MaxVersion \in Nat /\ MaxChanges \in Nat /\ MaxFaults \in Nat
BY DocumentAssumption

-----------------------------------------------------------------------------
(* Types *)

LEMMA NextReceiptIn == \A q : lane[q].todo # {} => NextReceipt(q) \in lane[q].todo
BY DEF NextReceipt

LEMMA LaneTyped ==
  ASSUME NEW q \in Request, lane \in [Request -> Lane], NEW x \in Lane
  PROVE  [lane EXCEPT ![q] = x] \in [Request -> Lane]
OBVIOUS

LEMMA GotoTyped ==
  ASSUME DocTypeOK, NEW q \in Request, NEW step \in DocStep, LaneTo(q, step)
  PROVE  lane' \in [Request -> Lane]
BY DEF DocTypeOK, LaneTo, Lane

LEMMA EndsTyped ==
  ASSUME DocTypeOK, NEW q \in Request, NEW step \in DocStep, LaneEnds(q, step)
  PROVE  lane' \in [Request -> Lane]
<1> DEFINE x == [lane[q] EXCEPT !.step = step, !.listed = {}, !.todo = {}, !.version = 0]
<1>1. x \in Lane
  <2>1. lane[q] \in Lane /\ 0 \in 0 .. MaxVersion
    BY Bounds DEF DocTypeOK
  <2> QED
    BY <2>1 DEF Lane
<1>2. lane' = [lane EXCEPT ![q] = x]
  BY DEF LaneEnds
<1> HIDE DEF x
<1> QED
  BY <1>1, <1>2 DEF DocTypeOK

LEMMA DeliverTyped ==
  ASSUME DocTypeOK, NEW q \in Request, AskForPeriod(q) \/ Deliver(q)
  PROVE  DocTypeOK'
<1> USE Bounds
<1>1. Mine(q) \in Receipt
  BY DEF DocTypeOK, Lane, Mine
<1>2. CASE AskForPeriod(q)
  BY <1>2 DEF AskForPeriod, DocTypeOK, Lane, DocStep
<1>3. CASE EnsurePendingDeliveries(q)
  <2>1. docRow' \in [Receipt -> Row]
    BY <1>3 DEF EnsurePendingDeliveries, DocTypeOK, Row, Status
  <2>2. lane' \in [Request -> Lane]
    BY <1>3, GotoTyped DEF EnsurePendingDeliveries, DocStep
  <2> QED
    BY <1>3, <2>1, <2>2 DEF EnsurePendingDeliveries, DocTypeOK
<1>4. CASE ListForQuery(q)
  BY <1>4 DEF ListForQuery, DocTypeOK, Lane, DocStep
<1>5. CASE ClaimForSend(q)
  <2> DEFINE r == NextReceipt(q)
  <2>1. r \in lane[q].todo /\ lane[q].todo \subseteq Receipt
    BY <1>5, NextReceiptIn DEF ClaimForSend, DocTypeOK, Lane
  <2>2. docRow[r].version + 1 \in 0 .. MaxVersion
    BY <1>5, <2>1 DEF ClaimForSend, DocTypeOK, Row
  <2>3. docRow' = [docRow EXCEPT ![r].status = "PROCESSING", ![r].live = TRUE,
                                 ![r].version = @ + 1]
        /\ lane' = [lane EXCEPT ![q].step = "authorize", ![q].at = r,
                                ![q].todo = @ \ {r}, ![q].version = docRow[r].version + 1]
    BY <1>5 DEF ClaimForSend
  <2> HIDE DEF r
  <2>4. docRow' \in [Receipt -> Row]
    BY <2>1, <2>2, <2>3 DEF DocTypeOK, Row, Status
  <2>5. lane' \in [Request -> Lane]
    BY <2>1, <2>2, <2>3 DEF DocTypeOK, Lane, DocStep
  <2> QED
    BY <1>5, <2>4, <2>5 DEF ClaimForSend, DocTypeOK
<1>6. CASE ClaimNotAcquired(q)
  BY <1>6 DEF ClaimNotAcquired, DocTypeOK, Lane
<1>7. CASE Authorize(q) \/ CannotPrepare(q) \/ AnswerArrives(q) \/ SendFails(q)
  <2>1. PICK step \in DocStep : LaneTo(q, step)
    BY <1>7 DEF Authorize, CannotPrepare, AnswerArrives, SendFails, DocStep, SendingStep
  <2> QED
    BY <1>7, <2>1, GotoTyped DEF Authorize, CannotPrepare, AnswerArrives, SendFails, DocTypeOK
<1>8. ASSUME GoOn(q) PROVE lane' \in [Request -> Lane]
  <2>1. [lane[q] EXCEPT !.step = "next", !.version = 0] \in Lane
    <3>1. lane[q] \in Lane /\ 0 \in 0 .. MaxVersion
      BY DEF DocTypeOK
    <3> QED
      BY <3>1 DEF Lane, DocStep
  <2>2. lane' = [lane EXCEPT ![q] = [lane[q] EXCEPT !.step = "next", !.version = 0]]
    BY <1>8 DEF GoOn, DocTypeOK
  <2> QED
    BY <2>1, <2>2, LaneTyped DEF DocTypeOK
<1>9. ASSUME NEW from, NEW to \in Status PROVE Marked(q, from, to) \in [Receipt -> Row]
  BY <1>1, <1>9 DEF Marked, DocTypeOK, Row
<1>10. CASE MarkFailedBeforeSend(q)
  BY <1>8, <1>9, <1>10 DEF MarkFailedBeforeSend, DocTypeOK, Status
<1>11. CASE MarkSendStarted(q)
  BY <1>9, <1>11, GotoTyped DEF MarkSendStarted, DocTypeOK, Status, DocStep, SendingStep
<1>12. CASE ProviderAccepts(q)
  <2>1. lane' \in [Request -> Lane]
    BY <1>12, GotoTyped DEF ProviderAccepts, DocStep, SendingStep
  <2> QED
    BY <1>1, <1>12, <2>1 DEF ProviderAccepts, DocTypeOK
<1>13. CASE MarkAccepted(q)
  <2>1. lane' \in [Request -> Lane]
    BY <1>8, <1>13, GotoTyped DEF MarkAccepted, DocStep, SendingStep
  <2>2. docRow' \in [Receipt -> Row]
    BY <1>1, <1>13 DEF MarkAccepted, DocTypeOK, Row, Status
  <2> QED
    BY <1>13, <2>1, <2>2 DEF MarkAccepted, DocTypeOK
<1>14. CASE MarkReconciliationRequired(q)
  <2>1. docRow' \in [Receipt -> Row]
    <3>1. LaneAt(q, "doubtKnown") \in BOOLEAN
      BY DEF LaneAt
    <3> QED
      BY <1>1, <1>14, <3>1 DEF MarkReconciliationRequired, DocTypeOK, Row, Status
  <2> QED
    BY <1>8, <1>14, <2>1 DEF MarkReconciliationRequired, DocTypeOK
<1>15. CASE Answer(q)
  BY <1>15, EndsTyped DEF Answer, DocTypeOK, DocStep
<1> QED
  BY <1>2, <1>3, <1>4, <1>5, <1>6, <1>7, <1>10, <1>11, <1>12, <1>13, <1>14, <1>15 DEF Deliver

LEMMA ResolveTyped ==
  ASSUME DocTypeOK, NEW o \in Operator, Inspect(o) \/ Reconcile(o)
  PROVE  DocTypeOK'
<1> USE Bounds
<1>1. CASE Inspect(o)
  BY <1>1 DEF Inspect, DocTypeOK, Order, Row
<1>2. CASE Reconcile(o)
  <2> DEFINE r == order[o].at
             resolved == IF delivered[r] > 0 THEN "ACCEPTED" ELSE "PENDING"
  <2>1. r \in Receipt /\ resolved \in Status
    BY DEF DocTypeOK, Order, Status
  <2>2. /\ docRow' = IF MayReconcile(o)
                     THEN [docRow EXCEPT ![r].status = resolved,
                                         ![r].sid = resolved = "ACCEPTED",
                                         ![r].version = @ + 1]
                     ELSE docRow
        /\ docRow'[r].version <= MaxVersion
    BY <1>2 DEF Reconcile
  <2> HIDE DEF r, resolved
  <2>3. docRow' \in [Receipt -> Row]
    <3>1. (resolved = "ACCEPTED") \in BOOLEAN
      OBVIOUS
    <3> QED
      BY <2>1, <2>2, <3>1 DEF DocTypeOK, Row
  <2>4. order' \in [Operator -> Order]
    BY <1>2 DEF Reconcile, DocTypeOK, Order
  <2> QED
    BY <1>2, <2>3, <2>4 DEF Reconcile, DocTypeOK
<1> QED
  BY <1>1, <1>2

\* Rows, requests, commands and counters have their types; versions stay
\* within their bound.
THEOREM DocumentsTyped == DocSpec => []DocTypeOK
<1>1. DocInit => DocTypeOK
  BY Bounds DEF DocInit, DocTypeOK, Row, Status, Lane, Order, DocStep
<1>2. DocTypeOK /\ [DocNext]_docVars => DocTypeOK'
  <2> SUFFICES ASSUME DocTypeOK, [DocNext]_docVars PROVE DocTypeOK'
    OBVIOUS
  <2> USE Bounds
  <2>1. ASSUME NEW q \in Request, MarkAcceptedFails(q) \/ RequestDies(q) PROVE DocTypeOK'
    <3>1. CASE MarkAcceptedFails(q)
      BY <3>1, GotoTyped DEF MarkAcceptedFails, DocTypeOK, DocStep, SendingStep
    <3>2. CASE RequestDies(q)
      <4>1. lane' \in [Request -> Lane]
        BY <3>2, EndsTyped DEF RequestDies, DocStep
      <4> QED
        BY <3>2, <4>1 DEF RequestDies, DocTypeOK
    <3> QED
      BY <2>1, <3>1, <3>2
  <2>2. ASSUME NEW r \in Receipt, StatusCallback(r) \/ ClaimLapses(r) PROVE DocTypeOK'
    <3>1. CASE StatusCallback(r)
      <4>1. docRow' \in [Receipt -> Row]
        BY <3>1 DEF StatusCallback, DocTypeOK, Row, Status
      <4> QED
        BY <3>1, <4>1 DEF StatusCallback, DocTypeOK
    <3>2. CASE ClaimLapses(r)
      BY <3>2 DEF ClaimLapses, DocTypeOK, Row
    <3> QED
      BY <2>2, <3>1, <3>2
  <2>3. CASE ReceiptsChange
    BY <2>3 DEF ReceiptsChange, DocTypeOK
  <2>4. CASE CancelQuery
    BY <2>4 DEF CancelQuery, DocTypeOK
  <2>5. CASE UNCHANGED docVars
    BY <2>5 DEF docVars, DocTypeOK
  <2> QED
    BY <2>1, <2>2, <2>3, <2>4, <2>5, DeliverTyped, ResolveTyped DEF DocNext
<1> QED
  BY <1>1, <1>2, PTL DEF DocSpec

-----------------------------------------------------------------------------
(* The fence *)

\* Only the holder of a row's version is between its start mark and its
\* outcome.
LEMMA OneSender ==
  ASSUME DocTypeOK, Fenced, NEW p \in Request, NEW q \in Request, NEW r \in Receipt,
         Sending(p, r), Sending(q, r)
  PROVE  p = q
<1>1. lane[p].version = lane[q].version
  BY DEF Fenced, LaneFits, Sending, Holds
<1> QED
  BY <1>1 DEF Fenced, Apart, Claims, Sending, ClaimStep

LEMMA NobodySends ==
  ASSUME Fenced, NEW r \in Receipt, docRow[r].status # "SEND_STARTED"
  PROVE  \A q \in Request : ~Sending(q, r)
BY DEF Fenced, LaneFits, Sending, Holds

\* The row says of its document and its claims what it said.
SameRow(r) ==
    /\ docRow'[r].status = docRow[r].status /\ docRow'[r].version = docRow[r].version
    /\ delivered'[r] = delivered[r]

\* A request that does not move still fits its row.
LEMMA LaneStays ==
  ASSUME DocTypeOK, Fenced, NEW p \in Request, lane'[p] = lane[p],
         NEW r, r = Mine(p), docRow'[r].version \in Nat,
         docRow'[r].version >= docRow[r].version,
         SameRow(r) \/ ~Sending(p, r)
  PROVE  LaneFits(p)'
<1>1. LaneFits(p) /\ Mine(p)' = r /\ r \in Receipt
  BY DEF Fenced, Mine, DocTypeOK, Lane
<1>2. lane[p].version \in Nat /\ docRow[r].version \in Nat
  BY <1>1 DEF DocTypeOK, Lane, Row
<1>3. CASE SameRow(r)
  BY <1>1, <1>3 DEF SameRow, LaneFits, Holds, LaneAt
<1>4. CASE ~Sending(p, r)
  <2>1. lane[p].step \notin SendingStep
    BY <1>4 DEF Sending
  <2> QED
    BY <1>1, <1>2, <2>1 DEF LaneFits, LaneAt, SendingStep
<1> QED
  BY <1>3, <1>4

\* A step of one request on one row.
LEMMA StepKeeps ==
  ASSUME DocTypeOK, Fenced, NEW q \in Request, NEW r \in Receipt,
         \A p \in Request \ {q} : lane'[p] = lane[p],
         \A t \in Receipt \ {r} : docRow'[t] = docRow[t] /\ delivered'[t] = delivered[t],
         docRow'[r].version \in Nat, docRow'[r].version >= docRow[r].version,
         SameRow(r) \/ \A p \in Request \ {q} : ~Sending(p, r),
         LaneFits(q)', RowFits(r)',
         lane'[q].step \in ClaimStep =>
             \/ /\ lane[q].step \in ClaimStep /\ lane'[q].at = lane[q].at
                /\ lane'[q].version = lane[q].version
             \/ lane'[q].at = r /\ lane'[q].version > docRow[r].version
  PROVE  Fenced'
<1>1. ASSUME NEW p \in Request PROVE LaneFits(p)'
  <2>1. CASE p = q
    BY <2>1
  <2>2. CASE p # q
    <3>1. Mine(p) \in Receipt /\ lane'[p] = lane[p]
      BY <2>2 DEF DocTypeOK, Lane, Mine
    <3>2. docRow[Mine(p)].version \in Nat
      BY <3>1 DEF DocTypeOK, Row
    <3>3. CASE Mine(p) = r
      BY <2>2, <3>1, <3>3, LaneStays
    <3>4. CASE Mine(p) # r
      BY <3>1, <3>2, <3>4, LaneStays DEF SameRow
    <3> QED
      BY <3>3, <3>4
  <2> QED
    BY <2>1, <2>2
<1>2. ASSUME NEW t \in Receipt PROVE RowFits(t)'
  BY DEF Fenced, RowFits
<1>3. ASSUME NEW p \in Request, NEW t \in Receipt, p # q, Claims(p, t)', Claims(q, t)'
      PROVE  lane'[p].version # lane'[q].version
  <2>1. Claims(p, t) /\ lane'[p] = lane[p]
    BY <1>3 DEF Claims, Mine
  <2>2. CASE Claims(q, t) /\ lane'[q].version = lane[q].version
    BY <1>3, <2>1, <2>2 DEF Fenced, Apart
  <2>3. CASE lane'[q].at = r /\ lane'[q].version > docRow[r].version
    <3>1. t = r /\ lane[p].version <= docRow[r].version
      BY <1>3, <2>1, <2>3 DEF Fenced, LaneFits, Claims, Mine
    <3>2. lane[p].version \in Nat /\ docRow[r].version \in Nat
      BY DEF DocTypeOK, Lane, Row
    <3> QED
      BY <2>1, <2>3, <3>1, <3>2
  <2> QED
    BY <1>3, <2>2, <2>3 DEF Claims, Mine
<1>4. Apart'
  <2> SUFFICES ASSUME NEW p \in Request, NEW o \in Request, NEW t \in Receipt,
                      p # o, Claims(p, t)', Claims(o, t)'
               PROVE  lane'[p].version # lane'[o].version
    BY DEF Apart
  <2>1. CASE p = q \/ o = q
    BY <1>3, <2>1
  <2>2. CASE p # q /\ o # q
    BY <2>2 DEF Fenced, Apart, Claims, Mine
  <2> QED
    BY <2>1, <2>2
<1> QED
  BY <1>1, <1>2, <1>4 DEF Fenced

\* A step on one row while the requests stand still.
LEMMA RowKeeps ==
  ASSUME DocTypeOK, Fenced, NEW r \in Receipt, UNCHANGED <<lane, delivered>>,
         \A t \in Receipt \ {r} : docRow'[t] = docRow[t],
         docRow'[r].version \in Nat, docRow'[r].version >= docRow[r].version,
         SameRow(r) \/ \A p \in Request : ~Sending(p, r),
         RowFits(r)'
  PROVE  Fenced'
<1>1. ASSUME NEW p \in Request PROVE LaneFits(p)'
  <2>1. Mine(p) \in Receipt
    BY DEF DocTypeOK, Lane, Mine
  <2>2. docRow[Mine(p)].version \in Nat
    BY <2>1 DEF DocTypeOK, Row
  <2>3. CASE Mine(p) = r
    BY <2>1, <2>3, LaneStays
  <2>4. CASE Mine(p) # r
    BY <2>1, <2>2, <2>4, LaneStays DEF SameRow
  <2> QED
    BY <2>3, <2>4
<1>2. ASSUME NEW t \in Receipt PROVE RowFits(t)'
  BY DEF Fenced, RowFits
<1>3. Apart'
  BY DEF Fenced, Apart, Claims, Mine
<1> QED
  BY <1>1, <1>2, <1>3 DEF Fenced

\* A request goes to another step of its claim, or leaves it.
LEMMA Moves ==
  ASSUME DocTypeOK, NEW q \in Request, NEW step, LaneTo(q, step)
  PROVE  /\ \A p \in Request \ {q} : lane'[p] = lane[p]
         /\ lane'[q].step = step /\ lane'[q].at = lane[q].at
         /\ lane'[q].version = lane[q].version
BY DEF DocTypeOK, LaneTo, Lane

LEMMA GoesOn ==
  ASSUME DocTypeOK, NEW q \in Request, GoOn(q)
  PROVE  (\A p \in Request \ {q} : lane'[p] = lane[p]) /\ lane'[q].step \notin ClaimStep
BY DEF DocTypeOK, GoOn, Lane, ClaimStep, SendingStep

LEMMA MoveKeeps ==
  ASSUME DocTypeOK, Fenced, NEW q \in Request, UNCHANGED <<docRow, delivered>>,
         \A p \in Request \ {q} : lane'[p] = lane[p],
         \/ lane'[q].step \notin ClaimStep
         \/ /\ lane[q].step \in ClaimStep /\ lane'[q].at = lane[q].at
            /\ lane'[q].version = lane[q].version /\ LaneFits(q)'
  PROVE  Fenced'
<1>1. PICK r \in Receipt : r = Mine(q)
  BY DEF DocTypeOK, Lane, Mine
<1>2. SameRow(r) /\ RowFits(r)'
  BY DEF SameRow, Fenced, RowFits
<1>3. docRow'[r].version \in Nat /\ docRow'[r].version >= docRow[r].version
  BY DEF DocTypeOK, Row
<1>4. LaneFits(q)'
  BY DEF LaneFits, LaneAt, ClaimStep, SendingStep
<1> QED
  BY <1>1, <1>2, <1>3, <1>4, StepKeeps

\* The row of a claim changes its status.
LEMMA MarkKeeps ==
  ASSUME DocTypeOK, Fenced, NEW q \in Request, NEW r \in Receipt, r = Mine(q),
         UNCHANGED delivered, \A p \in Request \ {q} : lane'[p] = lane[p],
         \A t \in Receipt \ {r} : docRow'[t] = docRow[t],
         docRow'[r].version = docRow[r].version,
         \A p \in Request \ {q} : ~Sending(p, r),
         RowFits(r)',
         \/ lane'[q].step \notin ClaimStep
         \/ /\ lane[q].step \in ClaimStep /\ lane'[q].at = lane[q].at
            /\ lane'[q].version = lane[q].version /\ LaneFits(q)'
  PROVE  Fenced'
<1>1. docRow'[r].version \in Nat /\ docRow'[r].version >= docRow[r].version
  BY DEF DocTypeOK, Row
<1>2. LaneFits(q)'
  BY DEF LaneFits, LaneAt, ClaimStep, SendingStep
<1> QED
  BY <1>1, <1>2, StepKeeps

LEMMA EnsureKeeps ==
  ASSUME DocTypeOK, Fenced, NEW q \in Request, EnsurePendingDeliveries(q)
  PROVE  Fenced'
<1>1. lane'[q].step = "list" /\ \A p \in Request \ {q} : lane'[p] = lane[p]
  BY Moves DEF EnsurePendingDeliveries
<1>2. ASSUME NEW r \in Receipt
      PROVE  /\ docRow'[r].version = docRow[r].version /\ docRow'[r].sid = docRow[r].sid
             /\ \/ docRow'[r].status = docRow[r].status
                \/ docRow'[r].status = "PENDING" /\ docRow[r].status = "ABSENT"
  BY DEF EnsurePendingDeliveries, DocTypeOK, Row
<1>3. UNCHANGED delivered
  BY DEF EnsurePendingDeliveries
<1>4. ASSUME NEW p \in Request PROVE LaneFits(p)'
  <2>1. CASE p = q
    BY <1>1, <2>1 DEF LaneFits, LaneAt, ClaimStep, SendingStep
  <2>2. CASE p # q
    <3>1. PICK r \in Receipt : r = Mine(p)
      BY DEF DocTypeOK, Lane, Mine
    <3>2. docRow[r].version \in Nat
      BY DEF DocTypeOK, Row
    <3>3. SameRow(r) \/ ~Sending(p, r)
      BY <1>2, <1>3, NobodySends DEF SameRow
    <3> QED
      BY <1>1, <1>2, <2>2, <3>1, <3>2, <3>3, LaneStays
  <2> QED
    BY <2>1, <2>2
<1>5. ASSUME NEW r \in Receipt PROVE RowFits(r)'
  BY <1>2, <1>3 DEF Fenced, RowFits
<1>6. Apart'
  BY <1>1 DEF Fenced, Apart, Claims, Mine, ClaimStep, SendingStep
<1> QED
  BY <1>4, <1>5, <1>6 DEF Fenced

LEMMA ClaimKeeps ==
  ASSUME DocTypeOK, Fenced, NEW q \in Request, ClaimForSend(q)
  PROVE  Fenced'
<1>0. PICK n \in Receipt : n = NextReceipt(q)
  BY NextReceiptIn DEF ClaimForSend, DocTypeOK, Lane
<1>1. /\ MayClaim(n) /\ UNCHANGED delivered
      /\ docRow' = [docRow EXCEPT ![n].status = "PROCESSING", ![n].live = TRUE,
                                  ![n].version = @ + 1]
      /\ lane' = [lane EXCEPT ![q].step = "authorize", ![q].at = n,
                              ![q].todo = @ \ {n}, ![q].version = docRow[n].version + 1]
  BY <1>0 DEF ClaimForSend
<1>2. /\ docRow'[n].status = "PROCESSING" /\ docRow'[n].sid = docRow[n].sid
      /\ docRow'[n].version = docRow[n].version + 1 /\ docRow[n].version \in Nat
      /\ \A t \in Receipt \ {n} : docRow'[t] = docRow[t]
  BY <1>1 DEF DocTypeOK, Row
<1>3. /\ \A p \in Request \ {q} : lane'[p] = lane[p]
      /\ lane'[q].step = "authorize" /\ lane'[q].at = n
      /\ lane'[q].version = docRow[n].version + 1
  BY <1>1 DEF DocTypeOK, Lane
<1>4. docRow[n].status \in {"PENDING", "FAILED", "PROCESSING"}
  BY <1>1 DEF MayClaim
<1>5. \A p \in Request : ~Sending(p, n)
  BY <1>1, <1>4, NobodySends
<1>6. RowFits(n)'
  <2>1. RowFits(n) /\ delivered'[n] = delivered[n]
    BY <1>1 DEF Fenced
  <2>2. delivered[n] = 0 /\ ~docRow[n].sid
    BY <1>4, <2>1 DEF RowFits
  <2>3. ~docRow'[n].sid
    BY <1>2, <2>2
  <2> QED
    BY <1>2, <2>1, <2>2, <2>3 DEF RowFits
<1>7. LaneFits(q)'
  BY <1>2, <1>3 DEF LaneFits, LaneAt, Mine, SendingStep
<1>8. docRow'[n].version >= docRow[n].version /\ docRow'[n].version \in Nat
      /\ lane'[q].version > docRow[n].version
  BY <1>2, <1>3
<1>9. \A t \in Receipt \ {n} : docRow'[t] = docRow[t] /\ delivered'[t] = delivered[t]
  BY <1>1, <1>2
<1> QED
  BY <1>3, <1>5, <1>6, <1>7, <1>8, <1>9, StepKeeps

\* A fenced mark changes the status of the holder's row or nothing.
LEMMA MarkedRow ==
  ASSUME DocTypeOK, NEW q \in Request, NEW r \in Receipt, r = Mine(q), NEW from, NEW to,
         docRow' = Marked(q, from, to)
  PROVE  /\ \A t \in Receipt \ {r} : docRow'[t] = docRow[t]
         /\ docRow'[r].version = docRow[r].version /\ docRow'[r].sid = docRow[r].sid
         /\ docRow'[r].status = IF Holds(q, from) THEN to ELSE docRow[r].status
         /\ ~Holds(q, from) => docRow' = docRow
<1>1. CASE Holds(q, from)
  BY <1>1 DEF Marked, DocTypeOK, Row
<1>2. CASE ~Holds(q, from)
  BY <1>2 DEF Marked
<1> QED
  BY <1>1, <1>2

\* What a request that is sending knows.
LEMMA SenderKnows ==
  ASSUME DocTypeOK, Fenced, NEW q \in Request, lane[q].step \in SendingStep
  PROVE  \E r \in Receipt :
           /\ r = Mine(q) /\ Sending(q, r)
           /\ docRow[r].status = "SEND_STARTED" /\ Holds(q, "SEND_STARTED")
           /\ \A p \in Request \ {q} : ~Sending(p, r)
           /\ LaneFits(q) /\ RowFits(r)
<1>1. PICK r \in Receipt : r = Mine(q)
  BY DEF DocTypeOK, Lane, Mine
<1>2. Sending(q, r) /\ LaneFits(q) /\ RowFits(r)
  BY <1>1 DEF Sending, Fenced
<1>3. Holds(q, "SEND_STARTED") /\ docRow[r].status = "SEND_STARTED"
  BY <1>1, <1>2 DEF LaneFits, Holds
<1> QED
  BY <1>1, <1>2, <1>3, OneSender

LEMMA FailKeeps ==
  ASSUME DocTypeOK, Fenced, NEW q \in Request, MarkFailedBeforeSend(q)
  PROVE  Fenced'
<1>1. PICK r \in Receipt : r = Mine(q)
  BY DEF DocTypeOK, Lane, Mine
<1>2. /\ docRow' = Marked(q, "PROCESSING", "FAILED") /\ UNCHANGED delivered
      /\ \A p \in Request \ {q} : lane'[p] = lane[p]
      /\ lane'[q].step \notin ClaimStep
  BY GoesOn DEF MarkFailedBeforeSend
<1>3. /\ \A t \in Receipt \ {r} : docRow'[t] = docRow[t]
      /\ docRow'[r].version = docRow[r].version /\ docRow'[r].sid = docRow[r].sid
      /\ docRow'[r].status = IF Holds(q, "PROCESSING") THEN "FAILED" ELSE docRow[r].status
      /\ ~Holds(q, "PROCESSING") => docRow' = docRow
  BY <1>1, <1>2, MarkedRow
<1>4. CASE Holds(q, "PROCESSING")
  <2>1. docRow[r].status = "PROCESSING" /\ RowFits(r)
    BY <1>1, <1>4 DEF Holds, Fenced
  <2>2. RowFits(r)'
    BY <1>2, <1>3, <1>4, <2>1 DEF RowFits
  <2> QED
    BY <1>1, <1>2, <1>3, <2>1, <2>2, NobodySends, MarkKeeps
<1>5. CASE ~Holds(q, "PROCESSING")
  BY <1>2, <1>3, <1>5, MoveKeeps
<1> QED
  BY <1>4, <1>5

LEMMA StartKeeps ==
  ASSUME DocTypeOK, Fenced, NEW q \in Request, MarkSendStarted(q)
  PROVE  Fenced'
<1>1. PICK r \in Receipt : r = Mine(q)
  BY DEF DocTypeOK, Lane, Mine
<1>2. /\ docRow' = Marked(q, "PROCESSING", "SEND_STARTED") /\ UNCHANGED delivered
      /\ lane[q].step = "begin"
      /\ LaneTo(q, IF Holds(q, "PROCESSING") THEN "call" ELSE "fail")
  BY DEF MarkSendStarted, LaneAt
<1>3. /\ \A p \in Request \ {q} : lane'[p] = lane[p]
      /\ lane'[q].step = IF Holds(q, "PROCESSING") THEN "call" ELSE "fail"
      /\ lane'[q].at = lane[q].at /\ lane'[q].version = lane[q].version
  BY <1>2, Moves
<1>4. /\ \A t \in Receipt \ {r} : docRow'[t] = docRow[t]
      /\ docRow'[r].version = docRow[r].version /\ docRow'[r].sid = docRow[r].sid
      /\ docRow'[r].status = IF Holds(q, "PROCESSING") THEN "SEND_STARTED" ELSE docRow[r].status
      /\ ~Holds(q, "PROCESSING") => docRow' = docRow
  BY <1>1, <1>2, MarkedRow
<1>5. LaneFits(q) /\ lane[q].step \in ClaimStep
  BY <1>2 DEF Fenced, ClaimStep
<1>6. CASE Holds(q, "PROCESSING")
  <2>1. docRow[r].status = "PROCESSING" /\ docRow[r].version = lane[q].version /\ RowFits(r)
    BY <1>1, <1>6 DEF Holds, Fenced
  <2>2. delivered[r] = 0 /\ ~docRow[r].sid
    BY <2>1 DEF RowFits
  <2>3. RowFits(r)'
    BY <1>2, <1>4, <1>6, <2>1, <2>2 DEF RowFits
  <2>4. LaneFits(q)'
    <3>1. Mine(q)' = r /\ lane'[q].step = "call" /\ delivered'[r] = 0
          /\ docRow'[r].status = "SEND_STARTED" /\ docRow'[r].version = lane'[q].version
      BY <1>1, <1>2, <1>3, <1>4, <1>6, <2>1, <2>2 DEF Mine
    <3>2. lane'[q].version \in Nat
      BY <1>3 DEF DocTypeOK, Lane
    <3> QED
      BY <3>1, <3>2 DEF LaneFits, LaneAt, Holds
  <2> QED
    BY <1>1, <1>2, <1>3, <1>4, <1>5, <2>1, <2>3, <2>4, NobodySends, MarkKeeps
<1>7. CASE ~Holds(q, "PROCESSING")
  <2>1. lane'[q].step = "fail" /\ docRow' = docRow
    BY <1>3, <1>4, <1>7
  <2>2. LaneFits(q)'
    BY <1>3, <1>5, <2>1 DEF LaneFits, LaneAt, Mine, SendingStep
  <2> QED
    BY <1>2, <1>3, <1>5, <2>1, <2>2, MoveKeeps
<1> QED
  BY <1>6, <1>7

LEMMA ProviderKeeps ==
  ASSUME DocTypeOK, Fenced, NEW q \in Request, ProviderAccepts(q)
  PROVE  Fenced'
<1>1. lane[q].step = "call" /\ LaneTo(q, "taken") /\ UNCHANGED docRow
  BY DEF ProviderAccepts, LaneAt
<1>2. PICK r \in Receipt :
        /\ r = Mine(q) /\ Sending(q, r)
        /\ docRow[r].status = "SEND_STARTED" /\ Holds(q, "SEND_STARTED")
        /\ \A p \in Request \ {q} : ~Sending(p, r)
        /\ LaneFits(q) /\ RowFits(r)
  BY <1>1, SenderKnows DEF SendingStep
<1>3. delivered[r] = 0
  BY <1>1, <1>2 DEF LaneFits, LaneAt
<1>4. delivered'[r] = 1 /\ \A t \in Receipt \ {r} : delivered'[t] = delivered[t]
  BY <1>2, <1>3 DEF ProviderAccepts, DocTypeOK
<1>5. /\ \A p \in Request \ {q} : lane'[p] = lane[p]
      /\ lane'[q].step = "taken" /\ lane'[q].at = lane[q].at
      /\ lane'[q].version = lane[q].version
  BY <1>1, Moves
<1>6. LaneFits(q)'
  BY <1>1, <1>2, <1>4, <1>5 DEF LaneFits, LaneAt, Mine, Holds, ClaimStep, SendingStep
<1>7. RowFits(r)'
  BY <1>1, <1>2, <1>4 DEF RowFits
<1>8. docRow'[r].version \in Nat /\ docRow'[r].version >= docRow[r].version
  BY <1>1 DEF DocTypeOK, Row
<1> QED
  BY <1>1, <1>2, <1>4, <1>5, <1>6, <1>7, <1>8, StepKeeps DEF ClaimStep, SendingStep

LEMMA OutcomeKeeps ==
  ASSUME DocTypeOK, Fenced, NEW q \in Request,
         MarkAccepted(q) \/ MarkReconciliationRequired(q)
  PROVE  Fenced'
<1>1. lane[q].step \in {"accept", "doubt", "doubtKnown"} /\ UNCHANGED delivered
  BY DEF MarkAccepted, MarkReconciliationRequired, LaneAt
<1>2. PICK r \in Receipt :
        /\ r = Mine(q) /\ Sending(q, r)
        /\ docRow[r].status = "SEND_STARTED" /\ Holds(q, "SEND_STARTED")
        /\ \A p \in Request \ {q} : ~Sending(p, r)
        /\ LaneFits(q) /\ RowFits(r)
  BY <1>1, SenderKnows DEF SendingStep
<1>3. GoOn(q)
  BY <1>2 DEF MarkAccepted, MarkReconciliationRequired
<1>4. (\A p \in Request \ {q} : lane'[p] = lane[p]) /\ lane'[q].step \notin ClaimStep
  BY <1>3, GoesOn
<1>5. /\ \A t \in Receipt \ {r} : docRow'[t] = docRow[t]
      /\ docRow'[r].version = docRow[r].version
      /\ RowFits(r)'
  <2>1. CASE MarkAccepted(q)
    <3>1. docRow' = [docRow EXCEPT ![r].status = "ACCEPTED", ![r].sid = TRUE]
          /\ LaneAt(q, "accept")
      BY <1>2, <2>1 DEF MarkAccepted
    <3>2. delivered[r] = 1
      BY <1>2, <3>1 DEF LaneFits, LaneAt
    <3>3. docRow'[r].version = docRow[r].version /\ docRow'[r].status = "ACCEPTED"
          /\ \A t \in Receipt \ {r} : docRow'[t] = docRow[t]
      BY <3>1 DEF DocTypeOK, Row
    <3> QED
      BY <1>1, <3>2, <3>3 DEF RowFits
  <2>2. CASE MarkReconciliationRequired(q)
    <3> DEFINE known == docRow[r].sid \/ LaneAt(q, "doubtKnown")
    <3>1. docRow' = [docRow EXCEPT ![r].status = "RECONCILIATION_REQUIRED",
                                   ![r].sid = known]
      BY <1>2, <2>2 DEF MarkReconciliationRequired
    <3>2. known => delivered[r] = 1
      BY <1>2 DEF LaneFits, LaneAt, RowFits
    <3> HIDE DEF known
    <3>3. docRow'[r].version = docRow[r].version
          /\ docRow'[r].status = "RECONCILIATION_REQUIRED"
          /\ \A t \in Receipt \ {r} : docRow'[t] = docRow[t]
      BY <3>1 DEF DocTypeOK, Row
    <3>4. docRow'[r].sid = known
      BY <3>1 DEF DocTypeOK, Row
    <3>5. docRow'[r].sid => delivered[r] = 1
      BY <3>2, <3>4
    <3> QED
      BY <1>1, <1>2, <3>3, <3>5 DEF RowFits
  <2> QED
    BY <2>1, <2>2
<1> QED
  BY <1>1, <1>2, <1>4, <1>5, MarkKeeps

LEMMA RequestKeeps ==
  ASSUME DocTypeOK, Fenced, NEW q \in Request,
         AskForPeriod(q) \/ Deliver(q) \/ MarkAcceptedFails(q) \/ RequestDies(q)
  PROVE  Fenced'
<1>1. ASSUME UNCHANGED <<docRow, delivered>>, \A p \in Request \ {q} : lane'[p] = lane[p],
             lane'[q].step \notin ClaimStep
      PROVE  Fenced'
  BY <1>1, MoveKeeps
<1>2. ASSUME NEW step, LaneEnds(q, step), step \notin ClaimStep
      PROVE  (\A p \in Request \ {q} : lane'[p] = lane[p]) /\ lane'[q].step \notin ClaimStep
  BY <1>2 DEF LaneEnds, DocTypeOK, Lane
<1>3. CASE AskForPeriod(q)
  <2>1. (\A p \in Request \ {q} : lane'[p] = lane[p]) /\ lane'[q].step \in {"done", "ensure"}
    BY <1>3 DEF AskForPeriod, DocTypeOK, Lane
  <2> QED
    BY <1>1, <1>3, <2>1 DEF AskForPeriod, ClaimStep, SendingStep
<1>4. CASE ListForQuery(q)
  <2>1. (\A p \in Request \ {q} : lane'[p] = lane[p]) /\ lane'[q].step = "next"
    BY <1>4 DEF ListForQuery, DocTypeOK, Lane
  <2> QED
    BY <1>1, <1>4, <2>1 DEF ListForQuery, ClaimStep, SendingStep
<1>5. CASE ClaimNotAcquired(q)
  <2>1. (\A p \in Request \ {q} : lane'[p] = lane[p]) /\ lane'[q].step = "next"
    BY <1>5 DEF ClaimNotAcquired, LaneAt, DocTypeOK, Lane
  <2> QED
    BY <1>1, <1>5, <2>1 DEF ClaimNotAcquired, ClaimStep, SendingStep
<1>6. CASE Answer(q)
  BY <1>1, <1>2, <1>6 DEF Answer, ClaimStep, SendingStep
<1>7. CASE RequestDies(q)
  BY <1>1, <1>2, <1>7 DEF RequestDies, ClaimStep, SendingStep
<1>8. ASSUME NEW step, LaneTo(q, step), UNCHANGED <<docRow, delivered>>,
             lane[q].step \in ClaimStep, step \in {"begin", "fail"}
      PROVE  Fenced'
  <2>1. LaneFits(q)'
    BY <1>8, Moves DEF Fenced, LaneFits, LaneAt, Mine, SendingStep
  <2> QED
    BY <1>8, <2>1, Moves, MoveKeeps
<1>9. CASE Authorize(q) \/ CannotPrepare(q)
  BY <1>8, <1>9 DEF Authorize, CannotPrepare, LaneAt, ClaimStep
<1>10. ASSUME NEW step \in {"accept", "doubt", "doubtKnown"}, LaneTo(q, step),
              UNCHANGED <<docRow, delivered>>,
              \/ lane[q].step \in {"taken", "accept"}
              \/ lane[q].step = "call" /\ step = "doubt"
       PROVE  Fenced'
  <2>1. LaneFits(q)'
    BY <1>10, Moves DEF Fenced, LaneFits, LaneAt, Mine, Holds, ClaimStep, SendingStep
  <2> QED
    BY <1>10, <2>1, Moves, MoveKeeps DEF ClaimStep, SendingStep
<1>11. CASE AnswerArrives(q) \/ SendFails(q) \/ MarkAcceptedFails(q)
  BY <1>10, <1>11 DEF AnswerArrives, SendFails, MarkAcceptedFails, LaneAt
<1> QED
  BY <1>3, <1>4, <1>5, <1>6, <1>7, <1>9, <1>11, EnsureKeeps, ClaimKeeps, FailKeeps,
     StartKeeps, ProviderKeeps, OutcomeKeeps DEF Deliver

LEMMA ReconcileKeeps ==
  ASSUME DocTypeOK, Fenced, NEW o \in Operator, Reconcile(o)
  PROVE  Fenced'
<1>1. PICK r \in Receipt : r = order[o].at
  BY DEF DocTypeOK, Order
<1>2. UNCHANGED <<lane, delivered>>
  BY DEF Reconcile
<1>3. RowFits(r) /\ docRow[r] \in Row
  BY DEF Fenced, DocTypeOK
<1>4. CASE MayReconcile(o)
  <2>1. docRow[r].status = "RECONCILIATION_REQUIRED"
    BY <1>1, <1>4 DEF MayReconcile
  <2> DEFINE resolved == IF delivered[r] > 0 THEN "ACCEPTED" ELSE "PENDING"
  <2>2. docRow' = [docRow EXCEPT ![r].status = resolved, ![r].sid = resolved = "ACCEPTED",
                                 ![r].version = @ + 1]
    BY <1>1, <1>4 DEF Reconcile
  <2>3. CASE delivered[r] > 0
    <3>1. docRow' = [docRow EXCEPT ![r].status = "ACCEPTED", ![r].sid = TRUE,
                                   ![r].version = @ + 1]
      BY <2>2, <2>3
    <3>2. /\ \A t \in Receipt \ {r} : docRow'[t] = docRow[t]
          /\ docRow'[r].version = docRow[r].version + 1 /\ docRow'[r].status = "ACCEPTED"
      BY <3>1 DEF DocTypeOK, Row
    <3>3. RowFits(r)'
      BY <1>2, <1>3, <2>3, <3>2 DEF RowFits
    <3>4. docRow'[r].version \in Nat /\ docRow'[r].version >= docRow[r].version
      BY <1>3, <3>2 DEF Row
    <3> QED
      BY <1>2, <2>1, <3>2, <3>3, <3>4, NobodySends, RowKeeps
  <2>4. CASE ~(delivered[r] > 0)
    <3>1. docRow' = [docRow EXCEPT ![r].status = "PENDING", ![r].sid = FALSE,
                                   ![r].version = @ + 1]
      BY <2>2, <2>4
    <3>2. /\ \A t \in Receipt \ {r} : docRow'[t] = docRow[t]
          /\ docRow'[r].version = docRow[r].version + 1 /\ docRow'[r].status = "PENDING"
          /\ ~docRow'[r].sid
      BY <3>1 DEF DocTypeOK, Row
    <3>3. delivered[r] = 0
      BY <1>3, <2>4 DEF RowFits
    <3>4. RowFits(r)'
      BY <1>2, <3>2, <3>3 DEF RowFits
    <3>5. docRow'[r].version \in Nat /\ docRow'[r].version >= docRow[r].version
      BY <1>3, <3>2 DEF Row
    <3> QED
      BY <1>2, <2>1, <3>2, <3>4, <3>5, NobodySends, RowKeeps
  <2> QED
    BY <2>3, <2>4
<1>5. CASE ~MayReconcile(o)
  <2>1. UNCHANGED docRow
    BY <1>5 DEF Reconcile
  <2> QED
    BY <1>2, <2>1 DEF Fenced, LaneFits, Apart, RowFits, Claims, Mine, Holds, LaneAt
<1> QED
  BY <1>4, <1>5

LEMMA WorldKeeps ==
  ASSUME DocTypeOK, Fenced, NEW r \in Receipt, StatusCallback(r) \/ ClaimLapses(r)
  PROVE  Fenced'
<1>1. UNCHANGED <<lane, delivered>> /\ RowFits(r) /\ docRow[r] \in Row
  BY DEF StatusCallback, ClaimLapses, Fenced, DocTypeOK
<1>2. CASE StatusCallback(r)
  <2>1. /\ \A t \in Receipt \ {r} : docRow'[t] = docRow[t]
        /\ docRow'[r].version = docRow[r].version + 1 /\ docRow'[r].status = "ACCEPTED"
    BY <1>2 DEF StatusCallback, DocTypeOK, Row
  <2>2. delivered[r] = 1 /\ docRow[r].status # "SEND_STARTED"
    BY <1>1, <1>2 DEF StatusCallback, RowFits
  <2>3. RowFits(r)'
    BY <1>1, <2>1, <2>2 DEF RowFits
  <2>4. docRow'[r].version \in Nat /\ docRow'[r].version >= docRow[r].version
    BY <1>1, <2>1 DEF Row
  <2> QED
    BY <1>1, <2>1, <2>2, <2>3, <2>4, NobodySends, RowKeeps
<1>3. CASE ClaimLapses(r)
  <2>1. /\ \A t \in Receipt \ {r} : docRow'[t] = docRow[t]
        /\ docRow'[r].version = docRow[r].version /\ docRow'[r].status = docRow[r].status
        /\ docRow'[r].sid = docRow[r].sid
    BY <1>3 DEF ClaimLapses, DocTypeOK, Row
  <2>2. RowFits(r)' /\ SameRow(r)
    BY <1>1, <2>1 DEF RowFits, SameRow
  <2>3. docRow'[r].version \in Nat /\ docRow'[r].version >= docRow[r].version
    BY <1>1, <2>1 DEF Row
  <2> QED
    BY <1>1, <2>1, <2>2, <2>3, RowKeeps
<1> QED
  BY <1>2, <1>3

LEMMA NextKeeps == DocTypeOK /\ Fenced /\ [DocNext]_docVars => Fenced'
<1> SUFFICES ASSUME DocTypeOK, Fenced, [DocNext]_docVars PROVE Fenced'
  OBVIOUS
<1>1. ASSUME UNCHANGED <<docRow, lane, delivered>> PROVE Fenced'
  BY <1>1 DEF Fenced, LaneFits, Apart, RowFits, Claims, Mine, Holds, LaneAt
<1>2. ASSUME NEW o \in Operator, Inspect(o) PROVE Fenced'
  BY <1>1, <1>2 DEF Inspect
<1>3. CASE ReceiptsChange \/ CancelQuery
  BY <1>1, <1>3 DEF ReceiptsChange, CancelQuery
<1>4. CASE UNCHANGED docVars
  BY <1>1, <1>4 DEF docVars
<1> QED
  BY <1>2, <1>3, <1>4, RequestKeeps, ReconcileKeeps, WorldKeeps DEF DocNext

\* Two claims of one row never bear one version, and between the mark of a
\* send and the mark of its outcome the row is its sender's alone: what an
\* expired claim, a reconciliation or a callback does cannot reach it.
THEOREM ClaimsAreFenced == DocSpec => []Fenced
<1>1. DocInit => Fenced
  BY DEF DocInit, Fenced, LaneFits, LaneAt, Apart, Claims, RowFits, ClaimStep, SendingStep
<1>2. DocTypeOK /\ Fenced /\ [DocNext]_docVars => Fenced'
  BY NextKeeps
<1> QED
  BY <1>1, <1>2, DocumentsTyped, PTL DEF DocSpec

-----------------------------------------------------------------------------
(* The refinement: each step on the deliveries is a step of OneEffect on   *)
(* one document, or leaves what OneEffect sees alone.                      *)

Phases == [r \in Receipt |-> Phase(r)]
InDoubt == {"SEND_STARTED", "RECONCILIATION_REQUIRED"}

\* Of a status OneEffect sees only whether it is accepted or in doubt.
SameKind(r) ==
    /\ docRow'[r].status = "ACCEPTED" <=> docRow[r].status = "ACCEPTED"
    /\ docRow'[r].status \in InDoubt <=> docRow[r].status \in InDoubt

LEMMA PhaseKept ==
  ASSUME NEW r, SameKind(r), \A q \in Request : Sending(q, r)' <=> Sending(q, r)
  PROVE  Phase(r)' = Phase(r)
BY DEF Phase, SameKind, InDoubt

LEMMA OnePhase ==
  ASSUME NEW r \in Receipt, NEW p, Phase(r)' = p,
         \A t \in Receipt \ {r} : Phase(t)' = Phase(t)
  PROVE  Phases' = [Phases EXCEPT ![r] = p] /\ Phases[r] = Phase(r)
BY DEF Phases

\* Steps that OneEffect does not see.
LEMMA Quiet ==
  ASSUME \A r \in Receipt : SameKind(r), UNCHANGED delivered,
         \A q \in Request, r \in Receipt : Sending(q, r)' <=> Sending(q, r)
  PROVE  UNCHANGED Effect!vars
<1>1. ASSUME NEW r \in Receipt PROVE Phase(r)' = Phase(r)
  BY PhaseKept
<1> QED
  BY <1>1 DEF Effect!vars

\* A request at work on one row moves no other phase.
LEMMA OtherPhases ==
  ASSUME NEW q \in Request, NEW r, r = Mine(q),
         \A p \in Request \ {q} : lane'[p] = lane[p],
         \A t \in Receipt \ {r} : docRow'[t] = docRow[t],
         lane'[q].step \in SendingStep => lane'[q].at = lane[q].at
  PROVE  \A t \in Receipt \ {r} : Phase(t)' = Phase(t)
<1> SUFFICES ASSUME NEW t \in Receipt \ {r} PROVE Phase(t)' = Phase(t)
  OBVIOUS
<1>1. ASSUME NEW p \in Request PROVE Sending(p, t)' <=> Sending(p, t)
  <2>1. CASE p = q
    BY <2>1 DEF Sending, Mine
  <2>2. CASE p # q
    BY <2>2 DEF Sending, Mine
  <2> QED
    BY <2>1, <2>2
<1> QED
  BY <1>1, PhaseKept DEF SameKind

LEMMA StartEffect ==
  ASSUME DocTypeOK, Fenced, NEW q \in Request, MarkSendStarted(q)
  PROVE  [Effect!Next]_(Effect!vars)
<1>1. PICK r \in Receipt : r = Mine(q)
  BY DEF DocTypeOK, Lane, Mine
<1>2. /\ docRow' = Marked(q, "PROCESSING", "SEND_STARTED") /\ UNCHANGED delivered
      /\ lane[q].step = "begin"
      /\ LaneTo(q, IF Holds(q, "PROCESSING") THEN "call" ELSE "fail")
  BY DEF MarkSendStarted, LaneAt
<1>3. /\ \A p \in Request \ {q} : lane'[p] = lane[p]
      /\ lane'[q].step = IF Holds(q, "PROCESSING") THEN "call" ELSE "fail"
      /\ lane'[q].at = lane[q].at
  BY <1>2, Moves
<1>4. /\ \A t \in Receipt \ {r} : docRow'[t] = docRow[t]
      /\ docRow'[r].status = IF Holds(q, "PROCESSING") THEN "SEND_STARTED" ELSE docRow[r].status
      /\ ~Holds(q, "PROCESSING") => docRow' = docRow
  BY <1>1, <1>2, MarkedRow
<1>5. CASE Holds(q, "PROCESSING")
  <2>1. docRow[r].status = "PROCESSING"
    BY <1>1, <1>5 DEF Holds
  <2>2. Phase(r) = "open"
    BY <2>1, NobodySends DEF Phase
  <2>3. Sending(q, r)' /\ docRow'[r].status = "SEND_STARTED"
    BY <1>1, <1>3, <1>4, <1>5 DEF Sending, SendingStep, Mine
  <2>4. Phase(r)' = "asked"
    BY <2>3 DEF Phase
  <2>5. Phases' = [Phases EXCEPT ![r] = "asked"] /\ Phases[r] = "open"
    BY <1>1, <1>3, <1>4, <2>2, <2>4, OtherPhases, OnePhase
  <2>6. Effect!Ask(r)
    BY <1>2, <2>5 DEF Effect!Ask, Effect!Become, Phases
  <2> QED
    BY <2>6 DEF Effect!Next
<1>6. CASE ~Holds(q, "PROCESSING")
  <2>1. \A t \in Receipt : SameKind(t)
    BY <1>4, <1>6 DEF SameKind
  <2>2. \A p \in Request, t \in Receipt : Sending(p, t)' <=> Sending(p, t)
    BY <1>2, <1>3, <1>6 DEF Sending, SendingStep, Mine
  <2> QED
    BY <1>2, <2>1, <2>2, Quiet
<1> QED
  BY <1>5, <1>6

LEMMA ProviderEffect ==
  ASSUME DocTypeOK, Fenced, NEW q \in Request, ProviderAccepts(q)
  PROVE  [Effect!Next]_(Effect!vars)
<1>1. lane[q].step = "call" /\ LaneTo(q, "taken") /\ UNCHANGED docRow
  BY DEF ProviderAccepts, LaneAt
<1>2. PICK r \in Receipt :
        /\ r = Mine(q) /\ Sending(q, r)
        /\ docRow[r].status = "SEND_STARTED" /\ LaneFits(q)
  BY <1>1, SenderKnows DEF SendingStep
<1>3. delivered[r] = 0 /\ delivered' = [delivered EXCEPT ![r] = 1]
  <2>1. delivered[r] = 0
    BY <1>1, <1>2 DEF LaneFits, LaneAt
  <2>2. delivered' = [delivered EXCEPT ![r] = delivered[r] + 1]
    BY <1>2 DEF ProviderAccepts
  <2> QED
    BY <2>1, <2>2
<1>4. /\ \A p \in Request \ {q} : lane'[p] = lane[p]
      /\ lane'[q].step = "taken" /\ lane'[q].at = lane[q].at
  BY <1>1, Moves
<1>5. ASSUME NEW t \in Receipt PROVE Phase(t)' = Phase(t)
  <2>1. \A p \in Request : Sending(p, t)' <=> Sending(p, t)
    BY <1>1, <1>4 DEF Sending, SendingStep, Mine
  <2> QED
    BY <1>1, <2>1, PhaseKept DEF SameKind
<1>6. Phases' = Phases /\ Phases[r] = "asked"
  BY <1>2, <1>5 DEF Phases, Phase
<1>7. Effect!Happen(r)
  BY <1>3, <1>6 DEF Effect!Happen, Phases
<1> QED
  BY <1>7 DEF Effect!Next

LEMMA OutcomeEffect ==
  ASSUME DocTypeOK, Fenced, NEW q \in Request,
         MarkAccepted(q) \/ MarkReconciliationRequired(q)
  PROVE  [Effect!Next]_(Effect!vars)
<1>1. lane[q].step \in {"accept", "doubt", "doubtKnown"} /\ UNCHANGED delivered
  BY DEF MarkAccepted, MarkReconciliationRequired, LaneAt
<1>2. PICK r \in Receipt :
        /\ r = Mine(q) /\ Sending(q, r)
        /\ docRow[r].status = "SEND_STARTED" /\ Holds(q, "SEND_STARTED")
        /\ \A p \in Request \ {q} : ~Sending(p, r)
        /\ LaneFits(q)
  BY <1>1, SenderKnows DEF SendingStep
<1>3. GoOn(q)
  BY <1>2 DEF MarkAccepted, MarkReconciliationRequired
<1>4. (\A p \in Request \ {q} : lane'[p] = lane[p]) /\ lane'[q].step \notin SendingStep
  BY <1>3, GoesOn DEF ClaimStep
<1>5. \A p \in Request : ~Sending(p, r)'
  BY <1>2, <1>4 DEF Sending, Mine
<1>6. Phase(r) = "asked"
  BY <1>2 DEF Phase
<1>7. CASE MarkAccepted(q)
  <2>1. /\ \A t \in Receipt \ {r} : docRow'[t] = docRow[t]
        /\ docRow'[r].status = "ACCEPTED" /\ LaneAt(q, "accept")
    BY <1>2, <1>7 DEF MarkAccepted, DocTypeOK, Row
  <2>2. delivered[r] = 1
    BY <1>2, <2>1 DEF LaneFits, LaneAt
  <2>3. Phase(r)' = "done"
    BY <2>1 DEF Phase
  <2>4. Phases' = [Phases EXCEPT ![r] = "done"] /\ Phases[r] = "asked"
    BY <1>2, <1>4, <1>6, <2>1, <2>3, OtherPhases, OnePhase
  <2>5. Effect!Confirm(r)
    BY <1>1, <2>2, <2>4 DEF Effect!Confirm, Effect!Become, Phases
  <2> QED
    BY <2>5 DEF Effect!Next
<1>8. CASE MarkReconciliationRequired(q)
  <2>1. /\ \A t \in Receipt \ {r} : docRow'[t] = docRow[t]
        /\ docRow'[r].status = "RECONCILIATION_REQUIRED"
    BY <1>2, <1>8 DEF MarkReconciliationRequired, DocTypeOK, Row
  <2>2. Phase(r)' = "doubt"
    BY <1>5, <2>1 DEF Phase
  <2>3. Phases' = [Phases EXCEPT ![r] = "doubt"] /\ Phases[r] = "asked"
    BY <1>2, <1>4, <1>6, <2>1, <2>2, OtherPhases, OnePhase
  <2>4. Effect!Doubt(r)
    BY <1>1, <2>3 DEF Effect!Doubt, Effect!Become, Phases
  <2> QED
    BY <2>4 DEF Effect!Next
<1> QED
  BY <1>7, <1>8

\* A sender that dies leaves its row in doubt; any other request that dies
\* leaves nothing OneEffect sees.
LEMMA DeathEffect ==
  ASSUME DocTypeOK, Fenced, NEW q \in Request, RequestDies(q)
  PROVE  [Effect!Next]_(Effect!vars)
<1>1. /\ \A p \in Request \ {q} : lane'[p] = lane[p]
      /\ lane'[q].step \notin SendingStep
      /\ UNCHANGED <<docRow, delivered>>
  BY DEF RequestDies, LaneEnds, DocTypeOK, Lane, SendingStep
<1>2. CASE lane[q].step \in SendingStep
  <2>1. PICK r \in Receipt :
          /\ r = Mine(q) /\ Sending(q, r)
          /\ docRow[r].status = "SEND_STARTED"
          /\ \A p \in Request \ {q} : ~Sending(p, r)
    BY <1>2, SenderKnows
  <2>2. \A p \in Request : ~Sending(p, r)'
    BY <1>1, <2>1 DEF Sending, Mine
  <2>3. Phase(r) = "asked" /\ Phase(r)' = "doubt"
    BY <1>1, <2>1, <2>2 DEF Phase
  <2>4. Phases' = [Phases EXCEPT ![r] = "doubt"] /\ Phases[r] = "asked"
    BY <1>1, <2>1, <2>3, OtherPhases, OnePhase
  <2>5. Effect!Doubt(r)
    BY <1>1, <2>4 DEF Effect!Doubt, Effect!Become, Phases
  <2> QED
    BY <2>5 DEF Effect!Next
<1>3. CASE lane[q].step \notin SendingStep
  <2>1. \A p \in Request, t \in Receipt : Sending(p, t)' <=> Sending(p, t)
    BY <1>1, <1>3 DEF Sending, Mine
  <2> QED
    BY <1>1, <2>1, Quiet DEF SameKind
<1> QED
  BY <1>2, <1>3

\* A request that is not sending, before and after, and may change rows that
\* OneEffect sees as open.
LEMMA IdleEffect ==
  ASSUME NEW q \in Request, UNCHANGED delivered, \A r \in Receipt : SameKind(r),
         \A p \in Request \ {q} : lane'[p] = lane[p],
         lane[q].step \notin SendingStep, lane'[q].step \notin SendingStep
  PROVE  [Effect!Next]_(Effect!vars)
<1>1. \A p \in Request, t \in Receipt : Sending(p, t)' <=> Sending(p, t)
  BY DEF Sending, Mine
<1> QED
  BY <1>1, Quiet

LEMMA RequestEffect ==
  ASSUME DocTypeOK, Fenced, NEW q \in Request,
         AskForPeriod(q) \/ Deliver(q) \/ MarkAcceptedFails(q) \/ RequestDies(q)
  PROVE  [Effect!Next]_(Effect!vars)
<1>1. ASSUME UNCHANGED docRow PROVE \A r \in Receipt : SameKind(r)
  BY <1>1 DEF SameKind
<1>2. CASE AskForPeriod(q)
  <2>1. /\ \A p \in Request \ {q} : lane'[p] = lane[p]
        /\ lane'[q].step \in {"done", "ensure"} /\ lane[q].step = "idle"
    BY <1>2 DEF AskForPeriod, LaneAt, DocTypeOK, Lane
  <2> QED
    BY <1>1, <1>2, <2>1, IdleEffect DEF AskForPeriod, SendingStep
<1>3. CASE EnsurePendingDeliveries(q)
  <2>1. /\ \A p \in Request \ {q} : lane'[p] = lane[p]
        /\ lane'[q].step = "list" /\ lane[q].step = "ensure"
    BY <1>3, Moves DEF EnsurePendingDeliveries, LaneAt
  <2>2. ASSUME NEW r \in Receipt PROVE SameKind(r)
    <3>1. \/ docRow'[r].status = docRow[r].status
          \/ docRow'[r].status = "PENDING" /\ docRow[r].status = "ABSENT"
      BY <1>3 DEF EnsurePendingDeliveries, DocTypeOK, Row
    <3> QED
      BY <3>1 DEF SameKind, InDoubt
  <2> QED
    BY <1>3, <2>1, <2>2, IdleEffect DEF EnsurePendingDeliveries, SendingStep
<1>4. CASE ListForQuery(q)
  <2>1. /\ \A p \in Request \ {q} : lane'[p] = lane[p]
        /\ lane'[q].step = "next" /\ lane[q].step = "list"
    BY <1>4 DEF ListForQuery, LaneAt, DocTypeOK, Lane
  <2> QED
    BY <1>1, <1>4, <2>1, IdleEffect DEF ListForQuery, SendingStep
<1>5. CASE ClaimForSend(q)
  <2>1. PICK n \in Receipt : n = NextReceipt(q)
    BY <1>5, NextReceiptIn DEF ClaimForSend, DocTypeOK, Lane
  <2>2. /\ MayClaim(n) /\ UNCHANGED delivered /\ lane[q].step = "next"
        /\ docRow' = [docRow EXCEPT ![n].status = "PROCESSING", ![n].live = TRUE,
                                    ![n].version = @ + 1]
        /\ lane' = [lane EXCEPT ![q].step = "authorize", ![q].at = n,
                                ![q].todo = @ \ {n}, ![q].version = docRow[n].version + 1]
    BY <1>5, <2>1 DEF ClaimForSend, LaneAt
  <2>3. (\A p \in Request \ {q} : lane'[p] = lane[p]) /\ lane'[q].step = "authorize"
    BY <2>2 DEF DocTypeOK, Lane
  <2>4. /\ docRow'[n].status = "PROCESSING" /\ \A t \in Receipt \ {n} : docRow'[t] = docRow[t]
        /\ docRow[n].status \in {"PENDING", "FAILED", "PROCESSING"}
    BY <2>2 DEF DocTypeOK, Row, MayClaim
  <2>5. \A r \in Receipt : SameKind(r)
    BY <2>4 DEF SameKind, InDoubt
  <2> QED
    BY <2>2, <2>3, <2>5, IdleEffect DEF SendingStep
<1>6. CASE ClaimNotAcquired(q)
  <2>1. /\ \A p \in Request \ {q} : lane'[p] = lane[p]
        /\ lane'[q].step = "next" /\ lane[q].step = "next"
    BY <1>6 DEF ClaimNotAcquired, LaneAt, DocTypeOK, Lane
  <2> QED
    BY <1>1, <1>6, <2>1, IdleEffect DEF ClaimNotAcquired, SendingStep
<1>7. CASE Authorize(q) \/ CannotPrepare(q)
  <2>1. /\ \A p \in Request \ {q} : lane'[p] = lane[p]
        /\ lane'[q].step \in {"begin", "fail"} /\ lane[q].step \in {"authorize", "begin"}
    BY <1>7, Moves DEF Authorize, CannotPrepare, LaneAt
  <2> QED
    BY <1>1, <1>7, <2>1, IdleEffect DEF Authorize, CannotPrepare, SendingStep
<1>8. CASE MarkFailedBeforeSend(q)
  <2>1. PICK r \in Receipt : r = Mine(q)
    BY DEF DocTypeOK, Lane, Mine
  <2>2. /\ docRow' = Marked(q, "PROCESSING", "FAILED") /\ UNCHANGED delivered
        /\ lane[q].step = "fail" /\ lane'[q].step \notin ClaimStep
        /\ \A p \in Request \ {q} : lane'[p] = lane[p]
    BY <1>8, GoesOn DEF MarkFailedBeforeSend, LaneAt
  <2>3. /\ \A t \in Receipt \ {r} : docRow'[t] = docRow[t]
        /\ docRow'[r].status = IF Holds(q, "PROCESSING") THEN "FAILED" ELSE docRow[r].status
    BY <2>1, <2>2, MarkedRow
  <2>4. \A t \in Receipt : SameKind(t)
    BY <2>1, <2>3 DEF SameKind, InDoubt, Holds
  <2> QED
    BY <2>2, <2>4, IdleEffect DEF ClaimStep, SendingStep
<1>9. CASE AnswerArrives(q) \/ SendFails(q) \/ MarkAcceptedFails(q)
  <2>1. PICK step \in {"accept", "doubt", "doubtKnown"} :
          LaneTo(q, step) /\ UNCHANGED <<docRow, delivered>> /\ lane[q].step \in SendingStep
    BY <1>9 DEF AnswerArrives, SendFails, MarkAcceptedFails, LaneAt, SendingStep
  <2>2. \A p \in Request, t \in Receipt : Sending(p, t)' <=> Sending(p, t)
    BY <2>1, Moves DEF Sending, SendingStep, Mine
  <2> QED
    BY <1>1, <2>1, <2>2, Quiet
<1>10. CASE Answer(q)
  <2>1. /\ \A p \in Request \ {q} : lane'[p] = lane[p]
        /\ lane'[q].step = "done" /\ lane[q].step = "next"
    BY <1>10 DEF Answer, LaneEnds, LaneAt, DocTypeOK, Lane
  <2> QED
    BY <1>1, <1>10, <2>1, IdleEffect DEF Answer, SendingStep
<1> QED
  BY <1>2, <1>3, <1>4, <1>5, <1>6, <1>7, <1>8, <1>9, <1>10, StartEffect, ProviderEffect,
     OutcomeEffect, DeathEffect DEF Deliver

\* What is found out about a row in doubt: nobody is sending it.
LEMMA FoundEffect ==
  ASSUME DocTypeOK, Fenced, NEW r \in Receipt, UNCHANGED <<lane, delivered>>,
         docRow[r].status = "RECONCILIATION_REQUIRED",
         \A t \in Receipt \ {r} : docRow'[t] = docRow[t],
         \/ docRow'[r].status = "ACCEPTED" /\ delivered[r] = 1
         \/ docRow'[r].status = "PENDING" /\ delivered[r] = 0
  PROVE  [Effect!Next]_(Effect!vars)
<1>1. \A q \in Request : ~Sending(q, r) /\ ~Sending(q, r)'
  BY NobodySends DEF Sending, Mine
<1>2. Phase(r) = "doubt"
      /\ Phase(r)' = IF docRow'[r].status = "ACCEPTED" THEN "done" ELSE "open"
  BY <1>1 DEF Phase
<1>3. \A t \in Receipt \ {r} : Phase(t)' = Phase(t)
  BY PhaseKept DEF SameKind, Sending, Mine
<1>4. Phases' = [Phases EXCEPT ![r] = Phase(r)'] /\ Phases[r] = "doubt"
  BY <1>2, <1>3 DEF Phases
<1>5. Effect!Confirm(r) \/ Effect!Reopen(r)
  BY <1>2, <1>4 DEF Effect!Confirm, Effect!Reopen, Effect!Become, Phases
<1> QED
  BY <1>5 DEF Effect!Next

LEMMA NextEffect == DocTypeOK /\ Fenced /\ [DocNext]_docVars => [Effect!Next]_(Effect!vars)
<1> SUFFICES ASSUME DocTypeOK, Fenced, [DocNext]_docVars PROVE [Effect!Next]_(Effect!vars)
  OBVIOUS
<1>1. ASSUME UNCHANGED <<docRow, lane, delivered>> PROVE UNCHANGED Effect!vars
  BY <1>1, Quiet DEF SameKind, Sending, Mine
<1>2. ASSUME NEW o \in Operator, Inspect(o) \/ Reconcile(o)
      PROVE  [Effect!Next]_(Effect!vars)
  <2>1. CASE Inspect(o)
    BY <1>1, <2>1 DEF Inspect
  <2>2. CASE Reconcile(o) /\ ~MayReconcile(o)
    BY <1>1, <2>2 DEF Reconcile
  <2>3. CASE Reconcile(o) /\ MayReconcile(o)
    <3>1. PICK r \in Receipt : r = order[o].at
      BY DEF DocTypeOK, Order
    <3>2. /\ docRow[r].status = "RECONCILIATION_REQUIRED" /\ UNCHANGED <<lane, delivered>>
          /\ docRow' = [docRow EXCEPT
                ![r].status = IF delivered[r] > 0 THEN "ACCEPTED" ELSE "PENDING",
                ![r].sid = (IF delivered[r] > 0 THEN "ACCEPTED" ELSE "PENDING") = "ACCEPTED",
                ![r].version = @ + 1]
      BY <2>3, <3>1 DEF Reconcile, MayReconcile
    <3>3. /\ docRow'[r].status = IF delivered[r] > 0 THEN "ACCEPTED" ELSE "PENDING"
          /\ \A t \in Receipt \ {r} : docRow'[t] = docRow[t]
      BY <3>2 DEF DocTypeOK, Row
    <3>4. \/ docRow'[r].status = "ACCEPTED" /\ delivered[r] = 1
          \/ docRow'[r].status = "PENDING" /\ delivered[r] = 0
      BY <3>3 DEF Fenced, RowFits
    <3>5. UNCHANGED <<lane, delivered>> /\ docRow[r].status = "RECONCILIATION_REQUIRED"
      BY <3>2
    <3>6. \A t \in Receipt \ {r} : docRow'[t] = docRow[t]
      BY <3>3
    <3> QED
      BY <3>4, <3>5, <3>6, FoundEffect
  <2> QED
    BY <1>2, <2>1, <2>2, <2>3
<1>3. ASSUME NEW r \in Receipt, StatusCallback(r) \/ ClaimLapses(r)
      PROVE  [Effect!Next]_(Effect!vars)
  <2>1. CASE StatusCallback(r)
    <3>1. /\ docRow[r].status = "RECONCILIATION_REQUIRED" /\ delivered[r] = 1
          /\ docRow'[r].status = "ACCEPTED" /\ \A t \in Receipt \ {r} : docRow'[t] = docRow[t]
          /\ UNCHANGED <<lane, delivered>>
      BY <2>1 DEF StatusCallback, Fenced, RowFits, DocTypeOK, Row
    <3> QED
      BY <3>1, FoundEffect
  <2>2. CASE ClaimLapses(r)
    <3>1. UNCHANGED <<lane, delivered>> /\ \A t \in Receipt : docRow'[t].status = docRow[t].status
      BY <2>2 DEF ClaimLapses, DocTypeOK, Row
    <3> QED
      BY <3>1, Quiet DEF SameKind, Sending, Mine
  <2> QED
    BY <1>3, <2>1, <2>2
<1>4. CASE ReceiptsChange \/ CancelQuery
  BY <1>1, <1>4 DEF ReceiptsChange, CancelQuery
<1>5. CASE UNCHANGED docVars
  BY <1>1, <1>5 DEF docVars
<1> QED
  BY <1>2, <1>3, <1>4, <1>5, RequestEffect DEF DocNext

\* The deliveries of a query implement OneEffect: with any number of messages
\* for one period, expired claims, crashes, lost answers, reconciliations and
\* callbacks a document is accepted by the provider at most once, is not sent
\* again while its outcome is in doubt, and is never recorded as accepted when
\* it was not.
THEOREM ImplementsOneEffect == DocSpec => DocumentsAreOneEffect
<1>1. DocInit => Effect!Init
  <2> SUFFICES ASSUME DocInit PROVE Effect!Init
    OBVIOUS
  <2>1. ASSUME NEW r \in Receipt PROVE Phase(r) = "open"
    BY DEF DocInit, Phase, Sending, SendingStep
  <2> QED
    BY <2>1 DEF DocInit, Effect!Init
<1>2. DocTypeOK /\ Fenced /\ [DocNext]_docVars => [Effect!Next]_(Effect!vars)
  BY NextEffect
<1> QED
  BY <1>1, <1>2, DocumentsTyped, ClaimsAreFenced, PTL DEF DocSpec, Effect!Spec,
     DocumentsAreOneEffect

-----------------------------------------------------------------------------
(* CompanyDeletion *)

\* What the stages before the k-th leave of a company's data.
Done(c, k) ==
    /\ k > 1 => files[c] # "kept" \/ ~ rows[c]
    /\ k > 2 => files[c] # "queued"
    /\ k > 3 => ~ rows[c]
    /\ k > 4 => ~ config[c]

UnderDeletion == {"PENDING_DELETION", "DELETING", "DELETION_FAILED"}
Purging == {"enter", "work"}

\* Whoever is at work works on a company.
LanesFit ==
    /\ \A a \in Admin : request[a] # NoRequest => request[a].company \in Company
    /\ \A p \in Purger : purge[p].pc # "idle" =>
            purge[p].company \in Company /\ purge[p].at \in 1..6

StagesFit ==
    /\ \A c \in Company : status[c] \in UnderDeletion => Done(c, stage[c])
    /\ \A p \in Purger : purge[p].pc \in Purging /\ Owns(p) =>
            Done(purge[p].company, purge[p].at)

DeletionInv == DeletionTypeOK /\ LanesFit /\ StagesFit

LEMMA DeletionBounds ==
  /\ Null \notin Company /\ Null \notin Purger
  /\ MaxAttempts \in Nat /\ MaxPurgeFaults \in Nat /\ MaxMoves \in Nat
BY DeletionAssumption

PurgeLane == [pc : {"idle", "enter", "work", "fail"}, company : Company \cup {Null}, at : 1..7]
RequestLane == [company : Company \cup {Null}, seen : {"ACTIVE", "INACTIVE"}]

LeaseRow == [owner : Purger \cup {Null}, expired : BOOLEAN]

LEMMA LaneMoves ==
  ASSUME NEW x \in PurgeLane, NEW pc \in {"enter", "work", "fail"}
  PROVE  /\ [x EXCEPT !.pc = pc] \in PurgeLane
         /\ [x EXCEPT !.pc = pc].company = x.company
         /\ [x EXCEPT !.pc = pc].at = x.at
BY DEF PurgeLane

LEMMA LaneGoesOn ==
  ASSUME NEW x \in PurgeLane, x.at \in 1..5
  PROVE  /\ [x EXCEPT !.pc = "enter", !.at = x.at + 1] \in PurgeLane
         /\ [x EXCEPT !.pc = "enter", !.at = x.at + 1].company = x.company
         /\ [x EXCEPT !.pc = "enter", !.at = x.at + 1].at = x.at + 1
<1>1. x.at + 1 \in 1..7
  OBVIOUS
<1> QED
  BY <1>1 DEF PurgeLane

LEMMA LeaseTyped ==
  ASSUME lease \in [Company -> LeaseRow], NEW c \in Company
  PROVE  /\ [lease EXCEPT ![c] = FreeLease] \in [Company -> LeaseRow]
         /\ [lease EXCEPT ![c].expired = FALSE] \in [Company -> LeaseRow]
<1>1. FreeLease \in LeaseRow
  BY DEF FreeLease, LeaseRow
<1>2. [lease[c] EXCEPT !.expired = FALSE] \in LeaseRow
  BY DEF LeaseRow
<1> QED
  BY <1>1, <1>2

LEMMA AdminTyped ==
  ASSUME DeletionTypeOK, LanesFit, NEW a \in Admin,
         DeactivateCommit(a) \/ \E c \in Company : DeactivateRead(a, c)
  PROVE  DeletionTypeOK' /\ LanesFit'
<1> USE DeletionBounds
<1>1. CASE DeactivateCommit(a)
  <2>1. request[a].company \in Company
    BY <1>1 DEF LanesFit, DeactivateCommit
  <2>3. NoRequest \in RequestLane
    BY DEF NoRequest, RequestLane
  <2>4. request' \in [Admin -> RequestLane]
    BY <1>1, <2>3 DEF DeletionTypeOK, DeactivateCommit, RequestLane
  <2>5. DeletionTypeOK'
    <3>1. CASE MayDeactivate(a)
      <4> DEFINE c == request[a].company
      <4>1. /\ c \in Company
            /\ status' = [status EXCEPT ![c] = "PENDING_DELETION"]
            /\ due' = [due EXCEPT ![c] = FALSE]
            /\ stage' = [stage EXCEPT ![c] = 1]
            /\ attempts' = [attempts EXCEPT ![c] = 0]
            /\ lease' = [lease EXCEPT ![c] = FreeLease]
            /\ UNCHANGED <<files, rows, config, purge, purgeFaults, moves>>
        BY <1>1, <2>1, <3>1 DEF DeactivateCommit, Data
      <4> HIDE DEF c
      <4>2. lease' \in [Company -> [owner : Purger \cup {Null}, expired : BOOLEAN]]
        BY <4>1, LeaseTyped DEF DeletionTypeOK, LeaseRow
      <4>3. attempts' \in [Company -> 0..MaxAttempts + 1] /\ stage' \in [Company -> 1..6]
        BY <4>1 DEF DeletionTypeOK
      <4> QED
        BY <2>4, <4>1, <4>2, <4>3 DEF DeletionTypeOK, RequestLane
    <3>2. CASE ~ MayDeactivate(a)
      BY <1>1, <2>4, <3>2 DEF DeletionTypeOK, DeactivateCommit, CompanyRow, Data, RequestLane
    <3> QED
      BY <3>1, <3>2
  <2>6. LanesFit'
    BY <1>1 DEF DeletionTypeOK, LanesFit, DeactivateCommit
  <2> QED
    BY <2>5, <2>6
<1>2. CASE \E c \in Company : DeactivateRead(a, c)
  BY <1>2 DEF DeletionTypeOK, LanesFit, DeactivateRead, CompanyRow, Data
<1> QED
  BY <1>1, <1>2

LEMMA CompanyTyped ==
  ASSUME DeletionTypeOK, LanesFit, NEW c \in Company,
         Reactivate(c) \/ Use(c) \/ GraceEnds(c) \/ LeaseExpires(c)
  PROVE  DeletionTypeOK' /\ LanesFit'
<1> USE DeletionBounds
<1>1. CASE Reactivate(c)
  <2>1. lease' \in [Company -> [owner : Purger \cup {Null}, expired : BOOLEAN]]
    BY <1>1, LeaseTyped DEF DeletionTypeOK, LeaseRow, Reactivate
  <2> QED
    BY <1>1, <2>1 DEF DeletionTypeOK, LanesFit, Reactivate, Data
<1>2. CASE Use(c)
  BY <1>2 DEF DeletionTypeOK, LanesFit, Use, CompanyRow
<1>3. CASE GraceEnds(c)
  BY <1>3 DEF DeletionTypeOK, LanesFit, GraceEnds, Data
<1>4. CASE LeaseExpires(c)
  <2>1. purgeFaults' \in 0..MaxPurgeFaults
    BY <1>4 DEF DeletionTypeOK, LeaseExpires
  <2>2. UNCHANGED <<status, due, stage, attempts, files, rows, config, purge, request, moves>>
    BY <1>4 DEF LeaseExpires, Data
  <2>3. lease' \in [Company -> [owner : Purger \cup {Null}, expired : BOOLEAN]]
    BY <1>4 DEF DeletionTypeOK, LeaseExpires
  <2> QED
    BY <2>1, <2>2, <2>3 DEF DeletionTypeOK, LanesFit
<1> QED
  BY <1>1, <1>2, <1>3, <1>4

LEMMA PurgerTyped ==
  ASSUME DeletionTypeOK, LanesFit, NEW p \in Purger,
         Proceed(p) \/ Error(p) \/ Crash(p)
  PROVE  DeletionTypeOK' /\ LanesFit'
<1> USE DeletionBounds
<1> DEFINE c == purge[p].company
<1>1. purge[p] \in PurgeLane /\ Resting \in PurgeLane /\ Resting.pc = "idle"
  BY DEF DeletionTypeOK, PurgeLane, Resting
<1>2. purge[p].pc # "idle" => c \in Company /\ purge[p].at \in 1..6
  BY DEF LanesFit
<1>4. ASSUME NEW x \in PurgeLane, purge' = [purge EXCEPT ![p] = x], UNCHANGED request,
             x.pc # "idle" => x.company \in Company /\ x.at \in 1..6
      PROVE  purge' \in [Purger -> PurgeLane] /\ LanesFit'
  BY <1>4 DEF DeletionTypeOK, LanesFit, PurgeLane
<1>5. CASE \E d \in Company : Claim(p, d)
  <2>1. PICK d \in Company : Claim(p, d)
    BY <1>5
  <2> DEFINE x == [pc |-> IF attempts[d] + 1 > MaxAttempts THEN "fail" ELSE "enter",
                   company |-> d, at |-> stage[d]]
  <2>2. x \in PurgeLane /\ x.company \in Company /\ x.at \in 1..6
    BY DEF DeletionTypeOK, PurgeLane
  <2>3. purge' \in [Purger -> PurgeLane] /\ LanesFit'
    BY <1>4, <2>1, <2>2 DEF Claim
  <2>4. attempts' \in [Company -> 0..MaxAttempts + 1]
    BY <2>1 DEF DeletionTypeOK, Claim
  <2> QED
    BY <2>1, <2>3, <2>4 DEF DeletionTypeOK, Claim, Data, PurgeLane
<1>6. CASE Enter(p)
  <2> DEFINE x == IF Owns(p) THEN [purge[p] EXCEPT !.pc = "work"] ELSE Resting
  <2>1. x \in PurgeLane /\ (x.pc # "idle" => x.company \in Company /\ x.at \in 1..6)
    BY <1>1, <1>2, <1>6 DEF Enter, PurgeLane
  <2>2. purge' = [purge EXCEPT ![p] = x] /\ UNCHANGED request
    BY <1>6 DEF Enter
  <2>3. purge' \in [Purger -> PurgeLane] /\ LanesFit'
    BY <1>4, <2>1, <2>2
  <2>4. lease' \in [Company -> [owner : Purger \cup {Null}, expired : BOOLEAN]]
    <3>1. c \in Company
      BY <1>2, <1>6 DEF Enter
    <3>2. lease' = lease \/ lease' = [lease EXCEPT ![c].expired = FALSE]
      BY <1>6 DEF Enter
    <3> HIDE DEF c
    <3> QED
      BY <3>1, <3>2, LeaseTyped DEF DeletionTypeOK, LeaseRow
  <2>5. stage' \in [Company -> 1..6]
    BY <1>2, <1>6 DEF DeletionTypeOK, Enter
  <2>6. UNCHANGED <<status, due, attempts, files, rows, config, request, purgeFaults, moves>>
    BY <1>6 DEF Enter, Data
  <2> HIDE DEF x
  <2> QED
    BY <2>3, <2>4, <2>5, <2>6 DEF DeletionTypeOK, PurgeLane
<1>7. CASE Work(p)
  <2> DEFINE x == IF Stages[purge[p].at] = "VERIFY_EMPTY" /\ Residue(c)
                  THEN [purge[p] EXCEPT !.pc = "fail"]
                  ELSE [purge[p] EXCEPT !.pc = "enter", !.at = purge[p].at + 1]
  <2>1. c \in Company /\ purge[p].at \in 1..5
    BY <1>2, <1>7 DEF Work, Stages
  <2>2. x \in PurgeLane /\ x.company = c /\ x.at \in {purge[p].at, purge[p].at + 1}
    <3> DEFINE o == purge[p]
    <3>1. /\ [o EXCEPT !.pc = "fail"] \in PurgeLane
          /\ [o EXCEPT !.pc = "fail"].company = c /\ [o EXCEPT !.pc = "fail"].at = o.at
      BY <1>1, LaneMoves
    <3>2. /\ [o EXCEPT !.pc = "enter", !.at = o.at + 1] \in PurgeLane
          /\ [o EXCEPT !.pc = "enter", !.at = o.at + 1].company = c
          /\ [o EXCEPT !.pc = "enter", !.at = o.at + 1].at = o.at + 1
      BY <1>1, <2>1, LaneGoesOn
    <3> QED
      BY <3>1, <3>2, Zenon
  <2>3. purge' = [purge EXCEPT ![p] = x] /\ UNCHANGED request
    BY <1>7 DEF Work
  <2> HIDE DEF x
  <2>4. purge' \in [Purger -> PurgeLane] /\ LanesFit'
    <3>1. x.company \in Company /\ x.at \in 1..6
      <4>1. purge[p].at + 1 \in 1..6 /\ purge[p].at \in 1..6
        BY <2>1
      <4> QED
        BY <2>1, <2>2, <4>1, Zenon
    <3> QED
      BY <1>4, <2>2, <2>3, <3>1
  <2>5. files' \in [Company -> {"kept", "queued", "gone"}]
    BY <1>2, <1>7 DEF DeletionTypeOK, Work
  <2>6. rows' \in [Company -> BOOLEAN] /\ config' \in [Company -> BOOLEAN]
    BY <1>2, <1>7 DEF DeletionTypeOK, Work
  <2> QED
    BY <1>7, <2>4, <2>5, <2>6 DEF DeletionTypeOK, Work, CompanyRow, PurgeLane
<1>8. CASE Tombstone(p)
  <2>1. purge' \in [Purger -> PurgeLane] /\ LanesFit'
    BY <1>1, <1>4, <1>8 DEF Tombstone
  <2>2. /\ status' = status \/ status' = [status EXCEPT ![c] = "DELETED"]
        /\ due' = due \/ due' = [due EXCEPT ![c] = FALSE]
        /\ lease' = lease \/ lease' = [lease EXCEPT ![c] = FreeLease]
        /\ UNCHANGED <<stage, attempts, files, rows, config, request, purgeFaults, moves>>
    BY <1>8 DEF Tombstone, Data
  <2>3. c \in Company
    BY <1>2, <1>8 DEF Tombstone
  <2>4. lease' \in [Company -> [owner : Purger \cup {Null}, expired : BOOLEAN]]
    <3>1. lease \in [Company -> LeaseRow]
      BY DEF DeletionTypeOK, LeaseRow
    <3>2. [lease EXCEPT ![c] = FreeLease] \in [Company -> LeaseRow]
      BY <2>3, <3>1, LeaseTyped
    <3> QED
      BY <2>2, <3>1, <3>2, Zenon DEF LeaseRow
  <2> HIDE DEF c
  <2> QED
    BY <2>1, <2>2, <2>4 DEF DeletionTypeOK, PurgeLane
<1>9. CASE MarkFailed(p)
  <2>1. purge' \in [Purger -> PurgeLane] /\ LanesFit'
    BY <1>1, <1>4, <1>9 DEF MarkFailed
  <2>2. /\ status' = status \/ status' = [status EXCEPT ![c] = "DELETION_FAILED"]
        /\ lease' = lease \/ lease' = [lease EXCEPT ![c] = FreeLease]
        /\ UNCHANGED <<due, stage, attempts, files, rows, config, request, purgeFaults, moves>>
    BY <1>9 DEF MarkFailed, Data
  <2>3. c \in Company
    BY <1>2, <1>9 DEF MarkFailed
  <2>4. lease' \in [Company -> [owner : Purger \cup {Null}, expired : BOOLEAN]]
    <3>1. lease \in [Company -> LeaseRow]
      BY DEF DeletionTypeOK, LeaseRow
    <3>2. [lease EXCEPT ![c] = FreeLease] \in [Company -> LeaseRow]
      BY <2>3, <3>1, LeaseTyped
    <3> QED
      BY <2>2, <3>1, <3>2, Zenon DEF LeaseRow
  <2> HIDE DEF c
  <2> QED
    BY <2>1, <2>2, <2>4 DEF DeletionTypeOK, PurgeLane
<1>10. CASE Error(p)
  <2>1. [purge[p] EXCEPT !.pc = "fail"] \in PurgeLane
    BY <1>1 DEF PurgeLane
  <2>2. purge' \in [Purger -> PurgeLane] /\ LanesFit'
    BY <1>1, <1>2, <1>4, <1>10, <2>1 DEF Error, PurgeLane
  <2> QED
    BY <1>10, <2>2 DEF DeletionTypeOK, Error, CompanyRow, Data, PurgeLane
<1>11. CASE Crash(p)
  <2>1. purge' \in [Purger -> PurgeLane] /\ LanesFit'
    BY <1>1, <1>4, <1>11 DEF Crash
  <2> QED
    BY <1>11, <2>1 DEF DeletionTypeOK, Crash, CompanyRow, Data, PurgeLane
<1> QED
  BY <1>5, <1>6, <1>7, <1>8, <1>9, <1>10, <1>11 DEF Proceed

-----------------------------------------------------------------------------
(* CompanyDeletion: what a stage has done stays done while the deletion goes on. *)

LEMMA DoneStays ==
  ASSUME NEW c, NEW k, Done(c, k), UNCHANGED Data
  PROVE  Done(c, k)'
BY DEF Done, Data

\* The work of any stage, that of a purge that was overtaken too.
LEMMA WorkKeepsDone ==
  ASSUME DeletionTypeOK, LanesFit, NEW p \in Purger, Work(p),
         NEW c \in Company, NEW k \in 1..6, Done(c, k)
  PROVE  Done(c, k)'
<1> DEFINE d == purge[p].company
<1>1. d \in Company
  BY DEF LanesFit, Work
<1>2. c # d => UNCHANGED <<files[c], rows[c], config[c]>>
  BY <1>1 DEF DeletionTypeOK, Work
<1>3. CASE c # d
  BY <1>2, <1>3 DEF Done
<1>4. CASE c = d
  <2>1. (rows'[c] => rows[c]) /\ (config'[c] => config[c])
    BY <1>4 DEF DeletionTypeOK, Work
  <2>2. \/ files'[c] = files[c]
        \/ files[c] = "kept" /\ rows[c] /\ files'[c] = "queued"
        \/ files[c] = "queued" /\ files'[c] = "gone"
    BY <1>4 DEF DeletionTypeOK, Work
  <2> QED
    BY <2>1, <2>2 DEF Done
<1> QED
  BY <1>3, <1>4

\* A stage that is worked through leaves what the next one starts from.
LEMMA WorkDoes ==
  ASSUME DeletionTypeOK, LanesFit, NEW p \in Purger, Work(p),
         NEW c, c = purge[p].company, NEW k, k = purge[p].at, Done(c, k)
  PROVE  k \in 1..5 /\ Done(c, k + 1)'
<1> DEFINE s == Stages[k]
<1>1. c \in Company /\ k \in 1..5
  BY DEF LanesFit, Work, Stages
<1>2. /\ files'[c] = IF s = "STORAGE_DISCOVERY" /\ files[c] = "kept" /\ rows[c] THEN "queued"
                      ELSE IF s = "STORAGE_DELETE" /\ files[c] = "queued" THEN "gone"
                      ELSE files[c]
      /\ rows'[c] = (rows[c] /\ s # "OPERATIONAL_DATA_DELETE")
      /\ config'[c] = (config[c] /\ s # "IDENTITY_CONFIG_DELETE")
  BY <1>1 DEF DeletionTypeOK, Work
<1>3. files[c] \in {"kept", "queued", "gone"} /\ rows[c] \in BOOLEAN /\ config[c] \in BOOLEAN
  BY <1>1 DEF DeletionTypeOK
<1>4. /\ Stages[1] = "STORAGE_DISCOVERY" /\ Stages[2] = "STORAGE_DELETE"
      /\ Stages[3] = "OPERATIONAL_DATA_DELETE" /\ Stages[4] = "IDENTITY_CONFIG_DELETE"
      /\ Stages[5] = "VERIFY_EMPTY"
  BY DEF Stages
<1>5. Done(c, k + 1)'
  <2>1. CASE k = 1
    BY <1>2, <1>3, <1>4, <2>1 DEF Done
  <2>2. CASE k = 2
    <3>1. /\ files'[c] = IF files[c] = "queued" THEN "gone" ELSE files[c]
          /\ rows'[c] = rows[c]
      BY <1>2, <1>3, <1>4, <2>2
    <3>2. files[c] # "kept" \/ ~ rows[c]
      BY <2>2 DEF Done
    <3> QED
      BY <2>2, <3>1, <3>2 DEF Done
  <2>3. CASE k = 3
    <3>1. files'[c] = files[c] /\ ~ rows'[c]
      BY <1>2, <1>3, <1>4, <2>3
    <3>2. files[c] # "queued"
      BY <2>3 DEF Done
    <3> QED
      BY <2>3, <3>1, <3>2 DEF Done
  <2>4. CASE k = 4
    BY <1>2, <1>3, <1>4, <2>4 DEF Done
  <2>5. CASE k = 5
    BY <1>2, <1>3, <1>4, <2>5 DEF Done
  <2> QED
    BY <1>1, <2>1, <2>2, <2>3, <2>4, <2>5
<1> QED
  BY <1>1, <1>5

\* A step that neither touches the data nor brings a company into deletion,
\* moves a stage or makes anyone a purge's owner keeps the stages.
LEMMA StagesStay ==
  ASSUME StagesFit, UNCHANGED Data,
         \A c \in Company : status'[c] \in UnderDeletion =>
             (status[c] \in UnderDeletion /\ stage'[c] = stage[c]) \/ stage'[c] = 1,
         \A p \in Purger : purge'[p].pc \in Purging /\ Owns(p)' =>
             purge'[p].company = purge[p].company /\ purge'[p].at = purge[p].at
               /\ purge[p].pc \in Purging /\ Owns(p)
  PROVE  StagesFit'
<1>1. ASSUME NEW c \in Company, status'[c] \in UnderDeletion
      PROVE  Done(c, stage[c])'
  BY <1>1 DEF StagesFit, Done, Data
<1>2. ASSUME NEW p \in Purger, (purge[p].pc \in Purging /\ Owns(p))'
      PROVE  Done(purge[p].company, purge[p].at)'
  BY <1>2 DEF StagesFit, Done, Data
<1> QED
  BY <1>1, <1>2 DEF StagesFit, UnderDeletion, Purging

LEMMA AdminKeeps ==
  ASSUME DeletionInv, NEW a \in Admin,
         DeactivateCommit(a) \/ \E c \in Company : DeactivateRead(a, c)
  PROVE  StagesFit'
<1> USE DEF DeletionInv
<1>1. CASE DeactivateCommit(a) /\ MayDeactivate(a)
  <2> DEFINE d == request[a].company
  <2>1. d \in Company
    BY <1>1 DEF LanesFit, DeactivateCommit
  <2>2. /\ status' = [status EXCEPT ![d] = "PENDING_DELETION"]
        /\ stage' = [stage EXCEPT ![d] = 1]
        /\ lease' = [lease EXCEPT ![d] = FreeLease]
        /\ UNCHANGED <<Data, purge>>
    BY <1>1 DEF DeactivateCommit
  <2> HIDE DEF d
  <2>3. \A c \in Company : c # d => status'[c] = status[c] /\ stage'[c] = stage[c]
                                     /\ lease'[c] = lease[c]
    BY <2>1, <2>2 DEF DeletionTypeOK
  <2>4. status'[d] = "PENDING_DELETION" /\ stage'[d] = 1
    BY <2>1, <2>2 DEF DeletionTypeOK
  <2>5. \A p \in Purger : purge'[p].pc \in Purging /\ Owns(p)' => Owns(p)
    BY <2>2, <2>3, <2>4 DEF LanesFit, Owns, Purging
  <2> QED
    BY <2>2, <2>3, <2>4, <2>5, StagesStay DEF Data
<1>2. CASE UNCHANGED <<CompanyRow, Data, purge>>
  BY <1>2, StagesStay DEF CompanyRow, Owns
<1> QED
  BY <1>1, <1>2 DEF DeactivateCommit, DeactivateRead

LEMMA CompanyKeeps ==
  ASSUME DeletionInv, NEW d \in Company,
         Reactivate(d) \/ Use(d) \/ GraceEnds(d) \/ LeaseExpires(d)
  PROVE  StagesFit'
<1> USE DEF DeletionInv
<1>1. CASE Reactivate(d)
  <2>1. /\ status' = [status EXCEPT ![d] = "ACTIVE"]
        /\ stage' = [stage EXCEPT ![d] = 1]
        /\ lease' = [lease EXCEPT ![d] = FreeLease]
        /\ UNCHANGED <<Data, purge>>
    BY <1>1 DEF Reactivate
  <2>2. \A c \in Company : c # d => status'[c] = status[c] /\ stage'[c] = stage[c]
                                     /\ lease'[c] = lease[c]
    BY <2>1 DEF DeletionTypeOK
  <2>3. status'[d] = "ACTIVE"
    BY <2>1 DEF DeletionTypeOK
  <2>4. \A p \in Purger : purge'[p].pc \in Purging /\ Owns(p)' => Owns(p)
    BY <2>1, <2>2, <2>3 DEF LanesFit, Owns, Purging
  <2> QED
    BY <2>1, <2>2, <2>3, <2>4, StagesStay DEF Data, UnderDeletion
<1>2. CASE Use(d)
  \* Only a company nobody deletes is used, and it owes no stage.
  <2>1. /\ status[d] = "ACTIVE" /\ UNCHANGED <<status, stage, lease, purge>>
        /\ \A c \in Company : c # d => UNCHANGED <<files[c], rows[c], config[c]>>
    BY <1>2 DEF DeletionTypeOK, Use, CompanyRow
  <2>2. ASSUME NEW c \in Company, status'[c] \in UnderDeletion
        PROVE  Done(c, stage[c])'
    BY <2>1, <2>2 DEF StagesFit, Done, UnderDeletion
  <2>3. ASSUME NEW p \in Purger, (purge[p].pc \in Purging /\ Owns(p))'
        PROVE  Done(purge[p].company, purge[p].at)'
    <3>1. purge[p].company \in Company /\ purge[p].company # d
      BY <2>1, <2>3 DEF LanesFit, Owns, Purging
    <3> QED
      BY <2>1, <2>3, <3>1 DEF StagesFit, Done, Owns
  <2> QED
    BY <2>2, <2>3 DEF StagesFit, UnderDeletion, Purging
<1>3. CASE GraceEnds(d)
  BY <1>3, StagesStay DEF GraceEnds, Owns
<1>4. CASE LeaseExpires(d)
  <2>1. UNCHANGED <<status, stage, Data, purge>> /\ \A c \in Company : lease'[c].owner = lease[c].owner
    BY <1>4 DEF DeletionTypeOK, LeaseExpires
  <2>2. \A p \in Purger : purge'[p].pc \in Purging /\ Owns(p)' => Owns(p)
    BY <2>1 DEF LanesFit, Owns, Purging
  <2> QED
    BY <2>1, <2>2, StagesStay
<1> QED
  BY <1>1, <1>2, <1>3, <1>4

LEMMA PurgerKeeps ==
  ASSUME DeletionInv, NEW p \in Purger, Proceed(p) \/ Error(p) \/ Crash(p)
  PROVE  StagesFit'
<1> USE DEF DeletionInv
<1> DEFINE d == purge[p].company
<1>0. \A q \in Purger : q # p => purge'[q] = purge[q]
  BY DEF DeletionTypeOK, Proceed, Claim, Enter, Work, Tombstone, MarkFailed, Error, Crash
<1>1. CASE \E c \in Company : Claim(p, c)
  <2>1. PICK e \in Company : Claim(p, e)
    BY <1>1
  <2>2. /\ purge'[p].company = e /\ purge'[p].at = stage[e]
        /\ status[e] \in UnderDeletion
        /\ lease'[e].owner = p
        /\ UNCHANGED <<Data, stage>>
        /\ \A c \in Company : c # e => UNCHANGED <<status[c], lease[c]>>
    BY <2>1 DEF DeletionTypeOK, Claim, MayPurge, UnderDeletion
  <2>3. ASSUME NEW c \in Company, status'[c] \in UnderDeletion
        PROVE  Done(c, stage[c])'
    BY <2>2, <2>3 DEF StagesFit, Done, Data
  <2>4. ASSUME NEW q \in Purger, (purge[q].pc \in Purging /\ Owns(q))'
        PROVE  Done(purge[q].company, purge[q].at)'
    <3>1. CASE q = p
      BY <2>2, <3>1 DEF StagesFit, Done, Data
    <3>2. CASE q # p
      <4>1. purge'[q] = purge[q] /\ purge[q].company \in Company
        BY <1>0, <2>4, <3>2 DEF LanesFit, Purging
      <4>2. purge[q].company # e
        BY <2>2, <2>4, <3>2, <4>1 DEF Owns
      <4>3. Owns(q)
        BY <2>2, <2>4, <4>1, <4>2 DEF Owns
      <4> QED
        BY <2>2, <2>4, <4>1, <4>3 DEF StagesFit, Done, Data
    <3> QED
      BY <3>1, <3>2
  <2> QED
    BY <2>3, <2>4 DEF StagesFit, UnderDeletion, Purging
<1>2. CASE Enter(p) /\ Owns(p)
  <2>1. d \in Company /\ status[d] = "DELETING" /\ Done(d, purge[p].at)
    BY <1>2 DEF Enter, LanesFit, StagesFit, Owns, Purging
  <2>2. /\ stage'[d] = purge[p].at
        /\ purge'[p].company = d /\ purge'[p].at = purge[p].at
        /\ UNCHANGED <<Data, status>>
        /\ \A c \in Company : lease'[c].owner = lease[c].owner
        /\ \A c \in Company : c # d => stage'[c] = stage[c]
    <3>1. /\ lease' = [lease EXCEPT ![d].expired = FALSE]
          /\ stage' = [stage EXCEPT ![d] = purge[p].at]
          /\ purge' = [purge EXCEPT ![p].pc = "work"]
          /\ UNCHANGED <<Data, status>>
      BY <1>2 DEF Enter
    <3>2. purge'[p] = [purge[p] EXCEPT !.pc = "work"] /\ purge[p] \in PurgeLane
      BY <3>1 DEF DeletionTypeOK, PurgeLane
    <3>3. purge'[p].company = d /\ purge'[p].at = purge[p].at
      BY <3>2, LaneMoves
    <3> HIDE DEF d
    <3>4. \A c \in Company : lease'[c].owner = lease[c].owner
      BY <2>1, <3>1 DEF DeletionTypeOK
    <3>5. stage'[d] = purge[p].at /\ \A c \in Company : c # d => stage'[c] = stage[c]
      BY <2>1, <3>1 DEF DeletionTypeOK
    <3> QED
      BY <3>1, <3>3, <3>4, <3>5
  <2>3. ASSUME NEW c \in Company, status'[c] \in UnderDeletion
        PROVE  Done(c, stage[c])'
    BY <2>1, <2>2, <2>3 DEF StagesFit, Done, Data
  <2>4. ASSUME NEW q \in Purger, (purge[q].pc \in Purging /\ Owns(q))'
        PROVE  Done(purge[q].company, purge[q].at)'
    <3>1. CASE q = p
      BY <2>1, <2>2, <3>1 DEF Done, Data
    <3>2. CASE q # p
      BY <1>0, <2>2, <2>4, <3>2 DEF StagesFit, LanesFit, Done, Data, Owns, Purging
    <3> QED
      BY <3>1, <3>2
  <2> QED
    BY <2>3, <2>4 DEF StagesFit, UnderDeletion, Purging
<1>3. CASE Work(p)
  <2>1. UNCHANGED <<status, stage, lease>> /\ purge'[p].company = d
    BY <1>3 DEF DeletionTypeOK, Work, CompanyRow
  <2>2. ASSUME NEW c \in Company, status'[c] \in UnderDeletion
        PROVE  Done(c, stage[c])'
    <3>1. stage[c] \in 1..6 /\ Done(c, stage[c])
      BY <2>1, <2>2 DEF DeletionTypeOK, StagesFit
    <3>2. PICK k \in 1..6 : k = stage[c]
      BY <3>1
    <3>3. Done(c, k)'
      BY <1>3, <3>1, <3>2, WorkKeepsDone
    <3> QED
      BY <2>1, <3>2, <3>3 DEF Done
  <2>3. ASSUME NEW q \in Purger, (purge[q].pc \in Purging /\ Owns(q))'
        PROVE  Done(purge[q].company, purge[q].at)'
    <3>1. CASE q = p
      <4>1. purge'[p].at = purge[p].at + 1
        BY <1>3, <2>3, <3>1 DEF DeletionTypeOK, Work, Purging
      <4>2. Done(d, purge[p].at)
        BY <1>3, <2>1, <2>3, <3>1 DEF StagesFit, Owns, Work, Purging
      <4>3. PICK k : k = purge[p].at
        OBVIOUS
      <4>4. PICK c : c = d
        OBVIOUS
      <4>5. Done(c, k + 1)'
        BY <1>3, <4>2, <4>3, <4>4, WorkDoes
      <4> QED
        BY <2>1, <3>1, <4>1, <4>3, <4>4, <4>5 DEF Done
    <3>2. CASE q # p
      <4>1. purge'[q] = purge[q] /\ purge[q].pc \in Purging /\ Owns(q)
        BY <1>0, <2>1, <2>3, <3>2 DEF Owns
      <4>2. Done(purge[q].company, purge[q].at)
        BY <4>1 DEF StagesFit
      <4>3. purge[q].company \in Company /\ purge[q].at \in 1..6
        BY <4>1 DEF LanesFit, Purging
      <4>4. PICK c \in Company, k \in 1..6 : c = purge[q].company /\ k = purge[q].at
        BY <4>3
      <4>5. Done(c, k)'
        BY <1>3, <4>2, <4>4, WorkKeepsDone
      <4> QED
        BY <4>1, <4>4, <4>5 DEF Done
    <3> QED
      BY <3>1, <3>2
  <2> QED
    BY <2>2, <2>3 DEF StagesFit, UnderDeletion, Purging
<1>4. CASE purge'[p].pc \notin Purging /\ UNCHANGED <<Data, stage>>
           /\ (\/ UNCHANGED <<status, lease>>
               \/ /\ d \in Company /\ status[d] = "DELETING"
                  /\ status'[d] \in {"DELETED", "DELETION_FAILED"}
                  /\ \A c \in Company : c # d => UNCHANGED <<status[c], lease[c]>>)
  <2>1. \A q \in Purger : purge'[q].pc \in Purging /\ Owns(q)' =>
             q # p /\ purge'[q] = purge[q] /\ purge[q].company \in Company
    BY <1>0, <1>4 DEF LanesFit, Purging
  <2>2. \A q \in Purger : purge'[q].pc \in Purging /\ Owns(q)' => Owns(q)
    BY <1>4, <2>1 DEF Owns
  <2>3. \A c \in Company : status'[c] \in UnderDeletion => status[c] \in UnderDeletion
    BY <1>4 DEF UnderDeletion
  <2> QED
    BY <1>4, <2>1, <2>2, <2>3, StagesStay
<1>5. purge[p] \in PurgeLane /\ Resting.pc = "idle" /\ (purge[p].pc # "idle" => d \in Company)
  BY DEF DeletionTypeOK, LanesFit, PurgeLane, Resting
<1>6. CASE Enter(p) /\ ~ Owns(p)
  BY <1>4, <1>5, <1>6 DEF DeletionTypeOK, Enter, Purging
<1>7. CASE Tombstone(p)
  <2>1. d \in Company /\ purge'[p].pc \notin Purging /\ UNCHANGED <<Data, stage>>
    BY <1>5, <1>7 DEF DeletionTypeOK, Tombstone, Purging
  <2> QED
    BY <1>4, <1>7, <2>1 DEF DeletionTypeOK, Tombstone, MayBury, Owns
<1>8. CASE MarkFailed(p)
  <2>1. d \in Company /\ purge'[p].pc \notin Purging /\ UNCHANGED <<Data, stage>>
    BY <1>5, <1>8 DEF DeletionTypeOK, MarkFailed, Purging
  <2> QED
    BY <1>4, <1>8, <2>1 DEF DeletionTypeOK, MarkFailed, Owns
<1>9. CASE Error(p) \/ Crash(p)
  BY <1>4, <1>5, <1>9 DEF DeletionTypeOK, Error, Crash, CompanyRow, Purging
<1> QED
  BY <1>1, <1>2, <1>3, <1>6, <1>7, <1>8, <1>9 DEF Proceed

\* A company's row and the purge that owns it never claim a stage is done
\* that is not: neither when a purge takes over from another or resumes, nor
\* when the company was brought back and used in between
\* (company-deletion-purge.service.ts, company.repository.ts).
THEOREM DeletionInvariance == DeletionSpec => []DeletionInv
<1>1. DeletionInit => DeletionInv
  <2> SUFFICES ASSUME DeletionInit PROVE DeletionInv
    OBVIOUS
  <2>1. DeletionTypeOK
    BY DeletionBounds DEF DeletionInit, DeletionTypeOK, FreeLease, Resting, NoRequest
  <2>2. LanesFit
    BY DEF DeletionInit, LanesFit, Resting
  <2>3. StagesFit
    BY <2>2 DEF DeletionInit, StagesFit, LanesFit, Done, Owns, Resting, UnderDeletion, Purging
  <2> QED
    BY <2>1, <2>2, <2>3 DEF DeletionInv
<1>2. DeletionInv /\ [DeletionNext]_deletionVars => DeletionInv'
  <2> SUFFICES ASSUME DeletionInv, [DeletionNext]_deletionVars PROVE DeletionInv'
    OBVIOUS
  <2>1. CASE UNCHANGED deletionVars
    BY <2>1 DEF deletionVars, CompanyRow, Data, DeletionInv, DeletionTypeOK, LanesFit,
                StagesFit, Done, Owns
  <2>2. ASSUME NEW a \in Admin, DeactivateCommit(a) \/ \E c \in Company : DeactivateRead(a, c)
        PROVE  DeletionInv'
    BY <2>2, AdminTyped, AdminKeeps DEF DeletionInv
  <2>3. ASSUME NEW c \in Company, Reactivate(c) \/ Use(c) \/ GraceEnds(c) \/ LeaseExpires(c)
        PROVE  DeletionInv'
    BY <2>3, CompanyTyped, CompanyKeeps DEF DeletionInv
  <2>4. ASSUME NEW p \in Purger, Proceed(p) \/ Error(p) \/ Crash(p)
        PROVE  DeletionInv'
    BY <2>4, PurgerTyped, PurgerKeeps DEF DeletionInv
  <2> QED
    BY <2>1, <2>2, <2>3, <2>4 DEF DeletionNext
<1> QED
  BY <1>1, <1>2, PTL DEF DeletionSpec

\* Only the purge that owns a company buries it.
LEMMA Buried ==
  ASSUME DeletionTypeOK, [DeletionNext]_deletionVars, NEW c \in Company,
         status'[c] = "DELETED", status[c] # "DELETED"
  PROVE  \E p \in Purger : Tombstone(p) /\ purge[p].company = c /\ Owns(p)
<1>1. status' # status
  OBVIOUS
<1>2. ~ UNCHANGED deletionVars
  BY <1>1 DEF deletionVars, CompanyRow
<1>3. ASSUME NEW a \in Admin, DeactivateCommit(a) \/ \E d \in Company : DeactivateRead(a, d)
      PROVE  FALSE
  BY <1>1, <1>3 DEF DeletionTypeOK, DeactivateCommit, DeactivateRead, CompanyRow
<1>4. ASSUME NEW d \in Company, Reactivate(d) \/ Use(d) \/ GraceEnds(d) \/ LeaseExpires(d)
      PROVE  FALSE
  BY <1>1, <1>4 DEF DeletionTypeOK, Reactivate, Use, GraceEnds, LeaseExpires, CompanyRow
<1>5. ASSUME NEW p \in Purger, Enter(p) \/ Work(p) \/ Error(p) \/ Crash(p)
      PROVE  FALSE
  BY <1>1, <1>5 DEF Enter, Work, Error, Crash, CompanyRow
<1>6. ASSUME NEW p \in Purger, MarkFailed(p)
      PROVE  FALSE
  BY <1>1, <1>6 DEF DeletionTypeOK, MarkFailed
<1>7. ASSUME NEW p \in Purger, NEW d \in Company, Claim(p, d)
      PROVE  FALSE
  BY <1>7 DEF DeletionTypeOK, Claim
<1>8. PICK p \in Purger : Tombstone(p)
  BY <1>2, <1>3, <1>4, <1>5, <1>6, <1>7 DEF DeletionNext, Proceed
<1>9. Owns(p) /\ status' = [status EXCEPT ![purge[p].company] = "DELETED"]
  BY <1>1, <1>8 DEF Tombstone, MayBury
<1>10. purge[p].company = c
  BY <1>9 DEF DeletionTypeOK
<1> QED
  BY <1>8, <1>9, <1>10

\* markDeleted never marks a company that has rows, memberships, settings or
\* a pending deletion of an object left.
THEOREM TombstonesAreLast == DeletionSpec => TombstoneMeansEmpty
<1> DEFINE Buries == \A c \in Company :
                (status'[c] = "DELETED" /\ status[c] # "DELETED") => ~ Residue(c)
<1>1. DeletionInv /\ [DeletionNext]_deletionVars => Buries
  <2> SUFFICES ASSUME DeletionInv, [DeletionNext]_deletionVars, NEW c \in Company,
                      status'[c] = "DELETED", status[c] # "DELETED"
               PROVE  ~ Residue(c)
    OBVIOUS
  <2>1. PICK p \in Purger : Tombstone(p) /\ purge[p].company = c /\ Owns(p)
    BY Buried DEF DeletionInv
  <2>2. purge[p].pc = "work" /\ Stages[purge[p].at] = "TOMBSTONE"
    BY <2>1 DEF Tombstone
  <2>3. purge[p].at = 6
    <3>1. purge[p].at \in 1..6
      BY <2>2 DEF DeletionInv, LanesFit
    <3>2. \A k \in 1..6 : Stages[k] = "TOMBSTONE" => k = 6
      BY DEF Stages
    <3> QED
      BY <2>2, <3>1, <3>2
  <2>4. Done(purge[p].company, purge[p].at)
    BY <2>1, <2>2 DEF DeletionInv, StagesFit, Purging
  <2> QED
    BY <2>1, <2>3, <2>4 DEF Done, Residue
<1>2. DeletionInv /\ [DeletionNext]_deletionVars => [Buries]_deletionVars
  BY <1>1
<1> QED
  BY <1>2, DeletionInvariance, PTL DEF TombstoneMeansEmpty, DeletionSpec

-----------------------------------------------------------------------------
(* VacancyCoverage *)

\* A family of subsets of a finite set has a smallest member.
LEMMA SmallestOf ==
  ASSUME NEW S, IsFiniteSet(S), NEW T \in SUBSET SUBSET S, T # {}
  PROVE  \E s \in T : \A u \in T : u \subseteq s => u = s
<1>1. IsWellFoundedOn(StrictSubsetOrdering(S), FiniteSubsetsOf(S))
  BY FS_StrictSubsetOrderingWellFounded
<1>2. T \subseteq FiniteSubsetsOf(S)
  BY FS_Subset DEF FiniteSubsetsOf
<1>3. PICK s \in T : \A u \in T : ~ (<<u, s>> \in StrictSubsetOrdering(S))
  BY <1>1, <1>2, WFMin
<1> QED
  BY <1>2, <1>3 DEF StrictSubsetOrdering, FiniteSubsetsOf

\* A map of a finite set to its subsets is smallest somewhere.
LEMMA SmallestAt ==
  ASSUME NEW S, IsFiniteSet(S), S # {}, NEW f, \A r \in S : f[r] \subseteq S
  PROVE  \E r \in S : \A s \in S : f[s] \subseteq f[r] => f[s] = f[r]
<1> DEFINE T == {f[r] : r \in S}
<1>1. T \in SUBSET SUBSET S /\ T # {}
  OBVIOUS
<1>2. \E t \in T : \A u \in T : u \subseteq t => u = t
  <2> HIDE DEF T
  <2> QED
    BY <1>1, SmallestOf
<1> QED
  BY <1>2

\* Finitely many numbers have a largest one.
Numbers(S) == S \subseteq Nat
Largest(S, r) == \A s \in S : s <= r

LEMMA LargestOf ==
  ASSUME NEW S, IsFiniteSet(S), S # {}, Numbers(S)
  PROVE  \E r \in S : Largest(S, r)
<1> DEFINE above == [r \in S |-> {s \in S : r < s}]
<1>2. \A r \in S : above[r] \subseteq S
  OBVIOUS
<1>3. \E r \in S : \A s \in S : above[s] \subseteq above[r] => above[s] = above[r]
  <2> HIDE DEF above
  <2> QED
    BY <1>2, SmallestAt
<1>4. PICK r \in S : \A s \in S : above[s] \subseteq above[r] => above[s] = above[r]
  BY <1>3
<1>5. ASSUME NEW s \in S, r < s PROVE FALSE
  <2>2. \A x \in S : s < x => r < x
    BY <1>5 DEF Numbers
  <2>3. above[s] \subseteq above[r]
    BY <2>2
  <2>4. s \in above[r] /\ s \notin above[s]
    BY <1>5 DEF Numbers
  <2> QED
    BY <2>3, <2>4, <1>4
<1> QED
  BY <1>5 DEF Numbers, Largest

\* The parent of a request is a request or none.
LEMMA ParentIsEarlier ==
  ASSUME VacancyTypeOK, NEW e \in Employee
  PROVE  Parent(e) \in 0..Len(requests)
<1> DEFINE mine == {r \in DOMAIN requests : requests[r].by = e
                                          /\ requests[r].status = "COVERED"}
<1>1. Len(requests) \in Nat /\ mine \subseteq 1..Len(requests)
  BY DEF VacancyTypeOK
<1>2. CASE mine = {}
  BY <1>1, <1>2 DEF Parent
<1>3. CASE mine # {}
  <2>1. IsFiniteSet(mine)
    <3>1. IsFiniteSet(1..Len(requests))
      BY <1>1, FS_Interval
    <3> QED
      BY <1>1, <3>1, FS_Subset
  <2>2. Numbers(mine)
    BY <1>1 DEF Numbers
  <2>3. \E r \in mine : Largest(mine, r)
    <3> HIDE DEF mine
    <3> QED
      BY <1>3, <2>1, <2>2, LargestOf
  <2>4. Parent(e) \in mine
    BY <1>3, <2>3 DEF Parent, Largest
  <2> QED
    BY <1>1, <2>4
<1> QED
  BY <1>2, <1>3

\* A rewriting of rows keeps their number and their shape.
LEMMA RowsRewritten ==
  ASSUME VacancyTypeOK, NEW rs, rs = [r \in DOMAIN requests |-> rs[r]],
         \A r \in DOMAIN requests : rs[r] \in RequestRow
  PROVE  rs \in Seq(RequestRow) /\ Len(rs) = Len(requests)
<1>1. DOMAIN requests = 1..Len(requests) /\ Len(requests) \in Nat
  BY DEF VacancyTypeOK
<1> QED
  BY <1>1

\* So does the change of one row.
LEMMA RowChanged ==
  ASSUME VacancyTypeOK, NEW k \in DOMAIN requests, NEW row \in RequestRow,
         NEW rs, rs = [requests EXCEPT ![k] = row]
  PROVE  /\ rs \in Seq(RequestRow)
         /\ Len(rs) = Len(requests)
         /\ rs[k] = row
         /\ \A r \in DOMAIN requests : r # k => rs[r] = requests[r]
BY DEF VacancyTypeOK

\* What the actions say of one request row.
LEMMA RowTyped ==
  ASSUME VacancyTypeOK, NEW r \in DOMAIN requests
  PROVE  /\ requests[r] \in RequestRow
         /\ r \in 1..Len(requests)
BY DEF VacancyTypeOK

-----------------------------------------------------------------------------
\* Parts of the types a step may disturb.
StaffTyped ==
    /\ seat \in [Employee -> [exp: Expectation, unavailable: BOOLEAN]]
    /\ assigned \in [Employee -> {"none", "active", "cancelled"}]
    /\ cover \in [Employee -> [for: Employee \cup {Nobody}, event: BOOLEAN]]
    /\ conflict \in [Employee -> {"none", "OPEN", "RESOLVED"}]
RowsTyped == requests \in Seq(RequestRow) /\ Len(requests) <= MaxRequests
WorkerRow(n) == [pc: {"idle", "listed", "marked", "opened", "picked", "telling"},
                 who: Employee \cup {Nobody}, req: 0..n,
                 picks: Seq(Employee), left: SUBSET Manager]
ReplyRow(n) == [req: 0..n, who: Employee \cup {Nobody}, vacant: BOOLEAN, free: BOOLEAN]
ReportTyped == report \in [Worker -> WorkerRow(Len(requests))]
ReplyTyped == /\ reply \in ReplyRow(Len(requests))
              /\ reply # NoReply => reply.req # 0 /\ reply.who \in Employee
PlainTyped == /\ day \in {"ACTIVE", "CANCELLED"} /\ away \subseteq Employee
              /\ reports \in 0..MaxReports /\ office \in 0..MaxOffice

Asked == \A w \in Worker : report[w].pc # "idle" => report[w].who \in Employee
PartsTyped == StaffTyped /\ RowsTyped /\ ReportTyped /\ ReplyTyped /\ PlainTyped

LEMMA PartsOfTypes ==
  VacancyTypeOK <=> StaffTyped /\ RowsTyped /\ ReportTyped /\ ReplyTyped /\ PlainTyped /\ Asked
BY Zenon DEF VacancyTypeOK, StaffTyped, RowsTyped, ReportTyped, ReplyTyped, PlainTyped,
       WorkerRow, ReplyRow, Asked

LEMMA PartsAfter ==
  ASSUME PartsTyped', Asked'
  PROVE  VacancyTypeOK'
BY Zenon DEF VacancyTypeOK, StaffTyped, RowsTyped, ReportTyped, ReplyTyped, PlainTyped,
       WorkerRow, ReplyRow, Asked, PartsTyped

LEMMA BoundsAreNumbers ==
  MaxRequests \in Nat /\ MaxReports \in Nat /\ MaxOffice \in Nat /\ IsFiniteSet(Employee)
BY VacancyAssumption

LEMMA InitTyped == VacancyInit => VacancyTypeOK
<1> SUFFICES ASSUME VacancyInit PROVE VacancyTypeOK
  OBVIOUS
<1> USE VacancyAssumption, BoundsAreNumbers DEF VacancyInit
<1>1. StaffTyped
  BY DEF StaffTyped, Expectation
<1>2. RowsTyped /\ Len(requests) = 0
  BY DEF RowsTyped
<1>3. ReportTyped
  BY <1>2 DEF ReportTyped, WorkerRow, NoReport
<1>4. ReplyTyped
  BY <1>2 DEF ReplyTyped, ReplyRow, NoReply
<1>5. PlainTyped
  BY DEF PlainTyped
<1>6. Asked
  BY DEF Asked, NoReport
<1> QED
  BY <1>1, <1>2, <1>3, <1>4, <1>5, <1>6, PartsOfTypes

\* A longer list of requests has the numbers of a shorter one.
LEMMA NumbersGrow ==
  ASSUME VacancyTypeOK, Len(requests)' \in Nat, Len(requests)' >= Len(requests)
  PROVE  /\ WorkerRow(Len(requests)) \subseteq WorkerRow(Len(requests)')
         /\ ReplyRow(Len(requests)) \subseteq ReplyRow(Len(requests)')
<1>1. Len(requests) \in Nat
  BY DEF VacancyTypeOK
<1>2. 0..Len(requests) \subseteq 0..Len(requests)'
  BY <1>1
<1> QED
  BY <1>2 DEF WorkerRow, ReplyRow

LEMMA ReportKept ==
  ASSUME VacancyTypeOK, RowsTyped', Len(requests)' >= Len(requests), report' = report
  PROVE  ReportTyped'
<1>1. Len(requests)' \in Nat
  BY DEF RowsTyped
<1>2. ReportTyped
  BY PartsOfTypes
<1> QED
  BY <1>1, <1>2, NumbersGrow DEF ReportTyped

LEMMA ReplyKept ==
  ASSUME VacancyTypeOK, RowsTyped', Len(requests)' >= Len(requests), reply' = reply
  PROVE  ReplyTyped'
<1>1. Len(requests)' \in Nat
  BY DEF RowsTyped
<1>2. ReplyTyped
  BY PartsOfTypes
<1> QED
  BY <1>1, <1>2, NumbersGrow DEF ReplyTyped

\* What stays as it is keeps its type.
LEMMA RowsKept ==
  ASSUME VacancyTypeOK, requests' = requests
  PROVE  RowsTyped' /\ Len(requests)' = Len(requests) /\ Len(requests) \in Nat
BY PartsOfTypes DEF RowsTyped

LEMMA StaffKept ==
  ASSUME VacancyTypeOK, UNCHANGED <<seat, assigned, cover, conflict>>
  PROVE  StaffTyped'
BY PartsOfTypes DEF StaffTyped

LEMMA NoneTyped ==
  ASSUME NEW n \in Nat
  PROVE  NoReport \in WorkerRow(n) /\ NoReply \in ReplyRow(n)
BY DEF NoReport, NoReply, WorkerRow, ReplyRow

\* The steps of a worker that leave the requests alone.
LEMMA WorkerTyped ==
  ASSUME VacancyTypeOK, NEW w \in Worker, NEW e,
         \/ e \in Employee /\ Report(w, e)
         \/ MarkUnavailable(w) \/ Recommend(w) \/ Abandon(w)
  PROVE  PartsTyped'
<1> USE BoundsAreNumbers
<1>0. requests' = requests
  BY DEF Report, MarkUnavailable, Recommend, Abandon
<1>1. RowsTyped' /\ Len(requests)' = Len(requests) /\ Len(requests) \in Nat
  BY <1>0, RowsKept
<1>2. ReplyTyped'
  BY <1>1, ReplyKept DEF Report, MarkUnavailable, Recommend, Abandon
<1>3. PlainTyped'
  <2>1. reports' \in 0..MaxReports
    <3>1. reports \in 0..MaxReports
      BY DEF VacancyTypeOK
    <3>2. CASE Report(w, e)
      BY <3>1, <3>2 DEF Report
    <3> QED
      BY <3>1, <3>2 DEF MarkUnavailable, Recommend, Abandon
  <2> QED
    BY <2>1, PartsOfTypes DEF PlainTyped, Report, MarkUnavailable, Recommend, Abandon, Leave
<1>4. StaffTyped'
  <2>1. CASE MarkUnavailable(w)
    <3> DEFINE x == report[w].who
               row == [seat[x] EXCEPT !.unavailable = TRUE]
    <3>1. \A y \in Employee : seat[y] \in [exp: Expectation, unavailable: BOOLEAN]
      BY DEF VacancyTypeOK
    <3>2. x \in Employee => row \in [exp: Expectation, unavailable: BOOLEAN]
      BY <3>1, Zenon
    <3>3. seat' = seat \/ seat' = [seat EXCEPT ![x] = row]
      BY <2>1, Zenon DEF MarkUnavailable
    <3>4. seat' \in [Employee -> [exp: Expectation, unavailable: BOOLEAN]]
      <4> HIDE DEF row, x
      <4> QED
        BY <3>2, <3>3 DEF VacancyTypeOK
    <3> QED
      BY <2>1, <3>4, PartsOfTypes DEF StaffTyped, MarkUnavailable, Leave
  <2>2. CASE ~ MarkUnavailable(w)
    BY <2>2, StaffKept DEF Report, Recommend, Abandon, Staff, Leave
  <2> QED
    BY <2>1, <2>2
<1>5. ReportTyped'
  <2>0. ReportTyped /\ report[w] \in WorkerRow(Len(requests))
    BY PartsOfTypes DEF ReportTyped
  <2>1. CASE e \in Employee /\ Report(w, e)
    <3>1. [NoReport EXCEPT !.pc = "listed", !.who = e] \in WorkerRow(Len(requests))
      <4>1. NoReport \in WorkerRow(Len(requests))
        BY <1>1, NoneTyped
      <4> QED
        BY <2>1, <4>1 DEF WorkerRow
    <3> QED
      BY <2>0, <2>1, <3>1, <1>0 DEF Report, ReportTyped
  <2>2. CASE MarkUnavailable(w)
    <3>1. [report[w] EXCEPT !.pc = "marked"] \in WorkerRow(Len(requests))
      BY <2>0 DEF WorkerRow
    <3> QED
      BY <2>0, <2>2, <3>1, <1>0 DEF MarkUnavailable, ReportTyped
  <2>3. CASE Recommend(w)
    <3>1. PICK s \in Rankings(report[w].req) :
             report' = [report EXCEPT ![w].pc = "picked", ![w].picks = s]
      BY <2>3 DEF Recommend
    <3>2. s \in Seq(Employee)
      <4>1. PICK A \in SUBSET Employee, n \in 0..3 : s \in [1..n -> A]
        BY DEF Rankings
      <4> QED
        BY <4>1
    <3>3. [report[w] EXCEPT !.pc = "picked", !.picks = s] \in WorkerRow(Len(requests))
      BY <2>0, <3>2 DEF WorkerRow
    <3>4. report' = [report EXCEPT ![w] = [report[w] EXCEPT !.pc = "picked", !.picks = s]]
      BY <2>0, <3>1 DEF ReportTyped
    <3> QED
      BY <2>0, <3>3, <3>4, <1>0 DEF ReportTyped
  <2>4. CASE Abandon(w)
    BY <2>0, <2>4, <1>0, <1>1, NoneTyped DEF Abandon, ReportTyped
  <2> QED
    BY <2>1, <2>2, <2>3, <2>4
<1> QED
  BY <1>1, <1>2, <1>3, <1>4, <1>5 DEF PartsTyped

-----------------------------------------------------------------------------
\* What becomes of one row.
CandidateState == {"none", "OFFERED", "SELECTED", "REJECTED", "STALE"}

LEMMA RowStored ==
  ASSUME NEW row \in RequestRow, NEW picks \in Seq(Employee),
         NEW state \in [Employee -> CandidateState]
  PROVE  [row EXCEPT !.made = TRUE, !.ranking = picks,
                     !.status = IF picks = <<>> THEN "FAILED" ELSE @,
                     !.state = state] \in RequestRow
<1>1. [row EXCEPT !.made = TRUE] \in RequestRow
  BY Zenon DEF RequestRow
<1>2. ASSUME NEW x \in RequestRow PROVE [x EXCEPT !.ranking = picks] \in RequestRow
  BY Zenon DEF RequestRow
<1>3. ASSUME NEW x \in RequestRow, NEW t \in {"PENDING", "COVERED", "EXPIRED", "FAILED"}
      PROVE [x EXCEPT !.status = t] \in RequestRow
  BY Zenon DEF RequestRow
<1>4. ASSUME NEW x \in RequestRow PROVE [x EXCEPT !.state = state] \in RequestRow
  BY Zenon DEF RequestRow, CandidateState
<1>5. ASSUME NEW x \in RequestRow PROVE x.status \in {"PENDING", "COVERED", "EXPIRED", "FAILED"}
  BY DEF RequestRow
<1> QED
  BY <1>1, <1>2, <1>3, <1>4, <1>5

\* A report that names a request has one.
LEMMA WorkerRowTyped ==
  ASSUME VacancyTypeOK, NEW w \in Worker
  PROVE  /\ report[w] \in WorkerRow(Len(requests))
         /\ report[w].req \in 0..Len(requests)
         /\ report[w].picks \in Seq(Employee)
<1>1. report[w] \in WorkerRow(Len(requests))
  BY PartsOfTypes DEF ReportTyped
<1> QED
  BY <1>1 DEF WorkerRow

\* The change of one row that may not exist.
LEMMA RowMayChange ==
  ASSUME VacancyTypeOK, NEW k, k \in DOMAIN requests => requests'[k] \in RequestRow,
         NEW row, requests' = [requests EXCEPT ![k] = row]
  PROVE  RowsTyped' /\ Len(requests)' = Len(requests)
<1>1. CASE k \in DOMAIN requests
  <2>1. row \in RequestRow
    BY <1>1 DEF VacancyTypeOK
  <2> QED
    BY <1>1, <2>1, RowChanged, PartsOfTypes DEF RowsTyped
<1>2. CASE k \notin DOMAIN requests
  <2>1. requests' = requests
    BY <1>2 DEF VacancyTypeOK
  <2> QED
    BY <2>1, PartsOfTypes DEF RowsTyped
<1> QED
  BY <1>1, <1>2

LEMMA StoreTyped ==
  ASSUME VacancyTypeOK, NEW w \in Worker, StoreCandidates(w)
  PROVE  PartsTyped'
<1> DEFINE r == report[w].req
           picks == report[w].picks
           state == [e \in Employee |->
                       IF \E i \in DOMAIN picks : picks[i] = e THEN "OFFERED" ELSE "none"]
           row == [requests[r] EXCEPT !.made = TRUE, !.ranking = picks,
                     !.status = IF picks = <<>> THEN "FAILED" ELSE @, !.state = state]
<1>1. RowsTyped' /\ Len(requests)' = Len(requests) /\ Len(requests) \in Nat
  <2>0. Len(requests) \in Nat
    BY DEF VacancyTypeOK
  <2>1. CASE MayStore(r)
    <3>1. requests' = [requests EXCEPT ![r] = row]
      BY <2>1 DEF StoreCandidates
    <3>2. state \in [Employee -> CandidateState]
      BY DEF CandidateState
    <3>3. ASSUME r \in DOMAIN requests PROVE row \in RequestRow
      <4>1. requests[r] \in RequestRow /\ picks \in Seq(Employee)
        BY <3>3, RowTyped, WorkerRowTyped
      <4> HIDE DEF r, picks, state
      <4> QED
        BY <4>1, <3>2, RowStored
    <3>4. r \in DOMAIN requests => requests'[r] = row
      <4> HIDE DEF row
      <4> QED
        BY <3>1 DEF VacancyTypeOK
    <3> HIDE DEF row, r
    <3> QED
      BY <2>0, <3>1, <3>3, <3>4, RowMayChange
  <2>2. CASE ~ MayStore(r)
    BY <2>2, RowsKept DEF StoreCandidates
  <2> QED
    BY <2>1, <2>2
<1>2. ReplyTyped'
  BY <1>1, ReplyKept DEF StoreCandidates
<1>3. PlainTyped'
  BY PartsOfTypes DEF PlainTyped, StoreCandidates, Leave
<1>4. StaffTyped'
  BY StaffKept DEF StoreCandidates, Staff, Leave
<1>5. ReportTyped'
  <2>1. [report[w] EXCEPT !.pc = "telling", !.left = Manager] \in WorkerRow(Len(requests))
    BY WorkerRowTyped, Zenon DEF WorkerRow
  <2>2. NoReport \in WorkerRow(Len(requests))
    BY <1>1, NoneTyped
  <2>3. report \in [Worker -> WorkerRow(Len(requests))]
    BY PartsOfTypes DEF ReportTyped
  <2>4. \E x \in WorkerRow(Len(requests)) : report' = [report EXCEPT ![w] = x]
    <3>1. \/ report' = [report EXCEPT ![w].pc = "telling", ![w].left = Manager]
          \/ report' = [report EXCEPT ![w] = NoReport]
      BY DEF StoreCandidates
    <3> QED
      BY <2>1, <2>2, <2>3, <3>1
  <2> QED
    BY <1>1, <2>3, <2>4 DEF ReportTyped
<1> QED
  BY <1>1, <1>2, <1>3, <1>4, <1>5 DEF PartsTyped

LEMMA NotifyTyped ==
  ASSUME VacancyTypeOK, NEW w \in Worker, NEW m \in Manager, Notify(w, m)
  PROVE  PartsTyped'
<1> DEFINE r == report[w].req
           row == [requests[r] EXCEPT !.told = @ \cup {m}]
<1>1. RowsTyped' /\ Len(requests)' = Len(requests) /\ Len(requests) \in Nat
  <2>0. Len(requests) \in Nat
    BY DEF VacancyTypeOK
  <2>1. requests' = [requests EXCEPT ![r] = row]
    BY DEF Notify
  <2>2. ASSUME r \in DOMAIN requests PROVE row \in RequestRow
    <3>1. requests[r] \in RequestRow
      BY <2>2, RowTyped
    <3> QED
      BY <3>1, Zenon DEF RequestRow
  <2>3. r \in DOMAIN requests => requests'[r] = row
    <3> HIDE DEF row
    <3> QED
      BY <2>1 DEF VacancyTypeOK
  <2> HIDE DEF row, r
  <2> QED
    BY <2>0, <2>1, <2>2, <2>3, RowMayChange
<1>2. ReplyTyped'
  BY <1>1, ReplyKept DEF Notify
<1>3. PlainTyped'
  BY PartsOfTypes DEF PlainTyped, Notify, Leave
<1>4. StaffTyped'
  BY StaffKept DEF Notify, Staff, Leave
<1>5. ReportTyped'
  <2>1. [report[w] EXCEPT !.left = @ \ {m}] \in WorkerRow(Len(requests))
    BY WorkerRowTyped, Zenon DEF WorkerRow
  <2>2. NoReport \in WorkerRow(Len(requests))
    BY <1>1, NoneTyped
  <2>3. report \in [Worker -> WorkerRow(Len(requests))]
    BY PartsOfTypes DEF ReportTyped
  <2>4. \E x \in WorkerRow(Len(requests)) : report' = [report EXCEPT ![w] = x]
    <3>1. \/ report' = [report EXCEPT ![w].left = @ \ {m}]
          \/ report' = [report EXCEPT ![w] = NoReport]
      BY DEF Notify
    <3> QED
      BY <2>1, <2>2, <2>3, <3>1
  <2> QED
    BY <1>1, <2>3, <2>4 DEF ReportTyped
<1> QED
  BY <1>1, <1>2, <1>3, <1>4, <1>5 DEF PartsTyped

LEMMA FindTyped ==
  ASSUME VacancyTypeOK, NEW w \in Worker, FindOrCreate(w)
  PROVE  PartsTyped'
<1> DEFINE e == report[w].who
           fresh == [absent |-> e, parent |-> Parent(e), status |-> "PENDING",
                  by |-> Nobody, made |-> FALSE, ranking |-> <<>>,
                  state |-> [x \in Employee |-> "none"], told |-> {}]
<1> DEFINE Kept == requests' = requests /\ report' = [report EXCEPT ![w] = NoReport]
           Found == \E r \in DOMAIN requests :
                  /\ report' = [report EXCEPT ![w].req = r,
                                   ![w].pc = IF requests[r].made THEN "telling" ELSE "opened",
                                   ![w].left = IF requests[r].made THEN Manager ELSE {}]
                  /\ requests' = requests
           Made == /\ Len(requests) < MaxRequests
                   /\ requests' = Append(requests, fresh)
                   /\ report' = [report EXCEPT ![w].pc = "opened", ![w].req = Len(requests) + 1]
<1>0. Len(requests) \in Nat /\ Len(requests) <= MaxRequests /\ requests \in Seq(RequestRow)
      /\ MaxRequests \in Nat
  BY BoundsAreNumbers DEF VacancyTypeOK
<1>1. Kept \/ Found \/ Made
  BY DEF FindOrCreate
<1>2. report[w] \in WorkerRow(Len(requests)) /\ report \in [Worker -> WorkerRow(Len(requests))]
  BY WorkerRowTyped, PartsOfTypes DEF ReportTyped
<1>3. RowsTyped' /\ Len(requests)' >= Len(requests) /\ Len(requests)' \in Nat
  <2>1. CASE requests' = requests
    BY <2>1, <1>0, RowsKept
  <2>2. CASE Made
    <3>1. e \in Employee
      BY DEF FindOrCreate, VacancyTypeOK
    <3>2. Parent(e) \in 0..MaxRequests
      BY <3>1, <1>0, ParentIsEarlier
    <3>3. fresh \in RequestRow
      <4>1. <<>> \in Seq(Employee)
        OBVIOUS
      <4> QED
        BY <3>1, <3>2, <4>1, Zenon DEF RequestRow
    <3> HIDE DEF fresh
    <3> QED
      BY <1>0, <2>2, <3>3 DEF RowsTyped
  <2> QED
    BY <1>1, <2>1, <2>2
<1>4. ReplyTyped'
  BY <1>3, ReplyKept DEF FindOrCreate
<1>5. PlainTyped'
  BY PartsOfTypes DEF PlainTyped, FindOrCreate, Leave
<1>6. StaffTyped'
  BY StaffKept DEF FindOrCreate, Staff, Leave
<1>7. ReportTyped'
  <2>0. WorkerRow(Len(requests)) \subseteq WorkerRow(Len(requests)')
    BY <1>3, NumbersGrow
  <2>1. CASE Kept
    BY <1>0, <1>2, <2>1, NoneTyped DEF ReportTyped
  <2>2. CASE Found
    <3>1. PICK r \in DOMAIN requests :
            report' = [report EXCEPT ![w].req = r,
                                   ![w].pc = IF requests[r].made THEN "telling" ELSE "opened",
                                   ![w].left = IF requests[r].made THEN Manager ELSE {}]
      BY <2>2
    <3>2. r \in 0..Len(requests)
      BY <1>0
    <3>3. \A p \in {"telling", "opened"}, l \in SUBSET Manager :
            [report[w] EXCEPT !.req = r, !.pc = p, !.left = l] \in WorkerRow(Len(requests))
      BY <1>2, <3>2, Zenon DEF WorkerRow
    <3>4. PICK p \in {"telling", "opened"}, l \in SUBSET Manager :
            report' = [report EXCEPT ![w] = [report[w] EXCEPT !.req = r, !.pc = p, !.left = l]]
      BY <3>1, <1>2
    <3>5. [report[w] EXCEPT !.req = r, !.pc = p, !.left = l] \in WorkerRow(Len(requests))
      BY <3>3
    <3>6. report' \in [Worker -> WorkerRow(Len(requests))]
      BY <1>2, <3>4, <3>5
    <3> QED
      BY <2>2, <3>6 DEF ReportTyped
  <2>3. CASE Made
    <3>1. Len(requests)' = Len(requests) + 1
      <4> HIDE DEF fresh
      <4> QED
        BY <1>0, <2>3
    <3>2. report[w] \in WorkerRow(Len(requests)') /\ Len(requests) + 1 \in 0..Len(requests)'
      BY <1>0, <1>2, <2>0, <3>1
    <3>3. [report[w] EXCEPT !.pc = "opened", !.req = Len(requests) + 1]
              \in WorkerRow(Len(requests)')
      BY <3>2, Zenon DEF WorkerRow
    <3>4. report' = [report EXCEPT ![w] =
                       [report[w] EXCEPT !.pc = "opened", !.req = Len(requests) + 1]]
      BY <2>3, <1>2
    <3> QED
      BY <1>2, <2>0, <3>3, <3>4 DEF ReportTyped
  <2> QED
    BY <1>1, <2>1, <2>2, <2>3
<1> QED
  BY <1>3, <1>4, <1>5, <1>6, <1>7 DEF PartsTyped

LEMMA ReadTyped ==
  ASSUME VacancyTypeOK, NEW r \in DOMAIN requests, NEW rank \in 1..3,
         ReplyReads(r, rank)
  PROVE  PartsTyped'
<1>1. requests' = requests /\ report' = report
  BY DEF ReplyReads
<1>2. RowsTyped' /\ Len(requests)' = Len(requests) /\ Len(requests) \in Nat
  BY <1>1, RowsKept
<1>3. ReportTyped'
  BY <1>1, <1>2, ReportKept
<1>4. PlainTyped'
  BY PartsOfTypes DEF PlainTyped, ReplyReads, Leave
<1>5. StaffTyped'
  BY StaffKept DEF ReplyReads, Staff, Leave
<1>6. ReplyTyped'
  <2> DEFINE e == requests[r].ranking[rank]
  <2>1. requests[r] \in RequestRow /\ r \in 1..Len(requests)
    BY RowTyped
  <2>2. e \in Employee
    <3>1. requests[r].ranking \in Seq(Employee)
      BY <2>1 DEF RequestRow
    <3> QED
      BY <3>1 DEF ReplyReads
  <2>3. r \in 0..Len(requests) /\ r # 0
    BY <2>1, <1>2
  <2>4. requests[r].absent \in Employee
    BY <2>1 DEF RequestRow
  <2>5. seat[requests[r].absent].unavailable \in BOOLEAN
    BY <2>4, Zenon DEF VacancyTypeOK
  <2>6. reply' = [req |-> r, who |-> e,
                  vacant |-> (day = "ACTIVE" /\ seat[requests[r].absent].unavailable),
                  free |-> Available(e)]
    BY DEF ReplyReads
  <2>7. reply' \in ReplyRow(Len(requests)')
    BY <1>2, <2>2, <2>3, <2>5, <2>6, Zenon DEF ReplyRow, Available
  <2>8. reply'.req = r /\ reply'.who = e
    BY <2>6, Zenon
  <2> QED
    BY <2>2, <2>3, <2>7, <2>8 DEF ReplyTyped
<1> QED
  BY <1>2, <1>3, <1>4, <1>5, <1>6 DEF PartsTyped

-----------------------------------------------------------------------------
\* What a manager's reply knows.
LEMMA ReplyKnows ==
  ASSUME VacancyTypeOK, reply # NoReply
  PROVE  /\ reply.req \in DOMAIN requests /\ reply.who \in Employee
         /\ requests[reply.req] \in RequestRow /\ Absent \in Employee
<1>1. reply.req \in 0..Len(requests) /\ reply.req # 0 /\ reply.who \in Employee
  BY DEF VacancyTypeOK
<1>2. reply.req \in DOMAIN requests
  BY <1>1 DEF VacancyTypeOK
<1>3. requests[reply.req] \in RequestRow
  BY <1>2, RowTyped
<1> QED
  BY <1>1, <1>2, <1>3 DEF Absent, RequestRow

LEMMA RowDecided ==
  ASSUME NEW row \in RequestRow, NEW state \in [Employee -> CandidateState],
         NEW st \in {"PENDING", "COVERED", "EXPIRED", "FAILED"},
         NEW by \in Employee \cup {Nobody}
  PROVE  /\ [row EXCEPT !.state = state] \in RequestRow
         /\ [row EXCEPT !.status = st, !.state = state] \in RequestRow
         /\ [row EXCEPT !.status = st, !.by = by] \in RequestRow
         /\ [row EXCEPT !.status = st, !.by = by, !.state = state] \in RequestRow
<1>1. ASSUME NEW x \in RequestRow PROVE [x EXCEPT !.by = by] \in RequestRow
  BY Zenon DEF RequestRow
<1>2. ASSUME NEW x \in RequestRow PROVE [x EXCEPT !.status = st] \in RequestRow
  BY Zenon DEF RequestRow
<1>3. ASSUME NEW x \in RequestRow PROVE [x EXCEPT !.state = state] \in RequestRow
  BY Zenon DEF RequestRow, CandidateState
<1> QED
  BY <1>1, <1>2, <1>3 DEF RequestRow, CandidateState

\* No transaction of a manager runs after it.
LEMMA ReplyGone ==
  ASSUME reply' = NoReply, Len(requests)' \in Nat
  PROVE  ReplyTyped'
BY NoneTyped DEF ReplyTyped

LEMMA ReplyTypedNext ==
  ASSUME VacancyTypeOK, ReplyExpires \/ ReplyStale \/ ReplyAssigns \/ ReplyRollsBack
  PROVE  PartsTyped'
<1> USE BoundsAreNumbers
<1> DEFINE k == reply.req
<1>0. /\ k \in DOMAIN requests /\ reply.who \in Employee /\ Len(requests) \in Nat
      /\ requests[k] \in RequestRow /\ Absent \in Employee
      /\ requests[k].state \in [Employee -> CandidateState]
  <2>1. reply # NoReply
    BY DEF ReplyExpires, ReplyStale, ReplyAssigns, ReplyRollsBack
  <2>2. Len(requests) \in Nat /\ Nobody \in Employee \cup {Nobody}
    BY DEF VacancyTypeOK
  <2> QED
    BY <2>1, <2>2, ReplyKnows DEF RequestRow, CandidateState
<1>1. \/ requests' = requests
      \/ \E row \in RequestRow : requests' = [requests EXCEPT ![k] = row]
  <2>1. CASE ReplyExpires
    <3> DEFINE state == [e \in Employee |-> IF requests[k].state[e] = "OFFERED" THEN "STALE"
                                            ELSE requests[k].state[e]]
    <3>1. state \in [Employee -> CandidateState]
      BY <1>0 DEF CandidateState
    <3>2. requests' = [requests EXCEPT ![k] =
                         [requests[k] EXCEPT !.status = "EXPIRED", !.state = state]]
      BY <2>1, <1>0 DEF ReplyExpires, RequestRow
    <3> HIDE DEF state
    <3>3. [requests[k] EXCEPT !.status = "EXPIRED", !.state = state] \in RequestRow
      BY <1>0, <3>1, RowDecided
    <3> QED
      BY <3>2, <3>3
  <2>2. CASE ReplyStale
    <3> DEFINE state == [requests[k].state EXCEPT ![reply.who] = "STALE"]
    <3>1. state \in [Employee -> CandidateState]
      BY <1>0 DEF CandidateState
    <3>2. requests' = [requests EXCEPT ![k] = [requests[k] EXCEPT !.state = state]]
      BY <2>2, <1>0 DEF ReplyStale
    <3> HIDE DEF state
    <3>3. [requests[k] EXCEPT !.state = state] \in RequestRow
      BY <1>0, <3>1, RowDecided
    <3> QED
      BY <3>2, <3>3
  <2>3. CASE ReplyAssigns
    <3> DEFINE state == [x \in Employee |-> IF x = reply.who THEN "SELECTED"
                           ELSE IF requests[k].state[x] = "none" THEN "none" ELSE "REJECTED"]
    <3>1. state \in [Employee -> CandidateState]
      BY <1>0 DEF CandidateState
    <3>2. requests' = [requests EXCEPT ![k] =
                         [requests[k] EXCEPT !.status = "COVERED", !.by = reply.who,
                                             !.state = state]]
      BY <2>3, <1>0 DEF ReplyAssigns, RequestRow
    <3> HIDE DEF state
    <3>3. [requests[k] EXCEPT !.status = "COVERED", !.by = reply.who, !.state = state]
             \in RequestRow
      BY <1>0, <3>1, RowDecided
    <3> QED
      BY <3>2, <3>3
  <2>4. CASE ReplyRollsBack
    BY <2>4 DEF ReplyRollsBack
  <2> QED
    BY <2>1, <2>2, <2>3, <2>4
<1>2. RowsTyped' /\ Len(requests)' = Len(requests)
  <2>1. CASE requests' = requests
    BY <2>1, RowsKept
  <2>2. CASE \E row \in RequestRow : requests' = [requests EXCEPT ![k] = row]
    BY <1>0, <2>2, RowChanged, PartsOfTypes DEF RowsTyped
  <2> QED
    BY <1>1, <2>1, <2>2
<1>3. ReplyTyped'
  <2>1. reply' = NoReply
    BY DEF ReplyExpires, ReplyStale, ReplyAssigns, ReplyRollsBack
  <2> QED
    BY <1>0, <1>2, <2>1, ReplyGone
<1>4. ReportTyped'
  <2>1. report' = report
    BY DEF ReplyExpires, ReplyStale, ReplyAssigns, ReplyRollsBack
  <2> QED
    BY <1>0, <1>2, <2>1, ReportKept
<1>5. PlainTyped'
  <2>1. office \in 0..MaxOffice
    BY DEF VacancyTypeOK
  <2>2. office' \in 0..MaxOffice
    BY <2>1, <1>0 DEF ReplyExpires, ReplyStale, ReplyAssigns, ReplyRollsBack
  <2> QED
    BY <2>2, PartsOfTypes
      DEF PlainTyped, ReplyExpires, ReplyStale, ReplyAssigns, ReplyRollsBack, Leave
<1>6. StaffTyped'
  <2>1. CASE ReplyAssigns
    <3>1. StaffTyped
      BY PartsOfTypes
    <3>2. \A s \in [Employee -> [exp: Expectation, unavailable: BOOLEAN]], e \in Employee :
            Seated(s, e) \in [Employee -> [exp: Expectation, unavailable: BOOLEAN]]
      BY DEF Seated, Expectation
    <3>3. \A e \in Employee : Release(e) \in [Employee -> [exp: Expectation, unavailable: BOOLEAN]]
      BY <3>1 DEF Release, Expectation, StaffTyped
    <3>4. seat' \in [Employee -> [exp: Expectation, unavailable: BOOLEAN]]
      BY <1>0, <2>1, <3>2, <3>3 DEF ReplyAssigns
    <3>5. cover' \in [Employee -> [for: Employee \cup {Nobody}, event: BOOLEAN]]
      BY <1>0, <2>1, <3>1, Zenon DEF ReplyAssigns, StaffTyped
    <3>6. assigned' \in [Employee -> {"none", "active", "cancelled"}] /\ conflict' = conflict
      BY <2>1, <3>1 DEF ReplyAssigns, StaffTyped, Leave
    <3> QED
      BY <3>1, <3>4, <3>5, <3>6 DEF StaffTyped
  <2>2. CASE ~ ReplyAssigns
    BY <2>2, StaffKept DEF ReplyExpires, ReplyStale, ReplyRollsBack, Staff, Leave
  <2> QED
    BY <2>1, <2>2
<1> QED
  BY <1>2, <1>3, <1>4, <1>5, <1>6 DEF PartsTyped

-----------------------------------------------------------------------------
\* The seats and rows the office writes.
Seats == [Employee -> [exp: Expectation, unavailable: BOOLEAN]]

LEMMA SeatsTyped ==
  ASSUME VacancyTypeOK
  PROVE  /\ seat \in Seats
         /\ \A x \in Employee : Release(x) \in Seats
         /\ \A s \in Seats, x \in Employee : Seated(s, x) \in Seats
<1>1. seat \in Seats
  BY DEF VacancyTypeOK, Seats
<1> QED
  BY <1>1 DEF Seats, Release, Seated, Expectation

LEMMA MarkedTyped ==
  ASSUME VacancyTypeOK, NEW absent, NEW e \in Employee \cup {Nobody}
  PROVE  /\ MarkCovered(absent, e) \in Seq(RequestRow)
         /\ Len(MarkCovered(absent, e)) = Len(requests)
         /\ Reopened(absent) \in Seq(RequestRow)
         /\ Len(Reopened(absent)) = Len(requests)
<1>1. ASSUME NEW r \in DOMAIN requests
      PROVE  /\ MarkCovered(absent, e)[r] \in RequestRow
             /\ Reopened(absent)[r] \in RequestRow
  <2>1. requests[r] \in RequestRow
    BY RowTyped
  <2>2. [requests[r] EXCEPT !.status = "COVERED", !.by = e] \in RequestRow
    BY <2>1, Zenon DEF RequestRow
  <2>3. [requests[r] EXCEPT !.status = "PENDING", !.by = Nobody] \in RequestRow
    BY <2>1, Zenon DEF RequestRow
  <2> QED
    BY <2>1, <2>2, <2>3 DEF MarkCovered, Reopened
<1>2. MarkCovered(absent, e) = [r \in DOMAIN requests |-> MarkCovered(absent, e)[r]]
  BY DEF MarkCovered
<1>3. Reopened(absent) = [r \in DOMAIN requests |-> Reopened(absent)[r]]
  BY DEF Reopened
<1> QED
  BY <1>1, <1>2, <1>3, RowsRewritten

LEMMA OfficeTyped ==
  ASSUME VacancyTypeOK, NEW absent \in Employee \cup {Nobody},
         NEW e \in Employee \cup {Nobody}, NEW withAbsence,
         \/ absent \in Employee /\ e \in Employee /\ Cover(absent, e, withAbsence)
         \/ e \in Employee /\ (CancelAssignment(e) \/ Approve(e) \/ AbsenceApplied(e))
         \/ Materialize \/ CancelDay
  PROVE  PartsTyped'
<1> USE BoundsAreNumbers
<1>0. StaffTyped /\ PlainTyped /\ Len(requests) \in Nat /\ seat \in Seats
  BY PartsOfTypes, SeatsTyped DEF VacancyTypeOK
<1>1. \/ requests' = requests
      \/ requests' = MarkCovered(absent, e)
      \/ \E x \in Employee \cup {Nobody} : requests' = Reopened(x)
  BY <1>0 DEF Cover, CancelAssignment, Approve, AbsenceApplied, Materialize, CancelDay,
              StaffTyped
<1>2. RowsTyped' /\ Len(requests)' = Len(requests)
  <2>1. CASE requests' = requests
    BY <2>1, RowsKept
  <2>2. CASE requests' = MarkCovered(absent, e)
    BY <2>2, MarkedTyped, PartsOfTypes DEF RowsTyped
  <2>3. CASE \E x \in Employee \cup {Nobody} : requests' = Reopened(x)
    BY <2>3, MarkedTyped, PartsOfTypes DEF RowsTyped
  <2> QED
    BY <1>1, <2>1, <2>2, <2>3
<1>3. report' = report /\ reply' = reply
  BY DEF Cover, CancelAssignment, Approve, AbsenceApplied, Materialize, CancelDay
<1>4. ReportTyped' /\ ReplyTyped'
  BY <1>0, <1>2, <1>3, ReportKept, ReplyKept
<1>5. PlainTyped'
  <2>1. office \in Nat /\ (office' = office \/ (office < MaxOffice /\ office' = office + 1))
    BY <1>0 DEF PlainTyped, Cover, CancelAssignment, Approve, AbsenceApplied, Materialize,
                CancelDay
  <2>2. office' \in 0..MaxOffice
    BY <1>0, <2>1 DEF PlainTyped
  <2>3. day' \in {"ACTIVE", "CANCELLED"} /\ away' \subseteq Employee /\ reports' = reports
    BY <1>0 DEF PlainTyped, Cover, CancelAssignment, Approve, AbsenceApplied, Materialize,
                CancelDay, Leave
  <2> QED
    BY <1>0, <2>2, <2>3 DEF PlainTyped
<1>6. seat' \in Seats
  <2>1. CASE /\ absent \in Employee /\ e \in Employee
             /\ Cover(absent, e, withAbsence)
    BY <1>0, <2>1, SeatsTyped DEF Cover
  <2>5. CASE e \in Employee /\ (CancelAssignment(e) \/ Approve(e))
    BY <1>0, <2>5, SeatsTyped DEF CancelAssignment, Approve, Staff
  <2>2. CASE e \in Employee /\ AbsenceApplied(e)
    <3>1. [seat[e] EXCEPT !.exp = "JUSTIFIED"] \in [exp: Expectation, unavailable: BOOLEAN]
      BY <1>0, <2>2, Zenon DEF Seats, Expectation
    <3>2. seat' = [seat EXCEPT ![e] = [seat[e] EXCEPT !.exp = "JUSTIFIED"]]
      BY <2>2 DEF AbsenceApplied
    <3> QED
      BY <1>0, <3>1, <3>2 DEF Seats
  <2>3. CASE Materialize
    <3> DEFINE next(x) ==
             IF Standing(x)
             THEN IF x \in away /\ seat[x].exp # "JUSTIFIED" THEN "JUSTIFIED"
                  ELSE IF seat[x].exp \in {"none", "CANCELLED"} THEN "EXPECTED"
                       ELSE seat[x].exp
             ELSE IF seat[x].exp = "EXPECTED" THEN "CANCELLED" ELSE seat[x].exp
    <3>1. ASSUME NEW x \in Employee
          PROVE  [seat[x] EXCEPT !.exp = next(x)] \in [exp: Expectation, unavailable: BOOLEAN]
      <4>1. next(x) \in Expectation /\ seat[x] \in [exp: Expectation, unavailable: BOOLEAN]
        BY <1>0 DEF Seats, Expectation
      <4> HIDE DEF next
      <4> QED
        BY <4>1, Zenon
    <3>2. seat' = [x \in Employee |-> [seat[x] EXCEPT !.exp = next(x)]]
      BY <2>3 DEF Materialize
    <3> HIDE DEF next
    <3> QED
      BY <3>1, <3>2 DEF Seats
  <2>4. CASE CancelDay
    <3>1. ASSUME NEW x \in Employee
          PROVE  Release(x)[x] \in [exp: Expectation, unavailable: BOOLEAN]
      BY <1>0, SeatsTyped DEF Seats
    <3> QED
      BY <2>4, <3>1 DEF CancelDay, Seats
  <2> QED
    BY <2>1, <2>2, <2>3, <2>4, <2>5
<1>7. /\ assigned' \in [Employee -> {"none", "active", "cancelled"}]
      /\ conflict' \in [Employee -> {"none", "OPEN", "RESOLVED"}]
  <2>1. CASE absent \in Employee /\ e \in Employee /\ Cover(absent, e, withAbsence)
    BY <1>0, <2>1 DEF StaffTyped, Cover
  <2>2. CASE e \in Employee /\ (CancelAssignment(e) \/ Approve(e) \/ AbsenceApplied(e))
    BY <1>0, <2>2 DEF StaffTyped, CancelAssignment, Approve, AbsenceApplied, Staff
  <2>3. CASE Materialize \/ CancelDay
    BY <1>0, <2>3 DEF StaffTyped, Materialize, CancelDay, Staff, Leave
  <2> QED
    BY <2>1, <2>2, <2>3
<1>8. cover' \in [Employee -> [for: Employee \cup {Nobody}, event: BOOLEAN]]
  <2>1. CASE absent \in Employee /\ e \in Employee /\ Cover(absent, e, withAbsence)
    BY <1>0, <2>1, Zenon DEF Cover, StaffTyped
  <2>2. CASE e \in Employee /\ CancelAssignment(e)
    <3>1. cover' = cover \/ cover' = [cover EXCEPT ![e] = [cover[e] EXCEPT !.event = FALSE]]
      BY <2>2, Zenon DEF CancelAssignment
    <3>2. [cover[e] EXCEPT !.event = FALSE] \in [for: Employee \cup {Nobody}, event: BOOLEAN]
      BY <1>0, <2>2, Zenon DEF StaffTyped
    <3> QED
      BY <1>0, <3>1, <3>2, Zenon DEF StaffTyped
  <2>3. CASE cover' = cover
    BY <1>0, <2>3 DEF StaffTyped
  <2> QED
    BY <2>1, <2>2, <2>3 DEF Approve, AbsenceApplied, Materialize, CancelDay, Staff
<1> QED
  BY <1>2, <1>4, <1>5, <1>6, <1>7, <1>8 DEF PartsTyped, StaffTyped, Seats

\* A worker at work knows whose report it handles.
LEMMA AskedNext ==
  ASSUME VacancyTypeOK, VacancyNext
  PROVE  Asked'
<1>0. /\ Asked /\ NoReport.pc = "idle"
      /\ report \in [Worker -> WorkerRow(Len(requests))]
  BY PartsOfTypes DEF NoReport, ReportTyped
<1>1. ASSUME NEW w \in Worker, NEW e, NEW m,
             \/ e \in Employee /\ Report(w, e)
             \/ MarkUnavailable(w) \/ FindOrCreate(w) \/ Recommend(w)
             \/ StoreCandidates(w) \/ Abandon(w) \/ Notify(w, m)
      PROVE  Asked'
  <2>1. \A x \in Worker : x # w => report'[x] = report[x]
    BY <1>0, <1>1 DEF Report, MarkUnavailable, FindOrCreate, Recommend, StoreCandidates,
                      Abandon, Notify
  <2>2. report'[w].pc # "idle" => report'[w].who \in Employee
    <3>1. report[w].pc # "idle" => report[w].who \in Employee
      BY <1>0 DEF Asked
    <3>2. CASE e \in Employee /\ Report(w, e)
      BY <1>0, <3>2 DEF Report, NoReport
    <3>3. CASE MarkUnavailable(w) \/ FindOrCreate(w) \/ Recommend(w)
      <4>1. report'[w].who = report[w].who \/ report'[w] = NoReport
        <5>1. CASE MarkUnavailable(w)
          BY <1>0, <5>1 DEF MarkUnavailable, WorkerRow
        <5>2. CASE Recommend(w)
          BY <1>0, <5>2 DEF Recommend, WorkerRow
        <5>3. CASE FindOrCreate(w)
          <6>1. \/ \E r \in DOMAIN requests :
                      report' = [report EXCEPT ![w].req = r,
                                   ![w].pc = IF requests[r].made THEN "telling" ELSE "opened",
                                   ![w].left = IF requests[r].made THEN Manager ELSE {}]
                \/ report' = [report EXCEPT ![w].pc = "opened",
                                           ![w].req = Len(requests) + 1]
                \/ report' = [report EXCEPT ![w] = NoReport]
            BY <5>3 DEF FindOrCreate
          <6> QED
            BY <1>0, <6>1 DEF WorkerRow
        <5> QED
          BY <3>3, <5>1, <5>2, <5>3
      <4>2. report[w].pc # "idle"
        BY <3>3 DEF MarkUnavailable, FindOrCreate, Recommend
      <4> QED
        BY <1>0, <3>1, <4>1, <4>2
    <3>4. CASE StoreCandidates(w) \/ Abandon(w) \/ Notify(w, m)
      <4>1. report'[w].who = report[w].who \/ report'[w] = NoReport
        BY <1>0, <3>4 DEF StoreCandidates, Abandon, Notify, WorkerRow
      <4>2. report'[w].pc # "idle" => report[w].pc # "idle" \/ report'[w] = NoReport
        BY <1>0, <3>4 DEF StoreCandidates, Abandon, Notify
      <4> QED
        BY <1>0, <3>1, <4>1, <4>2
    <3> QED
      BY <1>1, <3>2, <3>3, <3>4
  <2> QED
    BY <1>0, <2>1, <2>2 DEF Asked
<1>2. CASE report' = report
  BY <1>0, <1>2 DEF Asked
<1>3. \/ report' = report
      \/ \E w \in Worker : \/ \E e \in Employee : Report(w, e)
                           \/ MarkUnavailable(w) \/ FindOrCreate(w) \/ Recommend(w)
                           \/ StoreCandidates(w) \/ Abandon(w)
                           \/ \E m \in Manager : Notify(w, m)
  BY DEF VacancyNext, ReplyReads, ReplyExpires, ReplyStale, ReplyAssigns, ReplyRollsBack,
         Cover, CancelAssignment, Approve, AbsenceApplied, Materialize, CancelDay
<1> QED
  BY <1>1, <1>2, <1>3

\* No step breaks the types.
LEMMA VacancyTypesStep ==
  ASSUME VacancyTypeOK, [VacancyNext]_vacancyVars
  PROVE  VacancyTypeOK'
<1>1. CASE UNCHANGED vacancyVars
  BY <1>1 DEF vacancyVars, Staff, Leave, VacancyTypeOK
<1>2. CASE VacancyNext
  <2>1. PartsTyped'
    <3>1. ASSUME NEW w \in Worker,
                 \/ \E e \in Employee : Report(w, e)
                 \/ MarkUnavailable(w) \/ Recommend(w) \/ Abandon(w)
          PROVE  PartsTyped'
      BY <3>1, WorkerTyped
    <3>2. ASSUME NEW w \in Worker,
                 \/ FindOrCreate(w) \/ StoreCandidates(w) \/ \E m \in Manager : Notify(w, m)
          PROVE  PartsTyped'
      BY <3>2, FindTyped, StoreTyped, NotifyTyped
    <3>3. ASSUME NEW r \in DOMAIN requests, NEW rank \in 1..3, ReplyReads(r, rank)
          PROVE  PartsTyped'
      BY <3>3, ReadTyped
    <3>4. CASE ReplyExpires \/ ReplyStale \/ ReplyAssigns \/ ReplyRollsBack
      BY <3>4, ReplyTypedNext
    <3>5. ASSUME NEW absent \in Employee, NEW e \in Employee, NEW withAbsence \in BOOLEAN,
                 Cover(absent, e, withAbsence)
          PROVE  PartsTyped'
      BY <3>5, OfficeTyped
    <3>6. ASSUME NEW e \in Employee, CancelAssignment(e) \/ Approve(e) \/ AbsenceApplied(e)
          PROVE  PartsTyped'
      BY <3>6, OfficeTyped
    <3>7. CASE Materialize \/ CancelDay
      BY <3>7, OfficeTyped
    <3> QED
      BY <1>2, <3>1, <3>2, <3>3, <3>4, <3>5, <3>6, <3>7, Zenon DEF VacancyNext
  <2> QED
    BY <1>2, <2>1, AskedNext, PartsAfter
<1> QED
  BY <1>1, <1>2

\* The rows of a working day and its requests are what VacancyTypeOK says.
THEOREM VacancyTypeCorrect == VacancySpec => []VacancyTypeOK
<1>1. VacancyInit => VacancyTypeOK
  BY InitTyped
<1>2. VacancyTypeOK /\ [VacancyNext]_vacancyVars => VacancyTypeOK'
  BY VacancyTypesStep
<1> QED
  BY <1>1, <1>2, PTL DEF VacancySpec

-----------------------------------------------------------------------------
\* The employees expected at work.
Expected == {e \in Employee : seat[e].exp = "EXPECTED"}

LEMMA HeadcountIs ==
  RepliesKeepTheHeadcount <=> (office = 0 => Cardinality(Expected) <= Cardinality(Titular))
BY DEF RepliesKeepTheHeadcount, Expected

\* A reply puts one in for the one it takes out.
LEMMA OneForOne ==
  ASSUME VacancyTypeOK, ReplyAssigns
  PROVE  Cardinality(Expected') = Cardinality(Expected)
<1> DEFINE a == Absent
           e == reply.who
<1>1. a \in Employee /\ e \in Employee
  BY ReplyKnows DEF ReplyAssigns
<1>2. seat \in Seats /\ a \in Expected /\ e \notin Expected
  BY <1>1, SeatsTyped DEF ReplyAssigns, VacancyOpen, MaySit, Expected
<1>3. \A x \in Employee : seat'[x].exp = IF x = e THEN "EXPECTED"
                                         ELSE IF x = a THEN "CANCELLED" ELSE seat[x].exp
  <2>1. seat' = Seated(Release(a), e) /\ seat[a].exp = "EXPECTED"
    BY DEF ReplyAssigns, VacancyOpen
  <2> HIDE DEF a, e
  <2> QED
    BY <1>1, <1>2, <2>1 DEF Seated, Release, Seats
<1>4. Expected' = (Expected \ {a}) \cup {e}
  <2> HIDE DEF a, e
  <2> QED
    BY <1>1, <1>2, <1>3 DEF Expected
<1>5. IsFiniteSet(Expected)
  BY BoundsAreNumbers, FS_Subset DEF Expected
<1>6. /\ IsFiniteSet(Expected \ {a})
      /\ Cardinality(Expected \ {a}) = Cardinality(Expected) - 1
  BY <1>2, <1>5, FS_RemoveElement
<1>7. Cardinality((Expected \ {a}) \cup {e}) = Cardinality(Expected \ {a}) + 1
  BY <1>2, <1>6, FS_AddElement
<1>8. Cardinality(Expected) \in Nat
  BY <1>5, FS_CardinalityType
<1> QED
  BY <1>4, <1>6, <1>7, <1>8

LEMMA HeadcountStep ==
  ASSUME VacancyTypeOK, RepliesKeepTheHeadcount, [VacancyNext]_vacancyVars
  PROVE  RepliesKeepTheHeadcount'
<1>1. IsFiniteSet(Expected) /\ office \in Nat /\ Cardinality(Expected) \in Nat
  <2>1. IsFiniteSet(Expected)
    BY BoundsAreNumbers, FS_Subset DEF Expected
  <2> QED
    BY <2>1, FS_CardinalityType, BoundsAreNumbers DEF VacancyTypeOK
<1>2. SUFFICES ASSUME office' = 0
               PROVE  Cardinality(Expected') <= Cardinality(Titular)
  BY HeadcountIs DEF RepliesKeepTheHeadcount, Expected
<1>3. office' # office + 1
  BY <1>1, <1>2
<1>4. CASE office' = office /\ (Expected' = Expected \/ ReplyAssigns)
  BY <1>2, <1>4, HeadcountIs, OneForOne
<1>5. CASE \E e \in Employee : AbsenceApplied(e)
  <2>1. PICK e \in Employee : AbsenceApplied(e)
    BY <1>5
  <2>2. office' = office /\ Expected' \subseteq Expected
    BY <2>1, SeatsTyped DEF AbsenceApplied, Expected, Seats
  <2>3. Cardinality(Expected') <= Cardinality(Expected) /\ Cardinality(Expected') \in Nat
    BY <1>1, <2>2, FS_Subset, FS_CardinalityType
  <2>4. Cardinality(Titular) \in Nat
    BY VacancyAssumption, FS_Subset, FS_CardinalityType
  <2> QED
    BY <1>1, <1>2, <2>2, <2>3, <2>4, HeadcountIs
<1>6. CASE \E w \in Worker : MarkUnavailable(w)
  <2>1. PICK w \in Worker : MarkUnavailable(w)
    BY <1>6
  <2>2. \A x \in Employee : seat'[x].exp = seat[x].exp
    BY <2>1, SeatsTyped DEF MarkUnavailable, Seats
  <2>3. Expected' = Expected /\ office' = office
    BY <2>1, <2>2 DEF Expected, MarkUnavailable
  <2> QED
    BY <1>4, <2>3
<1>7. CASE seat' = seat /\ office' = office
  BY <1>4, <1>7 DEF Expected
<1>8. \/ seat' = seat /\ office' = office
      \/ ReplyAssigns /\ office' = office
      \/ \E e \in Employee : AbsenceApplied(e)
      \/ \E w \in Worker : MarkUnavailable(w)
  <2>1. CASE UNCHANGED vacancyVars
    BY <2>1 DEF vacancyVars, Staff
  <2>2. CASE VacancyNext
    BY <1>3, <2>2
      DEF VacancyNext, Report, FindOrCreate, Recommend, StoreCandidates, Abandon, Notify,
          ReplyReads, ReplyExpires, ReplyStale, ReplyAssigns, ReplyRollsBack, Cover,
          CancelAssignment, Approve, Materialize, CancelDay, Staff
  <2> QED
    BY <2>1, <2>2
<1> QED
  BY <1>4, <1>5, <1>6, <1>7, <1>8

\* Until the office or the materialization touches the day, reports and buttons
\* expect no more people than the operation has standing assignments for.
THEOREM RepliesSwapPlaces == VacancySpec => []RepliesKeepTheHeadcount
<1>1. VacancyInit => RepliesKeepTheHeadcount
  <2>1. ASSUME VacancyInit PROVE Expected = Titular
    BY <2>1, VacancyAssumption DEF VacancyInit, Expected
  <2>2. Cardinality(Titular) \in Nat
    BY VacancyAssumption, FS_Subset, FS_CardinalityType
  <2> QED
    BY <2>1, <2>2, HeadcountIs
<1>2. VacancyTypeOK /\ RepliesKeepTheHeadcount /\ [VacancyNext]_vacancyVars
        => RepliesKeepTheHeadcount'
  BY HeadcountStep
<1> QED
  BY <1>1, <1>2, VacancyTypeCorrect, PTL DEF VacancySpec

-----------------------------------------------------------------------------
\* The candidates of a request are stored while there are none.
LEMMA RankingsStay ==
  ASSUME VacancyTypeOK, VacancyNext, NEW k \in DOMAIN requests, requests[k].made
  PROVE  requests'[k].ranking = requests[k].ranking
<1>0. requests \in Seq(RequestRow) /\ requests[k] \in RequestRow
  BY RowTyped DEF VacancyTypeOK
<1>1. CASE \E w \in Worker : FindOrCreate(w)
  <2>1. \/ requests' = requests
        \/ \E fresh : requests' = Append(requests, fresh)
    BY <1>1 DEF FindOrCreate
  <2> QED
    BY <1>0, <2>1
<1>2. CASE \E w \in Worker : StoreCandidates(w)
  <2>1. PICK w \in Worker : StoreCandidates(w)
    BY <1>2
  <2>2. CASE k = report[w].req
    BY <2>1, <2>2 DEF StoreCandidates, MayStore
  <2>3. CASE k # report[w].req
    BY <1>0, <2>1, <2>3 DEF StoreCandidates
  <2> QED
    BY <2>2, <2>3
<1>3. CASE \E w \in Worker, m \in Manager : Notify(w, m)
  <2>1. PICK w \in Worker, m \in Manager : Notify(w, m)
    BY <1>3
  <2>2. requests' = [requests EXCEPT ![report[w].req] =
                        [requests[report[w].req] EXCEPT !.told = @ \cup {m}]]
    BY <2>1 DEF Notify
  <2> QED
    BY <1>0, <2>2 DEF RequestRow
<1>4. CASE ReplyExpires
  BY <1>0, <1>4 DEF ReplyExpires, RequestRow
<1>5. CASE ReplyStale
  <2>1. requests' = [requests EXCEPT ![reply.req] = [requests[reply.req] EXCEPT
                        !.state = [@ EXCEPT ![reply.who] = "STALE"]]]
    BY <1>5 DEF ReplyStale
  <2> QED
    BY <1>0, <2>1 DEF RequestRow
<1>6. CASE ReplyAssigns
  BY <1>0, <1>6 DEF ReplyAssigns, RequestRow
<1>7. CASE \E absent, e \in Employee : requests' = MarkCovered(absent, e)
  BY <1>0, <1>7 DEF MarkCovered, RequestRow
<1>8. CASE \E absent : requests' = Reopened(absent)
  BY <1>0, <1>8 DEF Reopened, RequestRow
<1>9. CASE requests' = requests
  BY <1>9
<1>10. \/ requests' = requests
       \/ \E w \in Worker : FindOrCreate(w) \/ StoreCandidates(w)
       \/ \E w \in Worker, m \in Manager : Notify(w, m)
       \/ ReplyExpires \/ ReplyStale \/ ReplyAssigns
       \/ \E absent, e \in Employee : requests' = MarkCovered(absent, e)
       \/ \E absent : requests' = Reopened(absent)
  <2>1. ASSUME NEW absent \in Employee, NEW e \in Employee, NEW withAbsence \in BOOLEAN,
               Cover(absent, e, withAbsence)
        PROVE  requests' = requests \/ requests' = MarkCovered(absent, e)
    BY <2>1 DEF Cover
  <2>2. ASSUME NEW e \in Employee, CancelAssignment(e)
        PROVE  requests' = requests \/ \E absent : requests' = Reopened(absent)
    BY <2>2 DEF CancelAssignment
  <2>3. ASSUME NEW w \in Worker, NEW e \in Employee,
               Report(w, e) \/ MarkUnavailable(w) \/ Recommend(w) \/ Abandon(w)
        PROVE  requests' = requests
    BY <2>3 DEF Report, MarkUnavailable, Recommend, Abandon
  <2>4. ASSUME NEW w \in Worker, MarkUnavailable(w) \/ Recommend(w) \/ Abandon(w)
        PROVE  requests' = requests
    BY <2>4 DEF Report, MarkUnavailable, Recommend, Abandon
  <2>5. ASSUME NEW r \in DOMAIN requests, NEW rank \in 1..3, ReplyReads(r, rank)
        PROVE  requests' = requests
    BY <2>5 DEF ReplyReads
  <2>6. ASSUME NEW e \in Employee, Approve(e) \/ AbsenceApplied(e)
        PROVE  requests' = requests
    BY <2>6 DEF Approve, AbsenceApplied
  <2>7. ASSUME ReplyRollsBack \/ Materialize \/ CancelDay
        PROVE  requests' = requests
    BY <2>7 DEF ReplyRollsBack, Materialize, CancelDay
  <2> QED
    BY <2>1, <2>2, <2>3, <2>4, <2>5, <2>6, <2>7 DEF VacancyNext
<1> QED
  BY <1>1, <1>2, <1>3, <1>4, <1>5, <1>6, <1>7, <1>8, <1>9, <1>10

\* A rank means the same employee for as long as its request lives.
THEOREM ButtonsStay == VacancySpec => ButtonsKeepTheirMeaning
<1>1. VacancyTypeOK /\ [VacancyNext]_vacancyVars
        => [\A r \in DOMAIN requests : requests[r].made =>
              requests'[r].ranking = requests[r].ranking]_vacancyVars
  BY RankingsStay
<1> QED
  BY <1>1, VacancyTypeCorrect, PTL DEF VacancySpec, ButtonsKeepTheirMeaning

-----------------------------------------------------------------------------
(* ReportRun *)

\* Rows after an assignment to one of their fields.
LEMMA RunRowSet ==
  ASSUME NEW x \in RunRow, NEW st \in RunStatus, NEW b \in BOOLEAN, NEW n \in Nat,
         NEW o \in Sender \cup {NoSender}, NEW retry \in Retry
  PROVE  /\ [x EXCEPT !.status = st] \in RunRow
         /\ [x EXCEPT !.generated = b] \in RunRow
         /\ [x EXCEPT !.attempts = n] \in RunRow
         /\ [x EXCEPT !.owner = o] \in RunRow
         /\ [x EXCEPT !.live = b] \in RunRow
         /\ [x EXCEPT !.retry = retry] \in RunRow
BY Zenon DEF RunRow

LEMMA DeliveryRowSet ==
  ASSUME NEW x \in DeliveryRow, NEW st \in DeliveryStatus, NEW b \in BOOLEAN,
         NEW n \in 0..MaxReportAttempts,
         NEW o \in Sender \cup {NoSender}, NEW retry \in Retry
  PROVE  /\ [x EXCEPT !.status = st] \in DeliveryRow
         /\ [x EXCEPT !.attempts = n] \in DeliveryRow
         /\ [x EXCEPT !.owner = o] \in DeliveryRow
         /\ [x EXCEPT !.live = b] \in DeliveryRow
         /\ [x EXCEPT !.retry = retry] \in DeliveryRow
BY Zenon DEF DeliveryRow

RunAnswer == Outcome \cup Skipped \cup {"none"}

LEMMA ReporterSet ==
  ASSUME NEW x \in Reporter, NEW step \in ReportStep, NEW b \in BOOLEAN,
         NEW audience \in SUBSET Recipient, NEW r \in Recipient \cup {NoSender},
         NEW answer \in RunAnswer
  PROVE  /\ [x EXCEPT !.step = step] \in Reporter
         /\ [x EXCEPT !.ready = b] \in Reporter
         /\ [x EXCEPT !.current = b] \in Reporter
         /\ [x EXCEPT !.audience = audience] \in Reporter
         /\ [x EXCEPT !.at = r] \in Reporter
         /\ [x EXCEPT !.answer = answer] \in Reporter
BY Zenon DEF Reporter, RunAnswer

LEMMA FieldsTyped ==
  /\ \A x \in RunRow : /\ x.status \in RunStatus /\ x.attempts \in Nat
                       /\ x.owner \in Sender \cup {NoSender} /\ x.retry \in Retry
  /\ \A x \in DeliveryRow : /\ x.status \in DeliveryStatus
                            /\ x.attempts \in 0..MaxReportAttempts
                            /\ x.owner \in Sender \cup {NoSender} /\ x.retry \in Retry
  /\ \A x \in Reporter : /\ x.step \in ReportStep /\ x.audience \subseteq Recipient
                         /\ x.at \in Recipient \cup {NoSender} /\ x.answer \in RunAnswer
BY DEF RunRow, DeliveryRow, Reporter, RunAnswer

LEMMA ReleasedTyped ==
  /\ \A x \in RunRow : Released(x) \in RunRow
  /\ \A x \in DeliveryRow : Released(x) \in DeliveryRow
<1>1. NoSender \in Sender \cup {NoSender} /\ FALSE \in BOOLEAN
  OBVIOUS
<1>2. ASSUME NEW x \in RunRow PROVE Released(x) \in RunRow
  BY <1>1, Zenon DEF Released, RunRow
<1>3. ASSUME NEW x \in DeliveryRow PROVE Released(x) \in DeliveryRow
  BY <1>1, Zenon DEF Released, DeliveryRow
<1> QED
  BY <1>2, <1>3

\* The idle reporter and the delivery that does not exist.
NoneReporting ==
  /\ NoWork \in Reporter /\ NoDelivery \in DeliveryRow

LEMMA NoneReportingTyped == NoneReporting
<1>1. 0 \in 0..MaxReportAttempts
  BY ReportAssumption
<1>2. NoDelivery \in DeliveryRow
  BY <1>1, Zenon DEF NoDelivery, DeliveryRow, DeliveryStatus, Retry
<1>3. NoWork \in Reporter
  BY Zenon DEF NoWork, Reporter, ReportStep
<1> QED
  BY <1>2, <1>3 DEF NoneReporting

-----------------------------------------------------------------------------
\* What a reporter knows, and what is counted.
Knows ==
    \A s \in Sender :
        /\ ReportAt(s, "skip") => reporter[s].answer \in Skipped
        /\ ReportAt(s, "finalize") => reporter[s].answer \in Outcome
        /\ reporter[s].step \in {"renewDelivery", "send", "markSent", "markFailed"}
             => reporter[s].at \in Recipient

\* The steps of one tick or command.
LEMMA TickerOrAdmin ==
  ASSUME NEW s
  PROVE  /\ s \in Ticker => s \in Sender
         /\ s \in ReportAdmin => s \in Sender
BY DEF Sender

Retaken(s) == [run EXCEPT !.status = "PROCESSING", !.attempts = run.attempts + 1,
                          !.owner = s, !.live = TRUE]

\* The claim, and what ends it, keep the type of the run's row.
LEMMA TakenTyped ==
  ASSUME run \in RunRow, NEW s \in Sender
  PROVE  Retaken(s) \in RunRow
<1>1. run.attempts + 1 \in Nat /\ "PROCESSING" \in RunStatus /\ s \in Sender \cup {NoSender}
  BY FieldsTyped DEF RunStatus
<1> QED
  BY <1>1, Zenon DEF Retaken, RunRow

LEMMA EndedTyped ==
  ASSUME run \in RunRow, NEW st \in RunStatus, NEW retry \in Retry, NEW b \in BOOLEAN
  PROVE  /\ [Released(run) EXCEPT !.status = st] \in RunRow
         /\ [Released(run) EXCEPT !.status = st, !.retry = retry] \in RunRow
         /\ [Released(run) EXCEPT !.status = st, !.generated = b, !.retry = retry] \in RunRow
BY ReleasedTyped, Zenon DEF RunRow

\* Every step keeps the type of the run's row.
LEMMA RunTypedNext ==
  ASSUME ReportTypeOK, Knows, ReportNext
  PROVE  run' \in RunRow
<1>0. run \in RunRow /\ NoSender \in Sender \cup {NoSender} /\ TRUE \in BOOLEAN
      /\ FALSE \in BOOLEAN
  BY DEF ReportTypeOK
<1>1. ASSUME NEW s \in Sender, StartTick(s) PROVE run' \in RunRow
  <2>1. {"PENDING", "PARTIAL"} \subseteq RunStatus /\ "due" \in Retry
    BY DEF RunStatus, Retry
  <2>2. \/ run' = run
        \/ run' = [run EXCEPT !.status = "PENDING"]
        \/ run' = [Released(run) EXCEPT !.status = "PARTIAL", !.retry = "due"]
        \/ run' = [Released(run) EXCEPT !.status = "PENDING", !.retry = "due"]
    BY <1>1 DEF StartTick
  <2>3. [run EXCEPT !.status = "PENDING"] \in RunRow
    BY <1>0, <2>1, RunRowSet
  <2> QED
    <3>1. "PENDING" \in RunStatus /\ "PARTIAL" \in RunStatus
      BY <2>1
    <3>2. /\ [Released(run) EXCEPT !.status = "PARTIAL", !.retry = "due"] \in RunRow
          /\ [Released(run) EXCEPT !.status = "PENDING", !.retry = "due"] \in RunRow
      BY <1>0, <2>1, <3>1, EndedTyped
    <3> QED
      BY <1>0, <2>2, <2>3, <3>2
<1>2. ASSUME NEW s \in Sender, Taken(s) PROVE run' \in RunRow
  BY <1>0, <1>2, TakenTyped DEF Taken, Retaken
<1>3. ASSUME NEW s \in Sender, Trigger(s) PROVE run' \in RunRow
  <2>1. "PENDING" \in RunStatus
    BY DEF RunStatus
  <2>2. [run EXCEPT !.status = "PENDING"] \in RunRow
    BY <1>0, <2>1, Zenon DEF RunRow
  <2> QED
    BY <1>0, <1>3, <2>2 DEF Trigger
<1>4. ASSUME NEW s \in Sender, Reopen(s) PROVE run' \in RunRow
  <2>1. "PENDING" \in RunStatus /\ "none" \in Retry
    BY DEF RunStatus, Retry
  <2> QED
    BY <1>0, <1>4, <2>1, EndedTyped DEF Reopen
<1>5. ASSUME NEW s \in Sender, NEW st \in RunStatus, NEW retry \in Retry,
             Finalized(s, st, retry)
      PROVE  run' \in RunRow
  BY <1>0, <1>5, EndedTyped DEF Finalized
<1>6. ASSUME NEW s \in Sender, MarkSkipped(s) PROVE run' \in RunRow
  <2>1. reporter[s].answer \in RunStatus
    BY <1>6 DEF Knows, MarkSkipped, RunStatus
  <2> QED
    BY <1>0, <1>6, <2>1, EndedTyped DEF MarkSkipped, Retry
<1>7. ASSUME NEW s \in Sender, Renew(s) PROVE run' \in RunRow
  <2>1. [run EXCEPT !.live = TRUE] \in RunRow
    BY <1>0, Zenon DEF RunRow
  <2> QED
    BY <1>0, <1>7, <2>1 DEF Renew
<1>8. ASSUME NEW s \in Sender, PersistSnapshotAndAudience(s) PROVE run' \in RunRow
  <2>1. [run EXCEPT !.generated = TRUE] \in RunRow
    BY <1>0, Zenon DEF RunRow
  <2>2. run' = run \/ run' = [run EXCEPT !.generated = TRUE]
    BY <1>8, Zenon DEF PersistSnapshotAndAudience
  <2> QED
    BY <1>0, <2>1, <2>2
<1>9. ASSUME RunLapse \/ RunDue PROVE run' \in RunRow
  <2>1. "due" \in Retry
    BY DEF Retry
  <2>2. [run EXCEPT !.live = FALSE] \in RunRow /\ [run EXCEPT !.retry = "due"] \in RunRow
    BY <1>0, <2>1, Zenon DEF RunRow
  <2>3. run' = [run EXCEPT !.live = FALSE] \/ run' = [run EXCEPT !.retry = "due"]
    BY <1>9, Zenon DEF RunLapse, RunDue
  <2> QED
    BY <2>2, <2>3
<1>10. ASSUME NEW s \in Sender, Disable(s) \/ FailRun(s) PROVE run' \in RunRow
  <2>1. "FAILED" \in RunStatus /\ "none" \in Retry /\ "later" \in Retry
    BY DEF RunStatus, Retry
  <2> QED
    BY <1>5, <1>10, <2>1 DEF Disable, FailRun
<1>11. ASSUME NEW s \in Sender, Finalize(s) PROVE run' \in RunRow
  <2>1. reporter[s].answer \in RunStatus /\ MinRetry \in Retry /\ "none" \in Retry
    BY <1>11 DEF Knows, Finalize, RunStatus, Outcome, MinRetry, Retry
  <2> QED
    BY <1>5, <1>11, <2>1 DEF Finalize
<1>12. CASE run' = run
  BY <1>0, <1>12
<1>13. ASSUME NEW s \in Sender, ReporterWorks(s) PROVE run' \in RunRow
  <2>1. CASE LoadContext(s) \/ Generate(s) \/ Refresh(s) \/ RecoverDeliveries(s)
             \/ ClaimDelivery(s) \/ NothingToClaim(s) \/ RenewDelivery(s)
    BY <1>12, <2>1 DEF LoadContext, Generate, Refresh, RecoverDeliveries, ClaimDelivery,
                       NothingToClaim, RenewDelivery
  <2>2. CASE MailAccepted(s) \/ MailRefused(s) \/ MarkSent(s) \/ MarkDeliveryFailed(s)
             \/ Summarize(s)
    BY <1>12, <2>2 DEF MailAccepted, MailRefused, MarkSent, MarkDeliveryFailed, Summarize
  <2> QED
    BY <1>13, <2>1, <2>2, <1>6, <1>7, <1>8, <1>10, <1>11 DEF ReporterWorks
<1>14. ASSUME NEW w \in Sender, Tick(w) PROVE run' \in RunRow
  <2>1. CASE EndTick(w)
    BY <1>12, <2>1 DEF EndTick
  <2>2. CASE ClaimNextRun(w)
    BY <1>2, <2>2 DEF ClaimNextRun
  <2> QED
    BY <1>1, <1>10, <1>13, <1>14, <2>1, <2>2 DEF Tick
<1>15. ASSUME NEW a \in Sender, Command(a) PROVE run' \in RunRow
  <2>1. CASE DeleteDeliveries(a)
    BY <1>12, <2>1 DEF DeleteDeliveries
  <2>2. CASE TakeRun(a)
    BY <1>2, <1>12, <2>2 DEF TakeRun
  <2> QED
    BY <1>4, <1>13, <1>15, <2>1, <2>2 DEF Command
<1>16. ASSUME NEW s \in Sender, Throws(s) \/ ReporterDies(s) PROVE run' \in RunRow
  BY <1>12, <1>16 DEF Throws, ReporterDies
<1>17. ASSUME Clock PROVE run' \in RunRow
  <2>1. ASSUME NEW r \in Recipient, DeliveryLapse(r) \/ DeliveryDue(r) PROVE run' \in RunRow
    BY <1>12, <2>1 DEF DeliveryLapse, DeliveryDue
  <2> QED
    BY <1>9, <1>17, <2>1 DEF Clock
<1>18. CASE Change
  BY <1>12, <1>18 DEF Change
<1> QED
  BY <1>3, <1>14, <1>15, <1>16, <1>17, <1>18, TickerOrAdmin, Zenon DEF ReportNext

-----------------------------------------------------------------------------
\* The deliveries keep their type.
LEMMA FailedTyped ==
  ASSUME NEW x \in DeliveryRow, NEW st \in DeliveryStatus, NEW retry \in Retry
  PROVE  /\ Released([x EXCEPT !.status = st, !.retry = retry]) \in DeliveryRow
         /\ [Released(x) EXCEPT !.status = st, !.retry = retry] \in DeliveryRow
<1>1. [x EXCEPT !.status = st, !.retry = retry] \in DeliveryRow
  BY Zenon DEF DeliveryRow
<1>2. [Released(x) EXCEPT !.status = st, !.retry = retry] \in DeliveryRow
  BY ReleasedTyped, Zenon DEF DeliveryRow
<1> QED
  BY <1>1, <1>2, ReleasedTyped

LEMMA DeliveryTypedNext ==
  ASSUME ReportTypeOK, Knows, ReportNext
  PROVE  delivery' \in [Recipient -> DeliveryRow]
<1>0. /\ delivery \in [Recipient -> DeliveryRow] /\ MaxReportAttempts \in Nat
      /\ NoDelivery \in DeliveryRow
  BY NoneReportingTyped, ReportAssumption DEF ReportTypeOK, NoneReporting
<1>1. CASE delivery' = delivery
  BY <1>0, <1>1
<1>2. ASSUME NEW r, NEW row, r \in Recipient => row \in DeliveryRow,
             delivery' = [delivery EXCEPT ![r] = row]
      PROVE  delivery' \in [Recipient -> DeliveryRow]
  BY <1>0, <1>2
<1>3. ASSUME NEW s \in Sender, DeleteDeliveries(s)
      PROVE  delivery' \in [Recipient -> DeliveryRow]
  BY <1>0, <1>3 DEF DeleteDeliveries
<1>4. ASSUME NEW s \in Sender, PersistSnapshotAndAudience(s)
      PROVE  delivery' \in [Recipient -> DeliveryRow]
  <2>1. [NoDelivery EXCEPT !.status = "PENDING"] \in DeliveryRow
    BY <1>0, Zenon DEF DeliveryRow, DeliveryStatus
  <2>2. \/ delivery' = delivery
        \/ delivery' = [r \in Recipient |->
                              IF r \in reporter[s].audience
                              THEN [NoDelivery EXCEPT !.status = "PENDING"]
                              ELSE delivery[r]]
    BY <1>4 DEF PersistSnapshotAndAudience
  <2> QED
    BY <1>0, <2>1, <2>2
<1>5. ASSUME NEW s \in Sender, RecoverDeliveries(s)
      PROVE  delivery' \in [Recipient -> DeliveryRow]
  <2>1. ASSUME NEW r \in Recipient
        PROVE  [Released(delivery[r]) EXCEPT !.status = "FAILED", !.retry = "due"]
                  \in DeliveryRow
    BY <1>0, FailedTyped DEF DeliveryStatus, Retry
  <2> QED
    BY <1>0, <1>5, <2>1 DEF RecoverDeliveries
<1>6. ASSUME NEW s \in Sender, ClaimDelivery(s)
      PROVE  delivery' \in [Recipient -> DeliveryRow]
  <2>1. PICK r \in Recipient :
         /\ Claimable(r)
         /\ delivery' = [delivery EXCEPT ![r].status = "PROCESSING", ![r].owner = s,
                                         ![r].live = TRUE, ![r].attempts = @ + 1]
    BY <1>6 DEF ClaimDelivery
  <2> DEFINE n == delivery[r].attempts + 1
             row == [delivery[r] EXCEPT !.status = "PROCESSING", !.owner = s,
                                        !.live = TRUE, !.attempts = n]
  <2>2. delivery[r] \in DeliveryRow /\ n \in 0..MaxReportAttempts
    BY <1>0, <2>1, FieldsTyped DEF Claimable
  <2>3. row \in DeliveryRow
    <3> HIDE DEF n
    <3> QED
      BY <2>2, Zenon DEF DeliveryRow, DeliveryStatus
  <2>4. delivery' = [delivery EXCEPT ![r] = row]
    BY <1>0, <2>1
  <2> HIDE DEF row
  <2> QED
    BY <1>0, <2>3, <2>4
<1>7. ASSUME NEW s \in Sender, RenewDelivery(s)
      PROVE  delivery' \in [Recipient -> DeliveryRow]
  <2> DEFINE r == reporter[s].at
             row == [delivery[r] EXCEPT !.live = TRUE]
  <2>1. r \in Recipient => row \in DeliveryRow
    <3>1. r \in Recipient => delivery[r] \in DeliveryRow
      BY <1>0
    <3> QED
      BY <3>1, Zenon DEF DeliveryRow
  <2>2. delivery' = delivery \/ delivery' = [delivery EXCEPT ![r] = row]
    BY <1>7, Zenon DEF RenewDelivery
  <2> HIDE DEF row
  <2> QED
    BY <1>0, <1>2, <2>1, <2>2
<1>8. ASSUME NEW s \in Sender, MarkSent(s)
      PROVE  delivery' \in [Recipient -> DeliveryRow]
  <2>1. reporter[s].at \in Recipient
    BY <1>8 DEF Knows, MarkSent, ReportAt
  <2>2. Released([delivery[reporter[s].at] EXCEPT !.status = "SENT", !.retry = "none"])
          \in DeliveryRow
    BY <1>0, <2>1, FailedTyped DEF DeliveryStatus, Retry
  <2> QED
    BY <1>0, <1>8, <2>1, <2>2 DEF MarkSent, Marks
<1>9. ASSUME NEW s \in Sender, MarkDeliveryFailed(s)
      PROVE  delivery' \in [Recipient -> DeliveryRow]
  <2>1. reporter[s].at \in Recipient
    BY <1>9 DEF Knows, MarkDeliveryFailed, ReportAt
  <2>2. \A b \in BOOLEAN :
          Released([delivery[reporter[s].at] EXCEPT
                       !.status = IF b THEN "FAILED_TERMINAL" ELSE "FAILED",
                       !.retry = IF b THEN "none" ELSE "later"]) \in DeliveryRow
    BY <1>0, <2>1, FailedTyped DEF DeliveryStatus, Retry
  <2>3. \E b \in BOOLEAN :
          Marks(s, [delivery[reporter[s].at] EXCEPT
                       !.status = IF b THEN "FAILED_TERMINAL" ELSE "FAILED",
                       !.retry = IF b THEN "none" ELSE "later"])
    BY <1>9, Zenon DEF MarkDeliveryFailed
  <2> QED
    BY <1>0, <2>1, <2>2, <2>3 DEF Marks
<1>10. ASSUME NEW r \in Recipient, DeliveryLapse(r) \/ DeliveryDue(r)
       PROVE  delivery' \in [Recipient -> DeliveryRow]
  <2>1. "due" \in Retry /\ delivery[r] \in DeliveryRow
    BY <1>0 DEF Retry
  <2>2. /\ [delivery[r] EXCEPT !.live = FALSE] \in DeliveryRow
        /\ [delivery[r] EXCEPT !.retry = "due"] \in DeliveryRow
    BY <2>1, Zenon DEF DeliveryRow
  <2>3. \/ delivery' = [delivery EXCEPT ![r] = [delivery[r] EXCEPT !.live = FALSE]]
        \/ delivery' = [delivery EXCEPT ![r] = [delivery[r] EXCEPT !.retry = "due"]]
    BY <1>10, Zenon DEF DeliveryLapse, DeliveryDue
  <2> QED
    BY <1>0, <2>2, <2>3
<1>11. ASSUME NEW s \in Sender, ReporterWorks(s)
       PROVE  delivery' \in [Recipient -> DeliveryRow]
  <2>1. CASE LoadContext(s) \/ Disable(s) \/ Renew(s) \/ Generate(s) \/ MarkSkipped(s)
             \/ Refresh(s)
    BY <1>1, <2>1 DEF LoadContext, Disable, Renew, Generate, MarkSkipped, Refresh
  <2>2. CASE NothingToClaim(s) \/ MailAccepted(s) \/ MailRefused(s)
             \/ Summarize(s) \/ Finalize(s)
    BY <1>1, <2>2 DEF NothingToClaim, MailAccepted, MailRefused, Summarize, Finalize
  <2> QED
    BY <1>11, <2>1, <2>2, <1>4, <1>5, <1>6, <1>7, <1>8, <1>9 DEF ReporterWorks
<1>12. ASSUME NEW s \in Sender, Tick(s)
       PROVE  delivery' \in [Recipient -> DeliveryRow]
  <2>1. CASE StartTick(s) \/ ClaimNextRun(s) \/ EndTick(s) \/ FailRun(s)
    BY <1>1, <2>1 DEF StartTick, ClaimNextRun, EndTick, FailRun
  <2> QED
    BY <1>11, <1>12, <2>1 DEF Tick
<1>13. ASSUME NEW s \in Sender, Command(s) \/ Trigger(s)
       PROVE  delivery' \in [Recipient -> DeliveryRow]
  <2>1. CASE Reopen(s) \/ TakeRun(s) \/ Trigger(s)
    BY <1>1, <2>1 DEF Reopen, TakeRun, Trigger
  <2> QED
    BY <1>3, <1>11, <1>13, <2>1 DEF Command
<1>14. ASSUME NEW s \in Sender, Throws(s) \/ ReporterDies(s)
       PROVE  delivery' \in [Recipient -> DeliveryRow]
  BY <1>1, <1>14 DEF Throws, ReporterDies
<1>15. CASE Clock
  BY <1>1, <1>10, <1>15 DEF Clock, RunLapse, RunDue
<1>16. CASE Change
  BY <1>1, <1>16 DEF Change
<1> QED
  BY <1>12, <1>13, <1>14, <1>15, <1>16, TickerOrAdmin, Zenon DEF ReportNext

-----------------------------------------------------------------------------
\* The reporters keep their type and what they know.
AtStep == {"renewDelivery", "send", "markSent", "markFailed"}
Knowing(x) ==
    /\ x.step = "skip" => x.answer \in Skipped
    /\ x.step = "finalize" => x.answer \in Outcome
    /\ x.step \in AtStep => x.at \in Recipient
Plain == ReportStep \ ({"skip", "finalize"} \cup AtStep)
Able == {x \in Reporter : Knowing(x)}

LEMMA KnowsIsAble ==
  ASSUME reporter \in [Sender -> Reporter]
  PROVE  Knows <=> reporter \in [Sender -> Able]
BY DEF Knows, Able, Knowing, ReportAt, AtStep

LEMMA AbleAfter ==
  ASSUME reporter' \in [Sender -> Able]
  PROVE  reporter' \in [Sender -> Reporter] /\ Knows'
BY DEF Knows, Able, Knowing, ReportAt, AtStep

LEMMA NoneAble ==
  /\ NoWork \in Able
  /\ [NoWork EXCEPT !.step = "claim"] \in Able
  /\ [NoWork EXCEPT !.step = "failRun"] \in Able
<1>1. NoWork \in Reporter /\ NoWork.step = "idle"
  BY NoneReportingTyped DEF NoneReporting, NoWork
<1>2. ASSUME NEW t \in {"claim", "failRun"}
      PROVE  [NoWork EXCEPT !.step = t] \in Reporter /\ [NoWork EXCEPT !.step = t].step = t
  BY <1>1, <1>2, Zenon DEF Reporter, ReportStep
<1> QED
  BY <1>1, <1>2 DEF Able, Knowing, AtStep

LEMMA StepAble ==
  ASSUME NEW x \in Able, NEW step \in ReportStep,
         step = "skip" => x.answer \in Skipped,
         step = "finalize" => x.answer \in Outcome,
         step \in AtStep => x.at \in Recipient
  PROVE  [x EXCEPT !.step = step] \in Able
<1>1. x \in Reporter
  BY DEF Able
<1>2. [x EXCEPT !.step = step] \in Reporter
  BY <1>1, Zenon DEF Reporter
<1>3. /\ [x EXCEPT !.step = step].step = step
      /\ [x EXCEPT !.step = step].answer = x.answer
      /\ [x EXCEPT !.step = step].at = x.at
  BY <1>1 DEF Reporter
<1> QED
  BY <1>2, <1>3 DEF Able, Knowing

LEMMA PlainIs ==
  /\ Plain \subseteq ReportStep
  /\ \A t \in Plain : t \notin AtStep /\ t # "skip" /\ t # "finalize"
  /\ {"idle", "claim", "failRun", "reopen", "delete", "take", "context", "disable",
      "renew", "recipients", "persist", "refresh", "recover", "claimDelivery",
      "summarize"} \subseteq Plain
BY DEF Plain, ReportStep, Processing, AtStep

LEMMA PlainAble ==
  ASSUME NEW x \in Able, NEW step \in Plain
  PROVE  [x EXCEPT !.step = step] \in Able
BY StepAble, PlainIs

\* One reporter changes.
LEMMA OneAble ==
  ASSUME reporter \in [Sender -> Able], NEW s \in Sender, NEW x \in Able,
         reporter' = [reporter EXCEPT ![s] = x]
  PROVE  reporter' \in [Sender -> Able]
OBVIOUS

LEMMA GoesAble ==
  ASSUME reporter \in [Sender -> Able], NEW s \in Sender, NEW step \in Plain,
         ReportGoes(s, step)
  PROVE  reporter' \in [Sender -> Able]
<1>1. reporter' = [reporter EXCEPT ![s] = [reporter[s] EXCEPT !.step = step]]
  BY DEF ReportGoes
<1>2. [reporter[s] EXCEPT !.step = step] \in Able
  BY PlainAble
<1> QED
  BY <1>1, <1>2, OneAble

LEMMA EndsAble ==
  ASSUME reporter \in [Sender -> Able], NEW s \in Sender, ReportEnds(s)
  PROVE  reporter' \in [Sender -> Able]
BY NoneAble, OneAble DEF ReportEnds

LEMMA TakenAble ==
  ASSUME reporter \in [Sender -> Able], NEW s \in Sender, Taken(s), run \in RunRow
  PROVE  reporter' \in [Sender -> Able]
<1> DEFINE x == [reporter[s] EXCEPT !.step = "context", !.ready = run.generated]
<1>1. reporter' = [reporter EXCEPT ![s] = x]
  BY Zenon DEF Taken
<1>2. reporter[s] \in Reporter /\ run.generated \in BOOLEAN /\ "context" \in ReportStep
  BY Zenon DEF Able, RunRow, ReportStep, Processing
<1>3. x \in Reporter
  BY <1>2, Zenon DEF Reporter
<1>4. x.step = "context"
  BY <1>2, Zenon DEF Reporter
<1>5. x \in Able
  <2> HIDE DEF x
  <2> QED
    BY <1>3, <1>4 DEF Able, Knowing, AtStep
<1> QED
  BY <1>1, <1>5, OneAble

LEMMA GenerateAble ==
  ASSUME reporter \in [Sender -> Able], NEW s \in Sender, Generate(s),
         settings.recipients \subseteq Recipient
  PROVE  reporter' \in [Sender -> Able]
<1> DEFINE answer == IF settings.recipients = {} THEN "SKIPPED_NO_RECIPIENTS"
                     ELSE IF settings.activity THEN "none" ELSE "SKIPPED_NO_ACTIVITY"
           step == IF settings.recipients # {} /\ settings.activity THEN "persist" ELSE "skip"
           x == [reporter[s] EXCEPT !.audience = settings.recipients, !.answer = answer,
                                    !.step = step]
<1>1. reporter' = [reporter EXCEPT ![s] = x]
  BY Zenon DEF Generate
<1>2. /\ answer \in RunAnswer /\ step \in ReportStep /\ step \notin AtStep
      /\ step # "finalize" /\ (step = "skip" => answer \in Skipped)
  BY DEF RunAnswer, Skipped, ReportStep, Processing, AtStep
<1>3. reporter[s] \in Reporter
  BY DEF Able
<1> HIDE DEF answer, step
<1>4. x \in Reporter
  BY <1>2, <1>3, Zenon DEF Reporter, RunAnswer
<1>5. x.step = step /\ x.answer = answer
  BY <1>3, Zenon DEF Reporter
<1>6. x \in Able
  <2> HIDE DEF x
  <2> QED
    BY <1>2, <1>4, <1>5 DEF Able, Knowing
<1> QED
  BY <1>1, <1>6, OneAble

LEMMA PersistAble ==
  ASSUME reporter \in [Sender -> Able], NEW s \in Sender, PersistSnapshotAndAudience(s)
  PROVE  reporter' \in [Sender -> Able]
<1>1. CASE ReportEnds(s)
  BY <1>1, EndsAble
<1>2. CASE ReportGoes(s, IF s \in Ticker THEN "failRun" ELSE "idle")
  <2>1. (IF s \in Ticker THEN "failRun" ELSE "idle") \in Plain
    BY PlainIs
  <2> QED
    BY <1>2, <2>1, GoesAble
<1>3. CASE reporter' = [x \in Sender |->
                 IF x = s THEN [reporter[s] EXCEPT !.step = "refresh", !.audience = {}]
                 ELSE [reporter[x] EXCEPT !.current = FALSE]]
  <2>1. ASSUME NEW x \in Able
        PROVE  /\ [x EXCEPT !.step = "refresh", !.audience = {}] \in Able
               /\ [x EXCEPT !.current = FALSE] \in Able
    <3>1. x \in Reporter /\ "refresh" \in ReportStep
      BY DEF Able, ReportStep, Processing
    <3>2. [x EXCEPT !.step = "refresh", !.audience = {}] \in Reporter
      BY <3>1, Zenon DEF Reporter
    <3>3. [x EXCEPT !.step = "refresh", !.audience = {}].step = "refresh"
      BY <3>1, Zenon DEF Reporter
    <3>4. [x EXCEPT !.current = FALSE] \in Reporter
      BY <3>1, Zenon DEF Reporter
    <3>5. /\ [x EXCEPT !.current = FALSE].step = x.step
          /\ [x EXCEPT !.current = FALSE].answer = x.answer
          /\ [x EXCEPT !.current = FALSE].at = x.at
      BY <3>1, Zenon DEF Reporter
    <3>6. [x EXCEPT !.step = "refresh", !.audience = {}] \in Able
      BY <3>2, <3>3 DEF Able, Knowing, AtStep
    <3>7. [x EXCEPT !.current = FALSE] \in Able
      BY <3>4, <3>5 DEF Able, Knowing
    <3> QED
      BY <3>6, <3>7
  <2> QED
    BY <1>3, <2>1
<1> QED
  BY <1>1, <1>2, <1>3 DEF PersistSnapshotAndAudience

\* A reporter that takes up or leaves a delivery.
LEMMA AtAble ==
  ASSUME NEW x \in Able, NEW step \in ReportStep, NEW r \in Recipient \cup {NoSender},
         NEW b \in BOOLEAN, step \in Plain \/ (step \in AtStep /\ r \in Recipient)
  PROVE  [x EXCEPT !.step = step, !.at = r, !.current = b] \in Able
<1>1. x \in Reporter
  BY DEF Able
<1>2. [x EXCEPT !.step = step, !.at = r, !.current = b] \in Reporter
  BY <1>1, Zenon DEF Reporter
<1>3. /\ [x EXCEPT !.step = step, !.at = r, !.current = b].step = step
      /\ [x EXCEPT !.step = step, !.at = r, !.current = b].at = r
  BY <1>1, Zenon DEF Reporter
<1> QED
  BY <1>2, <1>3, PlainIs DEF Able, Knowing, AtStep

LEMMA DeliveringAble ==
  ASSUME reporter \in [Sender -> Able], NEW s \in Sender,
         ClaimDelivery(s) \/ RenewDelivery(s) \/ MarkSent(s) \/ MarkDeliveryFailed(s)
  PROVE  reporter' \in [Sender -> Able]
<1>0. /\ "renewDelivery" \in ReportStep /\ "send" \in ReportStep /\ "claimDelivery" \in ReportStep
      /\ "renewDelivery" \in AtStep /\ "send" \in AtStep /\ "claimDelivery" \in Plain
      /\ NoSender \in Recipient \cup {NoSender} /\ reporter[s] \in Reporter
  BY PlainIs DEF ReportStep, Processing, AtStep, Able
<1>1. CASE ClaimDelivery(s)
  <2>1. PICK r \in Recipient :
          reporter' = [reporter EXCEPT ![s].step = "renewDelivery", ![s].at = r,
                                 ![s].current = TRUE]
    BY <1>1, Zenon DEF ClaimDelivery
  <2>2. reporter' = [reporter EXCEPT ![s] =
                [reporter[s] EXCEPT !.step = "renewDelivery", !.at = r, !.current = TRUE]]
    BY <2>1, Zenon
  <2>3. [reporter[s] EXCEPT !.step = "renewDelivery", !.at = r, !.current = TRUE] \in Able
    BY <1>0, AtAble
  <2> QED
    BY <2>2, <2>3, OneAble
<1>2. CASE RenewDelivery(s)
  <2> DEFINE r == reporter[s].at
             own == OwnsDelivery(s, r)
             step == IF own THEN "send" ELSE "claimDelivery"
             at == IF own THEN r ELSE NoSender
             cur == reporter[s].current /\ own
             x == [reporter[s] EXCEPT !.step = step, !.at = at, !.current = cur]
  <2>1. r \in Recipient /\ cur \in BOOLEAN
    BY <1>2, Zenon DEF RenewDelivery, ReportAt, Able, Knowing, AtStep
  <2>2. reporter' = [reporter EXCEPT ![s] = x]
    BY <1>2, Zenon DEF RenewDelivery
  <2>3. /\ step \in ReportStep /\ at \in Recipient \cup {NoSender}
        /\ (step \in Plain \/ (step \in AtStep /\ at \in Recipient))
    <3> HIDE DEF own, r
    <3> QED
      BY <1>0, <2>1
  <2>4. x \in Able
    <3> HIDE DEF step, at, cur, r, own
    <3> QED
      BY <1>0, <2>1, <2>3, AtAble
  <2> HIDE DEF x
  <2> QED
    BY <2>2, <2>4, OneAble
<1>3. CASE MarkSent(s) \/ MarkDeliveryFailed(s)
  <2>1. reporter' = [reporter EXCEPT ![s] =
          [reporter[s] EXCEPT !.step = "claimDelivery", !.at = NoSender, !.current = FALSE]]
    BY <1>3, Zenon DEF MarkSent, MarkDeliveryFailed
  <2>2. [reporter[s] EXCEPT !.step = "claimDelivery", !.at = NoSender, !.current = FALSE] \in Able
    BY <1>0, AtAble
  <2> QED
    BY <2>1, <2>2, OneAble
<1> QED
  BY <1>1, <1>2, <1>3

\* The steps that mail, and the end of a run.
LEMMA MailingAble ==
  ASSUME reporter \in [Sender -> Able], NEW s \in Sender,
         NEW step \in AtStep, reporter[s].at \in Recipient, ReportGoes(s, step)
  PROVE  reporter' \in [Sender -> Able]
<1>1. reporter' = [reporter EXCEPT ![s] = [reporter[s] EXCEPT !.step = step]]
  BY DEF ReportGoes
<1>2. step \in ReportStep /\ step # "skip" /\ step # "finalize"
  BY DEF AtStep, ReportStep, Processing
<1>3. [reporter[s] EXCEPT !.step = step] \in Able
  BY <1>2, StepAble
<1> QED
  BY <1>1, <1>3, OneAble

LEMMA EndingAble ==
  ASSUME reporter \in [Sender -> Able], NEW s \in Sender, Summarize(s) \/ Refresh(s)
  PROVE  reporter' \in [Sender -> Able]
<1>0. reporter[s] \in Reporter
  BY DEF Able
<1>1. CASE Summarize(s)
  <2> DEFINE x == [reporter[s] EXCEPT !.step = "finalize", !.answer = RunOutcome]
  <2>1. reporter' = [reporter EXCEPT ![s] = x]
    BY <1>1, Zenon DEF Summarize
  <2>2. RunOutcome \in Outcome /\ RunOutcome \in RunAnswer /\ "finalize" \in ReportStep
    BY DEF RunOutcome, Outcome, RunAnswer, ReportStep, Processing
  <2>3. x \in Reporter /\ x.step = "finalize" /\ x.answer = RunOutcome
    BY <1>0, <2>2, Zenon DEF Reporter, RunAnswer
  <2>4. x \in Able
    <3> HIDE DEF x
    <3> QED
      BY <2>2, <2>3 DEF Able, Knowing, AtStep
  <2> QED
    BY <2>1, <2>4, OneAble
<1>2. CASE Refresh(s) /\ run.generated
  <2> DEFINE x == [reporter[s] EXCEPT !.step = "recover", !.ready = FALSE]
  <2>1. reporter' = [reporter EXCEPT ![s] = x]
    BY <1>2, Zenon DEF Refresh
  <2>2. "recover" \in ReportStep
    BY DEF ReportStep, Processing
  <2>3. x \in Reporter /\ x.step = "recover"
    BY <1>0, <2>2, Zenon DEF Reporter
  <2>4. x \in Able
    <3> HIDE DEF x
    <3> QED
      BY <2>3 DEF Able, Knowing, AtStep
  <2> QED
    BY <2>1, <2>4, OneAble
<1>3. CASE Refresh(s) /\ ~ run.generated
  BY <1>3, EndsAble DEF Refresh
<1> QED
  BY <1>1, <1>2, <1>3

LEMMA ReporterTypedNext ==
  ASSUME ReportTypeOK, Knows, ReportNext
  PROVE  reporter' \in [Sender -> Able]
<1>0. reporter \in [Sender -> Able] /\ run \in RunRow /\ settings.recipients \subseteq Recipient
  BY KnowsIsAble DEF ReportTypeOK
<1>1. CASE reporter' = reporter
  BY <1>0, <1>1
<1>2. ASSUME NEW s \in Sender, ReporterWorks(s) PROVE reporter' \in [Sender -> Able]
  <2>1. CASE LoadContext(s)
    <3>1. ReportGoes(s, "renew") \/ ReportGoes(s, "disable")
      BY <2>1 DEF LoadContext
    <3> QED
      BY <1>0, <3>1, GoesAble, PlainIs
  <2>2. CASE Renew(s)
    <3>1. ReportGoes(s, "refresh") \/ ReportGoes(s, "recipients")
      BY <2>2 DEF Renew
    <3> QED
      BY <1>0, <3>1, GoesAble, PlainIs
  <2>3. CASE Disable(s) \/ MarkSkipped(s) \/ Finalize(s)
    BY <1>0, <2>3, EndsAble DEF Disable, MarkSkipped, Finalize
  <2>4. CASE RecoverDeliveries(s) \/ NothingToClaim(s)
    <3>1. ReportGoes(s, "claimDelivery") \/ ReportGoes(s, "summarize")
      BY <2>4 DEF RecoverDeliveries, NothingToClaim
    <3> QED
      BY <1>0, <3>1, GoesAble, PlainIs
  <2>5. CASE MailAccepted(s) \/ MailRefused(s)
    <3>1. reporter[s].at \in Recipient
      BY <2>5 DEF MailAccepted, MailRefused, Knows, ReportAt
    <3>2. ReportGoes(s, "markSent") \/ ReportGoes(s, "markFailed")
      BY <2>5 DEF MailAccepted, MailRefused
    <3>3. "markSent" \in AtStep /\ "markFailed" \in AtStep
      BY DEF AtStep
    <3> QED
      BY <1>0, <3>1, <3>2, <3>3, MailingAble
  <2>6. CASE Generate(s)
    BY <1>0, <2>6, GenerateAble
  <2>7. CASE PersistSnapshotAndAudience(s)
    BY <1>0, <2>7, PersistAble
  <2>8. CASE ClaimDelivery(s) \/ RenewDelivery(s) \/ MarkSent(s) \/ MarkDeliveryFailed(s)
    BY <1>0, <2>8, DeliveringAble
  <2>9. CASE Summarize(s) \/ Refresh(s)
    BY <1>0, <2>9, EndingAble
  <2> QED
    BY <1>2, <2>1, <2>2, <2>3, <2>4, <2>5, <2>6, <2>7, <2>8, <2>9 DEF ReporterWorks
<1>3. ASSUME NEW s \in Sender, Tick(s) PROVE reporter' \in [Sender -> Able]
  <2>1. CASE StartTick(s) \/ EndTick(s)
    <3>1. ReportGoes(s, "claim") \/ ReportGoes(s, "idle")
      BY <2>1 DEF StartTick, EndTick
    <3> QED
      BY <1>0, <3>1, GoesAble, PlainIs
  <2>2. CASE ClaimNextRun(s)
    BY <1>0, <2>2, TakenAble DEF ClaimNextRun
  <2>3. CASE FailRun(s)
    BY <1>0, <2>3, EndsAble DEF FailRun
  <2> QED
    BY <1>2, <1>3, <2>1, <2>2, <2>3 DEF Tick
<1>4. ASSUME NEW s \in Sender, Command(s) \/ Trigger(s) PROVE reporter' \in [Sender -> Able]
  <2>1. CASE Reopen(s) \/ DeleteDeliveries(s)
    <3>1. ReportGoes(s, "delete") \/ ReportGoes(s, "take")
      BY <2>1 DEF Reopen, DeleteDeliveries
    <3> QED
      BY <1>0, <3>1, GoesAble, PlainIs
  <2>2. CASE TakeRun(s)
    <3>1. Taken(s) \/ ReportGoes(s, "idle")
      BY <2>2 DEF TakeRun
    <3> QED
      BY <1>0, <3>1, TakenAble, GoesAble, PlainIs
  <2>3. CASE Trigger(s)
    <3>1. PICK t \in {"idle", "reopen", "take"} : ReportGoes(s, t)
      BY <2>3 DEF Trigger
    <3>2. t \in Plain
      BY PlainIs
    <3> QED
      BY <1>0, <3>1, <3>2, GoesAble
  <2> QED
    BY <1>2, <1>4, <2>1, <2>2, <2>3 DEF Command
<1>5. ASSUME NEW s \in Sender, Throws(s) \/ ReporterDies(s)
      PROVE  reporter' \in [Sender -> Able]
  <2>1. CASE ReportAt(s, "markSent") /\ ReportGoes(s, "markFailed")
    <3>1. reporter[s].at \in Recipient /\ "markFailed" \in AtStep
      BY <2>1 DEF Knows, ReportAt, AtStep
    <3> QED
      BY <1>0, <2>1, <3>1, MailingAble
  <2>2. CASE \/ reporter' = [reporter EXCEPT ![s] = [NoWork EXCEPT !.step = "failRun"]]
             \/ reporter' = [reporter EXCEPT ![s] = NoWork]
    BY <1>0, <2>2, NoneAble, OneAble
  <2> QED
    BY <1>5, <2>1, <2>2 DEF Throws, ReporterDies
<1>6. CASE Clock \/ Change
  BY <1>1, <1>6 DEF Clock, RunLapse, RunDue, DeliveryLapse, DeliveryDue, Change
<1> QED
  BY <1>3, <1>4, <1>5, <1>6, TickerOrAdmin, Zenon DEF ReportNext

-----------------------------------------------------------------------------
\* The settings, the audience and the bounds.
RestTyped ==
    /\ settings \in [enabled: BOOLEAN, recipients: SUBSET Recipient, activity: BOOLEAN]
    /\ unsent \in SUBSET Recipient
    /\ commands \in 0 .. MaxCommands /\ reportChanges \in 0 .. MaxSettings
    /\ reportFaults \in 0 .. MaxReportFaults /\ lapses \in 0 .. MaxLapses

LEMMA ReportParts ==
  ReportTypeOK <=> /\ run \in RunRow /\ delivery \in [Recipient -> DeliveryRow]
                   /\ reporter \in [Sender -> Reporter] /\ RestTyped
BY Zenon DEF ReportTypeOK, RestTyped

LEMMA ReportPartsAfter ==
  ASSUME run' \in RunRow, delivery' \in [Recipient -> DeliveryRow],
         reporter' \in [Sender -> Reporter], RestTyped'
  PROVE  ReportTypeOK'
BY Zenon DEF ReportTypeOK, RestTyped

\* The audience only changes when a snapshot is stored or a mail is taken.
LEMMA WorksRest ==
  ASSUME ReportTypeOK, NEW s \in Sender, ReporterWorks(s)
  PROVE  /\ settings' = settings /\ unsent' \in SUBSET Recipient
         /\ UNCHANGED <<commands, reportChanges, reportFaults, lapses>>
<1>0. unsent \in SUBSET Recipient /\ reporter[s] \in Reporter
  BY DEF ReportTypeOK
<1>1. CASE LoadContext(s) \/ Disable(s) \/ Renew(s) \/ Generate(s) \/ MarkSkipped(s)
             \/ Refresh(s) \/ RecoverDeliveries(s)
  BY <1>0, <1>1 DEF LoadContext, Disable, Renew, Generate, MarkSkipped, Refresh,
                    RecoverDeliveries
<1>2. CASE ClaimDelivery(s) \/ NothingToClaim(s) \/ RenewDelivery(s) \/ MailRefused(s)
  BY <1>0, <1>2 DEF ClaimDelivery, NothingToClaim, RenewDelivery, MailRefused
<1>3. CASE MarkSent(s) \/ MarkDeliveryFailed(s) \/ Summarize(s) \/ Finalize(s)
  BY <1>0, <1>3 DEF MarkSent, MarkDeliveryFailed, Summarize, Finalize
<1>4. CASE MailAccepted(s)
  BY <1>0, <1>4 DEF MailAccepted
<1>5. CASE PersistSnapshotAndAudience(s)
  <2>1. reporter[s].audience \in SUBSET Recipient
    BY <1>0, FieldsTyped
  <2> QED
    BY <1>0, <1>5, <2>1 DEF PersistSnapshotAndAudience
<1> QED
  BY <1>1, <1>2, <1>3, <1>4, <1>5 DEF ReporterWorks

LEMMA RestTypedNext ==
  ASSUME ReportTypeOK, ReportNext
  PROVE  RestTyped'
<1>0. /\ RestTyped
      /\ MaxCommands \in Nat /\ MaxSettings \in Nat /\ MaxReportFaults \in Nat /\ MaxLapses \in Nat
  BY ReportParts, ReportAssumption
<1>1. ASSUME settings' = settings, unsent' \in SUBSET Recipient,
             UNCHANGED <<commands, reportChanges, reportFaults, lapses>>
      PROVE  RestTyped'
  BY <1>0, <1>1 DEF RestTyped
<1>2. ASSUME NEW s \in Sender, ReporterWorks(s) PROVE RestTyped'
  BY <1>1, <1>2, WorksRest
<1>3. ASSUME NEW s \in Sender, Tick(s) PROVE RestTyped'
  <2>1. CASE StartTick(s) \/ ClaimNextRun(s) \/ EndTick(s) \/ FailRun(s)
    BY <1>0, <1>1, <2>1 DEF StartTick, ClaimNextRun, EndTick, FailRun, RestTyped
  <2> QED
    BY <1>2, <1>3, <2>1 DEF Tick
<1>4. ASSUME NEW s \in Sender, Command(s) PROVE RestTyped'
  <2>1. CASE Reopen(s) \/ DeleteDeliveries(s) \/ TakeRun(s)
    BY <1>0, <1>1, <2>1 DEF Reopen, DeleteDeliveries, TakeRun, RestTyped
  <2> QED
    BY <1>2, <1>4, <2>1 DEF Command
<1>5. ASSUME NEW s \in Sender, Trigger(s) PROVE RestTyped'
  <2>1. settings' = settings /\ unsent' = unsent
        /\ UNCHANGED <<reportChanges, reportFaults, lapses>>
        /\ commands < MaxCommands /\ commands' = commands + 1
    BY <1>5 DEF Trigger
  <2>2. commands' \in 0..MaxCommands
    BY <1>0, <2>1 DEF RestTyped
  <2> QED
    BY <1>0, <2>1, <2>2 DEF RestTyped
<1>6. ASSUME NEW s \in Sender, Throws(s) \/ ReporterDies(s) PROVE RestTyped'
  <2>1. settings' = settings /\ unsent' = unsent
        /\ UNCHANGED <<commands, reportChanges, lapses>>
        /\ reportFaults < MaxReportFaults /\ reportFaults' = reportFaults + 1
    BY <1>6 DEF Throws, ReporterDies
  <2>2. reportFaults' \in 0..MaxReportFaults
    BY <1>0, <2>1 DEF RestTyped
  <2> QED
    BY <1>0, <2>1, <2>2 DEF RestTyped
<1>7. CASE Clock
  <2>1. /\ settings' = settings /\ unsent' = unsent
        /\ UNCHANGED <<commands, reportChanges, reportFaults>>
        /\ (lapses' = lapses \/ (lapses < MaxLapses /\ lapses' = lapses + 1))
    BY <1>7 DEF Clock, RunLapse, RunDue, DeliveryLapse, DeliveryDue
  <2>2. lapses' \in 0..MaxLapses
    BY <1>0, <2>1 DEF RestTyped
  <2> QED
    BY <1>0, <2>1, <2>2 DEF RestTyped
<1>8. CASE Change
  <2> DEFINE Kind == [enabled: BOOLEAN, recipients: SUBSET Recipient, activity: BOOLEAN]
  <2>1. settings \in Kind
    BY <1>0 DEF RestTyped
  <2>2. \A b \in BOOLEAN, A \in SUBSET Recipient :
          /\ [settings EXCEPT !.enabled = b] \in Kind
          /\ [settings EXCEPT !.recipients = A] \in Kind
          /\ [settings EXCEPT !.activity = b] \in Kind
    BY <2>1, Zenon
  <2>3. (~settings.enabled) \in BOOLEAN /\ Recipient \ settings.recipients \in SUBSET Recipient
    <3>1. (~settings.enabled) \in BOOLEAN
      BY Zenon
    <3> QED
      BY <3>1
  <2>4. settings' \in Kind
    <3>1. \/ settings' = [settings EXCEPT !.enabled = ~settings.enabled]
          \/ settings' = [settings EXCEPT !.recipients = Recipient \ settings.recipients]
          \/ settings' = [settings EXCEPT !.activity = TRUE]
      BY <1>8, Zenon DEF Change
    <3> HIDE DEF Kind
    <3> QED
      BY <2>2, <2>3, <3>1, Zenon
  <2>5. /\ UNCHANGED <<unsent, commands, reportFaults, lapses>>
        /\ reportChanges < MaxSettings /\ reportChanges' = reportChanges + 1
    BY <1>8 DEF Change
  <2>6. reportChanges' \in 0..MaxSettings
    BY <1>0, <2>5 DEF RestTyped
  <2> QED
    BY <1>0, <2>4, <2>5, <2>6 DEF RestTyped
<1> QED
  BY <1>3, <1>4, <1>5, <1>6, <1>7, <1>8, TickerOrAdmin, Zenon DEF ReportNext

LEMMA ReportInitTyped == ReportInit => ReportTypeOK /\ Knows
<1> SUFFICES ASSUME ReportInit PROVE ReportTypeOK /\ Knows
  OBVIOUS
<1>1. run \in RunRow
  <2>1. 0 \in Nat
    OBVIOUS
  <2> QED
    BY <2>1, Zenon DEF ReportInit, RunRow, RunStatus, Retry
<1>2. delivery \in [Recipient -> DeliveryRow] /\ reporter \in [Sender -> Able]
  BY NoneReportingTyped, NoneAble DEF ReportInit, NoneReporting
<1>3. reporter \in [Sender -> Reporter] /\ Knows
  BY <1>2, KnowsIsAble DEF Able
<1>4. settings \in [enabled: BOOLEAN, recipients: SUBSET Recipient, activity: BOOLEAN]
  BY Zenon DEF ReportInit
<1>5. RestTyped
  BY <1>4, ReportAssumption DEF ReportInit, RestTyped
<1> QED
  BY <1>1, <1>2, <1>3, <1>5, ReportParts

LEMMA ReportTypesStep ==
  ASSUME ReportTypeOK, Knows, [ReportNext]_reportVars
  PROVE  ReportTypeOK' /\ Knows'
<1>1. CASE ReportNext
  BY <1>1, RunTypedNext, DeliveryTypedNext, ReporterTypedNext, RestTypedNext, AbleAfter,
     ReportPartsAfter
<1>2. CASE UNCHANGED reportVars
  BY <1>2 DEF reportVars, ReportTypeOK, Knows, ReportAt
<1> QED
  BY <1>1, <1>2

\* The rows of the run, its deliveries and its reporters are what ReportTypeOK says.
THEOREM ReportTypeCorrect == ReportSpec => []ReportTypeOK
<1>1. ReportInit => ReportTypeOK /\ Knows
  BY ReportInitTyped
<1>2. ReportTypeOK /\ Knows /\ [ReportNext]_reportVars => ReportTypeOK' /\ Knows'
  BY ReportTypesStep
<1> QED
  BY <1>1, <1>2, PTL DEF ReportSpec

-----------------------------------------------------------------------------
\* Whoever holds the delivery it is at holds one of the last snapshot, or its
\* recipient has been mailed; whoever is about to mark it has mailed it.
CountedBy(s) ==
    /\ reporter[s].step \in {"renewDelivery", "send"} /\ OwnsDelivery(s, reporter[s].at)
         => reporter[s].current \/ reporter[s].at \notin unsent
    /\ reporter[s].step = "markSent" /\ OwnsDelivery(s, reporter[s].at)
         => reporter[s].at \notin unsent
Counted == \A s \in Sender : CountedBy(s)

\* The last audience has its deliveries, or a command has deleted all of them.
Provided == \/ \A r \in unsent : delivery[r].status # "ABSENT"
            \/ \A r \in Recipient : delivery[r].status = "ABSENT"

\* The holder of the run that found everything sent is right.
CompleteBy(s) == ReportAt(s, "finalize") /\ reporter[s].answer = "SENT" /\ OwnsRun(s)
                   => unsent = {}
Complete == \A s \in Sender : CompleteBy(s)

Mailed == \A r \in Recipient : delivery[r].status = "SENT" => r \notin unsent
RunMailed == run.status = "SENT" => unsent = {}

ReportInv == /\ ReportTypeOK /\ Knows
             /\ Counted /\ Provided /\ Complete /\ Mailed /\ RunMailed

LEMMA SentMeansMailedIs ==
  ASSUME ReportTypeOK
  PROVE  SentMeansMailed <=> Mailed /\ RunMailed
BY DEF SentMeansMailed, Mailed, RunMailed, Having, ReportTypeOK

\* What is proved of every step, once the types are known.
Kept == Counted /\ Provided /\ Complete /\ Mailed /\ RunMailed

\* A step that takes up no delivery and finds no run complete.
Busy == {"renewDelivery", "send", "markSent", "finalize"}
CalmReporters == \A s \in Sender : reporter'[s] = reporter[s] \/ reporter'[s].step \notin Busy
CalmDeliveries ==
    \A r \in Recipient :
        /\ delivery'[r].status = "PROCESSING" => /\ delivery[r].status = "PROCESSING"
                                                 /\ delivery'[r].owner = delivery[r].owner
        /\ delivery'[r].status = "ABSENT" <=> delivery[r].status = "ABSENT"
        /\ delivery'[r].status = "SENT" => delivery[r].status = "SENT" \/ r \notin unsent
CalmRun ==
    /\ run'.status = "SENT" => run.status = "SENT" \/ unsent = {}
    /\ \A s \in Sender :
          run'.status = "PROCESSING" /\ run'.owner = s
            => OwnsRun(s) \/ reporter'[s].step \notin Busy

LEMMA CalmStep ==
  ASSUME ReportInv, CalmReporters, CalmDeliveries, CalmRun, unsent' = unsent
  PROVE  Kept'
<1>0. unsent \subseteq Recipient
  BY DEF ReportInv, ReportTypeOK
<1>1. Mailed' /\ RunMailed' /\ Provided'
  BY <1>0 DEF ReportInv, Mailed, RunMailed, Provided, CalmDeliveries, CalmRun
<1>2. ASSUME NEW s \in Sender PROVE CompleteBy(s)'
  BY DEF ReportInv, Complete, CompleteBy, CalmRun, CalmReporters, Busy, OwnsRun, ReportAt
<1>3. ASSUME NEW s \in Sender PROVE CountedBy(s)'
  <2>1. CASE reporter'[s].step \notin Busy
    BY <2>1 DEF CountedBy, Busy
  <2>2. CASE reporter'[s] = reporter[s] /\ reporter[s].step \in {"renewDelivery", "send", "markSent"}
    <3>1. reporter[s].at \in Recipient
      BY <2>2 DEF ReportInv, Knows
    <3>2. OwnsDelivery(s, reporter[s].at)' => OwnsDelivery(s, reporter[s].at)
      BY <2>2, <3>1 DEF CalmDeliveries, OwnsDelivery
    <3>3. CountedBy(s)
      BY DEF ReportInv, Counted
    <3> QED
      BY <2>2, <3>2, <3>3, Zenon DEF CountedBy
  <2> QED
    BY <2>1, <2>2 DEF CalmReporters, CountedBy
<1> QED
  BY <1>1, <1>2, <1>3 DEF Kept, Complete, Counted

LEMMA SameDeliveries ==
  ASSUME delivery' = delivery
  PROVE  CalmDeliveries
BY DEF CalmDeliveries

\* Reporters that move on, end or take the run take up no delivery.
LEMMA GoesCalm ==
  ASSUME ReportTypeOK, NEW s \in Sender, NEW step, step \notin Busy, ReportGoes(s, step)
  PROVE  CalmReporters /\ reporter'[s].step = step
BY DEF CalmReporters, ReportGoes, ReportTypeOK, Reporter

LEMMA EndsCalm ==
  ASSUME ReportTypeOK, NEW s \in Sender, ReportEnds(s)
  PROVE  CalmReporters /\ reporter'[s].step \notin Busy
BY DEF CalmReporters, ReportEnds, ReportTypeOK, NoWork, Busy

LEMMA TakenCalm ==
  ASSUME ReportTypeOK, NEW s \in Sender, Taken(s)
  PROVE  CalmReporters /\ CalmRun
<1>1. reporter'[s].step = "context" /\ \A x \in Sender : x # s => reporter'[x] = reporter[x]
  <2>1. reporter' = [reporter EXCEPT ![s] =
                       [reporter[s] EXCEPT !.step = "context", !.ready = run.generated]]
    BY Zenon DEF Taken
  <2>2. reporter[s] \in Reporter
    BY DEF ReportTypeOK
  <2>3. [reporter[s] EXCEPT !.step = "context", !.ready = run.generated].step = "context"
    BY <2>2, Zenon DEF Reporter
  <2> QED
    BY <2>1, <2>3 DEF ReportTypeOK
<1>2. run'.status = "PROCESSING" /\ run'.owner = s
  BY DEF Taken, ReportTypeOK, RunRow
<1> QED
  BY <1>1, <1>2 DEF CalmReporters, CalmRun, Busy

\* The run is finalized by its holder.
LEMMA FinalizedCalm ==
  ASSUME ReportTypeOK, NEW s \in Sender, NEW st \in RunStatus, NEW retry,
         Finalized(s, st, retry),
         st # "PROCESSING", st = "SENT" /\ OwnsRun(s) => unsent = {}
  PROVE  CalmRun
<1>1. run \in RunRow
  BY DEF ReportTypeOK
<1>2. \/ run' = run
      \/ OwnsRun(s) /\ run'.status = st
  BY <1>1 DEF Finalized, Released, RunRow
<1> QED
  BY <1>2 DEF CalmRun, OwnsRun

LEMMA SameRun ==
  ASSUME run'.status = run.status, run'.owner = run.owner
  PROVE  CalmRun
BY DEF CalmRun, OwnsRun

\* The steps of a reporter that are calm.
LEMMA WorksCalm ==
  ASSUME ReportInv, NEW s \in Sender,
         \/ LoadContext(s) \/ Disable(s) \/ Renew(s) \/ Generate(s) \/ MarkSkipped(s)
         \/ Refresh(s) \/ NothingToClaim(s) \/ MailRefused(s) \/ Finalize(s)
  PROVE  CalmReporters /\ CalmRun /\ delivery' = delivery /\ unsent' = unsent
<1>0. ReportTypeOK /\ run \in RunRow /\ reporter[s] \in Reporter
  BY DEF ReportInv, ReportTypeOK
<1>1. CASE LoadContext(s)
  <2>1. PICK t \in {"renew", "disable"} : ReportGoes(s, t)
    BY <1>1 DEF LoadContext
  <2> QED
    BY <1>0, <1>1, <2>1, GoesCalm, SameRun DEF LoadContext, Busy
<1>2. CASE Disable(s)
  <2>1. CalmRun
    BY <1>0, <1>2, FinalizedCalm DEF Disable, RunStatus
  <2> QED
    BY <1>0, <1>2, <2>1, EndsCalm DEF Disable
<1>3. CASE Renew(s)
  <2>1. PICK t \in {"refresh", "recipients"} : ReportGoes(s, t)
    BY <1>3 DEF Renew
  <2>2. run'.status = run.status /\ run'.owner = run.owner
    <3>1. run' = run \/ run' = [run EXCEPT !.live = TRUE]
      BY <1>3, Zenon DEF Renew
    <3>2. [run EXCEPT !.live = TRUE].status = run.status
      BY <1>0, Zenon DEF RunRow
    <3>3. [run EXCEPT !.live = TRUE].owner = run.owner
      BY <1>0, Zenon DEF RunRow
    <3> QED
      BY <3>1, <3>2, <3>3, Zenon
  <2> QED
    BY <1>0, <1>3, <2>1, <2>2, GoesCalm, SameRun DEF Renew, Busy
<1>4. CASE Generate(s)
  <2>1. reporter'[s].step \in {"persist", "skip"}
    <3>1. PICK a, b : reporter' = [reporter EXCEPT ![s] = [reporter[s] EXCEPT
              !.audience = settings.recipients, !.answer = b, !.step = a]]
            /\ a \in {"persist", "skip"}
      BY <1>4 DEF Generate
    <3> QED
      BY <1>0, <3>1 DEF ReportTypeOK, Reporter
  <2>2. \A x \in Sender : x # s => reporter'[x] = reporter[x]
    BY <1>0, <1>4 DEF Generate, ReportTypeOK
  <2> QED
    BY <1>4, <2>1, <2>2, SameRun DEF Generate, CalmReporters, Busy
<1>5. CASE MarkSkipped(s)
  <2>1. reporter[s].answer \in Skipped
    BY <1>5 DEF ReportInv, Knows, MarkSkipped
  <2>2. CalmRun
    <3>1. run' = run \/ run'.status = reporter[s].answer
      BY <1>0, <1>5 DEF MarkSkipped, Released, RunRow
    <3> QED
      BY <2>1, <3>1 DEF CalmRun, OwnsRun, Skipped
  <2> QED
    BY <1>0, <1>5, <2>2, EndsCalm DEF MarkSkipped
<1>6. CASE Refresh(s)
  <2>1. CASE ReportEnds(s)
    BY <1>0, <1>6, <2>1, EndsCalm, SameRun DEF Refresh
  <2>2. CASE reporter' = [reporter EXCEPT ![s].step = "recover", ![s].ready = FALSE]
    <3>1. reporter' = [reporter EXCEPT ![s] =
                         [reporter[s] EXCEPT !.step = "recover", !.ready = FALSE]]
      BY <2>2, Zenon
    <3>2. [reporter[s] EXCEPT !.step = "recover", !.ready = FALSE].step = "recover"
      BY <1>0, Zenon DEF Reporter
    <3>3. reporter'[s].step = "recover" /\ \A x \in Sender : x # s => reporter'[x] = reporter[x]
      BY <1>0, <3>1, <3>2 DEF ReportTypeOK
    <3> QED
      BY <1>6, <3>3, SameRun DEF Refresh, CalmReporters, Busy
  <2> QED
    BY <1>6, <2>1, <2>2 DEF Refresh
<1>7. CASE NothingToClaim(s)
  BY <1>0, <1>7, GoesCalm, SameRun DEF NothingToClaim, Busy
<1>8. CASE MailRefused(s)
  BY <1>0, <1>8, GoesCalm, SameRun DEF MailRefused, Busy
<1>9. CASE Finalize(s)
  <2>1. reporter[s].answer \in Outcome
    BY <1>9 DEF ReportInv, Knows, Finalize
  <2>2. reporter[s].answer = "SENT" /\ OwnsRun(s) => unsent = {}
    BY <1>9 DEF ReportInv, Complete, CompleteBy, Finalize
  <2>3. CalmRun
    BY <1>0, <1>9, <2>1, <2>2, FinalizedCalm DEF Finalize, Outcome, RunStatus
  <2> QED
    BY <1>0, <1>9, <2>3, EndsCalm DEF Finalize
<1> QED
  BY <1>1, <1>2, <1>3, <1>4, <1>5, <1>6, <1>7, <1>8, <1>9

\* So are the recovery of deliveries, and the marks.
LEMMA MarksCalm ==
  ASSUME ReportInv, NEW s \in Sender,
         RecoverDeliveries(s) \/ MarkSent(s) \/ MarkDeliveryFailed(s)
  PROVE  CalmReporters /\ CalmRun /\ CalmDeliveries /\ unsent' = unsent
<1>0. /\ ReportTypeOK /\ reporter[s] \in Reporter
      /\ delivery \in [Recipient -> DeliveryRow]
      /\ reporter \in [Sender -> Reporter]
  BY DEF ReportInv, ReportTypeOK
<1>1. CASE RecoverDeliveries(s)
  <2>1. CalmReporters /\ unsent' = unsent /\ CalmRun
    BY <1>0, <1>1, GoesCalm, SameRun DEF RecoverDeliveries, Busy
  <2>2. ASSUME NEW r \in Recipient
        PROVE  \/ delivery'[r] = delivery[r]
               \/ delivery[r].status = "PROCESSING" /\ delivery'[r].status = "FAILED"
    BY <1>0, <1>1 DEF RecoverDeliveries, Released, DeliveryRow
  <2>3. CalmDeliveries
    BY <2>2 DEF CalmDeliveries
  <2> QED
    BY <2>1, <2>3
<1>2. CASE MarkSent(s) \/ MarkDeliveryFailed(s)
  <2>1. CalmReporters
    <3>1. reporter' = [reporter EXCEPT ![s] =
            [reporter[s] EXCEPT !.step = "claimDelivery", !.at = NoSender, !.current = FALSE]]
      BY <1>2, Zenon DEF MarkSent, MarkDeliveryFailed
    <3>2. [reporter[s] EXCEPT !.step = "claimDelivery", !.at = NoSender,
                              !.current = FALSE].step = "claimDelivery"
      BY <1>0, Zenon DEF Reporter
    <3> QED
      BY <1>0, <3>1, <3>2 DEF CalmReporters, Busy
  <2>2. CalmRun /\ unsent' = unsent
    BY <1>2, SameRun DEF MarkSent, MarkDeliveryFailed
  <2> DEFINE k == reporter[s].at
  <2>3. k \in Recipient
    BY <1>2 DEF ReportInv, Knows, MarkSent, MarkDeliveryFailed, ReportAt
  <2>4. OwnsDelivery(s, k) \/ delivery' = delivery
    BY <1>2 DEF MarkSent, MarkDeliveryFailed, Marks
  <2>5. \A r \in Recipient : r # k => delivery'[r] = delivery[r]
    BY <1>0, <1>2 DEF MarkSent, MarkDeliveryFailed, Marks
  <2>6. CASE MarkSent(s) /\ OwnsDelivery(s, k)
    <3>1. delivery'[k].status = "SENT"
      BY <1>0, <2>3, <2>6 DEF MarkSent, Marks, Released, DeliveryRow
    <3>2. k \notin unsent
      BY <2>6 DEF ReportInv, Counted, CountedBy, MarkSent, ReportAt
    <3>3. delivery[k].status = "PROCESSING"
      BY <2>6 DEF OwnsDelivery
    <3>4. CalmDeliveries
      <4> HIDE DEF k
      <4> QED
        BY <2>5, <3>1, <3>2, <3>3 DEF CalmDeliveries
    <3> QED
      BY <2>1, <2>2, <3>4
  <2>7. CASE MarkDeliveryFailed(s) /\ OwnsDelivery(s, k)
    <3>1. delivery'[k].status \in {"FAILED", "FAILED_TERMINAL"}
      <4>1. PICK t \in BOOLEAN :
              delivery' = [delivery EXCEPT ![k] = Released([delivery[k] EXCEPT
                              !.status = IF t THEN "FAILED_TERMINAL" ELSE "FAILED",
                              !.retry = IF t THEN "none" ELSE "later"])]
        BY <2>7, Zenon DEF MarkDeliveryFailed, Marks
      <4> QED
        BY <1>0, <2>3, <4>1 DEF Released, DeliveryRow
    <3>3. delivery[k].status = "PROCESSING"
      BY <2>7 DEF OwnsDelivery
    <3>4. CalmDeliveries
      <4> HIDE DEF k
      <4> QED
        BY <2>5, <3>1, <3>3 DEF CalmDeliveries
    <3> QED
      BY <2>1, <2>2, <3>4
  <2>8. CASE delivery' = delivery
    BY <2>1, <2>2, <2>8, SameDeliveries
  <2> QED
    BY <1>2, <2>4, <2>6, <2>7, <2>8
<1> QED
  BY <1>1, <1>2

\* Deliveries are taken up.
LEMMA ClaimKept ==
  ASSUME ReportInv, NEW s \in Sender, ClaimDelivery(s)
  PROVE  Kept'
<1>0. /\ delivery \in [Recipient -> DeliveryRow] /\ reporter \in [Sender -> Reporter]
      /\ unsent \subseteq Recipient
  BY DEF ReportInv, ReportTypeOK
<1>1. PICK r \in Recipient :
         /\ Claimable(r)
         /\ delivery' = [delivery EXCEPT ![r].status = "PROCESSING", ![r].owner = s,
                                         ![r].live = TRUE, ![r].attempts = @ + 1]
         /\ reporter' = [reporter EXCEPT ![s].step = "renewDelivery", ![s].at = r,
                                 ![s].current = TRUE]
  BY Zenon DEF ClaimDelivery
<1>2. /\ delivery'[r].status = "PROCESSING" /\ delivery'[r].owner = s
      /\ \A x \in Recipient : x # r => delivery'[x] = delivery[x]
  BY <1>0, <1>1 DEF DeliveryRow
<1>3. /\ reporter'[s].current = TRUE /\ reporter'[s].step = "renewDelivery"
      /\ \A x \in Sender : x # s => reporter'[x] = reporter[x]
  <2>1. reporter' = [reporter EXCEPT ![s] =
               [reporter[s] EXCEPT !.step = "renewDelivery", !.at = r, !.current = TRUE]]
    BY <1>1, Zenon
  <2>2. /\ [reporter[s] EXCEPT !.step = "renewDelivery", !.at = r, !.current = TRUE].current = TRUE
        /\ [reporter[s] EXCEPT !.step = "renewDelivery", !.at = r, !.current = TRUE].step
             = "renewDelivery"
    BY <1>0, Zenon DEF Reporter
  <2> HIDE DEF ReportInv
  <2>3. reporter'[s] = [reporter[s] EXCEPT !.step = "renewDelivery", !.at = r, !.current = TRUE]
    BY <1>0, <2>1, Zenon
  <2>4. \A x \in Sender : x # s => reporter'[x] = reporter[x]
    BY <1>0, <2>1, Zenon
  <2> QED
    BY <2>2, <2>3, <2>4, Zenon
<1>4. /\ delivery[r].status \notin {"ABSENT", "SENT"}
      /\ run' = run /\ unsent' = unsent
  BY <1>1 DEF Claimable, ClaimDelivery
<1>5. Mailed' /\ RunMailed' /\ Provided'
  BY <1>0, <1>2, <1>4 DEF ReportInv, Mailed, RunMailed, Provided
<1>6. Complete'
  BY <1>3, <1>4 DEF ReportInv, Complete, CompleteBy, ReportAt, OwnsRun
<1>7. ASSUME NEW x \in Sender PROVE CountedBy(x)'
  <2>1. CASE x = s
    BY <1>3, <2>1, Zenon DEF CountedBy
  <2>2. CASE x # s /\ reporter[x].step \in {"renewDelivery", "send", "markSent"}
    <3>1. reporter[x].at \in Recipient
      BY <2>2 DEF ReportInv, Knows
    <3>2. OwnsDelivery(x, reporter[x].at)' => OwnsDelivery(x, reporter[x].at)
      BY <1>2, <1>3, <2>2, <3>1 DEF OwnsDelivery
    <3>3. CountedBy(x) /\ reporter'[x] = reporter[x]
      BY <1>3, <2>2 DEF ReportInv, Counted
    <3> QED
      BY <1>4, <3>2, <3>3, Zenon DEF CountedBy
  <2>3. CASE x # s /\ reporter[x].step \notin {"renewDelivery", "send", "markSent"}
    BY <1>3, <2>3 DEF CountedBy
  <2> QED
    BY <2>1, <2>2, <2>3
<1> QED
  BY <1>5, <1>6, <1>7 DEF Kept, Counted

\* Its lease is renewed, or it is lost.
LEMMA RenewKept ==
  ASSUME ReportInv, NEW s \in Sender, RenewDelivery(s)
  PROVE  Kept'
<1> DEFINE r == reporter[s].at
           own == OwnsDelivery(s, r)
           x == [reporter[s] EXCEPT !.step = IF own THEN "send" ELSE "claimDelivery",
                                    !.at = IF own THEN r ELSE NoSender,
                                    !.current = reporter[s].current /\ own]
<1>0. /\ delivery \in [Recipient -> DeliveryRow] /\ reporter \in [Sender -> Reporter]
      /\ unsent \subseteq Recipient /\ reporter[s] \in Reporter
  BY DEF ReportInv, ReportTypeOK
<1>1. r \in Recipient /\ reporter[s].step = "renewDelivery"
  BY DEF ReportInv, Knows, RenewDelivery, ReportAt
<1>2. reporter' = [reporter EXCEPT ![s] = x] /\ run' = run /\ unsent' = unsent
  BY Zenon DEF RenewDelivery
<1>3. /\ x.step = IF own THEN "send" ELSE "claimDelivery"
      /\ x.at = IF own THEN r ELSE NoSender
      /\ x.current = (reporter[s].current /\ own)
  <2> HIDE DEF r, own
  <2> QED
    BY <1>0, Zenon DEF Reporter
<1>4. reporter'[s] = x /\ \A y \in Sender : y # s => reporter'[y] = reporter[y]
  <2> HIDE DEF x
  <2> QED
    BY <1>0, <1>2
<1>5. \A y \in Recipient : /\ delivery'[y].status = delivery[y].status
                           /\ delivery'[y].owner = delivery[y].owner
  <2>1. \/ delivery' = delivery
        \/ delivery' = [delivery EXCEPT ![r] = [delivery[r] EXCEPT !.live = TRUE]]
    BY Zenon DEF RenewDelivery
  <2>2. delivery[r] \in DeliveryRow
    BY <1>0, <1>1
  <2>3. /\ [delivery[r] EXCEPT !.live = TRUE].status = delivery[r].status
        /\ [delivery[r] EXCEPT !.live = TRUE].owner = delivery[r].owner
    BY <2>2, Zenon DEF DeliveryRow
  <2> HIDE DEF r
  <2> QED
    BY <1>0, <1>1, <2>1, <2>3
<1>6. Mailed' /\ RunMailed' /\ Provided'
  BY <1>0, <1>2, <1>5 DEF ReportInv, Mailed, RunMailed, Provided
<1>7. Complete'
  <2>1. x.step # "finalize"
    BY <1>3
  <2> HIDE DEF x
  <2> QED
    BY <1>2, <1>4, <2>1 DEF ReportInv, Complete, CompleteBy, ReportAt, OwnsRun
<1>8. ASSUME NEW y \in Sender PROVE CountedBy(y)'
  <2>1. CASE y = s /\ own
    <3>1. reporter[s].current \/ r \notin unsent
      BY <1>1, <2>1, Zenon DEF ReportInv, Counted, CountedBy
    <3>2. reporter'[s].step = "send" /\ reporter'[s].at = r
      BY <1>3, <1>4, <2>1, Zenon
    <3>3. reporter'[s].current = reporter[s].current
      <4>1. reporter'[s].current = (reporter[s].current /\ own)
        BY <1>3, <1>4, Zenon
      <4>2. reporter[s].current \in BOOLEAN
        BY <1>0, Zenon DEF Reporter
      <4> HIDE DEF own
      <4> QED
        BY <4>1, <4>2, <2>1, Zenon
    <3>4. reporter'[s].current \/ reporter'[s].at \notin unsent'
      <4>1. unsent' = unsent
        BY <1>2
      <4>2. reporter'[s].at = r
        BY <3>2
      <4> HIDE DEF r
      <4>3. CASE reporter[s].current
        BY <3>3, <4>3, Zenon
      <4>4. CASE r \notin unsent
        BY <4>1, <4>2, <4>4
      <4> QED
        BY <3>1, <4>3, <4>4, Zenon
    <3>5. reporter'[s].step # "markSent"
      BY <3>2
    <3> QED
      BY <2>1, <3>4, <3>5, Zenon DEF CountedBy
  <2>2. CASE y = s /\ ~ own
    <3>1. reporter'[s].step = "claimDelivery"
      <4> HIDE DEF x, own
      <4> QED
        BY <1>3, <1>4, <2>2
    <3> QED
      BY <2>2, <3>1 DEF CountedBy
  <2>3. CASE y # s /\ reporter[y].step \in {"renewDelivery", "send", "markSent"}
    <3>1. reporter[y].at \in Recipient
      BY <2>3 DEF ReportInv, Knows
    <3>2. CountedBy(y) /\ reporter'[y] = reporter[y]
      BY <1>4, <2>3 DEF ReportInv, Counted
    <3>3. unsent' = unsent /\ OwnsDelivery(y, reporter[y].at)' => OwnsDelivery(y, reporter[y].at)
      BY <1>5, <3>1, <3>2 DEF OwnsDelivery
    <3>4. unsent' = unsent
      BY <1>2
    <3> QED
      BY <3>2, <3>3, <3>4, Zenon DEF CountedBy
  <2>4. CASE y # s /\ reporter[y].step \notin {"renewDelivery", "send", "markSent"}
    BY <1>4, <2>4 DEF CountedBy
  <2> QED
    BY <2>1, <2>2, <2>3, <2>4
<1> QED
  BY <1>6, <1>7, <1>8 DEF Kept, Counted

\* The mail is taken.
LEMMA AcceptedKept ==
  ASSUME ReportInv, NEW s \in Sender, MailAccepted(s)
  PROVE  Kept'
<1>0. /\ delivery' = delivery /\ run' = run /\ reporter \in [Sender -> Reporter]
      /\ unsent \subseteq Recipient /\ reporter[s] \in Reporter
  BY DEF ReportInv, ReportTypeOK, MailAccepted
<1>1. reporter[s].step = "send" /\ reporter[s].at \in Recipient
  BY DEF ReportInv, Knows, MailAccepted, ReportAt
<1>2. PICK step \in {"markSent", "markFailed"} :
        reporter' = [reporter EXCEPT ![s] = [reporter[s] EXCEPT !.step = step]]
  BY DEF MailAccepted, ReportGoes
<1>3. /\ reporter'[s].step = step /\ reporter'[s].at = reporter[s].at
      /\ \A y \in Sender : y # s => reporter'[y] = reporter[y]
  BY <1>0, <1>2 DEF Reporter
<1>4. unsent' \subseteq unsent
      /\ (reporter[s].current => reporter[s].at \notin unsent')
  <2>1. unsent' = IF reporter[s].current THEN unsent \ {reporter[s].at} ELSE unsent
    BY DEF MailAccepted
  <2>2. CASE reporter[s].current
    BY <2>1, <2>2
  <2>3. CASE ~ reporter[s].current
    BY <2>1, <2>3
  <2> QED
    BY <2>2, <2>3
<1>5. Mailed' /\ RunMailed' /\ Provided'
  BY <1>0, <1>4 DEF ReportInv, Mailed, RunMailed, Provided
<1>6. Complete'
  <2>1. ASSUME NEW y \in Sender PROVE CompleteBy(y)'
    BY <1>0, <1>3, <1>4 DEF ReportInv, Complete, CompleteBy, ReportAt, OwnsRun
  <2> QED
    BY <2>1 DEF Complete
<1>7. ASSUME NEW y \in Sender PROVE CountedBy(y)'
  <2>0. OwnsDelivery(y, reporter[y].at)' <=> OwnsDelivery(y, reporter[y].at)
    <3>1. reporter'[y].at = reporter[y].at
      BY <1>3
    <3> QED
      BY <1>0, <3>1 DEF OwnsDelivery
  <2>1. CASE y = s
    <3>1. OwnsDelivery(s, reporter[s].at) => reporter[s].at \notin unsent'
      <4>1. OwnsDelivery(s, reporter[s].at) => reporter[s].current \/ reporter[s].at \notin unsent
        BY <1>1, Zenon DEF ReportInv, Counted, CountedBy
      <4>2. reporter[s].at \notin unsent => reporter[s].at \notin unsent'
        BY <1>4
      <4> QED
        BY <1>4, <4>1, <4>2, Zenon
    <3>2. reporter'[s].step \notin {"renewDelivery", "send"}
      BY <1>3
    <3>3. reporter'[s].at = reporter[s].at
      BY <1>3
    <3>4. OwnsDelivery(s, reporter[s].at)' => reporter'[s].at \notin unsent'
      BY <2>0, <2>1, <3>1, <3>3, Zenon
    <3> QED
      BY <2>1, <3>2, <3>4, Zenon DEF CountedBy
  <2>2. CASE y # s
    <3>1. CountedBy(y) /\ reporter'[y] = reporter[y]
      BY <1>3, <2>2 DEF ReportInv, Counted
    <3>2. reporter[y].at \notin unsent => reporter[y].at \notin unsent'
      BY <1>4
    <3> QED
      BY <2>0, <3>1, <3>2, Zenon DEF CountedBy
  <2> QED
    BY <2>1, <2>2
<1> QED
  BY <1>5, <1>6, <1>7 DEF Kept, Counted

\* The deliveries are deleted.
LEMMA DeleteKept ==
  ASSUME ReportInv, NEW s \in Sender, DeleteDeliveries(s)
  PROVE  Kept'
<1>1. \A r \in Recipient : delivery'[r].status = "ABSENT"
  BY DEF DeleteDeliveries, NoDelivery
<1>2. run' = run /\ unsent' = unsent /\ unsent \subseteq Recipient
      /\ CalmReporters
  BY GoesCalm DEF DeleteDeliveries, ReportInv, ReportTypeOK, Busy
<1>3. Mailed' /\ RunMailed' /\ Provided'
  BY <1>1, <1>2 DEF ReportInv, Mailed, RunMailed, Provided
<1>4. Complete'
  BY <1>2 DEF ReportInv, Complete, CompleteBy, ReportAt, OwnsRun, CalmReporters, Busy
<1>5. ASSUME NEW y \in Sender PROVE CountedBy(y)'
  <2>1. CASE reporter'[y].step \notin {"renewDelivery", "send", "markSent"}
    BY <2>1 DEF CountedBy
  <2>2. CASE reporter'[y].step \in {"renewDelivery", "send", "markSent"}
    <3>1. reporter'[y] = reporter[y]
      BY <1>2, <2>2 DEF CalmReporters, Busy
    <3>2. reporter[y].at \in Recipient
      BY <2>2, <3>1 DEF ReportInv, Knows
    <3>3. ~ OwnsDelivery(y, reporter[y].at)'
      BY <1>1, <3>1, <3>2 DEF OwnsDelivery
    <3> QED
      BY <3>1, <3>3, Zenon DEF CountedBy
  <2> QED
    BY <2>1, <2>2
<1> QED
  BY <1>3, <1>4, <1>5 DEF Kept, Counted

\* The snapshot and its audience are stored.
LEMMA PersistKept ==
  ASSUME ReportInv, NEW s \in Sender, PersistSnapshotAndAudience(s),
         OwnsRun(s), ~ run.generated,
         \A r \in reporter[s].audience : delivery[r].status = "ABSENT"
  PROVE  Kept'
<1> DEFINE A == reporter[s].audience
<1>0. /\ delivery \in [Recipient -> DeliveryRow] /\ reporter \in [Sender -> Reporter]
      /\ A \subseteq Recipient /\ run \in RunRow /\ reporter[s] \in Reporter
  BY FieldsTyped DEF ReportInv, ReportTypeOK
<1>1. /\ run' = [run EXCEPT !.generated = TRUE] /\ unsent' = A
      /\ delivery' = [r \in Recipient |-> IF r \in A THEN [NoDelivery EXCEPT !.status = "PENDING"]
                                          ELSE delivery[r]]
      /\ reporter' = [x \in Sender |->
                 IF x = s THEN [reporter[s] EXCEPT !.step = "refresh", !.audience = {}]
                 ELSE [reporter[x] EXCEPT !.current = FALSE]]
  BY DEF PersistSnapshotAndAudience
<1>2. \A r \in A : delivery'[r].status = "PENDING"
  BY <1>0, <1>1 DEF NoDelivery
<1>3. \A r \in Recipient : r \notin A => delivery'[r] = delivery[r]
  BY <1>1
<1>4. run'.status = "PROCESSING" /\ run'.owner = s
  <2>1. run'.status = run.status /\ run'.owner = run.owner
    BY <1>0, <1>1, Zenon DEF RunRow
  <2> QED
    BY <2>1 DEF OwnsRun
<1>5. /\ reporter'[s].step = "refresh"
      /\ \A x \in Sender : x # s => /\ reporter'[x].step = reporter[x].step
                                    /\ reporter'[x].at = reporter[x].at
  <2>1. [reporter[s] EXCEPT !.step = "refresh", !.audience = {}].step = "refresh"
    BY <1>0, Zenon DEF Reporter
  <2>2. ASSUME NEW x \in Sender
        PROVE  /\ [reporter[x] EXCEPT !.current = FALSE].step = reporter[x].step
               /\ [reporter[x] EXCEPT !.current = FALSE].at = reporter[x].at
    BY <1>0, Zenon DEF Reporter
  <2>3. /\ reporter'[s] = [reporter[s] EXCEPT !.step = "refresh", !.audience = {}]
        /\ \A x \in Sender : x # s => reporter'[x] = [reporter[x] EXCEPT !.current = FALSE]
    BY <1>1, Zenon
  <2> QED
    BY <2>1, <2>2, <2>3, Zenon
<1> HIDE DEF A
<1>6. Mailed' /\ RunMailed' /\ Provided'
  <2>1. Mailed'
    BY <1>0, <1>1, <1>2 DEF Mailed
  <2>2. RunMailed'
    BY <1>4 DEF RunMailed
  <2>3. Provided'
    BY <1>1, <1>2 DEF Provided
  <2> QED
    BY <2>1, <2>2, <2>3
<1>7. ASSUME NEW x \in Sender PROVE CompleteBy(x)'
  <2>1. CASE x = s
    BY <1>5, <2>1 DEF CompleteBy, ReportAt
  <2>2. CASE x # s
    BY <1>4, <2>2 DEF CompleteBy, OwnsRun
  <2> QED
    BY <2>1, <2>2
<1>8. ASSUME NEW x \in Sender PROVE CountedBy(x)'
  <2>1. CASE reporter'[x].step \notin {"renewDelivery", "send", "markSent"}
    BY <2>1 DEF CountedBy
  <2>2. CASE reporter'[x].step \in {"renewDelivery", "send", "markSent"}
    <3>1. x # s /\ reporter'[x].at = reporter[x].at
          /\ reporter[x].step \in {"renewDelivery", "send", "markSent"}
      BY <1>5, <2>2
    <3>2. reporter[x].at \in Recipient
      BY <3>1 DEF ReportInv, Knows
    <3>3. OwnsDelivery(x, reporter[x].at)' => reporter[x].at \notin unsent'
      BY <1>1, <1>2, <3>1, <3>2 DEF OwnsDelivery
    <3> QED
      BY <3>1, <3>3, Zenon DEF CountedBy
  <2> QED
    BY <2>1, <2>2
<1> QED
  BY <1>6, <1>7, <1>8 DEF Kept, Counted, Complete

\* Everything is found sent.
LEMMA SummarizeKept ==
  ASSUME ReportInv, NEW s \in Sender, Summarize(s)
  PROVE  Kept'
<1>0. /\ delivery \in [Recipient -> DeliveryRow] /\ reporter \in [Sender -> Reporter]
      /\ unsent \subseteq Recipient /\ reporter[s] \in Reporter
      /\ delivery' = delivery /\ run' = run /\ unsent' = unsent
  BY DEF ReportInv, ReportTypeOK, Summarize
<1>1. /\ reporter'[s].step = "finalize" /\ reporter'[s].answer = RunOutcome
      /\ \A x \in Sender : x # s => reporter'[x] = reporter[x]
  <2>1. reporter' = [reporter EXCEPT ![s] =
                       [reporter[s] EXCEPT !.step = "finalize", !.answer = RunOutcome]]
    BY Zenon DEF Summarize
  <2>2. /\ [reporter[s] EXCEPT !.step = "finalize", !.answer = RunOutcome].step = "finalize"
        /\ [reporter[s] EXCEPT !.step = "finalize", !.answer = RunOutcome].answer = RunOutcome
    BY <1>0, Zenon DEF Reporter
  <2> QED
    BY <1>0, <2>1, <2>2, Zenon
<1>2. RunOutcome = "SENT" => unsent = {}
  <2>1. SUFFICES ASSUME RunOutcome = "SENT", NEW r \in unsent PROVE FALSE
    OBVIOUS
  <2>2. /\ Having({"PENDING", "PROCESSING", "FAILED"}) = {}
        /\ Having({"SENT"}) # {} /\ Having({"FAILED_TERMINAL"}) = {}
    BY <2>1 DEF RunOutcome
  <2>3. PICK x \in Recipient : delivery[x].status = "SENT"
    BY <2>2 DEF Having
  <2>4. delivery[r].status # "ABSENT"
    BY <2>1, <2>3, <1>0 DEF ReportInv, Provided
  <2>5. delivery[r].status \in DeliveryStatus
    BY <1>0, <2>1, FieldsTyped
  <2>6. delivery[r].status = "SENT"
    BY <1>0, <2>1, <2>2, <2>4, <2>5 DEF Having, DeliveryStatus
  <2> QED
    BY <1>0, <2>1, <2>6 DEF ReportInv, Mailed
<1>3. Mailed' /\ RunMailed' /\ Provided'
  BY <1>0 DEF ReportInv, Mailed, RunMailed, Provided
<1>4. ASSUME NEW x \in Sender PROVE CompleteBy(x)'
  BY <1>0, <1>1, <1>2 DEF ReportInv, Complete, CompleteBy, ReportAt, OwnsRun
<1>5. ASSUME NEW x \in Sender PROVE CountedBy(x)'
  <2>1. CASE x = s
    BY <1>1, <2>1 DEF CountedBy
  <2>2. CASE x # s
    <3>1. CountedBy(x) /\ reporter'[x] = reporter[x]
      BY <1>1, <2>2 DEF ReportInv, Counted
    <3>2. OwnsDelivery(x, reporter[x].at)' <=> OwnsDelivery(x, reporter[x].at)
      BY <1>0, <3>1 DEF OwnsDelivery
    <3>3. unsent' = unsent
      BY <1>0
    <3> QED
      BY <3>1, <3>2, <3>3, Zenon DEF CountedBy
  <2> QED
    BY <2>1, <2>2
<1> QED
  BY <1>3, <1>4, <1>5 DEF Kept, Counted, Complete

\* A snapshot that is not stored leaves the reporter elsewhere.
LEMMA NotPersistedCalm ==
  ASSUME ReportInv, NEW s \in Sender, PersistSnapshotAndAudience(s),
         ~ (/\ OwnsRun(s) /\ ~ run.generated
            /\ \A r \in reporter[s].audience : delivery[r].status = "ABSENT")
  PROVE  CalmReporters /\ run' = run /\ delivery' = delivery /\ unsent' = unsent
<1>0. ReportTypeOK
  BY DEF ReportInv
<1>1. /\ run' = run /\ delivery' = delivery /\ unsent' = unsent
      /\ ReportEnds(s) \/ ReportGoes(s, IF s \in Ticker THEN "failRun" ELSE "idle")
  BY Zenon DEF PersistSnapshotAndAudience
<1>2. (IF s \in Ticker THEN "failRun" ELSE "idle") \notin Busy
  BY DEF Busy
<1> QED
  BY <1>0, <1>1, <1>2, EndsCalm, GoesCalm

LEMMA ReportKeptStep ==
  ASSUME ReportInv, ReportNext
  PROVE  Kept'
<1>0. ReportTypeOK /\ run \in RunRow /\ delivery \in [Recipient -> DeliveryRow]
      /\ reporter \in [Sender -> Reporter]
  BY DEF ReportInv, ReportTypeOK
<1>1. CASE reporter' = reporter /\ CalmRun /\ CalmDeliveries /\ unsent' = unsent
  BY <1>1, CalmStep DEF CalmReporters
<1>2. ASSUME NEW s \in Sender, ReporterWorks(s) PROVE Kept'
  <2>1. CASE PersistSnapshotAndAudience(s)
    <3>1. CASE /\ OwnsRun(s) /\ ~ run.generated
               /\ \A r \in reporter[s].audience : delivery[r].status = "ABSENT"
      BY <2>1, <3>1, PersistKept
    <3>2. CASE ~ (/\ OwnsRun(s) /\ ~ run.generated
                  /\ \A r \in reporter[s].audience : delivery[r].status = "ABSENT")
      BY <2>1, <3>2, NotPersistedCalm, CalmStep, SameRun, SameDeliveries
    <3> QED
      BY <3>1, <3>2
  <2>2. CASE RecoverDeliveries(s) \/ MarkSent(s) \/ MarkDeliveryFailed(s)
    BY <2>2, MarksCalm, CalmStep
  <2>3. CASE \/ LoadContext(s) \/ Disable(s) \/ Renew(s) \/ Generate(s) \/ MarkSkipped(s)
             \/ Refresh(s) \/ NothingToClaim(s) \/ MailRefused(s) \/ Finalize(s)
    BY <2>3, WorksCalm, CalmStep, SameDeliveries
  <2> QED
    BY <1>2, <2>1, <2>2, <2>3, ClaimKept, RenewKept, AcceptedKept, SummarizeKept
      DEF ReporterWorks
<1>3. ASSUME NEW s \in Sender, Tick(s) PROVE Kept'
  <2>1. CASE StartTick(s)
    <3>1. CalmRun
      <4>1. \/ run' = run \/ run'.status \in {"PENDING", "PARTIAL"}
        BY <1>0, <2>1 DEF StartTick, Released, RunRow
      <4> QED
        BY <4>1, SameRun DEF CalmRun
    <3>2. ReportGoes(s, "claim") /\ delivery' = delivery /\ unsent' = unsent
      BY <2>1 DEF StartTick
    <3> QED
      BY <1>0, <3>1, <3>2, GoesCalm, SameDeliveries, CalmStep DEF Busy
  <2>2. CASE EndTick(s)
    BY <1>0, <2>2, GoesCalm, SameDeliveries, SameRun, CalmStep DEF EndTick, Busy
  <2>3. CASE ClaimNextRun(s)
    BY <1>0, <2>3, TakenCalm, SameDeliveries, CalmStep DEF ClaimNextRun
  <2>4. CASE FailRun(s)
    <3>1. CalmRun
      BY <1>0, <2>4, FinalizedCalm DEF FailRun, RunStatus
    <3> QED
      BY <1>0, <2>4, <3>1, EndsCalm, SameDeliveries, CalmStep DEF FailRun
  <2> QED
    BY <1>2, <1>3, <2>1, <2>2, <2>3, <2>4 DEF Tick
<1>4. ASSUME NEW s \in Sender, Command(s) \/ Trigger(s) PROVE Kept'
  <2>1. CASE Reopen(s)
    <3>1. CalmRun
      <4>1. \/ run' = run \/ run'.status = "PENDING"
        BY <1>0, <2>1 DEF Reopen, Released, RunRow
      <4> QED
        BY <4>1, SameRun DEF CalmRun
    <3> QED
      BY <1>0, <2>1, <3>1, GoesCalm, SameDeliveries, CalmStep DEF Reopen, Busy
  <2>2. CASE TakeRun(s)
    <3>1. CASE Taken(s)
      BY <1>0, <2>2, <3>1, TakenCalm, SameDeliveries, CalmStep DEF TakeRun
    <3>2. CASE ReportGoes(s, "idle") /\ run' = run
      BY <1>0, <2>2, <3>2, GoesCalm, SameDeliveries, SameRun, CalmStep DEF TakeRun, Busy
    <3> QED
      BY <2>2, <3>1, <3>2 DEF TakeRun
  <2>3. CASE Trigger(s)
    <3>1. PICK t \in {"idle", "reopen", "take"} : ReportGoes(s, t)
      BY <2>3 DEF Trigger
    <3>2. CalmRun
      <4>1. \/ run' = run \/ run'.status = "PENDING"
        BY <1>0, <2>3 DEF Trigger, RunRow
      <4> QED
        BY <4>1, SameRun DEF CalmRun
    <3>3. t \notin Busy
      BY DEF Busy
    <3> QED
      BY <1>0, <2>3, <3>1, <3>2, <3>3, GoesCalm, SameDeliveries, CalmStep DEF Trigger
  <2> QED
    BY <1>2, <1>4, <2>1, <2>2, <2>3, DeleteKept DEF Command
<1>5. ASSUME NEW s \in Sender, Throws(s) \/ ReporterDies(s) PROVE Kept'
  <2>1. run' = run /\ delivery' = delivery /\ unsent' = unsent
    BY <1>5 DEF Throws, ReporterDies
  <2>2. CalmReporters
    <3>1. CASE ReportGoes(s, "markFailed")
      BY <1>0, <3>1, GoesCalm DEF Busy
    <3>2. CASE \/ reporter' = [reporter EXCEPT ![s] = [NoWork EXCEPT !.step = "failRun"]]
               \/ reporter' = [reporter EXCEPT ![s] = NoWork]
      BY <1>0, <3>2 DEF CalmReporters, NoWork, Busy
    <3> QED
      BY <1>5, <3>1, <3>2 DEF Throws, ReporterDies
  <2> QED
    BY <2>1, <2>2, SameRun, SameDeliveries, CalmStep
<1>6. CASE Clock
  <2>1. CASE RunLapse \/ RunDue
    <3>1. run'.status = run.status /\ run'.owner = run.owner
      <4>1. run' = [run EXCEPT !.live = FALSE] \/ run' = [run EXCEPT !.retry = "due"]
        BY <2>1, Zenon DEF RunLapse, RunDue
      <4>2. /\ [run EXCEPT !.live = FALSE].status = run.status
            /\ [run EXCEPT !.live = FALSE].owner = run.owner
            /\ [run EXCEPT !.retry = "due"].status = run.status
            /\ [run EXCEPT !.retry = "due"].owner = run.owner
        BY <1>0, Zenon DEF RunRow
      <4> QED
        BY <4>1, <4>2, Zenon
    <3> QED
      BY <1>1, <2>1, <3>1, SameRun, SameDeliveries DEF RunLapse, RunDue
  <2>2. ASSUME NEW r \in Recipient, DeliveryLapse(r) \/ DeliveryDue(r) PROVE Kept'
    <3>1. \/ delivery' = [delivery EXCEPT ![r] = [delivery[r] EXCEPT !.live = FALSE]]
          \/ delivery' = [delivery EXCEPT ![r] = [delivery[r] EXCEPT !.retry = "due"]]
      BY <2>2, Zenon DEF DeliveryLapse, DeliveryDue
    <3>2. delivery[r] \in DeliveryRow
      BY <1>0
    <3>3. /\ [delivery[r] EXCEPT !.live = FALSE].status = delivery[r].status
          /\ [delivery[r] EXCEPT !.live = FALSE].owner = delivery[r].owner
          /\ [delivery[r] EXCEPT !.retry = "due"].status = delivery[r].status
          /\ [delivery[r] EXCEPT !.retry = "due"].owner = delivery[r].owner
      BY <3>2, Zenon DEF DeliveryRow
    <3>4. \A x \in Recipient : /\ delivery'[x].status = delivery[x].status
                               /\ delivery'[x].owner = delivery[x].owner
      BY <1>0, <3>1, <3>3
    <3>5. CalmDeliveries
      BY <3>4 DEF CalmDeliveries
    <3> QED
      BY <1>1, <2>2, <3>5, SameRun DEF DeliveryLapse, DeliveryDue
  <2> QED
    BY <1>6, <2>1, <2>2 DEF Clock
<1>7. CASE Change
  BY <1>1, <1>7, SameRun, SameDeliveries DEF Change
<1> QED
  BY <1>3, <1>4, <1>5, <1>6, <1>7, TickerOrAdmin, Zenon DEF ReportNext

LEMMA ReportInvStep ==
  ASSUME ReportInv, [ReportNext]_reportVars
  PROVE  ReportInv'
<1>1. CASE ReportNext
  <2>1. ReportTypeOK' /\ Knows'
    BY <1>1, ReportTypesStep DEF ReportInv
  <2>2. Kept'
    BY <1>1, ReportKeptStep
  <2> QED
    BY <2>1, <2>2 DEF ReportInv, Kept
<1>2. CASE UNCHANGED reportVars
  <2>1. ReportTypeOK' /\ Knows'
    BY <1>2, ReportTypesStep DEF ReportInv
  <2>2. Kept'
    BY <1>2, SameRun, SameDeliveries, CalmStep DEF reportVars, CalmReporters
  <2> QED
    BY <2>1, <2>2 DEF ReportInv, Kept
<1> QED
  BY <1>1, <1>2

\* A delivery is recorded as sent, and a run, only for mails that were taken.
THEOREM ReportsAreMailed == ReportSpec => []SentMeansMailed
<1>1. ReportInit => ReportInv
  <2>1. ReportInit => ReportTypeOK /\ Knows
    BY ReportInitTyped
  <2>2. ReportInit => Counted /\ Provided /\ Complete /\ Mailed /\ RunMailed
    BY DEF ReportInit, Counted, CountedBy, Provided, Complete, CompleteBy, Mailed, RunMailed,
           ReportAt, NoWork, NoDelivery
  <2> QED
    BY <2>1, <2>2 DEF ReportInv
<1>2. ReportInv /\ [ReportNext]_reportVars => ReportInv'
  BY ReportInvStep
<1>3. ReportInv => SentMeansMailed
  BY SentMeansMailedIs DEF ReportInv
<1> QED
  BY <1>1, <1>2, <1>3, PTL DEF ReportSpec
================================================================================
