---------------------------- MODULE Alerts_proofs -----------------------------
(***************************************************************************)
(* Theorems about AlertDelivery and ThresholdAlert, for every set of       *)
(* notifications, workers, evaluators and bounds: the outbox implements    *)
(* OneEffect, what its rows say of a message the provider took, what the   *)
(* cutover stops, and when the stored band of an employee is the real one. *)
(*                                                                         *)
(* Four invariants of the outbox, each proved with those before it:        *)
(*   Typed     the types, and that a worker past its claims has a row;     *)
(*   Attempts  one worker at most is between beginSendAttempt and the mark *)
(*             of a row, and the attempt says how far it has come;         *)
(*   Leases    a row no sweep has overtaken is in one batch, and is its    *)
(*             worker's until it is marked;                                *)
(*   CutOff    what the cutover has taken off the queue stays off it.      *)
(* and two of the evaluations, at the end: what the owner of the row has   *)
(* measured is so still (Measured), and without overlap nobody else reads  *)
(* while it works (Alone).                                                 *)
(***************************************************************************)
EXTENDS AlertDelivery, ThresholdAlert, SequenceTheorems, TLAPS

LaneTyped == lane \in [Worker -> Lane]
RowTyped == row \in [Note -> Row]

\* A worker past its claims has a row to work on; an idle one has none.
HasRow ==
    \A w \in Worker :
      /\ lane[w].step \notin {"idle", "claim"} => lane[w].queue # <<>>
      /\ lane[w].step = "idle" => lane[w].queue = <<>>

Typed == TypeOK /\ HasRow

\* Nobody but w moves.
OnlyLane(w) == \A v \in Worker \ {w} : lane'[v] = lane[v]

\* No row but n changes.
OnlyRow(n) == \A m \in Note \ {n} : row'[m] = row[m]

LEMMA Bounds == /\ Batch \in Nat /\ MaxFaults \in Nat /\ MaxLapses \in Nat
                /\ MaxAttempts \in Nat \ {0}
BY AlertAssumption

-----------------------------------------------------------------------------
(* Queues *)

Queue == UNION {[1 .. n -> Claimed] : n \in 0 .. Batch}

LEMMA QueueIsSeq ==
  \A q : q \in Queue <=> q \in Seq(Claimed) /\ Len(q) <= Batch
<1> USE AlertAssumption DEF Queue
<1>1. ASSUME NEW q \in Queue PROVE q \in Seq(Claimed) /\ Len(q) <= Batch
  <2>1. PICK n \in 0 .. Batch : q \in [1 .. n -> Claimed]
    BY <1>1
  <2>2. q \in Seq(Claimed) /\ Len(q) = n
    BY <2>1
  <2> QED
    BY <2>1, <2>2
<1>2. ASSUME NEW q \in Seq(Claimed), Len(q) <= Batch PROVE q \in Queue
  <2>1. Len(q) \in 0 .. Batch /\ q \in [1 .. Len(q) -> Claimed]
    BY <1>2
  <2> QED
    BY <2>1
<1> QED
  BY <1>1, <1>2

LEMMA LaneParts ==
  \A l : l \in Lane <=> /\ l = [step |-> l.step, queue |-> l.queue]
                        /\ l.step \in Step /\ l.queue \in Queue
BY DEF Lane, Queue

LEMMA CurrentTyped ==
  ASSUME LaneTyped, NEW w \in Worker, lane[w].queue # <<>>
  PROVE  /\ Current(w) \in Note /\ Head(lane[w].queue) \in Claimed
         /\ InQueue(w, Current(w))
         /\ Head(lane[w].queue) = lane[w].queue[1] /\ 1 \in DOMAIN lane[w].queue
<1>1. lane[w].queue \in Seq(Claimed)
  BY LaneParts, QueueIsSeq DEF LaneTyped
<1>2. Head(lane[w].queue) = lane[w].queue[1] /\ 1 \in DOMAIN lane[w].queue
  BY <1>1
<1>3. Head(lane[w].queue) \in Claimed
  BY <1>1, <1>2
<1> QED
  BY <1>2, <1>3 DEF Current, InQueue, Claimed

LEMMA GotoLane ==
  ASSUME LaneTyped, NEW w \in Worker, NEW s \in Step, Goto(w, s)
  PROVE  /\ LaneTyped' /\ OnlyLane(w)
         /\ lane'[w].step = s /\ lane'[w].queue = lane[w].queue
<1>1. lane[w] \in Lane
  BY DEF LaneTyped
<1>2. [lane[w] EXCEPT !.step = s] \in Lane
  BY <1>1 DEF Lane
<1> QED
  BY <1>1, <1>2 DEF LaneTyped, Goto, OnlyLane, Lane

\* The batch goes on with its next row.
LEMMA NextLane ==
  ASSUME LaneTyped, NEW w \in Worker, lane[w].queue # <<>>, NextRow(w)
  PROVE  /\ LaneTyped' /\ OnlyLane(w)
         /\ lane'[w].step \in {"check", "idle"}
         /\ lane'[w].queue = Tail(lane[w].queue)
         /\ lane'[w].step = "idle" <=> lane'[w].queue = <<>>
<1> DEFINE q == lane[w].queue
<1>1. q \in Seq(Claimed) /\ Len(q) <= Batch /\ q # <<>>
  BY LaneParts, QueueIsSeq DEF LaneTyped
<1>5. lane' = [lane EXCEPT ![w] = [step |-> IF Len(q) > 1 THEN "check" ELSE "idle",
                                   queue |-> Tail(q)]]
  BY DEF NextRow
<1> HIDE DEF q
<1>2. Tail(q) \in Seq(Claimed) /\ Len(Tail(q)) = Len(q) - 1 /\ Len(q) \in Nat
  BY <1>1
<1>3. Tail(q) \in Queue
  <2>1. Len(Tail(q)) <= Batch
    BY <1>1, <1>2, Bounds
  <2> QED
    BY <1>2, <2>1, QueueIsSeq, Zenon
<1>4. Tail(q) = <<>> <=> ~(Len(q) > 1)
  <2>1. Tail(q) = <<>> <=> Len(Tail(q)) = 0
    BY <1>2, EmptySeq, Zenon
  <2>2. q = <<>> <=> Len(q) = 0
    BY <1>1, EmptySeq, Zenon
  <2> QED
    BY <1>1, <1>2, <2>1, <2>2
<1>6. [step |-> IF Len(q) > 1 THEN "check" ELSE "idle", queue |-> Tail(q)] \in Lane
  BY <1>3, LaneParts DEF Step
<1>7. lane' \in [Worker -> Lane] /\ OnlyLane(w)
      /\ lane'[w] = [step |-> IF Len(q) > 1 THEN "check" ELSE "idle", queue |-> Tail(q)]
  BY <1>5, <1>6 DEF LaneTyped, OnlyLane
<1>8. lane'[w].queue = Tail(q) /\ lane'[w].step = IF Len(q) > 1 THEN "check" ELSE "idle"
  BY <1>7
<1> QED
  BY <1>4, <1>7, <1>8 DEF LaneTyped, q

\* What a mark does to the rows.
LEMMA MarkedRow ==
  ASSUME RowTyped, NEW n \in Note, NEW from, NEW status \in Status,
         NEW due \in {"now", "later", "never"}, row' = Marked(n, from, status, due)
  PROVE  /\ RowTyped' /\ OnlyRow(n) /\ row'[n].attempt = row[n].attempt
         /\ row[n].status \in from => row'[n].status = status /\ row'[n].due = due
         /\ row[n].status \notin from => row'[n] = row[n]
<1>1. row[n] \in Row
  BY DEF RowTyped
<1>2. CASE row[n].status \in from
  <2>1. row' = [row EXCEPT ![n] = [row[n] EXCEPT !.status = status, !.owner = NoOne,
                                                  !.live = FALSE, !.due = due]]
    BY <1>2 DEF Marked, RowTyped
  <2>2. [row[n] EXCEPT !.status = status, !.owner = NoOne,
                       !.live = FALSE, !.due = due] \in Row
    BY <1>1 DEF Row
  <2>3. RowTyped' /\ OnlyRow(n)
        /\ row'[n] = [row[n] EXCEPT !.status = status, !.owner = NoOne,
                                    !.live = FALSE, !.due = due]
    BY <2>1, <2>2 DEF RowTyped, OnlyRow
  <2>4. row'[n].attempt = row[n].attempt /\ row'[n].status = status /\ row'[n].due = due
    BY <1>1, <2>3 DEF Row
  <2> QED
    BY <1>2, <2>3, <2>4
<1>3. CASE row[n].status \notin from
  BY <1>3 DEF Marked, OnlyRow, RowTyped
<1> QED
  BY <1>2, <1>3

\* A step that writes one row.
LEMMA RowWritten ==
  ASSUME RowTyped, NEW n \in Note, NEW r \in Row, row' = [row EXCEPT ![n] = r]
  PROVE  RowTyped' /\ OnlyRow(n) /\ row'[n] = r
BY DEF RowTyped, OnlyRow

-----------------------------------------------------------------------------
(* Types *)

RestTyped ==
    /\ blocked \in [Note -> {"no", "gone", "late", "broken"}]
    /\ mode \in {"WHATSAPP_LEGACY", "DAILY_EMAIL"}
    /\ cutover \in [open: BOOLEAN, missed: SUBSET Note]
    /\ delivered \in [Note -> Nat]
    /\ overtaken \in SUBSET Note
    /\ faults \in 0 .. MaxFaults
    /\ lapses \in 0 .. MaxLapses

LEMMA TypedParts ==
  /\ Typed <=> RowTyped /\ LaneTyped /\ HasRow /\ RestTyped
  /\ Typed' <=> RowTyped' /\ LaneTyped' /\ HasRow' /\ RestTyped'
BY DEF Typed, TypeOK, RowTyped, LaneTyped, RestTyped

LEMMA HasRowKept ==
  ASSUME HasRow, NEW w \in Worker, OnlyLane(w),
         lane'[w].step \notin {"idle", "claim"} => lane'[w].queue # <<>>,
         lane'[w].step = "idle" => lane'[w].queue = <<>>
  PROVE  HasRow'
BY DEF HasRow, OnlyLane

LEMMA GotoTyped ==
  ASSUME LaneTyped, HasRow, NEW w \in Worker, NEW s \in Step, Goto(w, s),
         s \notin {"idle", "claim"} => lane[w].queue # <<>>,
         s = "idle" => lane[w].queue = <<>>
  PROVE  LaneTyped' /\ HasRow' /\ OnlyLane(w)
         /\ lane'[w].step = s /\ lane'[w].queue = lane[w].queue
<1>1. /\ LaneTyped' /\ OnlyLane(w)
      /\ lane'[w].step = s /\ lane'[w].queue = lane[w].queue
  BY GotoLane
<1> QED
  BY <1>1, HasRowKept

LEMMA NextTyped ==
  ASSUME LaneTyped, HasRow, NEW w \in Worker, lane[w].queue # <<>>, NextRow(w)
  PROVE  LaneTyped' /\ HasRow'
<1>1. /\ LaneTyped' /\ OnlyLane(w)
      /\ lane'[w].step \in {"check", "idle"}
      /\ lane'[w].step = "idle" <=> lane'[w].queue = <<>>
  BY NextLane
<1> QED
  BY <1>1, HasRowKept

\* A row is marked and the batch goes on.
LEMMA MarkTyped ==
  ASSUME Typed, NEW w \in Worker, lane[w].step \notin {"idle", "claim"},
         NEW from, NEW status \in Status, NEW due \in {"now", "later", "never"},
         row' = Marked(Current(w), from, status, due), NextRow(w),
         UNCHANGED <<blocked, mode, cutover, delivered, overtaken, faults, lapses>>
  PROVE  Typed'
<1>1. RowTyped /\ LaneTyped /\ HasRow /\ RestTyped
  BY TypedParts
<1>2. lane[w].queue # <<>>
  BY <1>1 DEF HasRow
<1>3. Current(w) \in Note
  BY <1>1, <1>2, CurrentTyped
<1>4. RowTyped'
  BY <1>1, <1>3, MarkedRow
<1>5. LaneTyped' /\ HasRow'
  BY <1>1, <1>2, NextTyped
<1>6. RestTyped'
  BY <1>1 DEF RestTyped
<1> QED
  BY <1>4, <1>5, <1>6, TypedParts

LEMMA WorkTyped ==
  ASSUME Typed, NEW w \in Worker,
         StartBatch(w) \/ Work(w) \/ AcceptanceNotStored(w) \/ BatchDies(w)
  PROVE  Typed'
<1>1. RowTyped /\ LaneTyped /\ HasRow /\ RestTyped
  BY TypedParts
<1>2. lane[w].step \notin {"idle", "claim"} => lane[w].queue # <<>> /\ Current(w) \in Note
  BY <1>1, CurrentTyped DEF HasRow
<1> USE <1>1, <1>2
<1>3. CASE StartBatch(w)
  <2>1. Goto(w, "claim") /\ UNCHANGED row /\ RestTyped'
    BY <1>3 DEF StartBatch, RestTyped
  <2>2. LaneTyped' /\ HasRow'
    BY <2>1, GotoTyped DEF Step
  <2> QED
    BY <2>1, <2>2, TypedParts DEF RowTyped
<1>4. CASE EndOfClaims(w)
  <2>1. Goto(w, IF lane[w].queue = <<>> THEN "idle" ELSE "check")
        /\ UNCHANGED row /\ RestTyped'
    BY <1>4 DEF EndOfClaims, RestTyped
  <2>2. LaneTyped' /\ HasRow'
    BY <2>1, GotoTyped DEF Step
  <2> QED
    BY <2>1, <2>2, TypedParts DEF RowTyped
<1>5. ASSUME NEW n \in Note, ClaimNextOne(w, n) PROVE Typed'
  <2>1. /\ row' = [row EXCEPT ![n].status = "PROCESSING", ![n].owner = w,
                             ![n].live = TRUE, ![n].attempts = @ + 1, ![n].due = "now"]
        /\ row[n].attempts < MaxAttempts /\ RestTyped'
    BY <1>5 DEF ClaimNextOne, Claimable, RestTyped
  <2>2. row[n] \in Row
    BY DEF RowTyped
  <2>3. row[n].attempts + 1 \in 1 .. MaxAttempts
    BY <2>1, <2>2, Bounds DEF Row
  <2>4. RowTyped'
    BY <2>1, <2>2, <2>3 DEF RowTyped, Row, Status, Held
  <2> DEFINE c == [note |-> n, attempt |-> row[n].attempts + 1]
  <2>5. c \in Claimed
    BY <2>3 DEF Claimed
  <2>6. lane[w].queue \in Seq(Claimed) /\ lane[w].step = "claim"
        /\ Len(lane[w].queue) < Batch
        /\ lane' = [lane EXCEPT ![w].queue = Append(@, c)]
    BY <1>5, LaneParts, QueueIsSeq DEF ClaimNextOne, At, LaneTyped
  <2> HIDE DEF c
  <2>7. Append(lane[w].queue, c) \in Queue
    <3>1. Append(lane[w].queue, c) \in Seq(Claimed)
          /\ Len(Append(lane[w].queue, c)) = Len(lane[w].queue) + 1
          /\ Len(lane[w].queue) \in Nat
      BY <2>5, <2>6
    <3>2. Len(Append(lane[w].queue, c)) <= Batch
      BY <2>6, <3>1, Bounds
    <3> QED
      BY <3>1, <3>2, QueueIsSeq, Zenon
  <2>8. lane[w] \in Lane
    BY DEF LaneTyped
  <2>9. [lane[w] EXCEPT !.queue = Append(lane[w].queue, c)] \in Lane
    BY <2>7, <2>8 DEF Lane, Queue
  <2>10. LaneTyped' /\ OnlyLane(w) /\ lane'[w].step = "claim"
    BY <2>6, <2>8, <2>9 DEF LaneTyped, OnlyLane, Lane
  <2>11. HasRow'
    BY <2>10, HasRowKept
  <2> QED
    BY <2>1, <2>4, <2>10, <2>11, TypedParts
<1>6. CASE CheckGone(w)
  BY <1>6, MarkTyped DEF CheckGone, At, Status, Closed
<1>7. CASE CheckSuppressed(w)
  BY <1>7, MarkTyped DEF CheckSuppressed, At, Status, Closed
<1>8. CASE CheckBroken(w)
  BY <1>8, MarkTyped DEF CheckBroken, At, Status
<1>9. CASE FailLostRow(w)
  BY <1>9, MarkTyped DEF FailLostRow, At, Status
<1>10. ASSUME NEW s \in Step, lane[w].step \notin {"idle", "claim"},
              s \notin {"idle", "claim"}, Goto(w, s), UNCHANGED row, RestTyped'
       PROVE  Typed'
  <2>1. LaneTyped' /\ HasRow'
    BY <1>10, GotoTyped
  <2> QED
    BY <2>1, <1>10, TypedParts DEF RowTyped
<1>11. CASE CheckPasses(w)
  BY <1>10, <1>11 DEF CheckPasses, At, Step, RestTyped
<1>12. CASE BeginLost(w)
  BY <1>10, <1>12 DEF BeginLost, At, Step, RestTyped
<1>13. CASE AnswerArrives(w)
  BY <1>10, <1>13 DEF AnswerArrives, At, Step, SendingStep, RestTyped
<1>14. CASE AnswerLost(w)
  BY <1>10, <1>14 DEF AnswerLost, At, Step, SendingStep, RestTyped
<1>15. CASE ProviderRefuses(w)
  BY <1>10, <1>15 DEF ProviderRefuses, At, Step, SendingStep, RestTyped
<1>16. CASE AcceptedOfNoRow(w)
  BY <1>10, <1>16 DEF AcceptedOfNoRow, At, Step, SendingStep, RestTyped
<1>17. CASE ProviderAccepts(w)
  <2>1. RestTyped'
    BY <1>17 DEF ProviderAccepts, At, RestTyped
  <2> QED
    BY <1>10, <1>17, <2>1 DEF ProviderAccepts, At, Step, SendingStep
<1>18. CASE AcceptanceNotStored(w)
  <2>1. RestTyped'
    BY <1>18, Bounds DEF AcceptanceNotStored, RestTyped
  <2> QED
    BY <1>10, <1>18, <2>1 DEF AcceptanceNotStored, Step, SendingStep
<1>19. CASE BatchDies(w)
  <2>1. RestTyped' /\ UNCHANGED row
        /\ lane' = [lane EXCEPT ![w] = [step |-> "idle", queue |-> <<>>]]
    BY <1>19, Bounds DEF BatchDies, RestTyped
  <2>2. [step |-> "idle", queue |-> <<>>] \in Lane
    <3>1. <<>> \in Seq(Claimed) /\ Len(<<>>) <= Batch
      BY Bounds
    <3>2. <<>> \in Queue
      BY <3>1, QueueIsSeq, Bounds, Zenon
    <3> QED
      BY <3>2 DEF Lane, Queue, Step
  <2>3. LaneTyped' /\ OnlyLane(w)
        /\ lane'[w].step = "idle" /\ lane'[w].queue = <<>>
    BY <2>1, <2>2 DEF LaneTyped, OnlyLane
  <2>4. HasRow'
    BY <2>3, HasRowKept
  <2> QED
    BY <2>1, <2>3, <2>4, TypedParts DEF RowTyped
<1>20. CASE BeginSendAttempt(w)
  <2>1. /\ row' = [row EXCEPT ![Current(w)].status = "SEND_STARTED",
                             ![Current(w)].attempt = "STARTED"]
        /\ Goto(w, "call") /\ RestTyped' /\ lane[w].step = "begin"
    BY <1>20 DEF BeginSendAttempt, At, RestTyped
  <2>2. RowTyped'
    BY <2>1 DEF RowTyped, Row, Status, Held, AttemptStatus
  <2>3. LaneTyped' /\ HasRow'
    BY <2>1, GotoTyped DEF Step, SendingStep
  <2> QED
    BY <2>1, <2>2, <2>3, TypedParts
<1>21. ASSUME NEW s \in SendingStep, NEW a \in AttemptStatus, NEW t \in SendingStep,
              MarkAttempt(w, s, a, t)
       PROVE  Typed'
  <2>1. /\ row' = [row EXCEPT ![Current(w)].attempt = a]
        /\ Goto(w, t) /\ RestTyped' /\ lane[w].step = s
    BY <1>21 DEF MarkAttempt, At, RestTyped
  <2>2. RowTyped'
    BY <2>1 DEF RowTyped, Row, SendingStep
  <2>3. LaneTyped' /\ HasRow'
    BY <2>1, GotoTyped DEF Step, SendingStep
  <2> QED
    BY <2>1, <2>2, <2>3, TypedParts
<1>22. CASE MarkSendAttempt(w)
  BY <1>21, <1>22 DEF MarkSendAttempt, SendingStep, AttemptStatus
<1>23. ASSUME NEW s \in SendingStep, NEW status \in Status,
              NEW due \in {"now", "later", "never"}, MarkRow(w, s, status, due)
       PROVE  Typed'
  BY <1>23, MarkTyped DEF MarkRow, At, SendingStep
<1>24. CASE MarkNotification(w)
  BY <1>16, <1>23, <1>24 DEF MarkNotification, MarkSendAccepted, SendingStep, Status, Closed
<1> QED
  BY <1>3, <1>4, <1>5, <1>6, <1>7, <1>8, <1>9, <1>11, <1>12, <1>13, <1>14, <1>15, <1>17,
     <1>18, <1>19, <1>20, <1>22, <1>24 DEF Work

LEMMA NotesTyped ==
  ASSUME Typed, NEW n \in Note,
         \/ Enqueue(n) \/ BecomeBlocked(n) \/ Lapse(n) \/ LapseOfDead(n)
         \/ RetryFallsDue(n) \/ Recover(n)
  PROVE  Typed'
<1>1. RowTyped /\ LaneTyped /\ HasRow /\ RestTyped
  BY TypedParts
<1>2. row[n] \in Row
  BY <1>1 DEF RowTyped
<1>3. UNCHANGED lane => LaneTyped' /\ HasRow'
  BY <1>1 DEF LaneTyped, HasRow
<1> USE <1>1, <1>2, <1>3
<1>4. CASE Enqueue(n)
  <2>1. RowTyped'
    BY <1>4 DEF Enqueue, RowTyped, Row, Status, Closed
  <2>2. RestTyped'
    BY <1>4 DEF Enqueue, RestTyped
  <2> QED
    BY <1>4, <2>1, <2>2, TypedParts DEF Enqueue
<1>5. CASE BecomeBlocked(n)
  <2>1. RowTyped' /\ RestTyped'
    BY <1>5 DEF BecomeBlocked, RestTyped, RowTyped
  <2> QED
    BY <1>5, <2>1, TypedParts DEF BecomeBlocked
<1>6. CASE Lapse(n)
  <2>1. RowTyped'
    BY <1>6 DEF Lapse, RowTyped, Row
  <2>2. RestTyped'
    BY <1>6, Bounds DEF Lapse, RestTyped
  <2> QED
    BY <1>6, <2>1, <2>2, TypedParts DEF Lapse
<1>7. CASE LapseOfDead(n)
  <2>1. RowTyped' /\ RestTyped'
    BY <1>7 DEF LapseOfDead, RestTyped, RowTyped, Row
  <2> QED
    BY <1>7, <2>1, TypedParts DEF LapseOfDead
<1>8. CASE RetryFallsDue(n)
  <2>1. RowTyped' /\ RestTyped'
    BY <1>8 DEF RetryFallsDue, RestTyped, RowTyped, Row
  <2> QED
    BY <1>8, <2>1, TypedParts DEF RetryFallsDue
<1>9. CASE Recover(n)
  <2>1. SweptStatus(n) \in Status
    BY DEF SweptStatus, Status, Closed
  <2>2. RowTyped'
    BY <1>9, <2>1 DEF Recover, RowTyped, Row
  <2>3. RestTyped'
    BY <1>9 DEF Recover, RestTyped
  <2> QED
    BY <1>9, <2>2, <2>3, TypedParts DEF Recover
<1> QED
  BY <1>4, <1>5, <1>6, <1>7, <1>8, <1>9

LEMMA InitTyped == Init => Typed
<1> SUFFICES ASSUME Init PROVE Typed
  OBVIOUS
<1>1. RowTyped
  BY Bounds DEF Init, RowTyped, Row, Status, AttemptStatus
<1>2. <<>> \in Seq(Claimed) /\ Len(<<>>) <= Batch
  BY Bounds
<1>3. <<>> \in Queue
  BY <1>2, QueueIsSeq, Zenon
<1>4. LaneTyped /\ HasRow
  BY <1>3 DEF Init, LaneTyped, HasRow, Lane, Queue, Step
<1>5. RestTyped
  BY Bounds DEF Init, RestTyped
<1> QED
  BY <1>1, <1>4, <1>5, TypedParts

LEMMA NextTypes == Typed /\ [Next]_vars => Typed'
<1> SUFFICES ASSUME Typed, [Next]_vars PROVE Typed'
  OBVIOUS
<1>1. RowTyped /\ LaneTyped /\ HasRow /\ RestTyped
  BY TypedParts
<1>2. CASE CutOver
  <2>1. RowTyped'
    BY <1>1, <1>2 DEF CutOver, RowTyped, Row, Status, Closed
  <2>2. LaneTyped' /\ HasRow' /\ RestTyped'
    BY <1>1, <1>2 DEF CutOver, LaneTyped, HasRow, RestTyped
  <2> QED
    BY <2>1, <2>2, TypedParts
<1>3. CASE CutOverCommits
  <2>1. RowTyped' /\ LaneTyped' /\ HasRow' /\ RestTyped'
    BY <1>1, <1>3 DEF CutOverCommits, RowTyped, LaneTyped, HasRow, RestTyped
  <2> QED
    BY <2>1, TypedParts
<1>4. CASE CutBack
  <2>1. RowTyped' /\ LaneTyped' /\ HasRow' /\ RestTyped'
    BY <1>1, <1>4 DEF CutBack, RowTyped, LaneTyped, HasRow, RestTyped
  <2> QED
    BY <2>1, TypedParts
<1>5. CASE UNCHANGED vars
  BY <1>5 DEF vars, Typed, TypeOK, HasRow
<1> QED
  BY <1>2, <1>3, <1>4, <1>5, NotesTyped, WorkTyped DEF Next

\* Every row, lane and history keeps its type, and a worker past its claims has
\* a row to work on, in every reachable state.
THEOREM TypeCorrect == Spec => []Typed
<1>1. Typed /\ [Next]_vars => Typed'
  BY NextTypes
<1> QED
  BY <1>1, InitTyped, PTL DEF Spec

-----------------------------------------------------------------------------
(* Attempts *)

Done == {"SEND_ACCEPTED", "SENT_RECOVERY_REQUIRED"}

\* A row that may be claimed again, or is about to begin.
Reopenable(n) ==
    \/ row[n].status \in {"ABSENT", "PENDING", "PROCESSING"}
    \/ row[n].status = "FAILED" /\ row[n].due # "never"

\* Where the row of a send in progress may be: never back in the queue.
SendingRow(n) ==
    \/ row[n].status = "SEND_STARTED"
    \/ row[n].status \in Closed \ Done
    \/ row[n].status = "FAILED" /\ row[n].due = "never"

\* What the attempt row says at each step of its worker.
AttemptAt(step) ==
    IF step \in {"acceptRow", "recoverRow"} THEN {"STARTED", "ACCEPTED"}
    ELSE IF step \in {"retryRow", "refuseRow"} THEN {"FAILED"}
    ELSE IF step = "doubtRow" THEN {"AMBIGUOUS"} ELSE {"STARTED"}

\* What the provider has done at each step.
DeliveredAt(step) ==
    IF step \in {"taken", "acceptAttempt", "acceptRow", "recoverRow"} THEN {1}
    ELSE IF step \in {"doubtAttempt", "doubtRow"} THEN {0, 1} ELSE {0}

RowFits(n) ==
    /\ delivered[n] \in {0, 1}
    /\ row[n].attempt \in {"NONE", "FAILED"} => delivered[n] = 0
    /\ row[n].status \in Done => delivered[n] = 1
    /\ Reopenable(n) => row[n].attempt \in {"NONE", "FAILED"}

SenderFits(w) ==
    lane[w].step \in SendingStep =>
      /\ SendingRow(Current(w))
      /\ row[Current(w)].attempt \in AttemptAt(lane[w].step)
      /\ delivered[Current(w)] \in DeliveredAt(lane[w].step)

OneSender ==
    \A v, w \in Worker :
      /\ lane[v].step \in SendingStep /\ lane[w].step \in SendingStep
      /\ Current(v) = Current(w)
      => v = w

Attempts ==
    /\ \A n \in Note : RowFits(n)
    /\ \A w \in Worker : SenderFits(w)
    /\ OneSender

-----------------------------------------------------------------------------
(* Leases *)

\* One worker, one place in its queue.
OnePlace(n) ==
    \A v, w \in Worker : \A j \in DOMAIN lane[v].queue, k \in DOMAIN lane[w].queue :
      lane[v].queue[j].note = n /\ lane[w].queue[k].note = n => v = w /\ j = k

\* Until it is marked, the row is its worker's, or the cutover has taken it.
OwnRow(w, n) ==
    \/ row[n].status = "CANCELLED"
    \/ /\ row[n].status = IF Sending(w, n) THEN "SEND_STARTED" ELSE "PROCESSING"
       /\ row[n].owner = w

TakenRow(n) ==
    row[n].status \in {"SEND_STARTED", "SEND_ACCEPTED", "SENT_RECOVERY_REQUIRED",
                       "RECONCILIATION_REQUIRED", "CANCELLED"}

Lease(n) ==
    /\ OnePlace(n)
    /\ \A w \in Worker : InQueue(w, n) => OwnRow(w, n)
    /\ delivered[n] > 0 => TakenRow(n)

Leases == \A n \in Note \ overtaken : Lease(n)

-----------------------------------------------------------------------------
(* The cutover *)

\* What the e-mail of the day has replaced.
Replaced == Informational \ cutover.missed

CutOff ==
    /\ \A w \in Worker, n \in Note : InQueue(w, n) => row[n].status # "ABSENT"
    /\ cutover.open =>
         /\ mode = "WHATSAPP_LEGACY"
         /\ \A n \in Replaced : row[n].status \in Closed \cup {"ABSENT"}
    /\ mode = "DAILY_EMAIL" =>
         \A w \in Worker :
           At(w, "begin") /\ Current(w) \in Replaced => row[Current(w)].status \in Closed

-----------------------------------------------------------------------------
(* The attempts of every step *)

LEMMA AtWork ==
  ASSUME Typed, NEW w \in Worker, lane[w].step \notin {"idle", "claim"}
  PROVE  /\ lane[w].queue # <<>> /\ Current(w) \in Note /\ InQueue(w, Current(w))
         /\ RowTyped /\ LaneTyped /\ row[Current(w)] \in Row
<1>1. RowTyped /\ LaneTyped /\ HasRow
  BY TypedParts
<1>2. lane[w].queue # <<>>
  BY <1>1 DEF HasRow
<1> QED
  BY <1>1, <1>2, CurrentTyped DEF RowTyped

LEMMA SenderAtWork ==
  ASSUME Typed, NEW w \in Worker, lane[w].step \in SendingStep
  PROVE  /\ lane[w].queue # <<>> /\ Current(w) \in Note /\ InQueue(w, Current(w))
         /\ RowTyped /\ LaneTyped /\ row[Current(w)] \in Row
BY AtWork DEF SendingStep

\* The step of a worker at a send: nobody else is at that row.
LEMMA SenderStep ==
  ASSUME Typed, Attempts, NEW w \in Worker, lane[w].step \in SendingStep,
         NEW n \in Note, n = Current(w), OnlyLane(w), OnlyRow(n),
         \A m \in Note \ {n} : delivered'[m] = delivered[m],
         lane'[w].step \in SendingStep => lane'[w].queue = lane[w].queue,
         RowFits(n)', SenderFits(w)'
  PROVE  Attempts'
<1>2. ASSUME NEW m \in Note PROVE RowFits(m)'
  <2>1. CASE m = n
    BY <2>1
  <2>2. CASE m # n
    <3>1. row'[m] = row[m] /\ delivered'[m] = delivered[m] /\ RowFits(m)
      BY <2>2 DEF OnlyRow, Attempts
    <3> QED
      BY <3>1 DEF RowFits, Reopenable
  <2> QED
    BY <2>1, <2>2
<1>3. ASSUME NEW v \in Worker \ {w}, lane'[v].step \in SendingStep
      PROVE  /\ lane[v].step \in SendingStep /\ Current(v)' = Current(v)
             /\ Current(v) \in Note \ {n}
  <2>1. lane'[v] = lane[v]
    BY DEF OnlyLane
  <2>2. lane[v].step \in SendingStep /\ Current(v) \in Note
    BY <1>3, <2>1, SenderAtWork
  <2> QED
    BY <2>1, <2>2 DEF Attempts, OneSender, Current
<1>4. ASSUME NEW v \in Worker PROVE SenderFits(v)'
  <2>1. CASE v # w /\ lane'[v].step \in SendingStep
    <3>1. Current(v)' = Current(v) /\ Current(v) \in Note \ {n} /\ SenderFits(v)
          /\ lane[v].step \in SendingStep /\ lane'[v] = lane[v]
      BY <1>3, <2>1 DEF Attempts, OnlyLane
    <3>2. row'[Current(v)] = row[Current(v)] /\ delivered'[Current(v)] = delivered[Current(v)]
      BY <3>1 DEF OnlyRow
    <3> QED
      BY <3>1, <3>2 DEF SenderFits, SendingRow
  <2> QED
    BY <2>1 DEF SenderFits
<1>5. OneSender'
  <2>1. lane'[w].step \in SendingStep => Current(w)' = n
    BY DEF Current
  <2>2. ASSUME NEW u \in Worker, NEW v \in Worker, lane'[u].step \in SendingStep,
               lane'[v].step \in SendingStep, Current(u)' = Current(v)'
        PROVE  u = v
    <3>1. CASE u # w /\ v # w
      <4>1. /\ lane[u].step \in SendingStep /\ Current(u)' = Current(u)
            /\ lane[v].step \in SendingStep /\ Current(v)' = Current(v)
        BY <1>3, <2>2, <3>1
      <4> QED
        BY <2>2, <4>1 DEF Attempts, OneSender
    <3> QED
      BY <1>3, <2>1, <2>2, <3>1
  <2> QED
    BY <2>2 DEF OneSender
<1> QED
  BY <1>2, <1>4, <1>5 DEF Attempts

\* A step that no send is made of: it may close rows, never take one back.
LEMMA QuietStep ==
  ASSUME Typed, Attempts,
         \A n \in Note :
           /\ row'[n].attempt = row[n].attempt /\ delivered'[n] = delivered[n]
           /\ SendingRow(n) => SendingRow(n)'
           /\ row'[n].status \in Done => row[n].status \in Done
           /\ Reopenable(n)' => Reopenable(n),
         \A w \in Worker :
           lane'[w].step \in SendingStep =>
             /\ lane[w].step \in SendingStep
             /\ AttemptAt(lane[w].step) \subseteq AttemptAt(lane'[w].step)
             /\ DeliveredAt(lane[w].step) \subseteq DeliveredAt(lane'[w].step)
             /\ lane'[w].queue = lane[w].queue
  PROVE  Attempts'
<1>1. ASSUME NEW n \in Note PROVE RowFits(n)'
  <2>1. RowFits(n)
    BY DEF Attempts
  <2> QED
    BY <2>1 DEF RowFits
<1>2. ASSUME NEW w \in Worker, lane'[w].step \in SendingStep
      PROVE  /\ lane[w].step \in SendingStep /\ Current(w)' = Current(w)
             /\ Current(w) \in Note
  BY <1>2, SenderAtWork DEF Current
<1>3. ASSUME NEW w \in Worker PROVE SenderFits(w)'
  <2>1. CASE lane'[w].step \in SendingStep
    <3>1. Current(w)' = Current(w) /\ Current(w) \in Note
      BY <1>2, <2>1
    <3>2. /\ SendingRow(Current(w))
          /\ row[Current(w)].attempt \in AttemptAt(lane[w].step)
          /\ delivered[Current(w)] \in DeliveredAt(lane[w].step)
      BY <1>2, <2>1 DEF Attempts, SenderFits
    <3>3. /\ row'[Current(w)].attempt \in AttemptAt(lane'[w].step)
          /\ delivered'[Current(w)] \in DeliveredAt(lane'[w].step)
      BY <2>1, <3>1, <3>2
    <3>4. SendingRow(Current(w))'
      BY <3>1, <3>2 DEF SendingRow
    <3> QED
      BY <3>1, <3>3, <3>4 DEF SenderFits
  <2> QED
    BY <2>1 DEF SenderFits
<1>4. OneSender'
  BY <1>2 DEF Attempts, OneSender
<1> QED
  BY <1>1, <1>3, <1>4 DEF Attempts

\* Nobody begins to send, and no row moves.
LEMMA QuietLane ==
  ASSUME Typed, Attempts, NEW w \in Worker, OnlyLane(w), UNCHANGED <<row, delivered>>,
         lane'[w].step \in SendingStep =>
           /\ lane[w].step \in SendingStep
           /\ AttemptAt(lane[w].step) \subseteq AttemptAt(lane'[w].step)
           /\ DeliveredAt(lane[w].step) \subseteq DeliveredAt(lane'[w].step)
           /\ lane'[w].queue = lane[w].queue
  PROVE  Attempts'
<1>1. ASSUME NEW n \in Note
      PROVE  /\ SendingRow(n) => SendingRow(n)'
             /\ Reopenable(n)' => Reopenable(n)
  BY DEF SendingRow, Reopenable
<1>2. ASSUME NEW v \in Worker, lane'[v].step \in SendingStep
      PROVE  /\ lane[v].step \in SendingStep
             /\ AttemptAt(lane[v].step) \subseteq AttemptAt(lane'[v].step)
             /\ DeliveredAt(lane[v].step) \subseteq DeliveredAt(lane'[v].step)
             /\ lane'[v].queue = lane[v].queue
  <2>1. CASE v = w
    BY <1>2, <2>1
  <2>2. CASE v # w
    <3>1. lane'[v] = lane[v]
      BY <2>2 DEF OnlyLane
    <3> QED
      BY <1>2, <3>1
  <2> QED
    BY <2>1, <2>2
<1> QED
  BY <1>1, <1>2, QuietStep

\* A row is taken off the queue by a worker that has not begun to send it.
LEMMA QuietMark ==
  ASSUME Typed, Attempts, NEW w \in Worker,
         lane[w].step \notin SendingStep \cup {"idle", "claim"},
         NEW from, NEW status \in {"SKIPPED", "FAILED"},
         row' = Marked(Current(w), from, status, "never"), NextRow(w), UNCHANGED delivered
  PROVE  Attempts'
<1>1. /\ lane[w].queue # <<>> /\ Current(w) \in Note /\ RowTyped /\ LaneTyped
  BY AtWork
<1>2. lane'[w].step \notin SendingStep /\ OnlyLane(w)
  <2>1. OnlyLane(w) /\ lane'[w].step \in {"check", "idle"}
    BY <1>1, NextLane
  <2> QED
    BY <2>1 DEF SendingStep
<1>3. ASSUME NEW n \in Note
      PROVE  /\ row'[n].attempt = row[n].attempt
             /\ SendingRow(n) => SendingRow(n)'
             /\ row'[n].status \in Done => row[n].status \in Done
             /\ Reopenable(n)' => Reopenable(n)
  <2>1. status \in Status /\ status \notin Done
    BY DEF Status, Closed, Done
  <2>2. /\ OnlyRow(Current(w)) /\ row'[Current(w)].attempt = row[Current(w)].attempt
        /\ row[Current(w)].status \in from =>
             row'[Current(w)].status = status /\ row'[Current(w)].due = "never"
        /\ row[Current(w)].status \notin from => row'[Current(w)] = row[Current(w)]
    BY <1>1, <2>1, MarkedRow
  <2>3. row'[n] = row[n] \/ (row'[n].status = status /\ row'[n].due = "never")
    BY <1>1, <2>2 DEF OnlyRow
  <2>4. row'[n].attempt = row[n].attempt
    BY <1>1, <2>2 DEF OnlyRow
  <2> QED
    BY <2>1, <2>3, <2>4 DEF SendingRow, Reopenable, Closed, Done
<1>4. ASSUME NEW v \in Worker, lane'[v].step \in SendingStep
      PROVE  lane'[v] = lane[v]
  BY <1>2, <1>4 DEF OnlyLane
<1> QED
  BY <1>3, <1>4, QuietStep

LEMMA NotesAttempts ==
  ASSUME Typed, Attempts, NEW n \in Note,
         \/ Enqueue(n) \/ BecomeBlocked(n) \/ Lapse(n) \/ LapseOfDead(n)
         \/ RetryFallsDue(n) \/ Recover(n)
  PROVE  Attempts'
<1>1. row \in [Note -> Row]
  BY TypedParts DEF RowTyped
<1>2. UNCHANGED <<lane, delivered>>
  BY DEF Enqueue, BecomeBlocked, Lapse, LapseOfDead, RetryFallsDue, Recover
<1>3. RowFits(n)
  BY DEF Attempts
<1>4. /\ OnlyRow(n) /\ row'[n].attempt = row[n].attempt
      /\ SendingRow(n) => SendingRow(n)'
      /\ row'[n].status \in Done => row[n].status \in Done
      /\ Reopenable(n)' => Reopenable(n)
  <2>1. CASE Enqueue(n)
    BY <1>1, <2>1 DEF Enqueue, OnlyRow, Row, SendingRow, Reopenable, Closed, Done
  <2>2. CASE BecomeBlocked(n)
    BY <1>1, <2>2 DEF BecomeBlocked, OnlyRow, SendingRow, Reopenable
  <2>3. CASE Lapse(n)
    BY <1>1, <2>3 DEF Lapse, OnlyRow, Row, SendingRow, Reopenable
  <2>4. CASE LapseOfDead(n)
    BY <1>1, <2>4 DEF LapseOfDead, OnlyRow, Row, SendingRow, Reopenable
  <2>5. CASE RetryFallsDue(n)
    BY <1>1, <2>5 DEF RetryFallsDue, OnlyRow, Row, SendingRow, Reopenable
  <2>6. CASE Recover(n)
    <3>1. /\ OnlyRow(n) /\ row'[n].attempt = row[n].attempt
          /\ row'[n].status = SweptStatus(n) /\ row[n].status \in Held
      BY <1>1, <2>6 DEF Recover, OnlyRow, Row
    <3>2. SweptStatus(n) = "RECONCILIATION_REQUIRED" \/ row[n].status = "PROCESSING"
      BY <3>1 DEF SweptStatus, Held
    <3>3. SweptStatus(n) \in {"RECONCILIATION_REQUIRED", "PENDING"}
      BY DEF SweptStatus
    <3> QED
      BY <3>1, <3>2, <3>3 DEF SendingRow, Reopenable, Closed, Done
  <2> QED
    BY <2>1, <2>2, <2>3, <2>4, <2>5, <2>6
<1>5. ASSUME NEW m \in Note
      PROVE  /\ row'[m].attempt = row[m].attempt
             /\ SendingRow(m) => SendingRow(m)'
             /\ row'[m].status \in Done => row[m].status \in Done
             /\ Reopenable(m)' => Reopenable(m)
  <2>1. CASE m = n
    BY <1>4, <2>1
  <2>2. CASE m # n
    <3>1. row'[m] = row[m]
      BY <1>4, <2>2 DEF OnlyRow
    <3> QED
      BY <3>1 DEF SendingRow, Reopenable
  <2> QED
    BY <2>1, <2>2
<1> QED
  BY <1>2, <1>5, QuietStep

LEMMA CutOverAttempts == ASSUME Typed, Attempts, CutOver PROVE Attempts'
<1>1. RowTyped /\ UNCHANGED <<lane, delivered>>
  BY TypedParts DEF CutOver
<1>2. ASSUME NEW n \in Note
      PROVE  /\ row'[n].attempt = row[n].attempt
             /\ SendingRow(n) => SendingRow(n)'
             /\ row'[n].status \in Done => row[n].status \in Done
             /\ Reopenable(n)' => Reopenable(n)
  <2>1. row[n] \in Row
    BY <1>1 DEF RowTyped
  <2>2. row'[n] = IF Cancelled(n)
                  THEN [row[n] EXCEPT !.status = "CANCELLED", !.owner = NoOne,
                                      !.live = FALSE, !.due = "now"]
                  ELSE row[n]
    BY DEF CutOver
  <2>3. CASE Cancelled(n)
    BY <2>1, <2>2, <2>3 DEF Row, SendingRow, Reopenable, Closed, Done
  <2>4. CASE ~Cancelled(n)
    BY <2>2, <2>4 DEF SendingRow, Reopenable
  <2> QED
    BY <2>3, <2>4
<1> QED
  BY <1>1, <1>2, QuietStep

LEMMA BeginAttempts ==
  ASSUME Typed, Attempts, NEW w \in Worker, BeginSendAttempt(w)
  PROVE  Attempts'
<1> DEFINE n == Current(w)
<1>1. At(w, "begin") /\ MayBegin(w) /\ Goto(w, "call") /\ UNCHANGED delivered
      /\ row' = [row EXCEPT ![n].status = "SEND_STARTED", ![n].attempt = "STARTED"]
  BY DEF BeginSendAttempt
<1>2. /\ lane[w].queue # <<>> /\ n \in Note /\ RowTyped /\ LaneTyped /\ row[n] \in Row
  BY <1>1, AtWork DEF At
<1>3. /\ OnlyLane(w) /\ lane'[w].step = "call" /\ lane'[w].queue = lane[w].queue
  BY <1>1, <1>2, GotoLane DEF Step, SendingStep
<1>4. row[n].status = "PROCESSING"
  BY <1>1 DEF MayBegin
<1>5. Current(w)' = n
  BY <1>3 DEF Current
<1> HIDE DEF n
<1>6. OnlyRow(n) /\ row'[n].status = "SEND_STARTED" /\ row'[n].attempt = "STARTED"
  BY <1>1, <1>2 DEF OnlyRow, RowTyped, Row
<1>7. delivered[n] = 0
  BY <1>2, <1>4 DEF Attempts, RowFits, Reopenable
<1>8. ASSUME NEW m \in Note PROVE RowFits(m)'
  <2>1. CASE m = n
    BY <1>1, <1>6, <1>7, <2>1 DEF RowFits, Reopenable, Done
  <2>2. CASE m # n
    <3>1. row'[m] = row[m] /\ RowFits(m)
      BY <1>6, <2>2 DEF OnlyRow, Attempts
    <3> QED
      BY <1>1, <3>1 DEF RowFits, Reopenable
  <2> QED
    BY <2>1, <2>2
<1>9. ASSUME NEW v \in Worker \ {w}, lane'[v].step \in SendingStep
      PROVE  /\ lane[v].step \in SendingStep /\ Current(v)' = Current(v)
             /\ Current(v) \in Note \ {n} /\ lane'[v] = lane[v]
  <2>1. lane'[v] = lane[v]
    BY <1>3 DEF OnlyLane
  <2>2. lane[v].step \in SendingStep /\ Current(v) \in Note /\ SenderFits(v)
    BY <1>9, <2>1, SenderAtWork DEF Attempts
  <2>3. Current(v) # n
    BY <1>4, <2>2 DEF SenderFits, SendingRow, Closed
  <2> QED
    BY <2>1, <2>2, <2>3 DEF Current
<1>10. ASSUME NEW v \in Worker PROVE SenderFits(v)'
  <2>1. CASE v = w
    BY <1>1, <1>3, <1>5, <1>6, <1>7, <2>1
       DEF SenderFits, SendingRow, AttemptAt, DeliveredAt
  <2>2. CASE v # w /\ lane'[v].step \in SendingStep
    <3>1. Current(v)' = Current(v) /\ row'[Current(v)] = row[Current(v)]
          /\ SenderFits(v) /\ lane'[v] = lane[v]
      BY <1>6, <1>9, <2>2 DEF OnlyRow, Attempts
    <3> QED
      BY <1>1, <3>1 DEF SenderFits, SendingRow
  <2> QED
    BY <2>1, <2>2 DEF SenderFits
<1>11. OneSender'
  <2>1. ASSUME NEW u \in Worker, NEW v \in Worker, lane'[u].step \in SendingStep,
               lane'[v].step \in SendingStep, Current(u)' = Current(v)'
        PROVE  u = v
    <3>1. CASE u # w /\ v # w
      <4>1. /\ lane[u].step \in SendingStep /\ Current(u)' = Current(u)
            /\ lane[v].step \in SendingStep /\ Current(v)' = Current(v)
        BY <1>9, <2>1, <3>1
      <4> QED
        BY <2>1, <4>1 DEF Attempts, OneSender
    <3> QED
      BY <1>5, <1>9, <2>1, <3>1
  <2> QED
    BY <2>1 DEF OneSender
<1> QED
  BY <1>8, <1>10, <1>11 DEF Attempts

LEMMA MarkAttemptAttempts ==
  ASSUME Typed, Attempts, NEW w \in Worker, MarkSendAttempt(w)
  PROVE  Attempts'
<1>1. ASSUME NEW s \in SendingStep, NEW a \in AttemptStatus, NEW t \in SendingStep,
             MarkAttempt(w, s, a, t), a \in AttemptAt(t),
             \A d : d \in DeliveredAt(s) => d \in DeliveredAt(t),
             a = "FAILED" => DeliveredAt(s) = {0}, a # "NONE"
      PROVE  Attempts'
  <2>a. Current(w) \in Note
    BY <1>1, SenderAtWork DEF MarkAttempt, At
  <2>b. PICK n \in Note : n = Current(w)
    BY <2>a
  <2>1. At(w, s) /\ Goto(w, t) /\ UNCHANGED delivered
        /\ row' = [row EXCEPT ![n].attempt = a]
    BY <1>1, <2>b DEF MarkAttempt
  <2>2. /\ lane[w].queue # <<>> /\ RowTyped /\ LaneTyped /\ row[n] \in Row
    BY <2>1, <2>b, SenderAtWork DEF At
  <2>3. /\ OnlyLane(w) /\ lane'[w].step = t /\ lane'[w].queue = lane[w].queue
    BY <2>1, <2>2, GotoLane DEF Step
  <2>4. Current(w)' = n
    BY <2>b, <2>3 DEF Current
  <2>5. SendingRow(n) /\ delivered[n] \in DeliveredAt(s)
    BY <2>1, <2>b DEF Attempts, SenderFits, At
  <2>6. RowFits(n)
    BY DEF Attempts
  <2>7. OnlyRow(n) /\ row'[n].attempt = a /\ row'[n].status = row[n].status
        /\ row'[n].due = row[n].due
    BY <2>1, <2>2 DEF OnlyRow, RowTyped, Row
  <2>8. SendingRow(n)'
    BY <2>5, <2>7 DEF SendingRow
  <2>9. ~Reopenable(n)'
    BY <2>5, <2>7 DEF SendingRow, Reopenable, Closed
  <2>10. RowFits(n)'
    BY <1>1, <2>1, <2>5, <2>6, <2>7, <2>9 DEF RowFits
  <2>11. SenderFits(w)'
    BY <1>1, <2>1, <2>3, <2>4, <2>5, <2>7, <2>8 DEF SenderFits
  <2> QED
    BY <2>b, <2>1, <2>2, <2>3, <2>7, <2>10, <2>11, SenderStep DEF At
<1> QED
  BY <1>1 DEF MarkSendAttempt, SendingStep, AttemptStatus, AttemptAt, DeliveredAt

\* The worker leaves its send behind with a mark of the row.
LEMMA MarkRowAttempts ==
  ASSUME Typed, Attempts, NEW w \in Worker, NEW s \in SendingStep,
         NEW status \in Status, NEW due \in {"now", "later", "never"},
         MarkRow(w, s, status, due), status # "ABSENT", status \notin {"PENDING"} \cup Held,
         status \in Done => DeliveredAt(s) = {1},
         status = "FAILED" /\ due # "never" => AttemptAt(s) = {"FAILED"}
  PROVE  Attempts'
<1>a. Current(w) \in Note
  BY SenderAtWork DEF MarkRow, At
<1>b. PICK n \in Note : n = Current(w)
  BY <1>a
<1>1. At(w, s) /\ NextRow(w) /\ UNCHANGED delivered /\ row' = Marked(n, Held, status, due)
  BY <1>b DEF MarkRow
<1>2. /\ lane[w].queue # <<>> /\ RowTyped /\ LaneTyped /\ row[n] \in Row
  BY <1>b, <1>1, SenderAtWork DEF At
<1>3. OnlyLane(w) /\ lane'[w].step \notin SendingStep
  <2>1. OnlyLane(w) /\ lane'[w].step \in {"check", "idle"}
    BY <1>1, <1>2, NextLane
  <2> QED
    BY <2>1 DEF SendingStep
<1>4. /\ SendingRow(n) /\ row[n].attempt \in AttemptAt(s) /\ delivered[n] \in DeliveredAt(s)
  BY <1>b, <1>1 DEF Attempts, SenderFits, At
<1>5. RowFits(n)
  BY DEF Attempts
<1>6. /\ OnlyRow(n) /\ row'[n].attempt = row[n].attempt
      /\ row[n].status \in Held => row'[n].status = status /\ row'[n].due = due
      /\ row[n].status \notin Held => row'[n] = row[n]
  BY <1>1, <1>2, MarkedRow
<1>7. RowFits(n)'
  <2>1. CASE row[n].status \in Held
    BY <1>1, <1>4, <1>5, <1>6, <2>1 DEF RowFits, Reopenable, Held
  <2>2. CASE row[n].status \notin Held
    BY <1>1, <1>5, <1>6, <2>2 DEF RowFits, Reopenable
  <2> QED
    BY <2>1, <2>2
<1>8. SenderFits(w)'
  BY <1>3 DEF SenderFits
<1> QED
  BY <1>1, <1>2, <1>3, <1>6, <1>7, <1>8, <1>b, SenderStep DEF At

LEMMA ProviderAttempts ==
  ASSUME Typed, Attempts, NEW w \in Worker, ProviderAccepts(w)
  PROVE  Attempts'
<1>1. lane[w].step = "call" /\ lane[w].step \in SendingStep
  BY DEF ProviderAccepts, At, SendingStep
<1>2. Current(w) \in Note /\ lane[w].queue # <<>> /\ LaneTyped
  BY <1>1, SenderAtWork
<1>3. PICK n \in Note : n = Current(w)
  BY <1>2
<1>4. Goto(w, "taken") /\ UNCHANGED row
      /\ delivered' = [delivered EXCEPT ![n] = @ + 1]
  BY <1>3 DEF ProviderAccepts
<1>5. OnlyLane(w) /\ lane'[w].step = "taken" /\ lane'[w].queue = lane[w].queue
  BY <1>2, <1>4, GotoLane DEF Step, SendingStep
<1>6. Current(w)' = n
  BY <1>3, <1>5 DEF Current
<1>7. SendingRow(n) /\ row[n].attempt = "STARTED" /\ delivered[n] = 0
  BY <1>1, <1>3 DEF Attempts, SenderFits, AttemptAt, DeliveredAt
<1>8. RowFits(n) /\ delivered \in [Note -> Nat]
  BY TypedParts DEF Attempts, RestTyped
<1>9. delivered'[n] = 1 /\ \A m \in Note \ {n} : delivered'[m] = delivered[m]
  BY <1>4, <1>7, <1>8
<1>10. RowFits(n)'
  BY <1>4, <1>7, <1>8, <1>9 DEF RowFits, SendingRow, Reopenable
<1>11. SenderFits(w)'
  BY <1>4, <1>5, <1>6, <1>7, <1>9 DEF SenderFits, SendingRow, AttemptAt, DeliveredAt
<1>12. OnlyRow(n)
  BY <1>4 DEF OnlyRow
<1> QED
  BY <1>1, <1>3, <1>5, <1>9, <1>10, <1>11, <1>12, SenderStep

LEMMA ClaimAttempts ==
  ASSUME Typed, Attempts, NEW w \in Worker, NEW n \in Note, ClaimNextOne(w, n)
  PROVE  Attempts'
<1>1. row \in [Note -> Row] /\ lane \in [Worker -> Lane]
  BY TypedParts DEF RowTyped, LaneTyped
<1>2. UNCHANGED delivered /\ lane[w].step = "claim" /\ Claimable(n)
  BY DEF ClaimNextOne, At
<1>3. OnlyRow(n) /\ row'[n].attempt = row[n].attempt /\ row'[n].status = "PROCESSING"
  BY <1>1 DEF ClaimNextOne, OnlyRow, Row
<1>4. OnlyLane(w) /\ lane'[w].step = "claim"
  BY <1>1, <1>2 DEF ClaimNextOne, OnlyLane, Lane
<1>5. ASSUME NEW m \in Note
      PROVE  /\ row'[m].attempt = row[m].attempt
             /\ SendingRow(m) => SendingRow(m)'
             /\ row'[m].status \in Done => row[m].status \in Done
             /\ Reopenable(m)' => Reopenable(m)
  <2>1. CASE m = n
    BY <1>2, <1>3, <2>1 DEF Claimable, SendingRow, Reopenable, Closed, Done
  <2>2. CASE m # n
    <3>1. row'[m] = row[m]
      BY <1>3, <2>2 DEF OnlyRow
    <3> QED
      BY <3>1 DEF SendingRow, Reopenable
  <2> QED
    BY <2>1, <2>2
<1>6. ASSUME NEW v \in Worker, lane'[v].step \in SendingStep PROVE lane'[v] = lane[v]
  BY <1>4, <1>6 DEF OnlyLane, SendingStep
<1> QED
  BY <1>2, <1>5, <1>6, QuietStep

LEMMA WorkAttempts ==
  ASSUME Typed, Attempts, NEW w \in Worker,
         StartBatch(w) \/ Work(w) \/ AcceptanceNotStored(w) \/ BatchDies(w)
  PROVE  Attempts'
<1>1. LaneTyped
  BY TypedParts
\* A step of a worker that writes nothing but where it stands.
<1>2. ASSUME NEW t \in Step, Goto(w, t), UNCHANGED <<row, delivered>>,
             t \in SendingStep =>
               /\ lane[w].step \in SendingStep
               /\ AttemptAt(lane[w].step) \subseteq AttemptAt(t)
               /\ DeliveredAt(lane[w].step) \subseteq DeliveredAt(t)
      PROVE  Attempts'
  <2>1. OnlyLane(w) /\ lane'[w].step = t /\ lane'[w].queue = lane[w].queue
    BY <1>1, <1>2, GotoLane
  <2> QED
    BY <1>2, <2>1, QuietLane
<1>3. CASE StartBatch(w)
  BY <1>2, <1>3 DEF StartBatch, Step, SendingStep
<1>4. CASE EndOfClaims(w)
  BY <1>2, <1>4 DEF EndOfClaims, Step, SendingStep
<1>5. CASE CheckGone(w)
  BY <1>5, QuietMark DEF CheckGone, At, SendingStep
<1>6. CASE CheckSuppressed(w)
  BY <1>6, QuietMark DEF CheckSuppressed, At, SendingStep
<1>7. CASE CheckBroken(w)
  BY <1>7, QuietMark DEF CheckBroken, At, SendingStep
<1>8. CASE FailLostRow(w)
  BY <1>8, QuietMark DEF FailLostRow, At, SendingStep
<1>9. CASE CheckPasses(w)
  BY <1>2, <1>9 DEF CheckPasses, Step, SendingStep
<1>10. CASE BeginLost(w)
  BY <1>2, <1>10 DEF BeginLost, Step, SendingStep
<1>11. CASE AnswerArrives(w)
  BY <1>2, <1>11 DEF AnswerArrives, At, Step, SendingStep, AttemptAt, DeliveredAt
<1>12. CASE AnswerLost(w)
  BY <1>2, <1>12 DEF AnswerLost, Step, SendingStep, AttemptAt, DeliveredAt
<1>13. CASE ProviderRefuses(w)
  BY <1>2, <1>13 DEF ProviderRefuses, At, Step, SendingStep, AttemptAt, DeliveredAt
<1>14. CASE AcceptedOfNoRow(w)
  BY <1>2, <1>14 DEF AcceptedOfNoRow, At, Step, SendingStep, AttemptAt, DeliveredAt
<1>15. CASE AcceptanceNotStored(w)
  BY <1>2, <1>15 DEF AcceptanceNotStored, Step, SendingStep, AttemptAt, DeliveredAt
<1>16. CASE BatchDies(w)
  <2>1. OnlyLane(w) /\ lane'[w].step = "idle" /\ UNCHANGED <<row, delivered>>
    BY <1>1, <1>16 DEF BatchDies, OnlyLane, LaneTyped
  <2> QED
    BY <2>1, QuietLane DEF SendingStep
<1>17. CASE MarkNotification(w)
  <2>1. ASSUME NEW s \in {"acceptRow", "recoverRow"}, NEW status \in Done,
               MarkRow(w, s, status, "never")
        PROVE  Attempts'
    BY <2>1, MarkRowAttempts DEF SendingStep, Status, Closed, Held, Done, DeliveredAt
  <2>2. ASSUME MarkRow(w, "retryRow", "FAILED", "later") PROVE Attempts'
    BY <2>2, MarkRowAttempts DEF SendingStep, Status, Held, Done, AttemptAt
  <2>3. ASSUME MarkRow(w, "refuseRow", "FAILED", "never") PROVE Attempts'
    BY <2>3, MarkRowAttempts DEF SendingStep, Status, Held, Done
  <2>4. ASSUME MarkRow(w, "doubtRow", "RECONCILIATION_REQUIRED", "never") PROVE Attempts'
    BY <2>4, MarkRowAttempts DEF SendingStep, Status, Closed, Held, Done
  <2> QED
    BY <1>14, <1>17, <2>1, <2>2, <2>3, <2>4 DEF MarkNotification, MarkSendAccepted, Done
<1> QED
  BY <1>3, <1>4, <1>5, <1>6, <1>7, <1>8, <1>9, <1>10, <1>11, <1>12, <1>13, <1>15, <1>16,
     <1>17, BeginAttempts, MarkAttemptAttempts, ProviderAttempts, ClaimAttempts DEF Work

LEMMA NextAttempts == Typed /\ Attempts /\ [Next]_vars => Attempts'
<1> SUFFICES ASSUME Typed, Attempts, [Next]_vars PROVE Attempts'
  OBVIOUS
<1>1. ASSUME UNCHANGED <<row, lane, delivered>> PROVE Attempts'
  BY <1>1 DEF Attempts, RowFits, Reopenable, SenderFits, SendingRow, OneSender, Current
<1>2. CASE CutOverCommits
  BY <1>1, <1>2 DEF CutOverCommits
<1>3. CASE CutBack
  BY <1>1, <1>3 DEF CutBack
<1>4. CASE UNCHANGED vars
  BY <1>1, <1>4 DEF vars
<1> QED
  BY <1>2, <1>3, <1>4, NotesAttempts, WorkAttempts, CutOverAttempts DEF Next

\* While a worker is between the beginning of a send and the mark of its row
\* nobody else is, and the row's attempt tells how far the send has come: this
\* is what keeps an overlapping batch and the sweep from sending a message twice.
THEOREM AttemptsAreOrdered == Spec => []Attempts
<1>1. Init => Attempts
  BY DEF Init, Attempts, RowFits, Reopenable, SenderFits, OneSender, SendingStep, Done
<1>2. Typed /\ Attempts /\ [Next]_vars => Attempts'
  BY NextAttempts
<1> QED
  BY <1>1, <1>2, TypeCorrect, PTL DEF Spec

-----------------------------------------------------------------------------
(* The refinement: each step of the outbox is a step of OneEffect on one   *)
(* notification, or leaves what OneEffect sees alone.                      *)

Phases == [n \in Note |-> Phase(n)]

InDoubt == {"STARTED", "ACCEPTED", "AMBIGUOUS"}

\* What OneEffect sees of a notification a worker is sending, and of one
\* nobody is.
LEMMA PhaseOfSender ==
  ASSUME Attempts, NEW w \in Worker, lane[w].step \in SendingStep, NEW n, n = Current(w)
  PROVE  Phase(n) = IF row[n].attempt = "FAILED" THEN "open" ELSE "asked"
<1>1. Sending(w, n) /\ SendingRow(n)
  BY DEF Sending, Attempts, SenderFits
<1>2. row[n].status \notin {"SEND_ACCEPTED", "SENT_RECOVERY_REQUIRED"}
  BY <1>1 DEF SendingRow, Done
<1> QED
  BY <1>1, <1>2 DEF Phase

LEMMA PhaseKept ==
  ASSUME NEW n, row'[n].attempt = row[n].attempt,
         row'[n].status \in Done <=> row[n].status \in Done,
         \A w \in Worker : Sending(w, n)' <=> Sending(w, n)
  PROVE  Phase(n)' = Phase(n)
BY DEF Phase, Done

LEMMA OnePhase ==
  ASSUME NEW n \in Note, NEW p, Phase(n)' = p,
         \A m \in Note \ {n} : Phase(m)' = Phase(m)
  PROVE  Phases' = [Phases EXCEPT ![n] = p] /\ Phases[n] = Phase(n)
BY DEF Phases

\* Steps that OneEffect does not see.
LEMMA QuietPhases ==
  ASSUME \A n \in Note : /\ row'[n].attempt = row[n].attempt
                         /\ row'[n].status \in Done <=> row[n].status \in Done,
         \A w \in Worker : /\ lane'[w].step \in SendingStep <=> lane[w].step \in SendingStep
                           /\ lane'[w].step \in SendingStep => lane'[w].queue = lane[w].queue,
         UNCHANGED delivered
  PROVE  UNCHANGED Effect!vars
<1>1. ASSUME NEW n \in Note PROVE Phase(n)' = Phase(n)
  <2>1. \A w \in Worker : Sending(w, n)' <=> Sending(w, n)
    BY DEF Sending, Current
  <2> QED
    BY <2>1, PhaseKept
<1> QED
  BY <1>1 DEF Effect!vars

\* A worker at a send touches no other notification's phase.
LEMMA OtherPhases ==
  ASSUME NEW w \in Worker, lane[w].step \in SendingStep, NEW n, n = Current(w),
         OnlyLane(w), OnlyRow(n),
         lane'[w].step \in SendingStep => lane'[w].queue = lane[w].queue
  PROVE  \A m \in Note \ {n} : Phase(m)' = Phase(m)
<1> SUFFICES ASSUME NEW m \in Note \ {n} PROVE Phase(m)' = Phase(m)
  OBVIOUS
<1>1. ASSUME NEW v \in Worker PROVE Sending(v, m)' <=> Sending(v, m)
  <2>1. CASE v = w
    BY <2>1 DEF Sending, Current
  <2>2. CASE v # w
    BY <2>2 DEF Sending, Current, OnlyLane
  <2> QED
    BY <2>1, <2>2
<1> QED
  BY <1>1, PhaseKept DEF OnlyRow

\* When the worker has left its send nobody is at it.
LEMMA PhaseLeft ==
  ASSUME Attempts, NEW w \in Worker, lane[w].step \in SendingStep, NEW n, n = Current(w),
         OnlyLane(w), lane'[w].step \notin SendingStep
  PROVE  Phase(n)' = IF row'[n].status \in Done THEN "done"
                     ELSE IF row'[n].attempt \in InDoubt THEN "doubt" ELSE "open"
<1>1. ASSUME NEW v \in Worker PROVE ~Sending(v, n)'
  BY DEF Attempts, OneSender, Sending, Current, OnlyLane
<1> QED
  BY <1>1 DEF Phase, Done, InDoubt

\* Between two steps of its send a notification stays asked for, until its
\* attempt has failed.
LEMMA PhaseStays ==
  ASSUME Attempts', NEW w \in Worker, lane'[w].step \in SendingStep,
         NEW n, n = Current(w)'
  PROVE  Phase(n)' = IF row'[n].attempt = "FAILED" THEN "open" ELSE "asked"
<1>1. Sending(w, n)' /\ SendingRow(n)'
  BY DEF Sending, Attempts, SenderFits
<1>2. row'[n].status \notin {"SEND_ACCEPTED", "SENT_RECOVERY_REQUIRED"}
  BY <1>1 DEF SendingRow, Done
<1> QED
  BY <1>1, <1>2 DEF Phase

LEMMA BeginEffect ==
  ASSUME Typed, Attempts, NEW w \in Worker, BeginSendAttempt(w)
  PROVE  Effect!Next
<1>1. At(w, "begin") /\ MayBegin(w) /\ Goto(w, "call") /\ UNCHANGED delivered
  BY DEF BeginSendAttempt
<1>2. /\ lane[w].queue # <<>> /\ Current(w) \in Note /\ RowTyped /\ LaneTyped
  BY <1>1, AtWork DEF At
<1>3. PICK n \in Note : n = Current(w)
  BY <1>2
<1>4. row' = [row EXCEPT ![n].status = "SEND_STARTED", ![n].attempt = "STARTED"]
  BY <1>3 DEF BeginSendAttempt
<1>5. OnlyLane(w) /\ lane'[w].step = "call" /\ lane'[w].queue = lane[w].queue
  BY <1>1, <1>2, GotoLane DEF Step, SendingStep
<1>6. Current(w)' = n /\ lane'[w].step \in SendingStep /\ lane[w].step \notin SendingStep
  BY <1>1, <1>3, <1>5 DEF Current, SendingStep, At
<1>7. OnlyRow(n) /\ row'[n].attempt = "STARTED"
  BY <1>2, <1>4 DEF OnlyRow, RowTyped, Row
<1>8. Phase(n) = "open"
  <2>1. row[n].status = "PROCESSING" /\ RowFits(n)
    BY <1>1, <1>3 DEF MayBegin, Attempts
  <2>2. row[n].attempt \in {"NONE", "FAILED"}
    BY <2>1 DEF RowFits, Reopenable
  <2>3. ASSUME NEW v \in Worker PROVE ~Sending(v, n)
    BY <2>1 DEF Attempts, SenderFits, SendingRow, Sending, Closed
  <2> QED
    BY <2>1, <2>2, <2>3 DEF Phase
<1>9. Phase(n)' = "asked"
  BY <1>6, <1>7, BeginAttempts, PhaseStays
<1>10. ASSUME NEW m \in Note \ {n} PROVE Phase(m)' = Phase(m)
  <2>1. ASSUME NEW v \in Worker PROVE Sending(v, m)' <=> Sending(v, m)
    <3>1. CASE v = w
      BY <1>6, <3>1 DEF Sending
    <3>2. CASE v # w
      BY <1>5, <3>2 DEF Sending, Current, OnlyLane
    <3> QED
      BY <3>1, <3>2
  <2> QED
    BY <1>7, <2>1, PhaseKept DEF OnlyRow
<1>11. Phases' = [Phases EXCEPT ![n] = "asked"] /\ Phases[n] = "open"
  BY <1>8, <1>9, <1>10, OnePhase
<1>12. Effect!Ask(n)
  BY <1>1, <1>11 DEF Effect!Ask, Effect!Become, Phases
<1> QED
  BY <1>12 DEF Effect!Next

LEMMA ProviderEffect ==
  ASSUME Typed, Attempts, NEW w \in Worker, ProviderAccepts(w)
  PROVE  Effect!Next
<1>1. lane[w].step = "call" /\ lane[w].step \in SendingStep
  BY DEF ProviderAccepts, At, SendingStep
<1>2. Current(w) \in Note /\ LaneTyped
  BY <1>1, SenderAtWork
<1>3. PICK n \in Note : n = Current(w)
  BY <1>2
<1>4. Goto(w, "taken") /\ UNCHANGED row /\ delivered' = [delivered EXCEPT ![n] = @ + 1]
  BY <1>3 DEF ProviderAccepts
<1>5. OnlyLane(w) /\ lane'[w].step = "taken" /\ lane'[w].queue = lane[w].queue
  BY <1>2, <1>4, GotoLane DEF Step, SendingStep
<1>6. row[n].attempt = "STARTED" /\ delivered[n] = 0
  BY <1>1, <1>3 DEF Attempts, SenderFits, AttemptAt, DeliveredAt
<1>7. Phase(n) = "asked"
  BY <1>1, <1>3, <1>6, PhaseOfSender
<1>8. ASSUME NEW m \in Note PROVE Phase(m)' = Phase(m)
  <2>1. ASSUME NEW v \in Worker PROVE Sending(v, m)' <=> Sending(v, m)
    BY <1>1, <1>5 DEF Sending, Current, OnlyLane, SendingStep
  <2> QED
    BY <1>4, <2>1, PhaseKept
<1>9. Phases' = Phases /\ Phases[n] = "asked"
  BY <1>7, <1>8 DEF Phases
<1>10. delivered' = [delivered EXCEPT ![n] = 1]
  BY <1>4, <1>6
<1>11. Effect!Happen(n)
  BY <1>6, <1>9, <1>10 DEF Effect!Happen, Phases
<1> QED
  BY <1>11 DEF Effect!Next

LEMMA MarkAttemptEffect ==
  ASSUME Typed, Attempts, NEW w \in Worker, MarkSendAttempt(w)
  PROVE  [Effect!Next]_(Effect!vars)
<1>1. Attempts'
  BY MarkAttemptAttempts
<1>2. ASSUME NEW s \in SendingStep, NEW a \in AttemptStatus, NEW t \in SendingStep,
             MarkAttempt(w, s, a, t), AttemptAt(s) = {"STARTED"}, a = "FAILED" => DeliveredAt(s) = {0}
      PROVE  [Effect!Next]_(Effect!vars)
  <2>1. At(w, s) /\ Goto(w, t) /\ UNCHANGED delivered /\ lane[w].step \in SendingStep
    BY <1>2 DEF MarkAttempt, At
  <2>2. Current(w) \in Note /\ LaneTyped /\ row \in [Note -> Row]
    BY <2>1, SenderAtWork DEF RowTyped
  <2>3. PICK n \in Note : n = Current(w)
    BY <2>2
  <2>4. row' = [row EXCEPT ![n].attempt = a]
    BY <1>2, <2>3 DEF MarkAttempt
  <2>5. OnlyLane(w) /\ lane'[w].step = t /\ lane'[w].queue = lane[w].queue
    BY <2>1, <2>2, GotoLane DEF Step
  <2>6. Current(w)' = n
    BY <2>3, <2>5 DEF Current
  <2>7. OnlyRow(n) /\ row'[n].attempt = a
    BY <2>2, <2>4 DEF OnlyRow, Row
  <2>8. row[n].attempt = "STARTED" /\ delivered[n] \in DeliveredAt(s)
    BY <1>2, <2>1, <2>3 DEF Attempts, SenderFits, At
  <2>9. Phase(n) = "asked"
    BY <2>1, <2>3, <2>8, PhaseOfSender
  <2>10. Phase(n)' = IF a = "FAILED" THEN "open" ELSE "asked"
    BY <1>1, <2>5, <2>6, <2>7, PhaseStays
  <2>11. \A m \in Note \ {n} : Phase(m)' = Phase(m)
    BY <2>1, <2>3, <2>5, <2>7, OtherPhases
  <2>12. CASE a = "FAILED"
    <3>1. Phases' = [Phases EXCEPT ![n] = "open"] /\ Phases[n] = "asked"
      BY <2>9, <2>10, <2>11, <2>12, OnePhase
    <3>2. Effect!Refuse(n)
      BY <1>2, <2>1, <2>8, <2>12, <3>1 DEF Effect!Refuse, Effect!Become, Phases
    <3> QED
      BY <3>2 DEF Effect!Next
  <2>13. CASE a # "FAILED"
    BY <2>1, <2>9, <2>10, <2>11, <2>13 DEF Effect!vars
  <2> QED
    BY <2>12, <2>13
<1> QED
  BY <1>2 DEF MarkSendAttempt, SendingStep, AttemptStatus, AttemptAt, DeliveredAt

\* A worker leaves its send: what it leaves behind is confirmed, in doubt, or
\* open again because it was refused.
LEMMA LeaveEffect ==
  ASSUME Typed, Attempts, NEW w \in Worker, lane[w].step \in SendingStep,
         NEW n \in Note, n = Current(w), OnlyLane(w), OnlyRow(n), UNCHANGED delivered,
         lane'[w].step \notin SendingStep, row'[n].attempt = row[n].attempt,
         row'[n].status \in Done => delivered[n] = 1 /\ row[n].attempt # "FAILED"
  PROVE  [Effect!Next]_(Effect!vars)
<1>1. \A m \in Note \ {n} : Phase(m)' = Phase(m)
  BY OtherPhases
<1>2. Phase(n) = IF row[n].attempt = "FAILED" THEN "open" ELSE "asked"
  BY PhaseOfSender
<1>3. Phase(n)' = IF row'[n].status \in Done THEN "done"
                  ELSE IF row[n].attempt \in InDoubt THEN "doubt" ELSE "open"
  BY PhaseLeft
<1>4. row[n].attempt \in InDoubt \cup {"FAILED"}
  BY DEF Attempts, SenderFits, AttemptAt, InDoubt
<1>5. CASE row'[n].status \in Done
  <2>1. Phases' = [Phases EXCEPT ![n] = "done"] /\ Phases[n] = "asked"
    BY <1>1, <1>2, <1>3, <1>5, OnePhase
  <2>2. Effect!Confirm(n)
    BY <1>5, <2>1 DEF Effect!Confirm, Effect!Become, Phases
  <2> QED
    BY <2>2 DEF Effect!Next
<1>6. CASE row'[n].status \notin Done /\ row[n].attempt \in InDoubt
  <2>1. Phases' = [Phases EXCEPT ![n] = "doubt"] /\ Phases[n] = "asked"
    BY <1>1, <1>2, <1>3, <1>6, OnePhase DEF InDoubt
  <2>2. Effect!Doubt(n)
    BY <2>1 DEF Effect!Doubt, Effect!Become, Phases
  <2> QED
    BY <2>2 DEF Effect!Next
<1>7. CASE row'[n].status \notin Done /\ row[n].attempt = "FAILED"
  BY <1>1, <1>2, <1>3, <1>7 DEF Effect!vars, InDoubt
<1> QED
  BY <1>4, <1>5, <1>6, <1>7

LEMMA MarkRowEffect ==
  ASSUME Typed, Attempts, NEW w \in Worker, NEW s \in SendingStep,
         NEW status \in Status, NEW due \in {"now", "later", "never"},
         MarkRow(w, s, status, due),
         status \in Done => DeliveredAt(s) = {1} /\ "FAILED" \notin AttemptAt(s)
  PROVE  [Effect!Next]_(Effect!vars)
<1>1. lane[w].step = s /\ NextRow(w) /\ UNCHANGED delivered
  BY DEF MarkRow, At
<1>2. lane[w].queue # <<>> /\ Current(w) \in Note /\ RowTyped /\ LaneTyped
  BY <1>1, SenderAtWork
<1>3. PICK n \in Note : n = Current(w)
  BY <1>2
<1>4. row' = Marked(n, Held, status, due)
  BY <1>3 DEF MarkRow
<1>5. OnlyLane(w) /\ lane'[w].step \notin SendingStep
  <2>1. OnlyLane(w) /\ lane'[w].step \in {"check", "idle"}
    BY <1>1, <1>2, NextLane
  <2> QED
    BY <2>1 DEF SendingStep
<1>6. /\ OnlyRow(n) /\ row'[n].attempt = row[n].attempt
      /\ row[n].status \in Held => row'[n].status = status
      /\ row[n].status \notin Held => row'[n] = row[n]
  BY <1>2, <1>4, MarkedRow
<1>7. /\ SendingRow(n) /\ row[n].attempt \in AttemptAt(s) /\ delivered[n] \in DeliveredAt(s)
  BY <1>1, <1>3 DEF Attempts, SenderFits
<1>8. row[n].status \notin Done
  BY <1>7 DEF SendingRow, Done
<1>9. row'[n].status \in Done => delivered[n] = 1 /\ row[n].attempt # "FAILED"
  BY <1>6, <1>7, <1>8
<1> QED
  BY <1>1, <1>3, <1>5, <1>6, <1>9, LeaveEffect

\* A row is taken off the queue by a worker that has not begun to send it.
LEMMA QuietMarkEffect ==
  ASSUME Typed, NEW w \in Worker,
         lane[w].step \notin SendingStep \cup {"idle", "claim"},
         NEW from, from \cap Done = {}, NEW status \in {"SKIPPED", "FAILED"},
         row' = Marked(Current(w), from, status, "never"), NextRow(w), UNCHANGED delivered
  PROVE  UNCHANGED Effect!vars
<1>1. /\ lane[w].queue # <<>> /\ Current(w) \in Note /\ RowTyped /\ LaneTyped
  BY AtWork
<1>2. lane'[w].step \notin SendingStep /\ OnlyLane(w)
  <2>1. OnlyLane(w) /\ lane'[w].step \in {"check", "idle"}
    BY <1>1, NextLane
  <2> QED
    BY <2>1 DEF SendingStep
<1>3. status \in Status /\ status \notin Done
  BY DEF Status, Closed, Done
<1>4. /\ OnlyRow(Current(w)) /\ row'[Current(w)].attempt = row[Current(w)].attempt
      /\ row[Current(w)].status \in from => row'[Current(w)].status = status
      /\ row[Current(w)].status \notin from => row'[Current(w)] = row[Current(w)]
  BY <1>1, <1>3, MarkedRow
<1>5. ASSUME NEW n \in Note
      PROVE  /\ row'[n].attempt = row[n].attempt
             /\ row'[n].status \in Done <=> row[n].status \in Done
  <2>1. CASE n = Current(w) /\ row[n].status \in from
    BY <1>3, <1>4, <2>1
  <2>2. CASE n = Current(w) /\ row[n].status \notin from
    BY <1>4, <2>2
  <2>3. CASE n # Current(w)
    BY <1>4, <2>3 DEF OnlyRow
  <2> QED
    BY <2>1, <2>2, <2>3
<1>6. ASSUME NEW v \in Worker
      PROVE  /\ lane'[v].step \in SendingStep <=> lane[v].step \in SendingStep
             /\ lane'[v].step \in SendingStep => lane'[v].queue = lane[v].queue
  BY <1>2 DEF OnlyLane
<1> QED
  BY <1>5, <1>6, QuietPhases

LEMMA NotesEffect ==
  ASSUME Typed, NEW n \in Note,
         \/ Enqueue(n) \/ BecomeBlocked(n) \/ Lapse(n) \/ LapseOfDead(n)
         \/ RetryFallsDue(n) \/ Recover(n)
  PROVE  UNCHANGED Effect!vars
<1>1. row \in [Note -> Row]
  BY TypedParts DEF RowTyped
<1>2. UNCHANGED <<lane, delivered>>
  BY DEF Enqueue, BecomeBlocked, Lapse, LapseOfDead, RetryFallsDue, Recover
<1>3. ASSUME NEW m \in Note
      PROVE  /\ row'[m].attempt = row[m].attempt
             /\ row'[m].status \in Done <=> row[m].status \in Done
  <2>1. CASE Enqueue(n)
    BY <1>1, <2>1 DEF Enqueue, Row, Done
  <2>2. CASE BecomeBlocked(n)
    BY <2>2 DEF BecomeBlocked
  <2>3. CASE Lapse(n)
    BY <1>1, <2>3 DEF Lapse, Row
  <2>4. CASE LapseOfDead(n)
    BY <1>1, <2>4 DEF LapseOfDead, Row
  <2>5. CASE RetryFallsDue(n)
    BY <1>1, <2>5 DEF RetryFallsDue, Row
  <2>6. CASE Recover(n)
    BY <1>1, <2>6 DEF Recover, SweptStatus, Row, Held, Done
  <2> QED
    BY <2>1, <2>2, <2>3, <2>4, <2>5, <2>6
<1> QED
  BY <1>2, <1>3, QuietPhases

LEMMA CutOverEffect == ASSUME Typed, CutOver PROVE UNCHANGED Effect!vars
<1>1. row \in [Note -> Row] /\ UNCHANGED <<lane, delivered>>
  BY TypedParts DEF CutOver, RowTyped
<1>2. ASSUME NEW n \in Note
      PROVE  /\ row'[n].attempt = row[n].attempt
             /\ row'[n].status \in Done <=> row[n].status \in Done
  BY <1>1 DEF CutOver, Cancelled, Row, Held, Done
<1> QED
  BY <1>1, <1>2, QuietPhases

LEMMA ClaimEffect ==
  ASSUME Typed, NEW w \in Worker, NEW n \in Note, ClaimNextOne(w, n)
  PROVE  UNCHANGED Effect!vars
<1>1. row \in [Note -> Row] /\ lane \in [Worker -> Lane]
  BY TypedParts DEF RowTyped, LaneTyped
<1>2. ASSUME NEW m \in Note
      PROVE  /\ row'[m].attempt = row[m].attempt
             /\ row'[m].status \in Done <=> row[m].status \in Done
  BY <1>1 DEF ClaimNextOne, Claimable, Row, Done
<1>3. ASSUME NEW v \in Worker
      PROVE  /\ lane'[v].step \in SendingStep <=> lane[v].step \in SendingStep
             /\ lane'[v].step \in SendingStep => lane'[v].queue = lane[v].queue
  <2>1. lane'[w].step = "claim" /\ lane[w].step = "claim" /\ OnlyLane(w)
    BY <1>1 DEF ClaimNextOne, At, OnlyLane, Lane
  <2> QED
    BY <2>1 DEF OnlyLane, SendingStep
<1> QED
  BY <1>2, <1>3, QuietPhases DEF ClaimNextOne

LEMMA WorkEffect ==
  ASSUME Typed, Attempts, NEW w \in Worker,
         StartBatch(w) \/ Work(w) \/ AcceptanceNotStored(w) \/ BatchDies(w)
  PROVE  [Effect!Next]_(Effect!vars)
<1>1. LaneTyped
  BY TypedParts
\* A step of a worker that writes nothing but where it stands.
<1>2. ASSUME NEW t \in Step, Goto(w, t), UNCHANGED <<row, delivered>>,
             t \in SendingStep <=> lane[w].step \in SendingStep
      PROVE  UNCHANGED Effect!vars
  <2>1. OnlyLane(w) /\ lane'[w].step = t /\ lane'[w].queue = lane[w].queue
    BY <1>1, <1>2, GotoLane
  <2>2. ASSUME NEW v \in Worker
        PROVE  /\ lane'[v].step \in SendingStep <=> lane[v].step \in SendingStep
               /\ lane'[v].step \in SendingStep => lane'[v].queue = lane[v].queue
    BY <1>2, <2>1 DEF OnlyLane
  <2> QED
    BY <1>2, <2>2, QuietPhases
<1>3. CASE StartBatch(w)
  BY <1>2, <1>3 DEF StartBatch, At, Step, SendingStep
<1>4. CASE EndOfClaims(w)
  BY <1>2, <1>4 DEF EndOfClaims, At, Step, SendingStep
<1>5. CASE CheckGone(w)
  BY <1>5, QuietMarkEffect DEF CheckGone, At, SendingStep, Held, Done
<1>6. CASE CheckSuppressed(w)
  BY <1>6, QuietMarkEffect DEF CheckSuppressed, At, SendingStep, Held, Done
<1>7. CASE CheckBroken(w)
  BY <1>7, QuietMarkEffect DEF CheckBroken, At, SendingStep, Held, Done
<1>8. CASE FailLostRow(w)
  BY <1>8, QuietMarkEffect DEF FailLostRow, At, SendingStep, Held, Done
<1>9. CASE CheckPasses(w)
  BY <1>2, <1>9 DEF CheckPasses, At, Step, SendingStep
<1>10. CASE BeginLost(w)
  BY <1>2, <1>10 DEF BeginLost, At, Step, SendingStep
<1>11. CASE AnswerArrives(w)
  BY <1>2, <1>11 DEF AnswerArrives, At, Step, SendingStep
<1>12. CASE AnswerLost(w)
  BY <1>2, <1>12 DEF AnswerLost, Step, SendingStep
<1>13. CASE ProviderRefuses(w)
  BY <1>2, <1>13 DEF ProviderRefuses, At, Step, SendingStep
<1>14. CASE AcceptedOfNoRow(w)
  BY <1>2, <1>14 DEF AcceptedOfNoRow, At, Step, SendingStep
<1>15. CASE AcceptanceNotStored(w)
  BY <1>2, <1>15 DEF AcceptanceNotStored, Step, SendingStep
<1>16. CASE BatchDies(w)
  <2>1. OnlyLane(w) /\ lane'[w].step \notin SendingStep /\ UNCHANGED <<row, delivered>>
    BY <1>1, <1>16 DEF BatchDies, OnlyLane, LaneTyped, SendingStep
  <2>2. CASE lane[w].step \in SendingStep
    <3>1. Current(w) \in Note
      BY <2>2, SenderAtWork
    <3>2. PICK n \in Note : n = Current(w)
      BY <3>1
    <3>3. row[n].status \notin Done /\ OnlyRow(n)
      BY <2>1, <2>2, <3>2 DEF Attempts, SenderFits, SendingRow, Done, OnlyRow
    <3> QED
      BY <2>1, <2>2, <3>2, <3>3, LeaveEffect
  <2>3. CASE lane[w].step \notin SendingStep
    <3>1. ASSUME NEW v \in Worker
          PROVE  /\ lane'[v].step \in SendingStep <=> lane[v].step \in SendingStep
                 /\ lane'[v].step \in SendingStep => lane'[v].queue = lane[v].queue
      BY <2>1, <2>3 DEF OnlyLane
    <3> QED
      BY <2>1, <3>1, QuietPhases
  <2> QED
    BY <2>2, <2>3
<1>17. CASE MarkNotification(w)
  <2>1. ASSUME NEW s \in {"acceptRow", "recoverRow"}, NEW status \in Done,
               MarkRow(w, s, status, "never")
        PROVE  [Effect!Next]_(Effect!vars)
    BY <2>1, MarkRowEffect DEF SendingStep, Status, Closed, Done, DeliveredAt, AttemptAt
  <2>2. ASSUME NEW s \in {"retryRow", "refuseRow"}, NEW due \in {"later", "never"},
               MarkRow(w, s, "FAILED", due)
        PROVE  [Effect!Next]_(Effect!vars)
    BY <2>2, MarkRowEffect DEF SendingStep, Status, Done
  <2>3. ASSUME MarkRow(w, "doubtRow", "RECONCILIATION_REQUIRED", "never")
        PROVE  [Effect!Next]_(Effect!vars)
    BY <2>3, MarkRowEffect DEF SendingStep, Status, Closed, Done
  <2> QED
    BY <1>14, <1>17, <2>1, <2>2, <2>3 DEF MarkNotification, MarkSendAccepted, Done
<1> QED
  BY <1>3, <1>4, <1>5, <1>6, <1>7, <1>8, <1>9, <1>10, <1>11, <1>12, <1>13, <1>15, <1>16,
     <1>17, BeginEffect, MarkAttemptEffect, ProviderEffect, ClaimEffect DEF Work

LEMMA InitEffect == Init => Effect!Init
<1> SUFFICES ASSUME Init PROVE Effect!Init
  OBVIOUS
<1>1. ASSUME NEW n \in Note PROVE Phase(n) = "open"
  BY DEF Init, Phase, Sending, SendingStep
<1> QED
  BY <1>1 DEF Init, Effect!Init

LEMMA NextEffect ==
  Typed /\ Attempts /\ [Next]_vars => [Effect!Next]_(Effect!vars)
<1> SUFFICES ASSUME Typed, Attempts, [Next]_vars PROVE [Effect!Next]_(Effect!vars)
  OBVIOUS
<1>1. ASSUME UNCHANGED <<row, lane, delivered>> PROVE UNCHANGED Effect!vars
  BY <1>1, QuietPhases
<1>2. CASE CutOverCommits
  BY <1>1, <1>2 DEF CutOverCommits
<1>3. CASE CutBack
  BY <1>1, <1>3 DEF CutBack
<1>4. CASE UNCHANGED vars
  BY <1>1, <1>4 DEF vars
<1> QED
  BY <1>2, <1>3, <1>4, NotesEffect, WorkEffect, CutOverEffect DEF Next

\* The outbox implements OneEffect: with any number of overlapping batches,
\* expired leases, crashes and lost answers a notification is accepted by the
\* provider at most once, is not asked for again while its outcome is in doubt,
\* and is never called sent when it was not.
THEOREM ImplementsOneEffect == Spec => AlertsAreOneEffect
<1>1. Init => Effect!Init
  BY InitEffect
<1>2. Typed /\ Attempts /\ [Next]_vars => [Effect!Next]_(Effect!vars)
  BY NextEffect
<1> QED
  BY <1>1, <1>2, TypeCorrect, AttemptsAreOrdered, PTL DEF Spec, Effect!Spec, AlertsAreOneEffect

-----------------------------------------------------------------------------
(* The leases of every step *)

\* A queue loses its first row, or all of them, or none.
Shrinks(w) ==
    \/ lane'[w].queue = lane[w].queue
    \/ lane[w].queue # <<>> /\ lane'[w].queue = Tail(lane[w].queue)
    \/ lane'[w].queue = <<>>

LEMMA TailPlaces ==
  ASSUME LaneTyped, NEW w \in Worker, lane[w].queue # <<>>,
         NEW j \in DOMAIN Tail(lane[w].queue)
  PROVE  /\ j + 1 \in DOMAIN lane[w].queue /\ j + 1 # 1 /\ j \in Nat
         /\ Tail(lane[w].queue)[j] = lane[w].queue[j + 1]
<1> DEFINE q == lane[w].queue
<1>1. q \in Seq(Claimed) /\ q # <<>>
  BY LaneParts, QueueIsSeq DEF LaneTyped
<1> HIDE DEF q
<1>2. j \in DOMAIN Tail(q)
  BY DEF q
<1>3. Len(q) \in Nat /\ DOMAIN q = 1 .. Len(q) /\ DOMAIN Tail(q) = 1 .. (Len(q) - 1)
  BY <1>1
<1>4. j \in 1 .. (Len(q) - 1)
  BY <1>2, <1>3
<1>5. Tail(q)[j] = q[j + 1]
  BY <1>1, <1>4
<1> QED
  BY <1>3, <1>4, <1>5 DEF q

LEMMA ShrunkPlaces ==
  ASSUME LaneTyped, NEW w \in Worker, OnlyLane(w), Shrinks(w), NEW n, OnePlace(n)
  PROVE  /\ OnePlace(n)'
         /\ \A v \in Worker : InQueue(v, n)' => InQueue(v, n)
\* A place of the new queue is a place of the old one.
<1> DEFINE Shift == IF lane'[w].queue = lane[w].queue THEN 0 ELSE 1
           Old(v, j) == IF v = w THEN j + Shift ELSE j
<1>1. ASSUME NEW v \in Worker, NEW j \in DOMAIN lane'[v].queue
      PROVE  /\ Old(v, j) \in DOMAIN lane[v].queue /\ j \in Nat
             /\ lane'[v].queue[j] = lane[v].queue[Old(v, j)]
  <2>0. lane[v].queue \in Seq(Claimed)
    BY LaneParts, QueueIsSeq DEF LaneTyped
  <2>1. CASE lane'[v].queue = lane[v].queue
    <3>1. j \in DOMAIN lane[v].queue /\ j \in Nat
      BY <2>0, <2>1
    <3>2. Old(v, j) = j
      BY <2>1, <3>1
    <3> QED
      BY <2>1, <3>1, <3>2
  <2>2. CASE lane'[v].queue # lane[v].queue
    <3>1. v = w
      BY <2>2 DEF OnlyLane
    <3>2. lane'[w].queue # <<>>
      BY <3>1
    <3>3. lane[w].queue # <<>> /\ lane'[w].queue = Tail(lane[w].queue)
      BY <2>2, <3>1, <3>2 DEF Shrinks
    <3>4. Old(v, j) = j + 1
      BY <2>2, <3>1
    <3> QED
      BY <3>1, <3>3, <3>4, TailPlaces
  <2> QED
    BY <2>1, <2>2
<1>2. ASSUME NEW u \in Worker, NEW v \in Worker,
             NEW j \in DOMAIN lane'[u].queue, NEW k \in DOMAIN lane'[v].queue,
             lane'[u].queue[j].note = n, lane'[v].queue[k].note = n
      PROVE  u = v /\ j = k
  <2>1. u = v /\ Old(u, j) = Old(v, k)
    BY <1>1, <1>2 DEF OnePlace
  <2>2. j \in Nat /\ k \in Nat
    BY <1>1
  <2> QED
    BY <2>1, <2>2
<1>3. ASSUME NEW v \in Worker, InQueue(v, n)' PROVE InQueue(v, n)
  BY <1>1, <1>3 DEF InQueue
<1> QED
  BY <1>2, <1>3 DEF OnePlace

\* The row a worker has done with is in no batch any more.
LEMMA TailLeaves ==
  ASSUME LaneTyped, NEW w \in Worker, lane[w].queue # <<>>, OnlyLane(w),
         lane'[w].queue = Tail(lane[w].queue), NEW n, n = Current(w), OnePlace(n)
  PROVE  \A v \in Worker : ~InQueue(v, n)'
<1>1. 1 \in DOMAIN lane[w].queue /\ lane[w].queue[1].note = n
  BY CurrentTyped DEF Current
<1>2. ASSUME NEW v \in Worker, v # w PROVE ~InQueue(v, n)'
  BY <1>1, <1>2 DEF InQueue, OnePlace, OnlyLane
<1>3. ASSUME InQueue(w, n)' PROVE FALSE
  <2>1. PICK j \in DOMAIN Tail(lane[w].queue) : Tail(lane[w].queue)[j].note = n
    BY <1>3 DEF InQueue
  <2>2. /\ j + 1 \in DOMAIN lane[w].queue /\ j + 1 # 1
        /\ Tail(lane[w].queue)[j] = lane[w].queue[j + 1]
    BY TailPlaces
  <2> QED
    BY <1>1, <2>1, <2>2 DEF OnePlace
<1> QED
  BY <1>2, <1>3

\* A step that leaves a row to whom it belonged.
LEMMA LeaseKept ==
  ASSUME LaneTyped, NEW w \in Worker, OnlyLane(w), Shrinks(w), NEW n, Lease(n),
         row'[n].status = row[n].status, row'[n].owner = row[n].owner,
         delivered'[n] = delivered[n],
         InQueue(w, n)' => (Sending(w, n)' <=> Sending(w, n))
  PROVE  Lease(n)'
<1>1. OnePlace(n)' /\ \A v \in Worker : InQueue(v, n)' => InQueue(v, n)
  BY ShrunkPlaces DEF Lease
<1>2. ASSUME NEW v \in Worker, InQueue(v, n)' PROVE OwnRow(v, n)'
  <2>1. OwnRow(v, n)
    BY <1>1, <1>2 DEF Lease
  <2>2. Sending(v, n)' <=> Sending(v, n)
    BY <1>2 DEF Sending, Current, OnlyLane
  <2> QED
    BY <2>1, <2>2 DEF OwnRow
<1>3. delivered'[n] > 0 => TakenRow(n)'
  BY DEF Lease, TakenRow
<1> QED
  BY <1>1, <1>2, <1>3 DEF Lease

\* A worker has marked its row and goes on.
LEMMA MarkLease ==
  ASSUME Typed, Leases, NEW w \in Worker, lane[w].step \notin {"idle", "claim"},
         NEW n \in Note, n = Current(w), OnlyRow(n), NextRow(w),
         UNCHANGED <<delivered, overtaken>>,
         n \notin overtaken /\ delivered[n] > 0 => TakenRow(n)'
  PROVE  Leases'
<1>1. LaneTyped /\ lane[w].queue # <<>>
  BY AtWork
<1>2. /\ OnlyLane(w) /\ lane'[w].queue = Tail(lane[w].queue)
      /\ lane'[w].step \notin SendingStep
  <2>1. /\ OnlyLane(w) /\ lane'[w].queue = Tail(lane[w].queue)
        /\ lane'[w].step \in {"check", "idle"}
    BY <1>1, NextLane
  <2> QED
    BY <2>1 DEF SendingStep
<1>3. Shrinks(w)
  BY <1>1, <1>2 DEF Shrinks
<1>4. ASSUME NEW m \in Note \ overtaken PROVE Lease(m)'
  <2>1. Lease(m)
    BY DEF Leases
  <2>2. CASE m = n
    <3>1. \A v \in Worker : ~InQueue(v, n)'
      BY <1>1, <1>2, <2>1, <2>2, TailLeaves DEF Lease
    <3>2. OnePlace(n)'
      BY <1>1, <1>2, <1>3, <2>1, <2>2, ShrunkPlaces DEF Lease
    <3> QED
      BY <2>2, <3>1, <3>2 DEF Lease
  <2>3. CASE m # n
    <3>1. ~Sending(w, m) /\ ~Sending(w, m)'
      BY <1>2, <2>3 DEF Sending
    <3> QED
      BY <1>1, <1>2, <1>3, <2>1, <2>3, <3>1, LeaseKept DEF OnlyRow
  <2> QED
    BY <2>2, <2>3
<1> QED
  BY <1>4 DEF Leases

\* A worker that only moves on: its rows stay as they were.
LEMMA MoveLease ==
  ASSUME Typed, Leases, NEW w \in Worker, OnlyLane(w), Shrinks(w),
         \A n \in Note : row'[n].status = row[n].status /\ row'[n].owner = row[n].owner,
         UNCHANGED <<delivered, overtaken>>,
         \A n : InQueue(w, n)' => (Sending(w, n)' <=> Sending(w, n))
  PROVE  Leases'
<1>1. LaneTyped
  BY TypedParts
<1>2. ASSUME NEW n \in Note \ overtaken PROVE Lease(n)'
  BY <1>1, LeaseKept DEF Leases
<1> QED
  BY <1>2 DEF Leases

LEMMA QuietMarkLease ==
  ASSUME Typed, Attempts, Leases, NEW w \in Worker,
         lane[w].step \notin SendingStep \cup {"idle", "claim"},
         NEW from, "CANCELLED" \notin from, NEW status \in {"SKIPPED", "FAILED"},
         row' = Marked(Current(w), from, status, "never"), NextRow(w),
         UNCHANGED <<delivered, overtaken>>
  PROVE  Leases'
<1>1. Current(w) \in Note /\ RowTyped /\ InQueue(w, Current(w))
  BY AtWork
<1>2. PICK n \in Note : n = Current(w)
  BY <1>1
<1>3. status \in Status
  BY DEF Status, Closed
<1>4. OnlyRow(n) /\ (row[n].status \notin from => row'[n] = row[n])
  BY <1>1, <1>2, <1>3, MarkedRow
<1>5. ASSUME n \notin overtaken, delivered[n] > 0 PROVE TakenRow(n)'
  <2>1. OwnRow(w, n) /\ TakenRow(n)
    BY <1>1, <1>2, <1>5 DEF Leases, Lease
  <2>2. row[n].status = "CANCELLED"
    BY <2>1 DEF OwnRow, TakenRow, Sending
  <2> QED
    BY <1>4, <2>1, <2>2 DEF TakenRow
<1> QED
  BY <1>2, <1>4, <1>5, MarkLease

LEMMA MarkRowLease ==
  ASSUME Typed, Attempts, Leases, NEW w \in Worker, NEW s \in SendingStep,
         NEW status \in Status, NEW due \in {"now", "later", "never"},
         MarkRow(w, s, status, due),
         status = "FAILED" => DeliveredAt(s) = {0},
         status # "FAILED" => status \in Done \cup {"RECONCILIATION_REQUIRED"}
  PROVE  Leases'
<1>1. lane[w].step = s /\ NextRow(w) /\ UNCHANGED <<delivered, overtaken>>
  BY DEF MarkRow, At
<1>2. Current(w) \in Note /\ RowTyped /\ InQueue(w, Current(w))
  BY <1>1, SenderAtWork
<1>3. PICK n \in Note : n = Current(w)
  BY <1>2
<1>4. /\ OnlyRow(n)
      /\ row[n].status \in Held => row'[n].status = status
      /\ row[n].status \notin Held => row'[n] = row[n]
  BY <1>2, <1>3, MarkedRow DEF MarkRow
<1>5. delivered[n] \in DeliveredAt(s)
  BY <1>1, <1>3 DEF Attempts, SenderFits
<1>6. ASSUME n \notin overtaken, delivered[n] > 0 PROVE TakenRow(n)'
  <2>1. TakenRow(n)
    BY <1>6 DEF Leases, Lease
  <2>2. status # "FAILED"
    BY <1>5, <1>6
  <2> QED
    BY <1>4, <2>1, <2>2 DEF TakenRow, Done
<1> QED
  BY <1>1, <1>3, <1>4, <1>6, MarkLease DEF SendingStep

LEMMA BeginLease ==
  ASSUME Typed, Attempts, Leases, NEW w \in Worker, BeginSendAttempt(w)
  PROVE  Leases'
<1>1. At(w, "begin") /\ MayBegin(w) /\ Goto(w, "call") /\ UNCHANGED <<delivered, overtaken>>
  BY DEF BeginSendAttempt
<1>2. /\ Current(w) \in Note /\ RowTyped /\ LaneTyped /\ InQueue(w, Current(w))
  BY <1>1, AtWork DEF At
<1>3. PICK n \in Note : n = Current(w)
  BY <1>2
<1>4. row' = [row EXCEPT ![n].status = "SEND_STARTED", ![n].attempt = "STARTED"]
  BY <1>3 DEF BeginSendAttempt
<1>5. OnlyLane(w) /\ lane'[w].step = "call" /\ lane'[w].queue = lane[w].queue
  BY <1>1, <1>2, GotoLane DEF Step, SendingStep
<1>6. /\ OnlyRow(n) /\ row'[n].status = "SEND_STARTED" /\ row'[n].owner = row[n].owner
      /\ row[n].owner = w
  BY <1>1, <1>2, <1>3, <1>4 DEF OnlyRow, RowTyped, Row, MayBegin
<1>7. Shrinks(w)
  BY <1>5 DEF Shrinks
<1>8. ASSUME NEW m \in Note \ overtaken PROVE Lease(m)'
  <2>1. Lease(m)
    BY DEF Leases
  <2>2. CASE m = n
    <3>1. OnePlace(n)' /\ \A v \in Worker : InQueue(v, n)' => InQueue(v, n)
      BY <1>2, <1>5, <1>7, <2>1, <2>2, ShrunkPlaces DEF Lease
    <3>2. ASSUME NEW v \in Worker, InQueue(v, n)' PROVE v = w
      BY <1>2, <1>3, <2>1, <2>2, <3>1, <3>2 DEF Lease, OnePlace, InQueue
    <3>3. Sending(w, n)'
      BY <1>3, <1>5 DEF Sending, Current, SendingStep
    <3>4. \A v \in Worker : InQueue(v, n)' => OwnRow(v, n)'
      BY <1>6, <3>2, <3>3 DEF OwnRow
    <3> QED
      BY <1>6, <2>2, <3>1, <3>4 DEF Lease, TakenRow
  <2>3. CASE m # n
    <3>1. ~Sending(w, m) /\ ~Sending(w, m)'
      BY <1>3, <1>5, <2>3 DEF Sending, Current
    <3> QED
      BY <1>1, <1>2, <1>5, <1>6, <1>7, <2>1, <2>3, <3>1, LeaseKept DEF OnlyRow
  <2> QED
    BY <2>2, <2>3
<1> QED
  BY <1>1, <1>8 DEF Leases

LEMMA ProviderLease ==
  ASSUME Typed, Attempts, Leases, NEW w \in Worker, ProviderAccepts(w)
  PROVE  Leases'
<1>1. lane[w].step = "call" /\ lane[w].step \in SendingStep
  BY DEF ProviderAccepts, At, SendingStep
<1>2. Current(w) \in Note /\ LaneTyped /\ InQueue(w, Current(w))
  BY <1>1, SenderAtWork
<1>3. PICK n \in Note : n = Current(w)
  BY <1>2
<1>4. Goto(w, "taken") /\ UNCHANGED <<row, overtaken>>
      /\ delivered' = [delivered EXCEPT ![n] = @ + 1]
  BY <1>3 DEF ProviderAccepts
<1>5. OnlyLane(w) /\ lane'[w].step = "taken" /\ lane'[w].queue = lane[w].queue
  BY <1>2, <1>4, GotoLane DEF Step, SendingStep
<1>6. Shrinks(w)
  BY <1>5 DEF Shrinks
<1>7. ASSUME NEW m \in Note PROVE \A v \in Worker : Sending(v, m)' <=> Sending(v, m)
  BY <1>1, <1>5 DEF Sending, Current, OnlyLane, SendingStep
<1>8. ASSUME NEW m \in Note \ overtaken PROVE Lease(m)'
  <2>1. Lease(m)
    BY DEF Leases
  <2>2. CASE m = n
    <3>1. OnePlace(n)' /\ \A v \in Worker : InQueue(v, n)' => InQueue(v, n)
      BY <1>2, <1>5, <1>6, <2>1, <2>2, ShrunkPlaces DEF Lease
    <3>2. ASSUME NEW v \in Worker, InQueue(v, n)' PROVE OwnRow(v, n)'
      <4>1. OwnRow(v, n)
        BY <2>1, <2>2, <3>1, <3>2 DEF Lease
      <4> QED
        BY <1>4, <1>7, <4>1 DEF OwnRow
    <3>3. TakenRow(n)'
      <4>1. OwnRow(w, n) /\ Sending(w, n)
        BY <1>1, <1>2, <1>3, <2>1, <2>2 DEF Lease, Sending
      <4> QED
        BY <1>4, <4>1 DEF OwnRow, TakenRow
    <3> QED
      BY <2>2, <3>1, <3>2, <3>3 DEF Lease
  <2>3. CASE m # n
    BY <1>2, <1>4, <1>5, <1>6, <1>7, <2>1, <2>3, LeaseKept
  <2> QED
    BY <2>2, <2>3
<1> QED
  BY <1>4, <1>8 DEF Leases

LEMMA ClaimLease ==
  ASSUME Typed, Leases, NEW w \in Worker, NEW n \in Note, ClaimNextOne(w, n)
  PROVE  Leases'
<1>1. row \in [Note -> Row] /\ lane \in [Worker -> Lane]
  BY TypedParts DEF RowTyped, LaneTyped
<1>2. UNCHANGED <<delivered, overtaken>> /\ lane[w].step = "claim" /\ Claimable(n)
  BY DEF ClaimNextOne, At
<1>3. OnlyRow(n) /\ row'[n].status = "PROCESSING" /\ row'[n].owner = w
  BY <1>1 DEF ClaimNextOne, OnlyRow, Row
<1> DEFINE c == [note |-> n, attempt |-> row[n].attempts + 1]
           q == lane[w].queue
<1>4. OnlyLane(w) /\ lane'[w].step = "claim" /\ lane'[w].queue = Append(q, c)
  BY <1>1, <1>2 DEF ClaimNextOne, OnlyLane, Lane
<1>5. q \in Seq(Claimed)
  BY <1>1, LaneParts, QueueIsSeq
<1>6. c.note = n
  OBVIOUS
<1> HIDE DEF c
<1>7. /\ DOMAIN lane'[w].queue = DOMAIN q \cup {Len(q) + 1}
      /\ lane'[w].queue[Len(q) + 1].note = n
      /\ \A j \in DOMAIN q : lane'[w].queue[j] = q[j]
  BY <1>4, <1>5, <1>6
<1> HIDE DEF q
<1>8. ASSUME NEW v \in Worker PROVE ~Sending(v, n) \/ v # w
  BY <1>2 DEF Sending, SendingStep
<1>9. ASSUME NEW m \in Note \ overtaken PROVE Lease(m)'
  <2>1. Lease(m)
    BY DEF Leases
  <2>2. CASE m = n
    <3>1. \A v \in Worker : ~InQueue(v, n)
      BY <1>2, <2>1, <2>2 DEF Lease, OwnRow, Claimable
    <3>2. \A v \in Worker : \A j \in DOMAIN lane[v].queue : lane[v].queue[j].note # n
      BY <3>1 DEF InQueue
    <3>3. ASSUME NEW v \in Worker, NEW j \in DOMAIN lane'[v].queue,
                 lane'[v].queue[j].note = n
          PROVE  v = w /\ j = Len(q) + 1
      BY <1>4, <1>7, <3>2, <3>3 DEF OnlyLane, q
    <3>4. OnePlace(n)'
      BY <3>3 DEF OnePlace
    <3>5. ASSUME NEW v \in Worker, InQueue(v, n)' PROVE OwnRow(v, n)'
      <4>1. v = w
        BY <3>3, <3>5 DEF InQueue
      <4>2. ~Sending(w, n)'
        BY <1>4 DEF Sending, SendingStep
      <4> QED
        BY <1>3, <4>1, <4>2 DEF OwnRow
    <3>6. ~(delivered[n] > 0)
      BY <1>2, <2>1, <2>2 DEF Lease, TakenRow, Claimable
    <3> QED
      BY <1>2, <2>2, <3>4, <3>5, <3>6 DEF Lease
  <2>3. CASE m # n
    <3>1. row'[m] = row[m]
      BY <1>3, <2>3 DEF OnlyRow
    <3>2. ASSUME NEW v \in Worker, NEW j \in DOMAIN lane'[v].queue,
                 lane'[v].queue[j].note = m
          PROVE  j \in DOMAIN lane[v].queue /\ lane[v].queue[j].note = m
      BY <1>4, <1>7, <2>3, <3>2 DEF OnlyLane, q
    <3>3. OnePlace(m)'
      BY <2>1, <3>2 DEF OnePlace, Lease
    <3>4. ASSUME NEW v \in Worker, InQueue(v, m)' PROVE OwnRow(v, m)'
      <4>1. OwnRow(v, m)
        BY <2>1, <3>2, <3>4 DEF Lease, InQueue
      <4>2. Sending(v, m)' <=> Sending(v, m)
        BY <1>2, <1>4 DEF Sending, Current, OnlyLane, SendingStep
      <4> QED
        BY <3>1, <4>1, <4>2 DEF OwnRow
    <3> QED
      BY <1>2, <2>1, <3>1, <3>3, <3>4 DEF Lease, TakenRow
  <2> QED
    BY <2>2, <2>3
<1> QED
  BY <1>2, <1>9 DEF Leases

\* Lanes stay and so do the rows, but for one.
LEMMA NoteLease ==
  ASSUME Leases, NEW n \in Note, OnlyRow(n), UNCHANGED <<lane, delivered>>,
         overtaken \subseteq overtaken',
         n \notin overtaken' =>
           /\ \A w \in Worker : InQueue(w, n) /\ OwnRow(w, n) => OwnRow(w, n)'
           /\ delivered[n] > 0 /\ TakenRow(n) => TakenRow(n)'
  PROVE  Leases'
<1>1. ASSUME NEW m, NEW w \in Worker
      PROVE  /\ InQueue(w, m)' <=> InQueue(w, m)
             /\ Sending(w, m)' <=> Sending(w, m)
             /\ OnePlace(m)' <=> OnePlace(m)
  BY DEF InQueue, Sending, Current, OnePlace
<1>2. ASSUME NEW m \in Note \ overtaken' PROVE Lease(m)'
  <2>1. Lease(m)
    BY DEF Leases
  <2>2. OnePlace(m)'
    BY <2>1 DEF Lease, OnePlace
  <2>3. CASE m = n
    BY <1>1, <2>1, <2>2, <2>3 DEF Lease
  <2>4. CASE m # n
    <3>1. row'[m] = row[m]
      BY <2>4 DEF OnlyRow
    <3> QED
      BY <1>1, <2>1, <2>2, <3>1 DEF Lease, OwnRow, TakenRow
  <2> QED
    BY <2>3, <2>4
<1> QED
  BY <1>2 DEF Leases

LEMMA NotesLease ==
  ASSUME Typed, Leases, NEW n \in Note,
         \/ Enqueue(n) \/ BecomeBlocked(n) \/ Lapse(n) \/ LapseOfDead(n)
         \/ RetryFallsDue(n) \/ Recover(n)
  PROVE  Leases'
<1>1. row \in [Note -> Row]
  BY TypedParts DEF RowTyped
<1>2. ASSUME OnlyRow(n), UNCHANGED <<lane, delivered, overtaken>>,
             row'[n].status = row[n].status, row'[n].owner = row[n].owner
      PROVE  Leases'
  <2>1. \A w \in Worker : OwnRow(w, n) => OwnRow(w, n)'
    BY <1>2 DEF OwnRow, Sending, Current
  <2>2. TakenRow(n) => TakenRow(n)'
    BY <1>2 DEF TakenRow
  <2> QED
    BY <1>2, <2>1, <2>2, NoteLease
<1>3. CASE Enqueue(n)
  <2>1. /\ OnlyRow(n) /\ UNCHANGED <<lane, delivered, overtaken>>
        /\ row[n].status = "ABSENT"
    BY <1>1, <1>3 DEF Enqueue, OnlyRow
  <2>2. \A w \in Worker : ~OwnRow(w, n)
    BY <2>1 DEF OwnRow
  <2>3. ~TakenRow(n)
    BY <2>1 DEF TakenRow
  <2> QED
    BY <2>1, <2>2, <2>3, NoteLease
<1>4. CASE BecomeBlocked(n)
  BY <1>1, <1>2, <1>4 DEF BecomeBlocked, OnlyRow
<1>5. CASE Lapse(n)
  BY <1>1, <1>2, <1>5 DEF Lapse, OnlyRow, Row
<1>6. CASE LapseOfDead(n)
  BY <1>1, <1>2, <1>6 DEF LapseOfDead, OnlyRow, Row
<1>7. CASE RetryFallsDue(n)
  BY <1>1, <1>2, <1>7 DEF RetryFallsDue, OnlyRow, Row
<1>8. CASE Recover(n)
  <2>1. /\ OnlyRow(n) /\ UNCHANGED <<lane, delivered>>
        /\ row'[n].status = SweptStatus(n) /\ row[n].status \in Held
    BY <1>1, <1>8 DEF Recover, OnlyRow, Row
  <2>2. overtaken \subseteq overtaken'
        /\ (n \notin overtaken' => \A w \in Worker : ~InQueue(w, n))
    BY <1>8 DEF Recover
  <2>3. TakenRow(n) => TakenRow(n)'
    BY <2>1 DEF TakenRow, Held, SweptStatus
  <2> QED
    BY <2>1, <2>2, <2>3, NoteLease
<1> QED
  BY <1>3, <1>4, <1>5, <1>6, <1>7, <1>8

LEMMA CutOverLease == ASSUME Typed, Leases, CutOver PROVE Leases'
<1>1. row \in [Note -> Row] /\ UNCHANGED <<lane, delivered, overtaken>>
  BY TypedParts DEF CutOver, RowTyped
<1>2. ASSUME NEW n \in Note
      PROVE  row'[n].status = "CANCELLED" \/ row'[n] = row[n]
  BY <1>1 DEF CutOver, Row
<1>3. ASSUME NEW n \in Note \ overtaken PROVE Lease(n)'
  <2>1. Lease(n)
    BY DEF Leases
  <2>2. OnePlace(n)'
    BY <1>1, <2>1 DEF Lease, OnePlace
  <2>3. ASSUME NEW w \in Worker, InQueue(w, n)' PROVE OwnRow(w, n)'
    BY <1>1, <1>2, <2>1, <2>3 DEF Lease, OwnRow, InQueue, Sending, Current
  <2>4. delivered'[n] > 0 => TakenRow(n)'
    BY <1>1, <1>2, <2>1 DEF Lease, TakenRow
  <2> QED
    BY <2>2, <2>3, <2>4 DEF Lease
<1> QED
  BY <1>1, <1>3 DEF Leases

LEMMA WorkLease ==
  ASSUME Typed, Attempts, Leases, NEW w \in Worker,
         StartBatch(w) \/ Work(w) \/ AcceptanceNotStored(w) \/ BatchDies(w)
  PROVE  Leases'
<1>1. LaneTyped
  BY TypedParts
\* A step of a worker that leaves its queue and its rows alone.
<1>2. ASSUME NEW t \in Step, Goto(w, t), UNCHANGED <<delivered, overtaken>>,
             \A n \in Note : row'[n].status = row[n].status /\ row'[n].owner = row[n].owner,
             t \in SendingStep <=> lane[w].step \in SendingStep
      PROVE  Leases'
  <2>1. OnlyLane(w) /\ lane'[w].step = t /\ lane'[w].queue = lane[w].queue
    BY <1>1, <1>2, GotoLane
  <2>2. Shrinks(w) /\ \A n : Sending(w, n)' <=> Sending(w, n)
    BY <1>2, <2>1 DEF Shrinks, Sending, Current
  <2> QED
    BY <1>2, <2>1, <2>2, MoveLease
<1>3. CASE StartBatch(w)
  BY <1>2, <1>3 DEF StartBatch, At, Step, SendingStep
<1>4. CASE EndOfClaims(w)
  BY <1>2, <1>4 DEF EndOfClaims, At, Step, SendingStep
<1>5. CASE CheckGone(w)
  BY <1>5, QuietMarkLease DEF CheckGone, At, SendingStep, Held
<1>6. CASE CheckSuppressed(w)
  BY <1>6, QuietMarkLease DEF CheckSuppressed, At, SendingStep, Held
<1>7. CASE CheckBroken(w)
  BY <1>7, QuietMarkLease DEF CheckBroken, At, SendingStep, Held
<1>8. CASE FailLostRow(w)
  BY <1>8, QuietMarkLease DEF FailLostRow, At, SendingStep, Held
<1>9. CASE CheckPasses(w)
  BY <1>2, <1>9 DEF CheckPasses, At, Step, SendingStep
<1>10. CASE BeginLost(w)
  BY <1>2, <1>10 DEF BeginLost, At, Step, SendingStep
<1>11. CASE AnswerArrives(w)
  BY <1>2, <1>11 DEF AnswerArrives, At, Step, SendingStep
<1>12. CASE AnswerLost(w)
  BY <1>2, <1>12 DEF AnswerLost, Step, SendingStep
<1>13. CASE ProviderRefuses(w)
  BY <1>2, <1>13 DEF ProviderRefuses, At, Step, SendingStep
<1>14. CASE AcceptedOfNoRow(w)
  BY <1>2, <1>14 DEF AcceptedOfNoRow, At, Step, SendingStep
<1>15. CASE AcceptanceNotStored(w)
  BY <1>2, <1>15 DEF AcceptanceNotStored, Step, SendingStep
<1>16. CASE BatchDies(w)
  <2>1. OnlyLane(w) /\ lane'[w].queue = <<>> /\ UNCHANGED <<row, delivered, overtaken>>
    BY <1>1, <1>16 DEF BatchDies, OnlyLane, LaneTyped
  <2>2. Shrinks(w) /\ \A n : ~InQueue(w, n)'
    BY <2>1 DEF Shrinks, InQueue
  <2> QED
    BY <2>1, <2>2, MoveLease
<1>17. ASSUME NEW s \in SendingStep, NEW a, NEW t \in SendingStep, MarkAttempt(w, s, a, t)
       PROVE  Leases'
  <2>1. row \in [Note -> Row] /\ Current(w) \in Note
    BY <1>17, SenderAtWork DEF MarkAttempt, At, RowTyped
  <2>2. \A n \in Note : row'[n].status = row[n].status /\ row'[n].owner = row[n].owner
    BY <1>17, <2>1 DEF MarkAttempt, Row
  <2> QED
    BY <1>2, <1>17, <2>2 DEF MarkAttempt, At, Step, SendingStep
<1>18. CASE MarkSendAttempt(w)
  BY <1>17, <1>18 DEF MarkSendAttempt, SendingStep
<1>19. CASE MarkNotification(w)
  <2>1. ASSUME NEW s \in {"acceptRow", "recoverRow", "doubtRow"},
               NEW status \in Done \cup {"RECONCILIATION_REQUIRED"}, MarkRow(w, s, status, "never")
        PROVE  Leases'
    BY <2>1, MarkRowLease DEF SendingStep, Status, Closed, Done
  <2>2. ASSUME NEW s \in {"retryRow", "refuseRow"}, NEW due \in {"later", "never"},
               MarkRow(w, s, "FAILED", due)
        PROVE  Leases'
    BY <2>2, MarkRowLease DEF SendingStep, Status, DeliveredAt
  <2> QED
    BY <1>14, <1>19, <2>1, <2>2 DEF MarkNotification, MarkSendAccepted, Done
<1> QED
  BY <1>3, <1>4, <1>5, <1>6, <1>7, <1>8, <1>9, <1>10, <1>11, <1>12, <1>13, <1>15, <1>16,
     <1>18, <1>19, BeginLease, ProviderLease, ClaimLease DEF Work

LEMMA NextLeases == Typed /\ Attempts /\ Leases /\ [Next]_vars => Leases'
<1> SUFFICES ASSUME Typed, Attempts, Leases, [Next]_vars PROVE Leases'
  OBVIOUS
<1>1. ASSUME UNCHANGED <<row, lane, delivered, overtaken>> PROVE Leases'
  BY <1>1 DEF Leases, Lease, OnePlace, InQueue, OwnRow, Sending, Current, TakenRow
<1>2. CASE CutOverCommits
  BY <1>1, <1>2 DEF CutOverCommits
<1>3. CASE CutBack
  BY <1>1, <1>3 DEF CutBack
<1>4. CASE UNCHANGED vars
  BY <1>1, <1>4 DEF vars
<1> QED
  BY <1>2, <1>3, <1>4, NotesLease, WorkLease, CutOverLease DEF Next

LEMMA InitLeases == Init => Leases
<1> SUFFICES ASSUME Init PROVE Leases
  OBVIOUS
<1>1. \A w \in Worker : lane[w].queue = <<>>
  BY DEF Init
<1>2. \A w \in Worker : DOMAIN lane[w].queue = {}
  BY <1>1
<1>3. ASSUME NEW n \in Note PROVE OnePlace(n) /\ \A w \in Worker : ~InQueue(w, n)
  BY <1>2 DEF OnePlace, InQueue
<1>4. \A n \in Note : ~(delivered[n] > 0)
  BY DEF Init
<1> QED
  BY <1>3, <1>4 DEF Leases, Lease

\* A row that no sweep has overtaken is in one place of one batch, and stays
\* its worker's from the claim to the mark.
THEOREM LeasesHold == Spec => []Leases
<1>1. Typed /\ Attempts /\ Leases /\ [Next]_vars => Leases'
  BY NextLeases
<1> QED
  BY <1>1, InitLeases, TypeCorrect, AttemptsAreOrdered, PTL DEF Spec

\* A row says FAILED, SKIPPED or PENDING of a message the provider accepted
\* only if its lease was swept while its worker was still at it.
THEOREM AcceptedStands == Spec => []AcceptedIsNotDenied
<1>1. Leases => AcceptedIsNotDenied
  BY DEF Leases, Lease, TakenRow, AcceptedIsNotDenied
<1> QED
  BY <1>1, LeasesHold, PTL

-----------------------------------------------------------------------------
(* The cutover at every step *)

\* How the status of a row may move.
StatusStory(n) ==
    \/ row'[n].status = row[n].status
    \/ Enqueue(n)
    \/ /\ row[n].status \notin Closed \cup {"ABSENT"}
       /\ row'[n].status \notin {"ABSENT", "SEND_STARTED"}
    \/ row[n].status = "RECONCILIATION_REQUIRED" /\ row'[n].status = "CANCELLED"
    \/ \E w \in Worker : BeginSendAttempt(w) /\ n = Current(w)

\* A row comes into a batch by a claim, and to its send by the checks.
LaneStory(w) ==
    /\ \A n \in Note : InQueue(w, n)' => InQueue(w, n) \/ ClaimNextOne(w, n)
    /\ At(w, "begin")' =>
         Current(w)' = Current(w) /\ (At(w, "begin") \/ CheckPasses(w))

LEMMA MarkStory ==
  ASSUME Typed, NEW w \in Worker, lane[w].step \notin {"idle", "claim"},
         NEW from \in SUBSET (Held \cup {"PENDING", "FAILED"}),
         NEW status \in Status \ {"ABSENT", "SEND_STARTED"},
         NEW due \in {"now", "later", "never"},
         row' = Marked(Current(w), from, status, due), NEW n \in Note
  PROVE  StatusStory(n)
<1>1. Current(w) \in Note /\ RowTyped
  BY AtWork
<1>2. /\ OnlyRow(Current(w))
      /\ row[Current(w)].status \in from => row'[Current(w)].status = status
      /\ row[Current(w)].status \notin from => row'[Current(w)] = row[Current(w)]
  BY <1>1, MarkedRow
<1>3. CASE n = Current(w) /\ row[n].status \in from
  BY <1>2, <1>3 DEF StatusStory, Held, Closed
<1>4. CASE n = Current(w) /\ row[n].status \notin from
  BY <1>2, <1>4 DEF StatusStory
<1>5. CASE n # Current(w)
  BY <1>2, <1>5 DEF StatusStory, OnlyRow
<1> QED
  BY <1>3, <1>4, <1>5

LEMMA WorkStory ==
  ASSUME Typed, NEW w \in Worker,
         StartBatch(w) \/ Work(w) \/ AcceptanceNotStored(w) \/ BatchDies(w),
         NEW n \in Note
  PROVE  StatusStory(n)
<1>1. row \in [Note -> Row]
  BY TypedParts DEF RowTyped
<1>2. ASSUME UNCHANGED row PROVE StatusStory(n)
  BY <1>2 DEF StatusStory
<1>3. CASE \E m \in Note : ClaimNextOne(w, m)
  BY <1>1, <1>3 DEF ClaimNextOne, Claimable, StatusStory, Row, Closed
<1>4. CASE CheckGone(w)
  BY <1>4, MarkStory DEF CheckGone, At, Status, Closed
<1>5. CASE CheckSuppressed(w)
  BY <1>5, MarkStory DEF CheckSuppressed, At, Status, Closed
<1>6. CASE CheckBroken(w)
  BY <1>6, MarkStory DEF CheckBroken, At, Status
<1>7. CASE FailLostRow(w)
  BY <1>7, MarkStory DEF FailLostRow, At, Status
<1>8. CASE BeginSendAttempt(w)
  <2>1. CASE n = Current(w)
    BY <1>8, <2>1 DEF StatusStory
  <2>2. CASE n # Current(w)
    BY <1>1, <1>8, <2>2 DEF StatusStory, BeginSendAttempt
  <2> QED
    BY <2>1, <2>2
<1>9. ASSUME NEW s, NEW a, NEW t, MarkAttempt(w, s, a, t) PROVE StatusStory(n)
  BY <1>1, <1>9 DEF MarkAttempt, StatusStory, Row
<1>10. CASE MarkSendAttempt(w)
  BY <1>9, <1>10 DEF MarkSendAttempt
<1>11. ASSUME NEW s \in SendingStep, NEW status \in Status \ {"ABSENT", "SEND_STARTED"},
              NEW due \in {"now", "later", "never"}, MarkRow(w, s, status, due)
       PROVE  StatusStory(n)
  BY <1>11, MarkStory DEF MarkRow, At, SendingStep
<1>12. CASE MarkNotification(w)
  <2>1. CASE AcceptedOfNoRow(w)
    BY <1>2, <2>1 DEF AcceptedOfNoRow
  <2> QED
    BY <1>11, <1>12, <2>1 DEF MarkNotification, MarkSendAccepted, SendingStep, Status, Closed
<1>13. CASE \/ StartBatch(w) \/ EndOfClaims(w) \/ CheckPasses(w) \/ BeginLost(w)
            \/ ProviderAccepts(w) \/ AnswerArrives(w) \/ AnswerLost(w) \/ ProviderRefuses(w)
            \/ AcceptanceNotStored(w) \/ BatchDies(w)
  BY <1>2, <1>13 DEF StartBatch, EndOfClaims, CheckPasses, BeginLost, ProviderAccepts,
     AnswerArrives, AnswerLost, ProviderRefuses, AcceptanceNotStored, BatchDies
<1> QED
  BY <1>3, <1>4, <1>5, <1>6, <1>7, <1>8, <1>10, <1>12, <1>13 DEF Work

LEMMA NextStatus ==
  ASSUME Typed, [Next]_vars, NEW n \in Note
  PROVE  StatusStory(n)
<1>1. row \in [Note -> Row]
  BY TypedParts DEF RowTyped
<1>2. ASSUME UNCHANGED row PROVE StatusStory(n)
  BY <1>2 DEF StatusStory
<1>3. ASSUME NEW m \in Note, Enqueue(m) PROVE StatusStory(n)
  <2>1. m = n \/ row'[n] = row[n]
    BY <1>1, <1>3 DEF Enqueue
  <2> QED
    BY <1>3, <2>1 DEF StatusStory
<1>4. ASSUME NEW m \in Note, Lapse(m) \/ LapseOfDead(m) \/ RetryFallsDue(m)
      PROVE  StatusStory(n)
  BY <1>1, <1>4 DEF Lapse, LapseOfDead, RetryFallsDue, StatusStory, Row
<1>5. ASSUME NEW m \in Note, Recover(m) PROVE StatusStory(n)
  <2>1. CASE m = n
    BY <1>1, <1>5, <2>1 DEF Recover, SweptStatus, StatusStory, Row, Held, Closed
  <2>2. CASE m # n
    BY <1>1, <1>5, <2>2 DEF Recover, StatusStory
  <2> QED
    BY <2>1, <2>2
<1>6. CASE CutOver
  <2>1. CASE Cancelled(n)
    BY <1>1, <1>6, <2>1 DEF CutOver, Cancelled, StatusStory, Row, Held, Closed
  <2>2. CASE ~Cancelled(n)
    BY <1>6, <2>2 DEF CutOver, StatusStory
  <2> QED
    BY <2>1, <2>2
<1>7. ASSUME NEW m \in Note, BecomeBlocked(m) PROVE StatusStory(n)
  BY <1>2, <1>7 DEF BecomeBlocked
<1>8. CASE CutOverCommits \/ CutBack \/ UNCHANGED vars
  BY <1>2, <1>8 DEF CutOverCommits, CutBack, vars
<1> QED
  BY <1>3, <1>4, <1>5, <1>6, <1>7, <1>8, WorkStory DEF Next

LEMMA NextLanes ==
  ASSUME Typed, [Next]_vars, NEW w \in Worker
  PROVE  LaneStory(w)
<1>1. LaneTyped /\ lane \in [Worker -> Lane]
  BY TypedParts DEF LaneTyped
<1>2. ASSUME lane'[w] = lane[w] PROVE LaneStory(w)
  BY <1>2 DEF LaneStory, InQueue, At, Current
\* Nobody else moves this lane.
<1>3. ASSUME NEW t \in Step, Goto(w, t), t = "begin" => CheckPasses(w)
      PROVE  LaneStory(w)
  <2>1. lane'[w].step = t /\ lane'[w].queue = lane[w].queue
    BY <1>1, <1>3, GotoLane
  <2> QED
    BY <1>3, <2>1 DEF LaneStory, InQueue, At, Current
<1>4. ASSUME lane[w].step \notin {"idle", "claim"}, NextRow(w) PROVE LaneStory(w)
  <2>1. lane[w].queue # <<>>
    BY <1>4, AtWork
  <2>2. lane'[w].step \in {"check", "idle"} /\ lane'[w].queue = Tail(lane[w].queue)
    BY <1>1, <1>4, <2>1, NextLane
  <2>3. ASSUME NEW n \in Note, InQueue(w, n)' PROVE InQueue(w, n)
    <3>1. PICK j \in DOMAIN Tail(lane[w].queue) : Tail(lane[w].queue)[j].note = n
      BY <2>2, <2>3 DEF InQueue
    <3> QED
      BY <1>1, <2>1, <3>1, TailPlaces DEF InQueue
  <2> QED
    BY <2>2, <2>3 DEF LaneStory, At
<1>5. ASSUME NEW m \in Note, ClaimNextOne(w, m) PROVE LaneStory(w)
  <2> DEFINE q == lane[w].queue
             c == [note |-> m, attempt |-> row[m].attempts + 1]
  <2>1. q \in Seq(Claimed) /\ lane'[w].step = "claim" /\ lane'[w].queue = Append(q, c)
    BY <1>1, <1>5, LaneParts, QueueIsSeq DEF ClaimNextOne, At, Lane
  <2>2. c.note = m
    OBVIOUS
  <2> HIDE DEF c
  <2>3. ASSUME NEW n \in Note, InQueue(w, n)', n # m PROVE InQueue(w, n)
    <3>1. PICK j \in DOMAIN Append(q, c) : Append(q, c)[j].note = n
      BY <2>1, <2>3 DEF InQueue
    <3>2. j \in DOMAIN q /\ q[j].note = n
      BY <2>1, <2>2, <2>3, <3>1
    <3> QED
      BY <3>2 DEF InQueue
  <2> QED
    BY <1>5, <2>1, <2>3 DEF LaneStory, At
<1>6. CASE BatchDies(w)
  <2>1. lane'[w].step = "idle" /\ lane'[w].queue = <<>>
    BY <1>1, <1>6 DEF BatchDies
  <2> QED
    BY <2>1 DEF LaneStory, InQueue, At
<1>7. CASE CheckGone(w) \/ CheckSuppressed(w) \/ CheckBroken(w) \/ FailLostRow(w)
  BY <1>4, <1>7 DEF CheckGone, CheckSuppressed, CheckBroken, FailLostRow, At
<1>8. ASSUME NEW s \in SendingStep, NEW a, NEW d, MarkRow(w, s, a, d) PROVE LaneStory(w)
  BY <1>4, <1>8 DEF MarkRow, At, SendingStep
<1>9. ASSUME NEW s, NEW a, NEW t \in SendingStep, MarkAttempt(w, s, a, t) PROVE LaneStory(w)
  BY <1>3, <1>9 DEF MarkAttempt, SendingStep, Step
<1>10. CASE MarkSendAttempt(w)
  BY <1>9, <1>10 DEF MarkSendAttempt, SendingStep
<1>11. CASE MarkNotification(w)
  <2>1. CASE AcceptedOfNoRow(w)
    BY <1>3, <2>1 DEF AcceptedOfNoRow, Step, SendingStep
  <2> QED
    BY <1>8, <1>11, <2>1 DEF MarkNotification, MarkSendAccepted, SendingStep
<1>12. CASE StartBatch(w) \/ EndOfClaims(w) \/ CheckPasses(w) \/ BeginLost(w)
  BY <1>3, <1>12 DEF StartBatch, EndOfClaims, CheckPasses, BeginLost, Step
<1>13. CASE BeginSendAttempt(w) \/ ProviderAccepts(w) \/ AnswerArrives(w) \/ AnswerLost(w)
  BY <1>3, <1>13 DEF BeginSendAttempt, ProviderAccepts, AnswerArrives, AnswerLost, Step,
     SendingStep
<1>14. CASE ProviderRefuses(w) \/ AcceptanceNotStored(w)
  BY <1>3, <1>14 DEF ProviderRefuses, AcceptanceNotStored, Step, SendingStep
<1>15. CASE StartBatch(w) \/ Work(w) \/ AcceptanceNotStored(w) \/ BatchDies(w)
  BY <1>5, <1>6, <1>7, <1>10, <1>11, <1>12, <1>13, <1>14, <1>15 DEF Work
<1>16. ASSUME NEW v \in Worker \ {w},
              StartBatch(v) \/ Work(v) \/ AcceptanceNotStored(v) \/ BatchDies(v)
       PROVE  lane'[w] = lane[w]
  <2>1. ASSUME NEW t, Goto(v, t) PROVE lane'[w] = lane[w]
    BY <1>1, <2>1 DEF Goto
  <2>2. ASSUME NextRow(v) PROVE lane'[w] = lane[w]
    BY <1>1, <2>2 DEF NextRow
  <2>3. ASSUME NEW m \in Note, ClaimNextOne(v, m) PROVE lane'[w] = lane[w]
    BY <1>1, <2>3 DEF ClaimNextOne
  <2>4. CASE BatchDies(v)
    BY <1>1, <2>4 DEF BatchDies
  <2>5. CASE CheckGone(v) \/ CheckSuppressed(v) \/ CheckBroken(v) \/ FailLostRow(v)
    BY <2>2, <2>5 DEF CheckGone, CheckSuppressed, CheckBroken, FailLostRow
  <2>6. CASE MarkSendAttempt(v)
    BY <2>1, <2>6 DEF MarkSendAttempt, MarkAttempt
  <2>7. CASE MarkNotification(v)
    BY <2>1, <2>2, <2>7 DEF MarkNotification, MarkSendAccepted, AcceptedOfNoRow, MarkRow
  <2>8. CASE \/ StartBatch(v) \/ EndOfClaims(v) \/ CheckPasses(v) \/ BeginLost(v)
             \/ BeginSendAttempt(v) \/ ProviderAccepts(v) \/ AnswerArrives(v)
             \/ AnswerLost(v) \/ ProviderRefuses(v) \/ AcceptanceNotStored(v)
    BY <2>1, <2>8 DEF StartBatch, EndOfClaims, CheckPasses, BeginLost, BeginSendAttempt,
       ProviderAccepts, AnswerArrives, AnswerLost, ProviderRefuses, AcceptanceNotStored
  <2> QED
    BY <1>16, <2>3, <2>4, <2>5, <2>6, <2>7, <2>8 DEF Work
<1>17. CASE UNCHANGED lane
  BY <1>2, <1>17
<1>18. ASSUME NEW n \in Note, \/ Enqueue(n) \/ BecomeBlocked(n) \/ Lapse(n) \/ LapseOfDead(n)
                              \/ RetryFallsDue(n) \/ Recover(n)
       PROVE  UNCHANGED lane
  BY <1>18 DEF Enqueue, BecomeBlocked, Lapse, LapseOfDead, RetryFallsDue, Recover
<1>19. CutOver \/ CutOverCommits \/ CutBack \/ UNCHANGED vars => UNCHANGED lane
  BY DEF CutOver, CutOverCommits, CutBack, vars
<1> QED
  BY <1>2, <1>15, <1>16, <1>17, <1>18, <1>19 DEF Next

LEMMA NextCutOff == Typed /\ CutOff /\ [Next]_vars => CutOff'
<1> SUFFICES ASSUME Typed, CutOff, [Next]_vars PROVE CutOff'
  OBVIOUS
<1>1. \A n \in Note : StatusStory(n)
  BY NextStatus
<1>2. \A w \in Worker : LaneStory(w)
  BY NextLanes
<1>3. RowTyped /\ LaneTyped /\ HasRow /\ RestTyped /\ row \in [Note -> Row]
  BY TypedParts DEF RowTyped
\* A closed row stays closed, and a row that is there stays.
<1>5. ASSUME NEW n \in Note
      PROVE  /\ row[n].status \in Closed /\ ~(\E w \in Worker : BeginSendAttempt(w) /\ n = Current(w))
                  => row'[n].status \in Closed
             /\ row[n].status # "ABSENT" => row'[n].status # "ABSENT"
             /\ row'[n].status # row[n].status /\ row[n].status = "ABSENT" => Enqueue(n)
  <2>1. CASE Enqueue(n)
    BY <1>3, <2>1 DEF Enqueue, Closed
  <2>2. ASSUME NEW w \in Worker, BeginSendAttempt(w), n = Current(w)
        PROVE  row[n].status = "PROCESSING" /\ row'[n].status = "SEND_STARTED"
    BY <1>3, <2>2 DEF BeginSendAttempt, MayBegin, Row
  <2> QED
    BY <1>1, <2>1, <2>2 DEF StatusStory, Closed
<1>6. ASSUME NEW n \in Note, row[n].status \in Closed PROVE row'[n].status \in Closed
  <2>1. ASSUME NEW w \in Worker, BeginSendAttempt(w), n = Current(w) PROVE FALSE
    BY <1>6, <2>1 DEF BeginSendAttempt, MayBegin, Closed
  <2> QED
    BY <1>5, <1>6, <2>1
<1>7. ASSUME NEW w \in Worker, NEW n \in Note, InQueue(w, n)'
      PROVE  row'[n].status # "ABSENT"
  <2>1. CASE InQueue(w, n)
    BY <1>5, <2>1 DEF CutOff
  <2>2. CASE ClaimNextOne(w, n)
    BY <1>3, <2>2 DEF ClaimNextOne, Row
  <2> QED
    BY <1>2, <1>7, <2>1, <2>2 DEF LaneStory
<1>8. CASE CutOver
  <2>1. cutover'.open /\ mode' = "WHATSAPP_LEGACY" /\ UNCHANGED lane
        /\ cutover'.missed = cutover.missed
    BY <1>3, <1>8 DEF CutOver, RestTyped
  <2>2. ASSUME NEW n \in Informational
        PROVE  row'[n].status \in Closed \cup {"ABSENT"}
    <3>1. n \in Note /\ row[n] \in Row
      BY <1>3, <2>2, AlertAssumption
    <3>2. CASE Cancelled(n)
      BY <1>3, <1>8, <3>1, <3>2 DEF CutOver, Row, Closed
    <3>3. CASE ~Cancelled(n)
      BY <1>8, <2>2, <3>1, <3>3 DEF CutOver, Cancelled, Row, Status, Held, Closed
    <3> QED
      BY <3>2, <3>3
  <2> QED
    BY <1>7, <2>1, <2>2 DEF CutOff, Replaced
<1>9. CASE CutOverCommits
  <2>1. cutover.open /\ ~cutover'.open /\ mode' = "DAILY_EMAIL" /\ UNCHANGED <<row, lane>>
        /\ cutover'.missed = cutover.missed
    BY <1>3, <1>9 DEF CutOverCommits, RestTyped
  <2>2. ASSUME NEW w \in Worker, At(w, "begin"), Current(w) \in Replaced
        PROVE  row[Current(w)].status \in Closed
    <3>1. Current(w) \in Note /\ InQueue(w, Current(w))
      BY <2>2, AtWork DEF At
    <3> QED
      BY <2>1, <2>2, <3>1 DEF CutOff
  <2> QED
    BY <1>7, <2>1, <2>2 DEF CutOff, At, Current, Replaced
<1>10. CASE ~CutOver /\ ~CutOverCommits
  <2>1. /\ cutover'.open = cutover.open /\ cutover.missed \subseteq cutover'.missed
        /\ \A n \in Note : Enqueue(n) /\ cutover.open => n \in cutover'.missed
        /\ mode' = mode \/ (mode = "DAILY_EMAIL" /\ mode' = "WHATSAPP_LEGACY")
    <3>1. ASSUME NEW n \in Note, Enqueue(n)
          PROVE  /\ cutover'.open = cutover.open /\ cutover.missed \subseteq cutover'.missed
                 /\ cutover.open => n \in cutover'.missed
                 /\ mode' = mode
      BY <1>3, <3>1 DEF Enqueue, RestTyped
    <3>2. ASSUME NEW w \in Worker,
                 StartBatch(w) \/ Work(w) \/ AcceptanceNotStored(w) \/ BatchDies(w)
          PROVE  UNCHANGED <<mode, cutover>>
      BY <3>2 DEF StartBatch, Work, AcceptanceNotStored, BatchDies, EndOfClaims, ClaimNextOne,
         CheckGone, CheckSuppressed, CheckBroken, CheckPasses, BeginSendAttempt, BeginLost,
         FailLostRow, ProviderAccepts, AnswerArrives, AnswerLost, ProviderRefuses,
         MarkSendAttempt, MarkAttempt, MarkNotification, MarkSendAccepted, AcceptedOfNoRow,
         MarkRow
    <3>3. ASSUME NEW n \in Note, \/ BecomeBlocked(n) \/ Lapse(n) \/ LapseOfDead(n)
                                 \/ RetryFallsDue(n) \/ Recover(n)
          PROVE  UNCHANGED <<mode, cutover>>
      BY <3>3 DEF BecomeBlocked, Lapse, LapseOfDead, RetryFallsDue, Recover
    <3>4. CutBack => UNCHANGED cutover /\ mode = "DAILY_EMAIL" /\ mode' = "WHATSAPP_LEGACY"
      BY DEF CutBack
    <3>5. UNCHANGED vars => UNCHANGED <<mode, cutover>>
      BY DEF vars
    <3>7. CASE \E n \in Note : Enqueue(n)
      <4>1. PICK n \in Note : Enqueue(n)
        BY <3>7
      <4>2. \A m \in Note : Enqueue(m) => (cutover.open => m \in cutover'.missed)
        BY <3>1
      <4> QED
        BY <3>1, <4>1, <4>2
    <3>8. CASE ~(\E n \in Note : Enqueue(n))
      BY <1>10, <3>2, <3>3, <3>4, <3>5, <3>8 DEF Next
    <3> QED
      BY <3>7, <3>8
  <2>2. ASSUME cutover'.open, NEW n \in Replaced'
        PROVE  row'[n].status \in Closed \cup {"ABSENT"}
    <3>1. n \in Replaced /\ n \in Note /\ n \notin cutover'.missed
      BY <2>1, AlertAssumption DEF Replaced
    <3>2. row[n].status \in Closed \cup {"ABSENT"}
      BY <2>1, <2>2, <3>1 DEF CutOff
    <3> QED
      BY <1>5, <1>6, <2>1, <2>2, <3>1, <3>2
  <2>3. cutover'.open => mode' = "WHATSAPP_LEGACY"
    BY <2>1 DEF CutOff
  <2>4. ASSUME mode' = "DAILY_EMAIL", NEW w \in Worker, At(w, "begin")',
               Current(w)' \in Replaced'
        PROVE  row'[Current(w)'].status \in Closed
    <3>1. mode = "DAILY_EMAIL" /\ Current(w)' = Current(w) /\ Current(w) \in Replaced
      BY <1>2, <2>1, <2>4 DEF LaneStory, Replaced
    <3>2. ~CheckPasses(w)
      BY <3>1 DEF CheckPasses, Suppressed, Replaced
    <3>3. row[Current(w)].status \in Closed /\ Current(w) \in Note
      BY <1>2, <2>4, <3>1, <3>2, AlertAssumption DEF CutOff, LaneStory, Replaced
    <3> QED
      BY <1>6, <3>1, <3>3
  <2> QED
    BY <1>7, <2>2, <2>3, <2>4 DEF CutOff
<1> QED
  BY <1>8, <1>9, <1>10

LEMMA InitCutOff == Init => CutOff
<1> SUFFICES ASSUME Init PROVE CutOff
  OBVIOUS
<1>1. \A w \in Worker : lane[w].queue = <<>>
  BY DEF Init
<1>2. \A w \in Worker, n \in Note : ~InQueue(w, n)
  BY <1>1 DEF InQueue
<1> QED
  BY <1>2 DEF Init, CutOff

\* Nobody begins to send what the daily e-mail has replaced.
LEMMA NoBeginAfterCutover ==
  ASSUME Typed, CutOff, [Next]_vars, NEW n \in Informational \ cutover.missed,
         mode = "DAILY_EMAIL", row[n].status # "SEND_STARTED"
  PROVE  row'[n].status # "SEND_STARTED"
<1>1. n \in Note /\ StatusStory(n) /\ row \in [Note -> Row]
  BY NextStatus, TypedParts, AlertAssumption DEF RowTyped
<1>2. ASSUME NEW w \in Worker, BeginSendAttempt(w), n = Current(w) PROVE FALSE
  BY <1>2 DEF BeginSendAttempt, MayBegin, CutOff, Replaced, Closed
<1>3. CASE Enqueue(n)
  BY <1>1, <1>3 DEF Enqueue
<1> QED
  BY <1>1, <1>2, <1>3 DEF StatusStory

\* Once a company reads the daily e-mail no informational alert begins to be
\* sent, but those inserted while the cutover's transaction was open: neither
\* one whose checks passed before, nor one claimed before, nor one enqueued
\* after it in the belief that the old mode still held.
THEOREM CutoverStops == Spec => NoSendAfterCutover
<1>1. Typed /\ CutOff /\ [Next]_vars => CutOff'
  BY NextCutOff
<1>2. Typed /\ CutOff /\ [Next]_vars
        => [\A n \in Informational \ cutover.missed :
              mode = "DAILY_EMAIL" /\ row[n].status # "SEND_STARTED"
                => row'[n].status # "SEND_STARTED"]_vars
  BY NoBeginAfterCutover
<1> QED
  BY <1>1, <1>2, InitCutOff, TypeCorrect, PTL DEF Spec, NoSendAfterCutover

-----------------------------------------------------------------------------
(* ThresholdAlert: types *)

LEMMA ThresholdBounds ==
  /\ MaxEvaluations \in Nat /\ MaxChanges \in Nat /\ MaxEdits \in Nat
  /\ MaxEvaluationLapses \in Nat /\ MaxEvaluationFaults \in Nat
BY ThresholdAssumption

Others(w) == \A v \in Evaluator \ {w} : evaluation'[v] = evaluation[v]

\* An evaluator goes on, or is done, and keeps what it has read; the others stay.
LEMMA EvaluatorGoes ==
  ASSUME ThresholdTypeOK, NEW w \in Evaluator, NEW step \in EvaluatorStep,
         EvaluationGoes(w, step)
  PROVE  /\ evaluation' \in [Evaluator -> Evaluation]
         /\ evaluation'[w].step = step
         /\ step # "idle" => evaluation'[w].band = evaluation[w].band
         /\ Others(w)
<1> DEFINE new == IF step = "idle" THEN Idle ELSE [evaluation[w] EXCEPT !.step = step]
<1>1. evaluation \in [Evaluator -> Evaluation] /\ evaluation[w] \in Evaluation
  BY DEF ThresholdTypeOK
<1>2. Idle \in Evaluation
  BY ThresholdBounds DEF Idle, Evaluation, NoState, State, Band, Version, EvaluatorStep
<1>3. [evaluation[w] EXCEPT !.step = step] \in Evaluation
  BY <1>1 DEF Evaluation
<1>4. new \in Evaluation /\ new.step = step
  BY <1>1, <1>2, <1>3 DEF Idle, Evaluation
<1>5. evaluation' = [evaluation EXCEPT ![w] = new]
  BY DEF EvaluationGoes
<1>6. step # "idle" => new.band = evaluation[w].band
  BY <1>1 DEF Evaluation
<1> HIDE DEF new
<1> QED
  BY <1>1, <1>4, <1>5, <1>6 DEF Others

\* A state that is written is a state.
LEMMA EvaluatedTyped ==
  ASSUME ThresholdTypeOK, NEW w \in Evaluator
  PROVE  /\ Evaluated(w) \in State
         /\ Evaluated(w).known /\ Evaluated(w).band = evaluation[w].band
<1> DEFINE prior == evaluation[w].prior
           band == evaluation[w].band
           version == evaluation[w].version
           kept == [prior EXCEPT !.known = TRUE, !.band = band, !.version = version]
<1>1. prior \in State /\ band \in Band /\ version \in Version
  BY DEF ThresholdTypeOK, Evaluation
<1> HIDE DEF prior, band, version
<1>2. kept \in State /\ kept.known /\ kept.band = band
  BY <1>1 DEF State
<1>3. prior.seq \in Nat /\ kept.seq \in Nat
  BY <1>1, <1>2 DEF State
<1> HIDE DEF kept
<1>4. /\ [kept EXCEPT !.pending = 0] \in State
      /\ [kept EXCEPT !.pending = 0].known /\ [kept EXCEPT !.pending = 0].band = band
  BY <1>2 DEF State
<1> DEFINE next == prior.seq + 1
           crossed == [kept EXCEPT !.seq = next, !.pending = next, !.cooling = TRUE]
<1>5. crossed \in State /\ crossed.known /\ crossed.band = band
  <2>1. next \in Nat
    BY <1>3
  <2> HIDE DEF next
  <2> QED
    BY <1>2, <2>1 DEF State
<1>6. Evaluated(w) = IF Baselines(prior, band, version) THEN [kept EXCEPT !.pending = 0]
                     ELSE IF Crosses(prior, band, version) /\ ~prior.cooling
                          THEN crossed ELSE kept
  BY DEF Evaluated, prior, band, version, kept
<1> HIDE DEF crossed
<1> QED
  BY <1>2, <1>4, <1>5, <1>6 DEF band

LEMMA StateKept ==
  ASSUME ThresholdTypeOK
  PROVE  /\ [state EXCEPT !.pending = 0] \in State
         /\ [state EXCEPT !.cooling = FALSE] \in State
         /\ [state EXCEPT !.pending = 0].known = state.known
         /\ [state EXCEPT !.pending = 0].band = state.band
         /\ [state EXCEPT !.cooling = FALSE].known = state.known
         /\ [state EXCEPT !.cooling = FALSE].band = state.band
BY DEF ThresholdTypeOK, State

QueueRow == [status: {"ABSENT", "PENDING", "PROCESSING", "FAILED"},
             owner: SUBSET Evaluator, live: BOOLEAN, due: BOOLEAN,
             attempts: 0 .. MaxEvaluations]

LEMMA QueueTyped ==
  ASSUME ThresholdTypeOK
  PROVE  /\ queue \in QueueRow
         /\ NoRow \in QueueRow
         /\ Dirty(queue) \in QueueRow
         /\ [queue EXCEPT !.live = FALSE] \in QueueRow
         /\ [queue EXCEPT !.due = TRUE] \in QueueRow
         /\ [queue EXCEPT !.status = "PENDING", !.owner = {}] \in QueueRow
         /\ [queue EXCEPT !.status = "FAILED", !.owner = {}, !.live = FALSE,
                          !.due = FALSE] \in QueueRow
         /\ \A w \in Evaluator : queue.attempts < MaxEvaluations =>
              [queue EXCEPT !.status = "PROCESSING", !.owner = {w}, !.live = TRUE,
                            !.attempts = @ + 1] \in QueueRow
<1>1. queue \in QueueRow
  BY DEF ThresholdTypeOK, QueueRow
<1>2. NoRow \in QueueRow
  BY ThresholdBounds DEF NoRow, QueueRow
<1>3. ASSUME NEW w \in Evaluator, queue.attempts < MaxEvaluations
      PROVE  [queue EXCEPT !.status = "PROCESSING", !.owner = {w}, !.live = TRUE,
                           !.attempts = @ + 1] \in QueueRow
  <2>1. queue.attempts + 1 \in 0 .. MaxEvaluations
    BY <1>1, <1>3, ThresholdBounds DEF QueueRow
  <2> QED
    BY <1>1, <2>1 DEF QueueRow
<1> QED
  BY <1>1, <1>2, <1>3 DEF QueueRow, Dirty

LEMMA ThresholdInitTyped == ThresholdInit => ThresholdTypeOK
<1> SUFFICES ASSUME ThresholdInit PROVE ThresholdTypeOK
  OBVIOUS
<1>1. NoState \in State
  BY ThresholdBounds DEF NoState, State, Band, Version
<1>2. Idle \in Evaluation
  BY <1>1, ThresholdBounds DEF Idle, Evaluation, Band, Version, EvaluatorStep
<1>3. [NoState EXCEPT !.known = TRUE, !.band = actual] \in State
  BY <1>1 DEF ThresholdInit, State
<1>4. state \in State
  BY <1>1, <1>3 DEF ThresholdInit
<1>5. lost \in BOOLEAN
  BY DEF ThresholdInit
<1>6. evaluation \in [Evaluator -> Evaluation]
  BY <1>2 DEF ThresholdInit
<1>7. queue \in [status: {"ABSENT", "PENDING", "PROCESSING", "FAILED"},
                 owner: SUBSET Evaluator, live: BOOLEAN, due: BOOLEAN,
                 attempts: 0 .. MaxEvaluations]
  BY ThresholdBounds DEF ThresholdInit, NoRow
<1>8. config \in [on: BOOLEAN, version: Version]
  BY ThresholdBounds DEF ThresholdInit, Version
<1>9. /\ changes \in 0 .. MaxChanges /\ evalLapses \in 0 .. MaxEvaluationLapses
      /\ evalFaults \in 0 .. MaxEvaluationFaults
  BY ThresholdBounds DEF ThresholdInit
<1> QED
  BY <1>4, <1>5, <1>6, <1>7, <1>8, <1>9, Zenon DEF ThresholdInit, ThresholdTypeOK

LEMMA EvaluateTyped ==
  ASSUME ThresholdTypeOK, NEW w \in Evaluator,
         ClaimEvaluation(w) \/ Evaluate(w) \/ EvaluationFails(w) \/ EvaluatorDies(w)
         \/ FindPending(w) \/ Recheck(w)
  PROVE  ThresholdTypeOK'
<1> USE ThresholdBounds DEF ThresholdTypeOK, QueueRow
<1>0. evaluation \in [Evaluator -> Evaluation] /\ evaluation[w] \in Evaluation
      /\ state \in State
  OBVIOUS
<1>1. CASE ClaimEvaluation(w)
  <2>1. evaluation' \in [Evaluator -> Evaluation]
    BY <1>1, EvaluatorGoes DEF ClaimEvaluation, EvaluatorStep, EvaluationStep
  <2>2. queue' \in QueueRow
    BY <1>1, QueueTyped DEF ClaimEvaluation
  <2>3. overlap' \in BOOLEAN
    BY <1>1 DEF ClaimEvaluation
  <2> QED
    BY <1>1, <2>1, <2>2, <2>3 DEF ClaimEvaluation
<1>2. CASE ReadSettings(w)
  <2>1. evaluation' \in [Evaluator -> Evaluation]
    BY <1>0, <1>2 DEF ReadSettings, Evaluation, EvaluatorStep, EvaluationStep
  <2> QED
    BY <1>2, <2>1 DEF ReadSettings
<1>3. CASE ReadMetrics(w)
  <2>1. evaluation' \in [Evaluator -> Evaluation]
    BY <1>0, <1>3 DEF ReadMetrics, Evaluation, EvaluatorStep, EvaluationStep
  <2> QED
    BY <1>3, <2>1 DEF ReadMetrics
<1>4. CASE ReadPrior(w)
  <2>1. evaluation' \in [Evaluator -> Evaluation]
    BY <1>0, <1>4 DEF ReadPrior, Evaluation, EvaluatorStep, EvaluationStep
  <2> QED
    BY <1>4, <2>1 DEF ReadPrior
<1>5. CASE Store(w)
  <2>1. Evaluated(w) \in State /\ Evaluated(w).seq \in Nat
    BY EvaluatedTyped DEF State
  <2>2. evaluation' \in [Evaluator -> Evaluation]
    BY <1>0, <1>5, <2>1 DEF Store, Evaluation, EvaluatorStep, EvaluationStep
  <2> QED
    BY <1>5, <2>1, <2>2 DEF Store
<1>6. ASSUME NEW step \in EvaluatorStep, NEW next \in EvaluatorStep,
             NEW otherwise \in EvaluatorStep, Emit(w, step, next, otherwise)
      PROVE  ThresholdTypeOK'
  <2>1. evaluation' \in [Evaluator -> Evaluation]
    BY <1>6, EvaluatorGoes DEF Emit
  <2>2. outbox' \in SUBSET Nat
    <3>1. evaluation[w].seq \in Nat
      BY <1>0 DEF Evaluation
    <3> QED
      BY <1>6, <3>1 DEF Emit
  <2>3. evalFaults' \in 0 .. MaxEvaluationFaults
    BY <1>6 DEF Emit
  <2> QED
    BY <1>6, <2>1, <2>2, <2>3 DEF Emit
<1>7. ASSUME NEW step \in EvaluatorStep, NEW next \in EvaluatorStep, Clear(w, step, next)
      PROVE  ThresholdTypeOK'
  <2>1. evaluation' \in [Evaluator -> Evaluation]
    BY <1>7, EvaluatorGoes DEF Clear
  <2>2. state' \in State
    BY <1>7, StateKept DEF Clear
  <2> QED
    BY <1>7, <2>1, <2>2 DEF Clear
<1>8. CASE MarkCompleted(w)
  <2>1. evaluation' \in [Evaluator -> Evaluation]
    BY <1>8, EvaluatorGoes DEF MarkCompleted, EvaluatorStep
  <2>2. queue' \in QueueRow
    BY <1>8, QueueTyped DEF MarkCompleted
  <2> QED
    BY <1>8, <2>1, <2>2 DEF MarkCompleted
<1>9. CASE MarkFailed(w)
  <2>1. evaluation' \in [Evaluator -> Evaluation]
    BY <1>9, EvaluatorGoes DEF MarkFailed, EvaluatorStep
  <2>2. queue' \in QueueRow
    BY <1>9, QueueTyped DEF MarkFailed
  <2> QED
    BY <1>9, <2>1, <2>2 DEF MarkFailed
<1>10. CASE EvaluationFails(w)
  <2>1. evaluation' \in [Evaluator -> Evaluation]
    BY <1>10, EvaluatorGoes DEF EvaluationFails, EvaluatorStep, EvaluationStep
  <2> QED
    BY <1>10, <2>1 DEF EvaluationFails
<1>11. CASE EvaluatorDies(w)
  <2>1. evaluation' \in [Evaluator -> Evaluation]
    BY <1>11, EvaluatorGoes DEF EvaluatorDies, EvaluatorStep
  <2> QED
    BY <1>11, <2>1 DEF EvaluatorDies
<1>12. CASE FindPending(w)
  <2>1. state.pending \in Nat
    BY <1>0 DEF State
  <2>2. evaluation' \in [Evaluator -> Evaluation]
    BY <1>0, <1>12, <2>1 DEF FindPending, Evaluation, EvaluatorStep
  <2> QED
    BY <1>12, <2>2 DEF FindPending
<1>13. {"emit", "clear", "complete", "recheck", "reclear", "idle"} \subseteq EvaluatorStep
  BY DEF EvaluatorStep, EvaluationStep
<1>14. CASE Evaluate(w)
  BY <1>2, <1>3, <1>4, <1>5, <1>6, <1>7, <1>8, <1>9, <1>13, <1>14 DEF Evaluate
<1>15. CASE Recheck(w)
  BY <1>6, <1>7, <1>13, <1>15 DEF Recheck
<1> QED
  BY <1>1, <1>10, <1>11, <1>12, <1>14, <1>15

LEMMA ThresholdTypes == ThresholdTypeOK /\ [ThresholdNext]_thresholdVars => ThresholdTypeOK'
<1> SUFFICES ASSUME ThresholdTypeOK, [ThresholdNext]_thresholdVars PROVE ThresholdTypeOK'
  OBVIOUS
<1> USE ThresholdBounds DEF ThresholdTypeOK, QueueRow
<1>1. CASE AttendanceChanges
  BY <1>1 DEF AttendanceChanges
<1>2. CASE MarkEmployeeDirty
  <2>1. queue' \in QueueRow
    BY <1>2, QueueTyped DEF MarkEmployeeDirty
  <2> QED
    BY <1>2, <2>1 DEF MarkEmployeeDirty
<1>3. CASE DirtyMarkLost
  <2>1. evalFaults' \in 0 .. MaxEvaluationFaults
    BY <1>3 DEF DirtyMarkLost
  <2> QED
    BY <1>3, <2>1, Zenon DEF DirtyMarkLost
<1>4. CASE SettingsChange
  <2>1. config' \in [on: BOOLEAN, version: Version]
    BY <1>4 DEF SettingsChange, Version
  <2> QED
    BY <1>4, <2>1 DEF SettingsChange
<1>5. CASE EnqueueAfterSettings
  BY <1>5, QueueTyped DEF EnqueueAfterSettings
<1>6. CASE EvaluationLapses
  <2>1. queue' \in QueueRow
    BY <1>6, QueueTyped DEF EvaluationLapses
  <2>2. evalLapses' \in 0 .. MaxEvaluationLapses
    BY <1>6 DEF EvaluationLapses
  <2> QED
    BY <1>6, <2>1, <2>2 DEF EvaluationLapses
<1>7. CASE EvaluationFallsDue
  BY <1>7, QueueTyped DEF EvaluationFallsDue
<1>8. CASE RecoverEvaluation
  BY <1>8, QueueTyped DEF RecoverEvaluation
<1>9. CASE CooldownEnds
  BY <1>9, StateKept DEF CooldownEnds
<1>10. CASE UNCHANGED thresholdVars
  BY <1>10 DEF thresholdVars
<1> QED
  BY <1>1, <1>2, <1>3, <1>4, <1>5, <1>6, <1>7, <1>8, <1>9, <1>10, EvaluateTyped
  DEF ThresholdNext

\* The state of the threshold evaluations is what it is declared to be, whatever
\* the sequence of a crossing: attendance, settings, queue row, stored state and
\* the steps of every evaluator.
THEOREM ThresholdTypeCorrect == ThresholdSpec => []ThresholdTypeOK
BY ThresholdInitTyped, ThresholdTypes, PTL DEF ThresholdSpec

-----------------------------------------------------------------------------
(* Evaluations that do not overlap *)

\* Between the claim and the write of the state: what is read grows old.
ReadingStep == {"settings", "metrics", "prior", "store"}
Reading(w) == evaluation[w].step \in ReadingStep

\* The state is written, the row of the queue not yet deleted.
Written(w) == evaluation[w].step \in {"emit", "clear", "complete"}

Settled == ~unmarked /\ ~unqueued /\ ~lost /\ config.on
BandCurrent == state.known /\ state.band = actual

\* While w holds the row, and no change waits for its mark, what w measured is
\* so still: a change takes the lease away before the mark is done.
Measured ==
    \A w \in Evaluator :
       queue.owner = {w} /\ ~unmarked /\ ~lost /\ evaluation[w].step \in {"prior", "store"}
         => evaluation[w].band = actual

OneReads == \A v, w \in Evaluator : Reading(v) /\ Reading(w) => v = w
OwnerReads ==
    \A v, w \in Evaluator : queue.owner = {w} /\ v # w => ~Reading(v)
NobodyReads == queue.status = "ABSENT" => \A w \in Evaluator : ~Reading(w)
WrittenIsCurrent ==
    \A w \in Evaluator : queue.owner = {w} /\ Settled /\ Written(w) => BandCurrent
GoneIsCurrent == queue.status = "ABSENT" /\ Settled => BandCurrent

Alone == OneReads /\ OwnerReads /\ NobodyReads /\ WrittenIsCurrent /\ GoneIsCurrent
AloneUnlessOverlap == overlap \/ Alone

ThresholdInv == ThresholdTypeOK /\ Measured /\ AloneUnlessOverlap

\* Nothing an evaluator does lets an evaluation from before the mark be the owner's.
LEMMA EvaluateMeasured ==
  ASSUME ThresholdTypeOK, Measured, NEW w \in Evaluator,
         ClaimEvaluation(w) \/ Evaluate(w) \/ EvaluationFails(w) \/ EvaluatorDies(w)
         \/ FindPending(w) \/ Recheck(w)
  PROVE  Measured'
<1> DEFINE Measuring == {"prior", "store"}
<1>0. evaluation \in [Evaluator -> Evaluation] /\ evaluation[w] \in Evaluation
  BY DEF ThresholdTypeOK
<1>1. UNCHANGED <<actual, unmarked, lost>>
  BY DEF ClaimEvaluation, Evaluate, EvaluationFails, EvaluatorDies, FindPending, Recheck,
         ReadSettings, ReadMetrics, ReadPrior, Store, Emit, Clear, MarkCompleted, MarkFailed
\* Whoever else measures keeps its band, and the row if it holds it.
<1>2. ASSUME Others(w),
             \/ evaluation'[w].step \notin Measuring
             \/ evaluation'[w].band = actual
             \/ /\ evaluation[w].step \in Measuring
                /\ evaluation'[w].band = evaluation[w].band,
             \A v \in Evaluator : queue'.owner = {v} => queue.owner = {v} \/ v = w,
             \/ queue'.owner = queue.owner
             \/ evaluation'[w].step \notin Measuring
      PROVE  Measured'
  BY <1>1, <1>2, Zenon DEF Measured, Others
<1>3. CASE ClaimEvaluation(w)
  <2>1. Others(w) /\ evaluation'[w].step = "settings"
    BY <1>3, EvaluatorGoes DEF ClaimEvaluation, EvaluatorStep, EvaluationStep
  <2>2. queue'.owner = {w}
    BY <1>3 DEF ClaimEvaluation, ThresholdTypeOK
  <2> QED
    BY <1>2, <2>1, <2>2
<1>4. CASE ReadSettings(w)
  <2>1. Others(w) /\ evaluation'[w].step \notin Measuring
    BY <1>0, <1>4 DEF ReadSettings, Others, Evaluation
  <2> QED
    BY <1>2, <1>4, <2>1 DEF ReadSettings
<1>5. CASE ReadMetrics(w)
  <2>1. Others(w) /\ evaluation'[w].band = actual
    BY <1>0, <1>5 DEF ReadMetrics, Others, Evaluation
  <2> QED
    BY <1>2, <1>5, <2>1 DEF ReadMetrics
<1>6. CASE ReadPrior(w)
  <2>1. Others(w) /\ evaluation'[w].band = evaluation[w].band
    BY <1>0, <1>6 DEF ReadPrior, Others, Evaluation
  <2>2. evaluation[w].step \in Measuring
    BY <1>6 DEF ReadPrior, EvaluationAt
  <2> QED
    BY <1>2, <1>6, <2>1, <2>2 DEF ReadPrior
<1>7. CASE Store(w)
  <2>1. Others(w) /\ evaluation'[w].step \notin Measuring
    BY <1>0, <1>7 DEF Store, Others, Evaluation
  <2> QED
    BY <1>2, <1>7, <2>1 DEF Store
<1>8. ASSUME NEW step \in EvaluatorStep \ Measuring, EvaluationGoes(w, step),
             queue' = queue \/ queue'.owner = {}
      PROVE  Measured'
  <2>1. Others(w) /\ evaluation'[w].step \notin Measuring
    BY <1>8, EvaluatorGoes
  <2> QED
    BY <1>2, <1>8, <2>1
<1>9. /\ {"clear", "complete", "reclear", "idle", "failed"}
           \subseteq EvaluatorStep \ Measuring
      /\ NoRow.owner = {}
  BY DEF EvaluatorStep, EvaluationStep, NoRow
<1>10. CASE MarkCompleted(w)
  BY <1>8, <1>9, <1>10 DEF MarkCompleted
<1>11. CASE MarkFailed(w)
  <2>1. queue'.owner = {} \/ queue' = queue
    BY <1>11 DEF MarkFailed, ThresholdTypeOK
  <2> QED
    BY <1>8, <1>9, <1>11, <2>1 DEF MarkFailed
<1>12. CASE Evaluate(w)
  BY <1>4, <1>5, <1>6, <1>7, <1>8, <1>9, <1>10, <1>11, <1>12 DEF Evaluate, Emit, Clear
<1>13. CASE EvaluationFails(w)
  BY <1>8, <1>9, <1>13 DEF EvaluationFails
<1>14. CASE EvaluatorDies(w)
  BY <1>8, <1>9, <1>14 DEF EvaluatorDies
<1>15. CASE FindPending(w)
  <2>1. Others(w) /\ evaluation'[w].step \notin Measuring
    BY <1>0, <1>15 DEF FindPending, Others, Evaluation
  <2> QED
    BY <1>2, <1>15, <2>1 DEF FindPending
<1>16. CASE Recheck(w)
  BY <1>8, <1>9, <1>16 DEF Recheck, Emit, Clear
<1> QED
  BY <1>3, <1>12, <1>13, <1>14, <1>15, <1>16

\* What the environment does to the row: it takes the lease away, or leaves it.
LEMMA EnvironmentRow ==
  ASSUME ThresholdTypeOK
  PROVE  /\ MarkEmployeeDirty \/ EnqueueAfterSettings \/ RecoverEvaluation
              => queue'.owner = {} /\ queue'.status = "PENDING"
         /\ EvaluationLapses \/ EvaluationFallsDue
              => queue'.owner = queue.owner /\ queue'.status = queue.status
         /\ CooldownEnds => state'.known = state.known /\ state'.band = state.band
<1>1. MarkEmployeeDirty \/ EnqueueAfterSettings \/ RecoverEvaluation
        => queue'.owner = {} /\ queue'.status = "PENDING"
  BY DEF ThresholdTypeOK, MarkEmployeeDirty, EnqueueAfterSettings, RecoverEvaluation, Dirty
<1>2. EvaluationLapses \/ EvaluationFallsDue
        => queue'.owner = queue.owner /\ queue'.status = queue.status
  BY DEF ThresholdTypeOK, EvaluationLapses, EvaluationFallsDue
<1>3. CooldownEnds => state'.known = state.known /\ state'.band = state.band
  BY StateKept DEF CooldownEnds
<1> QED
  BY <1>1, <1>2, <1>3

Environment ==
    \/ AttendanceChanges \/ MarkEmployeeDirty \/ DirtyMarkLost
    \/ SettingsChange \/ EnqueueAfterSettings
    \/ EvaluationLapses \/ EvaluationFallsDue \/ RecoverEvaluation \/ CooldownEnds

LEMMA EnvironmentMeasured ==
  ASSUME ThresholdTypeOK, Measured, Environment PROVE Measured'
<1>1. UNCHANGED evaluation
  BY DEF Environment, AttendanceChanges, MarkEmployeeDirty, DirtyMarkLost, SettingsChange,
         EnqueueAfterSettings, EvaluationLapses, EvaluationFallsDue, RecoverEvaluation,
         CooldownEnds
<1>2. CASE MarkEmployeeDirty \/ EnqueueAfterSettings \/ RecoverEvaluation
  <2>1. \A w \in Evaluator : queue'.owner # {w}
    BY <1>2, EnvironmentRow
  <2> QED
    BY <2>1 DEF Measured
<1>3. CASE AttendanceChanges
  BY <1>3 DEF AttendanceChanges, Measured
<1>4. CASE DirtyMarkLost
  BY <1>4 DEF DirtyMarkLost, Measured
<1>5. CASE SettingsChange \/ CooldownEnds \/ EvaluationLapses \/ EvaluationFallsDue
  <2>1. UNCHANGED <<actual, unmarked, lost>> /\ queue'.owner = queue.owner
    BY <1>5, EnvironmentRow
    DEF SettingsChange, CooldownEnds, EvaluationLapses, EvaluationFallsDue
  <2> QED
    BY <1>1, <2>1, Zenon DEF Measured
<1> QED
  BY <1>2, <1>3, <1>4, <1>5 DEF Environment

\* An evaluator that takes no row and writes no state leaves the others alone.
LEMMA AloneKept ==
  ASSUME Alone, NEW w \in Evaluator, Others(w),
         UNCHANGED <<actual, unmarked, config, unqueued, queue, lost>>,
         state'.known = state.known, state'.band = state.band,
         Reading(w)' => Reading(w),
         Written(w)' => Written(w) \/ ~config.on
  PROVE  Alone'
<1>1. \A v \in Evaluator : Reading(v)' => Reading(v)
  BY DEF Others, Reading
<1>2. \A v \in Evaluator : Written(v)' => Written(v) \/ ~config.on
  BY DEF Others, Written
<1>3. (Settled' <=> Settled) /\ (BandCurrent' <=> BandCurrent) /\ (Settled => config.on)
  BY DEF Settled, BandCurrent
<1>4. OneReads'
  BY <1>1, Zenon DEF Alone, OneReads
<1>5. OwnerReads'
  BY <1>1, Zenon DEF Alone, OwnerReads
<1>6. NobodyReads'
  BY <1>1, Zenon DEF Alone, NobodyReads
<1>7. WrittenIsCurrent'
  BY <1>2, <1>3, Zenon DEF Alone, WrittenIsCurrent
<1>8. GoneIsCurrent'
  BY <1>3, Zenon DEF Alone, GoneIsCurrent
<1> QED
  BY <1>4, <1>5, <1>6, <1>7, <1>8 DEF Alone

\* The claim: nobody reads, or the evaluations overlap from now on.
LEMMA ClaimAlone ==
  ASSUME ThresholdTypeOK, AloneUnlessOverlap, NEW w \in Evaluator, ClaimEvaluation(w)
  PROVE  AloneUnlessOverlap'
<1>1. Others(w) /\ evaluation'[w].step = "settings"
  BY EvaluatorGoes DEF ClaimEvaluation, EvaluatorStep, EvaluationStep
<1>2. queue'.owner = {w} /\ queue'.status = "PROCESSING"
  BY DEF ClaimEvaluation, ThresholdTypeOK
<1>3. SUFFICES ASSUME ~overlap' PROVE Alone'
  BY DEF AloneUnlessOverlap
<1>4. ~overlap /\ \A v \in Evaluator : ~Reading(v)
  BY <1>3 DEF ClaimEvaluation, Reading, ReadingStep
<1>5. \A v \in Evaluator : Reading(v)' => v = w
  BY <1>1, <1>4 DEF Others, Reading
<1>6. ~Written(w)'
  BY <1>1 DEF Written
<1>7. \A v \in Evaluator : queue'.owner = {v} => v = w
  BY <1>2
<1>8. OneReads'
  BY <1>5 DEF OneReads
<1>9. OwnerReads'
  BY <1>5, <1>7 DEF OwnerReads
<1>10. NobodyReads' /\ GoneIsCurrent'
  BY <1>2 DEF NobodyReads, GoneIsCurrent
<1>11. WrittenIsCurrent'
  BY <1>6, <1>7 DEF WrittenIsCurrent
<1> QED
  BY <1>8, <1>9, <1>10, <1>11 DEF Alone

\* The write of the state: the evaluator that reads alone is the owner's, or the
\* row has no owner.
LEMMA StoreAlone ==
  ASSUME ThresholdTypeOK, Measured, Alone, NEW w \in Evaluator, Store(w)
  PROVE  Alone'
<1>1. evaluation \in [Evaluator -> Evaluation] /\ evaluation[w] \in Evaluation
  BY DEF ThresholdTypeOK
<1>2. Others(w) /\ evaluation'[w].step \in {"emit", "complete"}
  BY <1>1 DEF Store, Others, Evaluation
<1>3. Reading(w) /\ ~Reading(w)' /\ evaluation[w].step = "store"
  BY <1>2 DEF Store, EvaluationAt, Reading, ReadingStep
<1>4. \A v \in Evaluator : Reading(v)' => Reading(v)
  BY <1>2, <1>3 DEF Others, Reading
<1>5. UNCHANGED <<actual, unmarked, config, unqueued, queue, lost>>
  BY DEF Store
<1>6. state'.known /\ state'.band = evaluation[w].band
  BY EvaluatedTyped DEF Store
<1>7. queue.status # "ABSENT"
  BY <1>3 DEF Alone, NobodyReads
<1>8. \A v \in Evaluator : queue.owner = {v} => v = w
  BY <1>3 DEF Alone, OwnerReads
<1>9. queue.owner = {w} /\ Settled => BandCurrent'
  BY <1>3, <1>5, <1>6 DEF Measured, Settled, BandCurrent
<1>10. Settled' <=> Settled
  BY <1>5 DEF Settled
<1>11. OneReads' /\ OwnerReads' /\ NobodyReads'
  <2>1. OneReads'
    BY <1>4, Zenon DEF Alone, OneReads
  <2>2. OwnerReads'
    BY <1>4, <1>5, Zenon DEF Alone, OwnerReads
  <2>3. NobodyReads'
    BY <1>4, <1>5, Zenon DEF Alone, NobodyReads
  <2> QED
    BY <2>1, <2>2, <2>3
<1>12. WrittenIsCurrent'
  BY <1>5, <1>8, <1>9, <1>10, Zenon DEF WrittenIsCurrent
<1>13. GoneIsCurrent'
  BY <1>5, <1>7, Zenon DEF GoneIsCurrent
<1> QED
  BY <1>11, <1>12, <1>13 DEF Alone

\* The row is deleted or put back by its owner, who is past its reads.
LEMMA MarkAlone ==
  ASSUME ThresholdTypeOK, Alone, NEW w \in Evaluator, MarkCompleted(w) \/ MarkFailed(w)
  PROVE  Alone'
<1>1. Others(w) /\ evaluation'[w].step = "idle"
  BY EvaluatorGoes DEF MarkCompleted, MarkFailed, EvaluatorStep
<1>2. ~Reading(w) /\ ~Reading(w)' /\ ~Written(w)'
  BY <1>1 DEF MarkCompleted, MarkFailed, EvaluationAt, Reading, ReadingStep, Written
<1>3. UNCHANGED <<actual, unmarked, config, unqueued, state, lost>>
  BY DEF MarkCompleted, MarkFailed
<1>4. CASE queue.owner # {w}
  <2>1. UNCHANGED queue
    BY <1>4 DEF MarkCompleted, MarkFailed
  <2> QED
    BY <1>1, <1>2, <1>3, <2>1, AloneKept
<1>5. CASE queue.owner = {w}
  <2>1. \A v \in Evaluator : Reading(v)' => Reading(v) /\ v # w
    BY <1>1, <1>2 DEF Others, Reading
  <2>2. \A v \in Evaluator : ~Reading(v)'
    BY <1>5, <2>1 DEF Alone, OwnerReads
  <2>3. queue'.owner = {}
    <3>1. queue'.owner = {} \/ MarkFailed(w)
      BY <1>5 DEF MarkCompleted, NoRow
    <3>2. MarkFailed(w) => queue'.owner = {}
      BY <1>5 DEF MarkFailed, ThresholdTypeOK
    <3> QED
      BY <3>1, <3>2
  <2>4. queue'.status = "ABSENT" => Written(w)
    BY <1>5 DEF MarkCompleted, MarkFailed, Written, EvaluationAt, ThresholdTypeOK
  <2>5. Settled' /\ queue'.status = "ABSENT" => BandCurrent
    BY <1>3, <1>5, <2>4 DEF Alone, WrittenIsCurrent, Settled
  <2>6. BandCurrent' <=> BandCurrent
    BY <1>3 DEF BandCurrent
  <2>7. OneReads' /\ OwnerReads' /\ NobodyReads'
    BY <2>2 DEF OneReads, OwnerReads, NobodyReads
  <2>8. WrittenIsCurrent'
    BY <2>3 DEF WrittenIsCurrent
  <2>9. GoneIsCurrent'
    BY <2>5, <2>6 DEF GoneIsCurrent
  <2> QED
    BY <2>7, <2>8, <2>9 DEF Alone
<1> QED
  BY <1>4, <1>5

LEMMA EvaluateAlone ==
  ASSUME ThresholdTypeOK, Measured, AloneUnlessOverlap, NEW w \in Evaluator,
         ClaimEvaluation(w) \/ Evaluate(w) \/ EvaluationFails(w) \/ EvaluatorDies(w)
         \/ FindPending(w) \/ Recheck(w)
  PROVE  AloneUnlessOverlap'
<1>0. evaluation \in [Evaluator -> Evaluation] /\ evaluation[w] \in Evaluation
  BY DEF ThresholdTypeOK
<1>1. CASE ClaimEvaluation(w)
  BY <1>1, ClaimAlone
<1>2. CASE ~ClaimEvaluation(w)
  <2>1. UNCHANGED <<actual, unmarked, config, unqueued, lost, overlap>>
    BY <1>2
    DEF Evaluate, EvaluationFails, EvaluatorDies, FindPending, Recheck,
        ReadSettings, ReadMetrics, ReadPrior, Store, Emit, Clear, MarkCompleted, MarkFailed
  <2> SUFFICES ASSUME Alone PROVE Alone'
    BY <2>1 DEF AloneUnlessOverlap
  <2>2. CASE ReadSettings(w)
    <3>1. /\ Others(w)
          /\ evaluation'[w].step = IF config.on THEN "metrics" ELSE "complete"
      BY <1>0, <2>2 DEF ReadSettings, Others, Evaluation
    <3>2. Reading(w)
      BY <2>2 DEF ReadSettings, EvaluationAt, Reading, ReadingStep
    <3>3. Written(w)' => ~config.on
      BY <3>1 DEF Written
    <3>4. UNCHANGED <<queue, state>>
      BY <2>2 DEF ReadSettings
    <3> QED
      BY <2>1, <3>1, <3>2, <3>3, <3>4, AloneKept
  <2>3. CASE ReadMetrics(w)
    <3>1. Others(w) /\ evaluation'[w].step = "prior"
      BY <1>0, <2>3 DEF ReadMetrics, Others, Evaluation
    <3>2. Reading(w) /\ ~Written(w)'
      BY <2>3, <3>1 DEF ReadMetrics, EvaluationAt, Reading, ReadingStep, Written
    <3>3. UNCHANGED <<queue, state>>
      BY <2>3 DEF ReadMetrics
    <3> QED
      BY <2>1, <3>1, <3>2, <3>3, AloneKept
  <2>4. CASE ReadPrior(w)
    <3>1. Others(w) /\ evaluation'[w].step = "store"
      BY <1>0, <2>4 DEF ReadPrior, Others, Evaluation
    <3>2. Reading(w) /\ ~Written(w)'
      BY <2>4, <3>1 DEF ReadPrior, EvaluationAt, Reading, ReadingStep, Written
    <3>3. UNCHANGED <<queue, state>>
      BY <2>4 DEF ReadPrior
    <3> QED
      BY <2>1, <3>1, <3>2, <3>3, AloneKept
  <2>5. CASE Store(w)
    BY <2>5, StoreAlone
\* An evaluator that goes on to emit, clear or give up.
  <2>6. ASSUME NEW step \in {"clear", "complete", "reclear", "idle", "failed"},
               EvaluationGoes(w, step), UNCHANGED queue,
               state'.known = state.known, state'.band = state.band,
               step \in {"clear", "complete"} => Written(w)
        PROVE  Alone'
    <3>1. Others(w) /\ evaluation'[w].step = step
      BY <2>6, EvaluatorGoes DEF EvaluatorStep, EvaluationStep
    <3>2. ~Reading(w)' /\ (Written(w)' => Written(w))
      BY <2>6, <3>1 DEF Reading, ReadingStep, Written
    <3> QED
      BY <2>1, <2>6, <3>1, <3>2, AloneKept
  <2>7. ASSUME NEW step, NEW next, NEW otherwise, Emit(w, step, next, otherwise),
               \/ step = "emit" /\ {next, otherwise} \subseteq {"clear", "complete"}
               \/ {next, otherwise} \subseteq {"reclear", "idle"}
        PROVE  Alone'
    <3>1. UNCHANGED <<queue, state>> /\ (step = "emit" => Written(w))
      BY <2>7 DEF Emit, EvaluationAt, Written
    <3>2. EvaluationGoes(w, next) \/ EvaluationGoes(w, otherwise)
      BY <2>7 DEF Emit
    <3> QED
      BY <2>6, <2>7, <3>1, <3>2
  <2>8. ASSUME NEW step, NEW next, Clear(w, step, next),
               \/ step = "clear" /\ next = "complete"
               \/ next = "idle"
        PROVE  Alone'
    <3>1. /\ UNCHANGED queue /\ (step = "clear" => Written(w))
          /\ EvaluationGoes(w, next)
      BY <2>8 DEF Clear, EvaluationAt, Written
    <3>2. state'.known = state.known /\ state'.band = state.band
      BY <2>8, StateKept DEF Clear
    <3> QED
      BY <2>6, <2>8, <3>1, <3>2
  <2>9. CASE MarkCompleted(w) \/ MarkFailed(w)
    BY <2>9, MarkAlone
  <2>10. CASE Evaluate(w)
    <3>1. CASE Emit(w, "emit", "clear", "complete")
      BY <2>7, <3>1
    <3>2. CASE Clear(w, "clear", "complete")
      BY <2>8, <3>2
    <3> QED
      BY <2>2, <2>3, <2>4, <2>5, <2>9, <2>10, <3>1, <3>2 DEF Evaluate
  <2>11. CASE Recheck(w)
    <3>1. CASE Emit(w, "recheck", "reclear", "idle")
      BY <2>7, <3>1
    <3>2. CASE Clear(w, "reclear", "idle")
      BY <2>8, <3>2
    <3> QED
      BY <2>11, <3>1, <3>2 DEF Recheck
  <2>12. CASE EvaluationFails(w)
    BY <2>6, <2>12 DEF EvaluationFails
  <2>13. CASE EvaluatorDies(w)
    BY <2>6, <2>13 DEF EvaluatorDies
  <2>14. CASE FindPending(w)
    <3>1. Others(w) /\ evaluation'[w].step = "recheck"
      BY <1>0, <2>14 DEF FindPending, Others, Evaluation
    <3>2. ~Reading(w)' /\ ~Written(w)'
      BY <3>1 DEF Reading, ReadingStep, Written
    <3>3. UNCHANGED <<queue, state>>
      BY <2>14 DEF FindPending
    <3> QED
      BY <2>1, <3>1, <3>2, <3>3, AloneKept
  <2> QED
    BY <1>2, <2>10, <2>11, <2>12, <2>13, <2>14
<1> QED
  BY <1>1, <1>2

LEMMA EnvironmentAlone ==
  ASSUME ThresholdTypeOK, AloneUnlessOverlap, Environment
  PROVE  AloneUnlessOverlap'
<1>1. UNCHANGED <<evaluation, overlap>>
  BY DEF Environment, AttendanceChanges, MarkEmployeeDirty, DirtyMarkLost, SettingsChange,
         EnqueueAfterSettings, EvaluationLapses, EvaluationFallsDue, RecoverEvaluation,
         CooldownEnds
<1> SUFFICES ASSUME Alone PROVE Alone'
  BY <1>1 DEF AloneUnlessOverlap
<1>2. \A v \in Evaluator : (Reading(v)' <=> Reading(v)) /\ (Written(v)' <=> Written(v))
  BY <1>1 DEF Reading, Written
<1>3. OneReads'
  BY <1>2, Zenon DEF Alone, OneReads
<1>4. CASE MarkEmployeeDirty \/ EnqueueAfterSettings \/ RecoverEvaluation
  <2>1. queue'.owner = {} /\ queue'.status = "PENDING"
    BY <1>4, EnvironmentRow
  <2>2. OwnerReads' /\ NobodyReads' /\ WrittenIsCurrent' /\ GoneIsCurrent'
    BY <2>1 DEF OwnerReads, NobodyReads, WrittenIsCurrent, GoneIsCurrent
  <2> QED
    BY <1>3, <2>2 DEF Alone
<1>5. CASE AttendanceChanges \/ DirtyMarkLost \/ SettingsChange \/ CooldownEnds
           \/ EvaluationLapses \/ EvaluationFallsDue
  <2>1. queue'.owner = queue.owner /\ queue'.status = queue.status
    BY <1>5, EnvironmentRow
    DEF AttendanceChanges, DirtyMarkLost, SettingsChange, CooldownEnds
  <2>2. Settled' => Settled /\ (BandCurrent => BandCurrent')
    <3>1. CASE AttendanceChanges \/ DirtyMarkLost \/ SettingsChange
      BY <3>1 DEF AttendanceChanges, DirtyMarkLost, SettingsChange, Settled
    <3>2. CASE CooldownEnds
      BY <3>2, EnvironmentRow DEF CooldownEnds, Settled, BandCurrent
    <3>3. CASE EvaluationLapses \/ EvaluationFallsDue
      BY <3>3 DEF EvaluationLapses, EvaluationFallsDue, Settled, BandCurrent
    <3> QED
      BY <1>5, <3>1, <3>2, <3>3
  <2>3. OwnerReads'
    BY <1>2, <2>1, Zenon DEF Alone, OwnerReads
  <2>4. NobodyReads'
    BY <1>2, <2>1, Zenon DEF Alone, NobodyReads
  <2>5. WrittenIsCurrent'
    BY <1>2, <2>1, <2>2, Zenon DEF Alone, WrittenIsCurrent
  <2>6. GoneIsCurrent'
    BY <2>1, <2>2, Zenon DEF Alone, GoneIsCurrent
  <2> QED
    BY <1>3, <2>3, <2>4, <2>5, <2>6 DEF Alone
<1> QED
  BY <1>4, <1>5 DEF Environment

LEMMA ThresholdInitInv == ThresholdInit => ThresholdInv
<1> SUFFICES ASSUME ThresholdInit PROVE ThresholdInv
  OBVIOUS
<1>1. \A w \in Evaluator : evaluation[w].step = "idle"
  BY DEF ThresholdInit, Idle
<1>2. Measured /\ OneReads /\ OwnerReads /\ NobodyReads /\ WrittenIsCurrent
  BY <1>1 DEF Measured, OneReads, OwnerReads, NobodyReads, WrittenIsCurrent, Reading,
              ReadingStep, Written
<1>3. ~lost => state.known /\ state.band = actual
  <2>1. state = [NoState EXCEPT !.known = TRUE, !.band = actual] => state.band = actual
    BY DEF NoState
  <2>2. state = NoState => ~state.known
    BY DEF NoState
  <2> QED
    BY <2>1, <2>2 DEF ThresholdInit
<1>4. GoneIsCurrent
  BY <1>3 DEF GoneIsCurrent, Settled, BandCurrent
<1> QED
  BY <1>2, <1>4, ThresholdInitTyped DEF ThresholdInv, AloneUnlessOverlap, Alone

LEMMA ThresholdNextInv ==
  ThresholdInv /\ [ThresholdNext]_thresholdVars => ThresholdInv'
<1> SUFFICES ASSUME ThresholdInv, [ThresholdNext]_thresholdVars PROVE ThresholdInv'
  OBVIOUS
<1> USE DEF ThresholdInv
<1>1. ThresholdTypeOK'
  BY ThresholdTypes
<1>2. CASE Environment
  BY <1>1, <1>2, EnvironmentMeasured, EnvironmentAlone
<1>3. ASSUME NEW w \in Evaluator,
             ClaimEvaluation(w) \/ Evaluate(w) \/ EvaluationFails(w) \/ EvaluatorDies(w)
             \/ FindPending(w) \/ Recheck(w)
      PROVE  ThresholdInv'
  BY <1>1, <1>3, EvaluateMeasured, EvaluateAlone
<1>4. CASE UNCHANGED thresholdVars
  <2>1. Measured'
    BY <1>4 DEF thresholdVars, Measured
  <2>2. AloneUnlessOverlap'
    BY <1>4 DEF thresholdVars, AloneUnlessOverlap, Alone, OneReads, OwnerReads, NobodyReads,
                WrittenIsCurrent, GoneIsCurrent, Reading, Written, Settled, BandCurrent
  <2> QED
    BY <1>1, <2>1, <2>2
<1> QED
  BY <1>2, <1>3, <1>4 DEF ThresholdNext, Environment

\* With nothing queued, in progress or still to be marked, the stored band is
\* the one of the attendance as it is - for any number of evaluators, changes,
\* lapses and faults, as long as no dirty mark was lost and no two evaluations of
\* the employee overlapped.
THEOREM QuietThresholds == ThresholdSpec => []QuietMeansCurrent
<1>1. ThresholdInv => QuietMeansCurrent
  BY DEF ThresholdInv, AloneUnlessOverlap, Alone, GoneIsCurrent, Settled, BandCurrent,
         QuietMeansCurrent
<1> QED
  BY <1>1, ThresholdInitInv, ThresholdNextInv, PTL DEF ThresholdSpec
=============================================================================
