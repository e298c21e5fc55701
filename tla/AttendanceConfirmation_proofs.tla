--------------------- MODULE AttendanceConfirmation_proofs ---------------------
(***************************************************************************)
(* Theorems about AttendanceConfirmation, for every set of senders and     *)
(* replies, every choice of events and every bound.  IInv adds to the      *)
(* properties what a sender in flight knows of its row, its message and    *)
(* its session.                                                            *)
(***************************************************************************)
EXTENDS AttendanceConfirmation, FiniteSetTheorems, TLAPS

\* Positions of a sender that has counted its attempt, by what it has done.
BeforeSend == {"gate", "session", "final", "prepare", "send"}
Working == BeforeSend \cup {"supersede", "drop", "record", "ambiguous", "refused",
                            "markSent", "recover", "cleanup", "fail"}
Delivered == {"record", "markSent", "recover"}
Asking == {"final", "drop", "prepare", "send", "record", "ambiguous", "refused",
           "markSent", "recover", "cleanup"}

\* A sender has a row once it is past its search, and an attempt once it works.
LaneShape ==
    \A l \in Lane :
        /\ lane[l].pc # "idle" => lane[l].v \in Version
        /\ lane[l].pc \in Working => lane[l].n > 0
        /\ lane[l].pc \notin Working => lane[l].n = 0

SessionShape == session.kind = "confirmation" => session.v \in Version

\* A row is stale only after it has grown so, and a failed row that never was
\* has no sender left.
StaleIsAged == \A v \in Version : ~note[v].fresh => aged[v]
FailedIsFree ==
    \A v \in Version : note[v].status = "FAILED" /\ ~aged[v] => \A l \in Lane : ~Holding(l, v)

\* A sender that Twilio has accepted from has its message.
AcceptedHasMessage ==
    \A l \in Lane : lane[l].pc \in Delivered => sent[lane[l].v] # {}

\* Without errors, an open question has its sender, its message or a context
\* that forbids another.
QuestionHasSender ==
    session.kind = "confirmation" /\ faults = 0 =>
        \/ sent[session.v] # {}
        \/ context[session.v] \in Blocked
        \/ \E l \in Lane : /\ lane[l].v = session.v /\ lane[l].n = session.n
                           /\ lane[l].pc \in Asking

SendPc == {"send", "record", "ambiguous", "refused"}

\* A reminder whose context tells all: no error, no overlap, and its start is
\* still to come.
Watched(v) == ContextEnabled /\ faults = 0 /\ ~aged[v] /\ v \notin operation.past

\* Its message is unsent while its context is merely prepared, except between
\* the call and the record of its outcome.
OnceAt(v) ==
    /\ \A n, k \in sent[v] : n = k
    /\ \A l \in Lane : lane[l].v = v =>
          /\ lane[l].pc \in SendPc => context[v] = "PREPARED"
          /\ lane[l].pc \in {"send", "refused"} => sent[v] = {}
    /\ sent[v] # {} /\ context[v] \notin Blocked =>
          \E l \in Lane : lane[l].v = v /\ lane[l].pc \in {"record", "ambiguous"}

OneContext == \A v \in Version : Watched(v) => OnceAt(v)

Operation == [status: {"ACTIVE", "COMPLETED", "CANCELLED"},
              start: Version, past: SUBSET Version]

\* The schedule version numbers the starts the assignment has followed.
VersionShape == assignment.version <= operation.start

Shape == TypeOK /\ LaneShape /\ SessionShape /\ VersionShape
Alone == OverlapOnlyWhenStale /\ StaleIsAged /\ FailedIsFree
Messages == SentHasMessage /\ AcceptedHasMessage

IInv ==
    Shape /\ EveryMessageIsCounted /\ Alone /\ Messages /\ QuestionHasSender /\ OneContext

-----------------------------------------------------------------------------
(* Effects of the steps several actions share *)

Searching == {"idle", "claim", "insert", "again", "begin"}

\* One sender moves on with its row and attempt, or gives both up; no other
\* sender changes.
Moves(l) ==
    /\ lane' \in [Lane -> SenderState]
    /\ \A m \in Lane \ {l} : lane'[m] = lane[m]
    /\ \/ lane'[l].n = 0 /\ lane'[l].pc \in Searching
                          /\ (lane'[l].pc # "idle" => lane'[l].v \in Version)
       \/ /\ lane[l].pc \in Working /\ lane'[l].pc \in Working
          /\ lane'[l].v = lane[l].v /\ lane'[l].n = lane[l].n
          /\ lane'[l].pc \in BeforeSend => lane[l].pc \in BeforeSend \ {"send"}
          /\ lane'[l].pc \in Delivered => lane[l].pc \in Delivered \cup {"send"}

\* Go changes the position of one sender.
LEMMA GoEffect ==
  ASSUME lane \in [Lane -> SenderState], NEW l \in Lane,
         NEW pc \in Searching \cup Working, Go(l, pc)
  PROVE  /\ lane' \in [Lane -> SenderState]
         /\ \A m \in Lane \ {l} : lane'[m] = lane[m]
         /\ lane'[l].pc = pc
         /\ lane'[l].v = lane[l].v /\ lane'[l].n = lane[l].n /\ lane'[l].seen = lane[l].seen
<1>1. lane' = [lane EXCEPT ![l].pc = pc]
  BY DEF Go
<1>2. [lane[l] EXCEPT !.pc = pc] \in SenderState
  BY DEF SenderState, Searching, Working, BeforeSend
<1>3. lane'[l] = [lane[l] EXCEPT !.pc = pc]
  BY <1>1
<1> QED
  BY <1>1, <1>2, <1>3 DEF SenderState

\* Stop makes one sender idle.
LEMMA StopEffect ==
  ASSUME lane \in [Lane -> SenderState], NEW l \in Lane, Stop(l)
  PROVE  Moves(l) /\ lane'[l] = Idle
<1>1. lane' = [lane EXCEPT ![l] = Idle]
  BY DEF Stop
<1>2. Idle \in SenderState
  BY ConfirmationAssumption DEF Idle, SenderState, Attempt, Context
<1> QED
  BY <1>1, <1>2 DEF Moves, Idle, Searching

\* SetNote changes the status of one row.
LEMMA SetNoteEffect ==
  ASSUME note \in [Version -> Note], NEW v \in Version,
         NEW s \in {"NONE", "PENDING", "FAILED", "SENT", "SENT_RECOVERY_REQUIRED", "SUPERSEDED"},
         SetNote(v, s)
  PROVE  /\ note' \in [Version -> Note]
         /\ note'[v].status = s
         /\ \A u \in Version : /\ note'[u].attempts = note[u].attempts
                                /\ note'[u].fresh = note[u].fresh
         /\ \A u \in Version \ {v} : note'[u] = note[u]
BY DEF SetNote, Note

\* A claim counts an attempt and gives the sender its number.
LEMMA TakeEffect ==
  ASSUME Shape, NEW l \in Lane, NEW v \in Version, v = lane[l].v,
         note[v].attempts < Ceiling, Take(l)
  PROVE  /\ note' \in [Version -> Note]
         /\ note'[v].status = "PENDING" /\ note'[v].fresh
         /\ note'[v].attempts = note[v].attempts + 1
         /\ \A u \in Version \ {v} : note'[u] = note[u]
         /\ lane' \in [Lane -> SenderState]
         /\ \A m \in Lane \ {l} : lane'[m] = lane[m]
         /\ lane'[l].pc = "gate" /\ lane'[l].v = v
         /\ lane'[l].n = note[v].attempts + 1
<1>1. /\ note' = [note EXCEPT ![v] = Claimed(@)]
      /\ lane' = [lane EXCEPT ![l].pc = "gate", ![l].n = note[v].attempts + 1]
  BY DEF Take
<1>2. note[v] \in Note /\ lane[l] \in SenderState
  BY DEF Shape, TypeOK
<1>3. note[v].attempts + 1 \in Attempt
  BY <1>2, ConfirmationAssumption DEF Note, Attempt
<1>4. Claimed(note[v]) \in Note
  BY <1>2, <1>3 DEF Claimed, Note
<1>5. [lane[l] EXCEPT !.pc = "gate", !.n = note[v].attempts + 1] \in SenderState
  BY <1>2, <1>3 DEF SenderState
<1>6. /\ note'[v] = Claimed(note[v])
      /\ lane'[l] = [lane[l] EXCEPT !.pc = "gate", !.n = note[v].attempts + 1]
  BY <1>1 DEF Shape, TypeOK
<1> QED
  BY <1>1, <1>2, <1>4, <1>5, <1>6 DEF Shape, TypeOK, Claimed, SenderState, Note

\* What the shape of the senders gives for one of them.
LEMMA SenderFacts ==
  ASSUME Shape, NEW l \in Lane
  PROVE  /\ lane[l] \in SenderState
         /\ lane[l].pc # "idle" => lane[l].v \in Version
         /\ lane[l].pc \in Working => lane[l].n \in 1 .. Ceiling
BY ConfirmationAssumption DEF Shape, TypeOK, LaneShape, SenderState, Attempt

\* A sender that moves keeps its shape.
LEMMA MovesShape ==
  ASSUME Shape, NEW l \in Lane, Moves(l)
  PROVE  LaneShape'
BY DEF Shape, LaneShape, Moves, Working, BeforeSend, Searching

\* The state of a sender that has found a candidate.
LEMMA FoundTyped ==
  ASSUME NEW v \in Version
  PROVE  [Idle EXCEPT !.pc = "claim", !.v = v] \in SenderState
<1>1. 0 \in Attempt /\ v \in 0 .. MaxVersion
  BY ConfirmationAssumption DEF Attempt, Version
<1>2. Idle \in SenderState
  BY <1>1, ConfirmationAssumption DEF Idle, SenderState
<1> QED
  BY <1>1, <1>2 DEF SenderState

-----------------------------------------------------------------------------
(* What every action does to the senders *)

\* The steps of a sender that neither take an attempt nor search.
LEMMA SenderMoves ==
  ASSUME Shape, NEW l \in Lane,
         Sending(l) \/ Failing(l) \/ FindCandidate(l)
  PROVE  Moves(l)
<1> USE DEF Moves, Searching, Working, BeforeSend, Delivered
<1>0. /\ lane \in [Lane -> SenderState] /\ lane[l] \in SenderState
      /\ (lane[l].pc # "idle" => lane[l].v \in Version)
  BY SenderFacts DEF Shape, TypeOK
<1>1. CASE EarlyGate(l)
  BY <1>0, <1>1, GoEffect DEF EarlyGate, At
<1>2. CASE MarkSuperseded(l)
  BY <1>0, <1>2, StopEffect DEF MarkSuperseded
<1>3. CASE CreateSession(l)
  BY <1>0, <1>3, GoEffect DEF CreateSession, At
<1>4. CASE FinalGate(l)
  BY <1>0, <1>4, GoEffect DEF FinalGate, At
<1>5. CASE CancelPrepared(l)
  BY <1>0, <1>5, GoEffect DEF CancelPrepared, At
<1>6. CASE Prepare(l)
  <2>1. CASE Stop(l)
    BY <1>0, <2>1, StopEffect
  <2>2. ASSUME NEW seen \in Context \cup {"null"},
               lane' = [lane EXCEPT ![l].pc = "send", ![l].seen = seen]
        PROVE  Moves(l)
    <3>1. [lane[l] EXCEPT !.pc = "send", !.seen = seen] \in SenderState
      BY <1>0 DEF SenderState
    <3>2. lane'[l] = [lane[l] EXCEPT !.pc = "send", !.seen = seen]
      BY <1>0, <2>2
    <3> QED
      BY <1>0, <1>6, <2>2, <3>1, <3>2 DEF Prepare, At, SenderState
  <2>3. \A late \in BOOLEAN : Prepared(lane[l].v, late) \in Context \cup {"null"}
    <3>1. context[lane[l].v] \in Context
      BY <1>0, <1>6 DEF Prepare, At, Shape, TypeOK
    <3> QED
      BY <3>1 DEF Prepared, Context
  <2> DEFINE late == lane[l].v \in operation.past
  <2>4. late \in BOOLEAN
    OBVIOUS
  <2>5. IF ShouldSkipSend(Prepared(lane[l].v, late)) THEN Stop(l)
           ELSE lane' = [lane EXCEPT ![l].pc = "send", ![l].seen = Prepared(lane[l].v, late)]
    BY <1>6 DEF Prepare
  <2> QED
    BY <2>1, <2>2, <2>3, <2>4, <2>5
<1>7. CASE Send(l)
  BY <1>0, <1>7, GoEffect DEF Send, At
<1>8. CASE RecordOutcome(l)
  BY <1>0, <1>8, GoEffect DEF RecordOutcome, AfterSend
<1>9. CASE MarkSent(l)
  BY <1>0, <1>9, StopEffect DEF MarkSent
<1>10. CASE MarkSentRecoveryRequired(l)
  BY <1>0, <1>10, StopEffect DEF MarkSentRecoveryRequired
<1>11. CASE MarkFailed(l)
  BY <1>0, <1>11, StopEffect DEF MarkFailed
<1>12. CASE PrepareFails(l)
  <2>1. lane' = [lane EXCEPT ![l].pc = "send", ![l].seen = "null"] /\ lane[l].pc = "prepare"
    BY <1>12 DEF PrepareFails, At
  <2>2. [lane[l] EXCEPT !.pc = "send", !.seen = "null"] \in SenderState
    BY <1>0 DEF SenderState
  <2>3. lane'[l] = [lane[l] EXCEPT !.pc = "send", !.seen = "null"]
    BY <1>0, <2>1
  <2> QED
    BY <1>0, <2>1, <2>2, <2>3 DEF SenderState
<1>13. CASE RecordFails(l)
  BY <1>0, <1>13, GoEffect DEF RecordFails, AfterSend
<1>14. CASE MarkSentFails(l)
  BY <1>0, <1>14, GoEffect DEF MarkSentFails, At
<1>15. CASE Throws(l)
  BY <1>0, <1>15, GoEffect DEF Throws, At
<1>16. CASE Uncaught(l)
  BY <1>0, <1>16, StopEffect DEF Uncaught
<1>17. CASE Dies(l)
  BY <1>0, <1>17, StopEffect DEF Dies
<1>18. CASE FindCandidate(l)
  <2>1. PICK v \in Version : lane' = [lane EXCEPT ![l] = [Idle EXCEPT !.pc = "claim", !.v = v]]
    BY <1>18 DEF FindCandidate
  <2>2. [Idle EXCEPT !.pc = "claim", !.v = v] \in SenderState
    BY FoundTyped
  <2>3. lane'[l] = [Idle EXCEPT !.pc = "claim", !.v = v]
    BY <1>0, <2>1
  <2> QED
    BY <1>0, <2>1, <2>2, <2>3 DEF Idle
<1> QED
  BY <1>1, <1>2, <1>3, <1>4, <1>5, <1>6, <1>7, <1>8, <1>9, <1>10, <1>11, <1>12, <1>13,
     <1>14, <1>15, <1>16, <1>17, <1>18 DEF Sending, Failing

\* A sender that has found a row claims it, and nothing but the claim counts
\* an attempt.
Claims(l) ==
    LET v == lane[l].v
    IN  /\ v \in Version /\ lane[l].pc \in Searching
        /\ note[v].status = "FAILED" \/ ~note[v].fresh \/ note[v].attempts = 0
        /\ note' \in [Version -> Note]
        /\ note'[v].status = "PENDING" /\ note'[v].fresh
        /\ note'[v].attempts = note[v].attempts + 1
        /\ \A u \in Version \ {v} : note'[u] = note[u]
        /\ lane' \in [Lane -> SenderState]
        /\ \A m \in Lane \ {l} : lane'[m] = lane[m]
        /\ lane'[l].pc = "gate" /\ lane'[l].v = v /\ lane'[l].n = note[v].attempts + 1

\* The claim takes the row or leaves the sender searching.
LEMMA ClaimSteps ==
  ASSUME Shape, NEW l \in Lane, Claiming(l)
  PROVE  /\ UNCHANGED <<world, context, session, reply, sent, aged, faults>>
         /\ \/ Claims(l)
            \/ /\ Moves(l)
               /\ UNCHANGED note \/ (SetNote(lane[l].v, "PENDING") /\ lane[l].pc # "idle")
<1>0. /\ lane \in [Lane -> SenderState] /\ lane[l] \in SenderState
      /\ (lane[l].pc # "idle" => lane[l].v \in Version)
      /\ lane[l].pc \notin Working => lane[l].n = 0
  BY SenderFacts DEF Shape, TypeOK, LaneShape
<1>1. UNCHANGED <<world, context, session, reply, sent, aged, faults>>
  BY DEF Claiming, Reclaim, Insert, BeginAttempt
<1>2. ASSUME Take(l), lane[l].pc \in Searching \ {"idle"}, note[lane[l].v].attempts < Ceiling,
             LET row == note[lane[l].v]
             IN  row.status = "FAILED" \/ ~row.fresh \/ row.attempts = 0
      PROVE  Claims(l)
  <2>1. lane[l].v \in Version
    BY <1>0, <1>2 DEF Searching
  <2> QED
    BY <1>2, <2>1, TakeEffect DEF Claims
<1>3. ASSUME NEW pc \in Searching \ {"idle"}, Go(l, pc), lane[l].pc \in Searching \ {"idle"}
      PROVE  Moves(l)
  BY <1>0, <1>3, GoEffect DEF Moves, Searching, Working, BeforeSend
<1>4. CASE Reclaim(l)
  <2>1. CASE Reclaimable(lane[l].v)
    BY <1>1, <1>2, <1>4, <2>1 DEF Reclaim, Reclaimable, At, Searching
  <2>2. CASE ~Reclaimable(lane[l].v)
    BY <1>1, <1>3, <1>4, <2>2 DEF Reclaim, At, Searching
  <2> QED
    BY <2>1, <2>2
<1>5. CASE Insert(l)
  BY <1>1, <1>3, <1>5 DEF Insert, At, Searching
<1>6. CASE BeginAttempt(l)
  <2>1. CASE note[lane[l].v].status = "PENDING" /\ note[lane[l].v].attempts = 0 /\ Ceiling > 0
    BY <1>1, <1>2, <1>6, <2>1 DEF BeginAttempt, At, Searching
  <2>2. CASE ~(note[lane[l].v].status = "PENDING" /\ note[lane[l].v].attempts = 0 /\ Ceiling > 0)
    BY <1>0, <1>1, <1>6, <2>2, StopEffect DEF BeginAttempt
  <2> QED
    BY <2>1, <2>2
<1> QED
  BY <1>1, <1>4, <1>5, <1>6 DEF Claiming

\* What the three kinds of actors leave alone.
LEMMA SenderKeeps ==
  ASSUME NEW l \in Lane, FindCandidate(l) \/ Claiming(l) \/ Sending(l) \/ Failing(l)
  PROVE  UNCHANGED <<world, reply, aged>>
BY DEF FindCandidate, Claiming, Reclaim, Insert, BeginAttempt, Sending, EarlyGate,
       MarkSuperseded, CreateSession, FinalGate, CancelPrepared, Prepare, Send,
       RecordOutcome, MarkSent, MarkSentRecoveryRequired, MarkFailed, Failing,
       PrepareFails, RecordFails, MarkSentFails, Throws, Uncaught, Dies

LEMMA ReplierKeeps ==
  ASSUME NEW r \in Replier, Replying(r)
  PROVE  UNCHANGED <<operation, attended, note, context, lane, sent, aged>>
BY DEF Replying, AnswerSession, AnswerDurably, ReadAssignment, MarkUnavailable,
       UpdateConfirmationStatus, Conclude, ReplyFails, world

LEMMA EnvironmentKeeps ==
  ASSUME Environment
  PROVE  UNCHANGED <<away, lane, reply, sent, faults>>
BY DEF Environment, Reschedule, CancelAssignment, EndOperation, StartArrives, CheckIn,
       StartPhysical, EndSession, GrowStale, EndContext, world

\* An error step counts a fault.
LEMMA FailingFaults ==
  ASSUME NEW l \in Lane, Failing(l)
  PROVE  Fault /\ UNCHANGED <<note, context, session, sent>>
BY DEF Failing, PrepareFails, RecordFails, MarkSentFails, Throws, Uncaught, Dies

-----------------------------------------------------------------------------
(* What every action but the claim does to the rows and the messages *)

\* Attempts stay, a row grows stale only when that is recorded, a sender that
\* is through with its row records the failure, and only what was accepted is
\* recorded as sent.
Keeps ==
    /\ note' \in [Version -> Note]
    /\ aged' \in [Version -> BOOLEAN]
    /\ \A v \in Version :
        /\ note'[v].attempts = note[v].attempts
        /\ ~note'[v].fresh => ~note[v].fresh \/ aged'[v]
        /\ aged[v] => aged'[v]
        /\ note'[v].status = "FAILED" =>
              \/ note[v].status = "FAILED"
              \/ \E l \in Lane : lane[l].v = v /\ lane[l].pc = "fail" /\ Stop(l)
        /\ note'[v].status \in {"SENT", "SENT_RECOVERY_REQUIRED"} =>
              \/ note[v].status \in {"SENT", "SENT_RECOVERY_REQUIRED"}
              \/ \E l \in Lane : lane[l].v = v /\ lane[l].pc \in Delivered

\* The steps of a sender.
LEMMA SenderRows ==
  ASSUME Shape, NEW l \in Lane,
         FindCandidate(l) \/ (Claiming(l) /\ ~Claims(l)) \/ Sending(l) \/ Failing(l)
  PROVE  Keeps
<1>0. /\ note \in [Version -> Note] /\ aged \in [Version -> BOOLEAN]
      /\ lane[l].pc # "idle" => lane[l].v \in Version
      /\ aged' = aged
  BY SenderFacts, SenderKeeps DEF Shape, TypeOK
<1>1. CASE UNCHANGED note
  BY <1>0, <1>1 DEF Keeps
<1>2. ASSUME NEW s \in {"PENDING", "SUPERSEDED"}, SetNote(lane[l].v, s), lane[l].pc # "idle"
      PROVE  Keeps
  BY <1>0, <1>2, SetNoteEffect DEF Keeps
<1>3. CASE Claiming(l) /\ ~Claims(l)
  <2>1. UNCHANGED note \/ (SetNote(lane[l].v, "PENDING") /\ lane[l].pc # "idle")
    BY <1>3, ClaimSteps
  <2> QED
    BY <1>1, <1>2, <2>1
<1>4. CASE MarkSuperseded(l)
  BY <1>1, <1>2, <1>4 DEF MarkSuperseded, At
<1>5. CASE MarkSent(l)
  BY <1>0, <1>5, SetNoteEffect DEF MarkSent, At, Keeps, Delivered
<1>6. CASE MarkSentRecoveryRequired(l)
  BY <1>0, <1>1, <1>6, SetNoteEffect DEF MarkSentRecoveryRequired, At, Keeps, Delivered
<1>7. CASE MarkFailed(l)
  BY <1>0, <1>7, SetNoteEffect DEF MarkFailed, At, Keeps
<1>8. CASE \/ FindCandidate(l) \/ Failing(l) \/ EarlyGate(l) \/ CreateSession(l) \/ FinalGate(l)
           \/ CancelPrepared(l) \/ Prepare(l) \/ Send(l) \/ RecordOutcome(l)
  <2>1. UNCHANGED note
    BY <1>8, FailingFaults DEF FindCandidate, EarlyGate, CreateSession, FinalGate,
       CancelPrepared, Prepare, Send, RecordOutcome
  <2> QED
    BY <1>1, <2>1
<1> QED
  BY <1>3, <1>4, <1>5, <1>6, <1>7, <1>8 DEF Sending

\* The other steps.
LEMMA OtherRows ==
  ASSUME Shape, (\E r \in Replier : Replying(r)) \/ ReconcileSentRecovery \/ Environment
  PROVE  Keeps
<1>0. /\ note \in [Version -> Note] /\ aged \in [Version -> BOOLEAN]
  BY DEF Shape, TypeOK
<1>1. CASE UNCHANGED <<note, aged>>
  BY <1>0, <1>1 DEF Keeps
<1>2. CASE \E r \in Replier : Replying(r)
  BY <1>1, <1>2, ReplierKeeps
<1>3. CASE ReconcileSentRecovery
  <2>1. note' = [v \in Version |-> IF Reconcilable(note[v])
                                   THEN [note[v] EXCEPT !.status = "SENT"] ELSE note[v]]
        /\ aged' = aged
    BY <1>3 DEF ReconcileSentRecovery
  <2> QED
    BY <1>0, <2>1 DEF Keeps, Note, Reconcilable
<1>4. CASE Environment
  <2>1. CASE Reschedule
    <3>1. note' = [v \in Version |->
                     IF note[v].status \in {"PENDING", "SENT_RECOVERY_REQUIRED"}
                     THEN [note[v] EXCEPT !.status = "SUPERSEDED"] ELSE note[v]]
          /\ aged' = aged
      BY <2>1 DEF Reschedule
    <3> QED
      BY <1>0, <3>1 DEF Keeps, Note
  <2>2. ASSUME NEW v \in Version, GrowStale(v)
        PROVE  Keeps
    <3>1. /\ note' = [note EXCEPT ![v].fresh = FALSE]
          /\ aged' = [aged EXCEPT ![v] = TRUE]
      BY <2>2 DEF GrowStale
    <3> QED
      BY <1>0, <3>1 DEF Keeps, Note
  <2>3. CASE \/ CancelAssignment \/ EndOperation \/ StartArrives
             \/ CheckIn \/ StartPhysical \/ EndSession
             \/ \E v \in Version : EndContext(v)
    <3>1. UNCHANGED <<note, aged>>
      BY <2>3 DEF CancelAssignment, EndOperation, StartArrives, CheckIn, StartPhysical,
         EndSession, EndContext
    <3> QED
      BY <1>1, <3>1
  <2> QED
    BY <1>4, <2>1, <2>2, <2>3 DEF Environment
<1> QED
  BY <1>2, <1>3, <1>4

\* A message is accepted from a sender that sends, and none is lost.
Sends(l) ==
    /\ lane[l].pc = "send" /\ lane'[l].pc \in {"record", "ambiguous", "refused"}
    /\ \/ sent' = [sent EXCEPT ![lane[l].v] = @ \cup {lane[l].n}]
       \/ sent' = sent /\ lane'[l].pc # "record"

LEMMA SenderMessages ==
  ASSUME Shape, NEW l \in Lane,
         FindCandidate(l) \/ Claiming(l) \/ Sending(l) \/ Failing(l)
  PROVE  \/ Sends(l)
         \/ sent' = sent /\ (lane'[l].pc \in Delivered => lane[l].pc \in Delivered)
<1>0. lane \in [Lane -> SenderState]
  BY DEF Shape, TypeOK
<1>1. CASE Send(l)
  BY <1>0, <1>1, GoEffect DEF Send, At, Sends, Working
<1>2. CASE ~Send(l) /\ lane[l].pc = "send"
  <2>1. CASE Dies(l)
    BY <1>0, <2>1, StopEffect DEF Dies, Idle, Delivered
  <2> QED
    BY <1>2, <2>1 DEF FindCandidate, Claiming, Reclaim, Insert, BeginAttempt, Sending, EarlyGate,
       MarkSuperseded, CreateSession, FinalGate, CancelPrepared, Prepare,
       RecordOutcome, MarkSent, MarkSentRecoveryRequired, MarkFailed, Failing,
       PrepareFails, RecordFails, MarkSentFails, Throws, Uncaught, At
<1>3. CASE ~Send(l) /\ lane[l].pc # "send"
  <2>1. sent' = sent
    BY <1>3, FailingFaults, ClaimSteps DEF FindCandidate, Sending, EarlyGate,
       MarkSuperseded, CreateSession, FinalGate, CancelPrepared, Prepare,
       RecordOutcome, MarkSent, MarkSentRecoveryRequired, MarkFailed
  <2>2. Claims(l) \/ Moves(l)
    BY SenderMoves, ClaimSteps
  <2> QED
    BY <1>3, <2>1, <2>2 DEF Claims, Moves, Delivered, Searching
<1> QED
  BY <1>1, <1>2, <1>3

-----------------------------------------------------------------------------
(* The other variables: types, contexts and sessions *)

\* A context keeps its type, and one that forbids another send stays so.
LEMMA Contexts ==
  ASSUME Shape, [Next]_vars
  PROVE  /\ context' \in [Version -> Context]
         /\ \A v \in Version : context[v] \in Blocked => context'[v] \in Blocked
<1>0. context \in [Version -> Context]
  BY DEF Shape, TypeOK
<1>1. CASE UNCHANGED context
  BY <1>0, <1>1
<1>2. ASSUME NEW l \in Lane, Prepare(l)
      PROVE  /\ context' \in [Version -> Context]
             /\ \A v \in Version : context[v] \in Blocked => context'[v] \in Blocked
  <2>1. lane[l].v \in Version
    BY <1>2, SenderFacts DEF Prepare, At
  <2> DEFINE late == lane[l].v \in operation.past
  <2>2. late \in BOOLEAN
    OBVIOUS
  <2>3. context' = [context EXCEPT ![lane[l].v] = IF Prepared(lane[l].v, late) = "null" THEN @
                                                     ELSE Prepared(lane[l].v, late)]
    BY <1>0, <1>2 DEF Prepare
  <2> QED
    BY <1>0, <2>1, <2>2, <2>3 DEF Prepared, Context, Blocked
<1>3. ASSUME NEW l \in Lane, RecordOutcome(l)
      PROVE  /\ context' \in [Version -> Context]
             /\ \A v \in Version : context[v] \in Blocked => context'[v] \in Blocked
  <2>1. lane[l].v \in Version
    BY <1>3, SenderFacts DEF RecordOutcome
  <2>2. context' = [context EXCEPT ![lane[l].v] = Recorded(lane[l].pc, @)]
    BY <1>3 DEF RecordOutcome
  <2> QED
    BY <1>0, <2>1, <2>2 DEF Recorded, Context, Blocked
<1>4. ASSUME NEW v \in Version, EndContext(v)
      PROVE  /\ context' \in [Version -> Context]
             /\ \A u \in Version : context[u] \in Blocked => context'[u] \in Blocked
  BY <1>0, <1>4 DEF EndContext, Context, Blocked
<1>5. ASSUME NEW l \in Lane, FindCandidate(l) \/ Claiming(l) \/ Sending(l) \/ Failing(l),
             ~Prepare(l), ~RecordOutcome(l)
      PROVE  UNCHANGED context
  BY <1>5, ClaimSteps, FailingFaults DEF FindCandidate, Sending, EarlyGate, MarkSuperseded,
     CreateSession, FinalGate, CancelPrepared, Send, MarkSent, MarkSentRecoveryRequired, MarkFailed
<1>6. ASSUME Environment, \A v \in Version : ~EndContext(v)
      PROVE  UNCHANGED context
  BY <1>6 DEF Environment, Reschedule, CancelAssignment, EndOperation, StartArrives, CheckIn,
     StartPhysical, EndSession, GrowStale
<1>7. CASE ReconcileSentRecovery
  BY <1>1, <1>7 DEF ReconcileSentRecovery
<1>8. CASE UNCHANGED vars
  BY <1>1, <1>8 DEF vars
<1> QED
  BY <1>1, <1>2, <1>3, <1>4, <1>5, <1>6, <1>7, <1>8, ReplierKeeps DEF Next

\* A session is opened by a sender that then asks, closed, or one of a
\* physical attendance.
LEMMA Sessions ==
  ASSUME Shape, [Next]_vars
  PROVE  \/ session' = session
         \/ session' = NoSession
         \/ session' = Physical
         \/ \E l \in Lane : /\ CreateSession(l) /\ lane[l].v \in Version
                            /\ session' = Question(lane[l].v, lane[l].n)
<1>1. ASSUME NEW l \in Lane, FindCandidate(l) \/ Claiming(l) \/ Sending(l) \/ Failing(l),
             ~CreateSession(l), ~CancelPrepared(l)
      PROVE  session' = session
  BY <1>1, ClaimSteps, FailingFaults DEF FindCandidate, Sending, EarlyGate, MarkSuperseded,
     Prepare, FinalGate, RecordOutcome, Send, MarkSent, MarkSentRecoveryRequired, MarkFailed
<1>2. ASSUME NEW l \in Lane, CancelPrepared(l)
      PROVE  session' = session \/ session' = NoSession
  BY <1>2 DEF CancelPrepared
<1>3. ASSUME NEW l \in Lane, CreateSession(l), session' # session
      PROVE  lane[l].v \in Version /\ session' = Question(lane[l].v, lane[l].n)
  BY <1>3, SenderFacts DEF CreateSession, At
<1>4. ASSUME NEW r \in Replier, Replying(r)
      PROVE  session' = session \/ session' = NoSession
  BY <1>4 DEF Replying, AnswerSession, AnswerDurably, ReadAssignment, MarkUnavailable,
     UpdateConfirmationStatus, Conclude, ReplyFails
<1>5. CASE ReconcileSentRecovery
  BY <1>5 DEF ReconcileSentRecovery
<1>6. CASE Environment
  BY <1>6 DEF Environment, Reschedule, CancelAssignment, EndOperation, StartArrives, CheckIn,
     StartPhysical, EndSession, GrowStale, EndContext
<1>7. CASE UNCHANGED vars
  BY <1>7 DEF vars
<1> QED
  BY <1>1, <1>2, <1>3, <1>4, <1>5, <1>6, <1>7 DEF Next

\* Replies keep their type.
LEMMA Replies ==
  ASSUME Shape, [Next]_vars
  PROVE  reply' \in [Replier -> ReplyState]
<1>0. /\ reply \in [Replier -> ReplyState]
      /\ session \in Session
      /\ NoSession \in Session
  BY ConfirmationAssumption DEF Shape, TypeOK, NoSession, Session, Attempt
<1>1. Quiet \in ReplyState
  BY <1>0 DEF Quiet, ReplyState
<1>2. ASSUME NEW r \in Replier, NEW i \in {"CONFIRMED", "UNAVAILABLE"},
             AnswerSession(r, i) \/ AnswerDurably(r, i)
      PROVE  reply' \in [Replier -> ReplyState]
  BY <1>0, <1>2 DEF AnswerSession, AnswerDurably, ReplyState
<1>3. ASSUME NEW r \in Replier, NEW pc \in {"mark", "cas", "conclude"},
             reply' = [reply EXCEPT ![r].pc = pc]
      PROVE  reply' \in [Replier -> ReplyState]
  BY <1>0, <1>3 DEF ReplyState
<1>4. ASSUME NEW r \in Replier, reply' = [reply EXCEPT ![r] = Quiet]
      PROVE  reply' \in [Replier -> ReplyState]
  BY <1>0, <1>1, <1>4
<1>5. ASSUME NEW r \in Replier, Replying(r)
      PROVE  reply' \in [Replier -> ReplyState]
  <2>1. CASE ReadAssignment(r)
    <3>1. PICK pc \in {"mark", "cas", "conclude"} : reply' = [reply EXCEPT ![r].pc = pc]
      BY <2>1 DEF ReadAssignment
    <3> QED
      BY <1>3, <3>1
  <2> QED
    BY <1>2, <1>3, <1>4, <1>5, <2>1 DEF Replying, MarkUnavailable, UpdateConfirmationStatus,
       Conclude, ReplyFails
<1>6. CASE UNCHANGED reply
  BY <1>0, <1>6
<1> QED
  BY <1>5, <1>6, SenderKeeps, EnvironmentKeeps DEF Next, ReconcileSentRecovery, vars

\* The assignment, the operation and the attendance keep their types.
LEMMA Worlds ==
  ASSUME Shape, [Next]_vars
  PROVE  /\ assignment' \in [status: Confirmation, version: Version,
                             cancelled: BOOLEAN, workday: BOOLEAN]
         /\ operation' \in Operation
         /\ VersionShape'
         /\ attended' \in BOOLEAN /\ away' \in BOOLEAN
<1>0. /\ assignment \in [status: Confirmation, version: Version,
                         cancelled: BOOLEAN, workday: BOOLEAN]
      /\ operation \in Operation
      /\ attended \in BOOLEAN /\ away \in BOOLEAN
      /\ reply \in [Replier -> ReplyState]
      /\ VersionShape
  BY DEF Shape, TypeOK, Operation
<1> DEFINE Good == /\ assignment' \in [status: Confirmation, version: Version,
                             cancelled: BOOLEAN, workday: BOOLEAN]
                   /\ operation' \in Operation
                   /\ VersionShape'
                   /\ attended' \in BOOLEAN /\ away' \in BOOLEAN
<1>1. CASE UNCHANGED world
  BY <1>0, <1>1 DEF world, VersionShape
<1>2. ASSUME NEW r \in Replier, MarkUnavailable(r)
      PROVE  Good
  BY <1>0, <1>2 DEF MarkUnavailable, VersionShape
<1>3. ASSUME NEW r \in Replier, UpdateConfirmationStatus(r)
      PROVE  Good
  <2>1. reply[r].intent \in Confirmation
    BY <1>0 DEF ReplyState, Confirmation
  <2>2. [assignment EXCEPT !.status = reply[r].intent] \in
          [status: Confirmation, version: Version, cancelled: BOOLEAN, workday: BOOLEAN]
    BY <1>0, <2>1
  <2> QED
    BY <1>0, <1>3, <2>2 DEF UpdateConfirmationStatus, VersionShape
<1>4. ASSUME NEW r \in Replier, Replying(r), ~MarkUnavailable(r), ~UpdateConfirmationStatus(r)
      PROVE  UNCHANGED world
  BY <1>4 DEF Replying, AnswerSession, AnswerDurably, ReadAssignment, Conclude, ReplyFails
<1>5. CASE Reschedule
  <2>0. /\ operation.start + 1 \in Version
        /\ [operation EXCEPT !.start = @ + 1] \in Operation
        /\ [operation EXCEPT !.start = @ + 1].start = operation.start + 1
    BY <1>0, <1>5, ConfirmationAssumption DEF Reschedule, Version, Operation
  <2>1. CASE assignment.cancelled
    <3>1. assignment.version <= operation.start + 1
      BY <1>0 DEF VersionShape, Operation, Version
    <3> QED
      BY <1>0, <1>5, <2>0, <2>1, <3>1 DEF Reschedule, VersionShape
  <2>2. CASE ~assignment.cancelled
    <3>1. assignment.version + 1 \in Version
      BY <1>0, <1>5, ConfirmationAssumption DEF Reschedule, Version, VersionShape, Operation
    <3>2. [assignment EXCEPT !.status = "PENDING", !.version = @ + 1, !.workday = TRUE] \in
            [status: Confirmation, version: Version, cancelled: BOOLEAN, workday: BOOLEAN]
      BY <1>0, <3>1 DEF Confirmation
    <3> QED
      <4>1. assignment'.version = assignment.version + 1 /\ operation'.start = operation.start + 1
        BY <1>0, <1>5, <2>0, <2>2 DEF Reschedule
      <4>2. VersionShape'
        BY <1>0, <4>1 DEF VersionShape, Operation, Version
      <4> QED
        BY <1>0, <1>5, <2>0, <2>2, <3>2, <4>2 DEF Reschedule
  <2> QED
    BY <2>1, <2>2
<1>6. CASE CancelAssignment \/ EndOperation \/ StartArrives \/ CheckIn
  <2>1. CASE CancelAssignment \/ EndOperation \/ CheckIn
    BY <1>0, <1>6, <2>1 DEF CancelAssignment, EndOperation, CheckIn, VersionShape, Operation
  <2>2. CASE StartArrives
    <3>1. PICK v \in 1..operation.start \ operation.past :
            operation' = [operation EXCEPT !.past = @ \cup {v}]
      BY <2>2 DEF StartArrives
    <3>2. v \in Version
      BY <1>0, ConfirmationAssumption DEF Operation, Version
    <3>3. operation' \in Operation /\ operation'.start = operation.start
      BY <1>0, <3>1, <3>2 DEF Operation
    <3> QED
      BY <1>0, <2>2, <3>3 DEF StartArrives, VersionShape
  <2> QED
    BY <1>6, <2>1, <2>2
<1>7. CASE StartPhysical \/ EndSession \/ \E v \in Version : GrowStale(v) \/ EndContext(v)
  BY <1>1, <1>7 DEF StartPhysical, EndSession, GrowStale, EndContext
<1> QED
  BY <1>1, <1>2, <1>3, <1>4, <1>5, <1>6, <1>7, SenderKeeps
  DEF Next, Environment, ReconcileSentRecovery, vars, world, VersionShape

-----------------------------------------------------------------------------
(* Every step *)

\* A step is a claim, or keeps the attempts; then one sender may move, and
\* when it sends a message may be added.
Unsent == sent' = sent /\ UNCHANGED lane
Turn(l) ==
    /\ Moves(l)
    /\ \/ Sends(l)
       \/ sent' = sent /\ (lane'[l].pc \in Delivered => lane[l].pc \in Delivered)

LEMMA Steps ==
  ASSUME Shape, [Next]_vars
  PROVE  \/ \E l \in Lane : Claims(l) /\ UNCHANGED <<sent, aged>>
         \/ Keeps /\ (Unsent \/ \E l \in Lane : Turn(l))
<1>1. ASSUME NEW l \in Lane, FindCandidate(l) \/ Claiming(l) \/ Sending(l) \/ Failing(l)
      PROVE  \/ Claims(l) /\ UNCHANGED <<sent, aged>>
             \/ Keeps /\ Turn(l)
  <2>1. CASE Claiming(l) /\ Claims(l)
    BY <2>1, ClaimSteps
  <2>2. CASE FindCandidate(l) \/ (Claiming(l) /\ ~Claims(l)) \/ Sending(l) \/ Failing(l)
    <3>1. Keeps
      BY <2>2, SenderRows
    <3>2. Moves(l)
      BY <2>2, SenderMoves, ClaimSteps
    <3> QED
      BY <2>2, <3>1, <3>2, SenderMessages DEF Turn
  <2> QED
    BY <1>1, <2>1, <2>2
<1>2. CASE (\E r \in Replier : Replying(r)) \/ ReconcileSentRecovery \/ Environment
  <2>1. Unsent
    BY <1>2, ReplierKeeps, EnvironmentKeeps DEF ReconcileSentRecovery, Unsent
  <2> QED
    BY <1>2, <2>1, OtherRows
<1>3. CASE UNCHANGED vars
  <2>1. note \in [Version -> Note] /\ aged \in [Version -> BOOLEAN]
    BY DEF Shape, TypeOK
  <2>2. Keeps
    BY <1>3, <2>1 DEF Keeps, vars
  <2> QED
    BY <1>3, <2>2 DEF Unsent, vars
<1> QED
  BY <1>1, <1>2, <1>3 DEF Next

\* Errors are counted and never forgotten.
LEMMA FaultsStep ==
  ASSUME Shape, [Next]_vars
  PROVE  faults' \in 0 .. MaxFaults /\ (faults' = 0 => faults = 0)
<1>0. faults \in 0 .. MaxFaults
  BY DEF Shape, TypeOK
<1>1. CASE Fault
  BY <1>0, <1>1, ConfirmationAssumption DEF Fault
<1>2. ASSUME NEW r \in Replier, Replying(r)
      PROVE  UNCHANGED faults \/ Fault
  BY <1>2 DEF Replying, AnswerSession, AnswerDurably, ReadAssignment, MarkUnavailable,
     UpdateConfirmationStatus, Conclude, ReplyFails
<1>3. ASSUME NEW l \in Lane, FindCandidate(l) \/ Claiming(l) \/ Sending(l) \/ Failing(l)
      PROVE  UNCHANGED faults \/ Fault
  BY <1>3, ClaimSteps, FailingFaults DEF FindCandidate, Sending, EarlyGate, MarkSuperseded,
     CreateSession, CancelPrepared, Prepare, FinalGate, RecordOutcome, Send, MarkSent,
     MarkSentRecoveryRequired, MarkFailed
<1>4. CASE UNCHANGED faults
  BY <1>0, <1>4
<1> QED
  BY <1>1, <1>2, <1>3, <1>4, EnvironmentKeeps DEF Next, ReconcileSentRecovery, vars

\* Types and shapes are kept.
LEMMA ShapeStep ==
  ASSUME Shape, [Next]_vars
  PROVE  Shape'
<1>1. /\ note' \in [Version -> Note]
      /\ lane' \in [Lane -> SenderState]
      /\ aged' \in [Version -> BOOLEAN]
  <2>1. lane \in [Lane -> SenderState] /\ aged \in [Version -> BOOLEAN]
    BY DEF Shape, TypeOK
  <2> QED
    BY <2>1, Steps DEF Claims, Keeps, Turn, Moves, Unsent
<1>2. session' \in Session /\ SessionShape'
  <2>0. session \in Session /\ SessionShape
    BY DEF Shape, TypeOK
  <2>1. NoSession \in Session /\ Physical \in Session
    BY ConfirmationAssumption DEF NoSession, Physical, Session, Attempt
  <2>2. ASSUME NEW l \in Lane, lane[l].v \in Version, session' = Question(lane[l].v, lane[l].n)
        PROVE  session' \in Session /\ SessionShape'
    <3>1. lane[l].n \in Attempt /\ lane[l].v \in 0 .. MaxVersion
      BY SenderFacts DEF SenderState
    <3> QED
      BY <2>2, <3>1 DEF Question, Session, SessionShape
  <2>3. CASE session' = NoSession \/ session' = Physical
    BY <2>1, <2>3 DEF SessionShape, NoSession, Physical
  <2>4. CASE session' = session
    BY <2>0, <2>4 DEF SessionShape
  <2> QED
    BY <2>2, <2>3, <2>4, Sessions
<1>3. sent' \in [Version -> SUBSET (1 .. Ceiling)]
  <2>0. sent \in [Version -> SUBSET (1 .. Ceiling)]
    BY DEF Shape, TypeOK
  <2>1. ASSUME NEW l \in Lane, Sends(l)
        PROVE  sent' \in [Version -> SUBSET (1 .. Ceiling)]
    <3>1. lane[l].v \in Version /\ lane[l].n \in 1 .. Ceiling
      BY <2>1, SenderFacts DEF Sends, Working, BeforeSend
    <3> QED
      BY <2>0, <2>1, <3>1 DEF Sends
  <2> QED
    BY <2>0, <2>1, Steps DEF Unsent, Turn
<1>4. faults' \in 0 .. MaxFaults
  BY FaultsStep
<1>5. LaneShape'
  <2>1. ASSUME NEW l \in Lane, Claims(l)
        PROVE  LaneShape'
    <3>1. note[lane[l].v].attempts \in Nat
      BY <2>1, ConfirmationAssumption DEF Claims, Shape, TypeOK, Note, Attempt
    <3> QED
      BY <2>1, <3>1 DEF Claims, Shape, LaneShape, Working, BeforeSend, Searching
  <2>2. CASE UNCHANGED lane
    BY <2>2 DEF Shape, LaneShape
  <2> QED
    BY <2>1, <2>2, Steps, MovesShape DEF Unsent, Turn
<1>6. TypeOK'
  BY <1>1, <1>2, <1>3, <1>4, Contexts, Replies, Worlds DEF TypeOK, Operation
<1> QED
  BY <1>2, <1>5, <1>6, Worlds DEF Shape

\* Every claim counts an attempt, so attempts and messages have one owner.
LEMMA CountedStep ==
  ASSUME Shape, EveryMessageIsCounted, [Next]_vars
  PROVE  EveryMessageIsCounted'
<1>0. /\ \A v \in Version : note[v].attempts \in Nat
      /\ \A v \in Version : sent[v] \subseteq Nat
      /\ sent \in [Version -> SUBSET (1 .. Ceiling)]
      /\ \A l \in Lane : lane[l].n \in Nat
  BY ConfirmationAssumption DEF Shape, TypeOK, Note, Attempt, SenderState
<1>1. ASSUME NEW l \in Lane, Claims(l), sent' = sent
      PROVE  EveryMessageIsCounted'
  <2> DEFINE w == lane[l].v
  <2>1. \A m \in Lane \ {l} : Holding(m, w) => lane[m].n < lane'[l].n
    BY <1>0, <1>1 DEF Claims, EveryMessageIsCounted
  <2>2. lane'[l].n \notin sent[w]
    BY <1>0, <1>1 DEF Claims, EveryMessageIsCounted
  <2>3. \A v \in Version : note'[v].attempts \in {note[v].attempts, note[v].attempts + 1}
    BY <1>1 DEF Claims
  <2>4. \A v \in Version : \A n \in sent'[v] : n <= note'[v].attempts
    <3>1. ASSUME NEW v \in Version, NEW n \in sent'[v]
          PROVE  n <= note'[v].attempts
      <4>1. n \in Nat /\ n <= note[v].attempts
        BY <1>0, <1>1, <3>1 DEF EveryMessageIsCounted
      <4> QED
        BY <1>0, <2>3, <4>1
    <3> QED
      BY <3>1
  <2>5. ASSUME NEW v \in Version, NEW m \in Lane, Holding(m, v)'
        PROVE  /\ lane'[m].n <= note'[v].attempts
               /\ lane'[m].pc \in BeforeSend => lane'[m].n \notin sent'[v]
               /\ \A k \in Lane \ {m} : Holding(k, v)' => lane'[k].n # lane'[m].n
    <3>1. CASE m = l
      BY <1>0, <1>1, <2>1, <2>2, <2>5, <3>1 DEF Claims, Holding
    <3>2. CASE m # l
      <4>1. lane'[m] = lane[m] /\ Holding(m, v)
        BY <1>1, <2>5, <3>2 DEF Claims, Holding
      <4>2. /\ lane[m].n <= note[v].attempts
            /\ lane[m].pc \in BeforeSend => lane[m].n \notin sent[v]
            /\ \A k \in Lane \ {m} : Holding(k, v) => lane[k].n # lane[m].n
        BY <4>1 DEF EveryMessageIsCounted, BeforeSend
      <4>3. ASSUME NEW k \in Lane \ {m}, Holding(k, v)'
            PROVE  lane'[k].n # lane'[m].n
        BY <1>0, <1>1, <2>1, <4>1, <4>2, <4>3 DEF Claims, Holding
      <4>4. lane'[m].n <= note'[v].attempts
        BY <1>0, <2>3, <4>1, <4>2
      <4> QED
        BY <1>1, <4>1, <4>2, <4>3, <4>4
    <3> QED
      BY <3>1, <3>2
  <2> QED
    BY <2>4, <2>5 DEF EveryMessageIsCounted, BeforeSend
<1>2. CASE Keeps /\ Unsent
  BY <1>2 DEF Keeps, Unsent, EveryMessageIsCounted, Holding
<1>3. ASSUME NEW l \in Lane, Keeps, Turn(l)
      PROVE  EveryMessageIsCounted'
  <2>1. \A m \in Lane, v \in Version : Holding(m, v)' =>
           /\ Holding(m, v) /\ lane'[m].n = lane[m].n
           /\ lane'[m].pc \in BeforeSend => lane[m].pc \in BeforeSend /\ (m = l => lane[l].pc # "send")
    BY <1>3 DEF Turn, Moves, Holding
  <2>2. \A v \in Version : \A n \in sent'[v] :
           n \in sent[v] \/ (Sends(l) /\ v = lane[l].v /\ n = lane[l].n)
    BY <1>0, <1>3 DEF Turn, Sends
  <2>3. Sends(l) => lane[l].v \in Version /\ Holding(l, lane[l].v) /\ lane[l].pc = "send"
    BY <1>0, SenderFacts DEF Sends, Holding, Working, BeforeSend
  <2>4. \A v \in Version : note'[v].attempts = note[v].attempts
    BY <1>3 DEF Keeps
  <2>5. \A v \in Version : \A n \in sent'[v] : n <= note'[v].attempts
    BY <2>2, <2>3, <2>4 DEF EveryMessageIsCounted
  <2>6. ASSUME NEW v \in Version, NEW m \in Lane, Holding(m, v)'
        PROVE  /\ lane'[m].n <= note'[v].attempts
               /\ lane'[m].pc \in BeforeSend => lane'[m].n \notin sent'[v]
               /\ \A k \in Lane \ {m} : Holding(k, v)' => lane'[k].n # lane'[m].n
    <3>1. /\ lane[m].n <= note[v].attempts
          /\ lane[m].pc \in BeforeSend => lane[m].n \notin sent[v]
          /\ \A k \in Lane \ {m} : Holding(k, v) => lane[k].n # lane[m].n
      BY <2>1, <2>6 DEF EveryMessageIsCounted, BeforeSend
    <3>2. lane'[m].pc \in BeforeSend => lane'[m].n \notin sent'[v]
      BY <2>1, <2>2, <2>3, <2>6, <3>1
    <3> QED
      BY <2>1, <2>4, <2>6, <3>1, <3>2
  <2> QED
    BY <2>5, <2>6 DEF EveryMessageIsCounted, BeforeSend
<1> QED
  BY <1>1, <1>2, <1>3, Steps

\* Two senders share a row only after it has grown stale.
LEMMA AloneStep ==
  ASSUME Shape, EveryMessageIsCounted, Alone, [Next]_vars
  PROVE  Alone'
<1>0. /\ \A v \in Version : note[v].attempts \in Nat
      /\ \A l \in Lane : lane[l] \in SenderState /\ lane[l].n \in Nat
  BY ConfirmationAssumption DEF Shape, TypeOK, Note, Attempt, SenderState
<1>1. ASSUME NEW l \in Lane, Claims(l), UNCHANGED aged
      PROVE  Alone'
  <2>1. ~aged[lane[l].v] => \A m \in Lane : ~Holding(m, lane[l].v)
    <3>1. CASE note[lane[l].v].status = "FAILED" \/ ~note[lane[l].v].fresh
      BY <1>1, <3>1 DEF Claims, Alone, FailedIsFree, StaleIsAged
    <3>2. CASE note[lane[l].v].attempts = 0
      BY <1>0, <1>1, <3>2 DEF Claims, EveryMessageIsCounted, Holding
    <3> QED
      BY <1>1, <3>1, <3>2 DEF Claims
  <2>2. \A m \in Lane, v \in Version :
           Holding(m, v)' => (Holding(m, v) /\ m # l) \/ (m = l /\ v = lane[l].v)
    BY <1>1 DEF Claims, Holding
  <2>3. OverlapOnlyWhenStale'
    BY <1>1, <2>1, <2>2 DEF Alone, OverlapOnlyWhenStale
  <2>4. StaleIsAged'
    BY <1>1 DEF Claims, Alone, StaleIsAged
  <2>5. FailedIsFree'
    BY <1>1, <2>2 DEF Claims, Alone, FailedIsFree
  <2> QED
    BY <2>3, <2>4, <2>5 DEF Alone
<1>2. ASSUME Keeps, \A m \in Lane, v \in Version : Holding(m, v)' => Holding(m, v)
      PROVE  Alone'
  <2>1. OverlapOnlyWhenStale' /\ StaleIsAged'
    BY <1>2 DEF Keeps, Alone, OverlapOnlyWhenStale, StaleIsAged
  <2>2. ASSUME NEW v \in Version, note'[v].status = "FAILED", ~aged'[v], NEW m \in Lane, Holding(m, v)'
        PROVE  FALSE
    <3>1. ~aged[v] /\ Holding(m, v)
      BY <1>2, <2>2 DEF Keeps
    <3>2. PICK l \in Lane : lane[l].v = v /\ lane[l].pc = "fail" /\ Stop(l)
      BY <1>2, <2>2, <3>1 DEF Keeps, Alone, FailedIsFree
    <3>3. Holding(l, v)
      BY <3>2, SenderFacts DEF Holding, Working
    <3>4. l = m
      BY <3>1, <3>3 DEF Alone, OverlapOnlyWhenStale
    <3>5. lane'[l] = Idle
      BY <3>2, StopEffect DEF Shape, TypeOK
    <3> QED
      BY <2>2, <3>4, <3>5 DEF Holding, Idle
  <2> QED
    BY <2>1, <2>2 DEF Alone, FailedIsFree
<1>3. Unsent => \A m \in Lane, v \in Version : Holding(m, v)' => Holding(m, v)
  BY DEF Unsent, Holding
<1>4. ASSUME NEW l \in Lane, Turn(l)
      PROVE  \A m \in Lane, v \in Version : Holding(m, v)' => Holding(m, v)
  BY <1>4 DEF Turn, Moves, Holding
<1> QED
  BY <1>1, <1>2, <1>3, <1>4, Steps

\* What is recorded as sent has been accepted, and no message is forgotten.
LEMMA MessagesStep ==
  ASSUME Shape, Messages, [Next]_vars
  PROVE  /\ Messages'
         /\ \A v \in Version : sent[v] # {} => sent'[v] # {}
<1>0. /\ sent \in [Version -> SUBSET (1 .. Ceiling)]
      /\ \A l \in Lane : lane[l].pc # "idle" => lane[l].v \in Version
  BY SenderFacts DEF Shape, TypeOK
<1>1. ASSUME NEW l \in Lane, Sends(l)
      PROVE  /\ \A v \in Version : sent[v] # {} => sent'[v] # {}
             /\ lane'[l].pc \in Delivered => sent'[lane[l].v] # {}
  BY <1>0, <1>1 DEF Sends, Delivered
<1>2. \A v \in Version : sent[v] # {} => sent'[v] # {}
  BY <1>1, Steps DEF Turn, Unsent
<1>3. AcceptedHasMessage'
  <2>1. ASSUME NEW l \in Lane, Claims(l), sent' = sent
        PROVE  AcceptedHasMessage'
    BY <2>1 DEF Claims, Messages, AcceptedHasMessage, Delivered
  <2>2. CASE Unsent
    BY <2>2 DEF Unsent, Messages, AcceptedHasMessage
  <2>3. ASSUME NEW l \in Lane, Turn(l)
        PROVE  AcceptedHasMessage'
    <3>1. ASSUME NEW m \in Lane \ {l}, lane'[m].pc \in Delivered
          PROVE  sent'[lane'[m].v] # {}
      <4>1. lane'[m] = lane[m]
        BY <2>3 DEF Turn, Moves
      <4> QED
        BY <1>0, <1>2, <3>1, <4>1 DEF Messages, AcceptedHasMessage, Delivered
    <3>2. ASSUME lane'[l].pc \in Delivered
          PROVE  sent'[lane'[l].v] # {}
      <4>1. lane'[l].v = lane[l].v /\ lane[l].pc \in Working
        BY <2>3, <3>2 DEF Turn, Moves, Delivered, Searching
      <4>2. lane[l].v \in Version
        BY <1>0, <4>1 DEF Working, BeforeSend
      <4>3. CASE Sends(l)
        BY <1>1, <3>2, <4>1, <4>3
      <4>4. CASE lane[l].pc \in Delivered
        BY <1>2, <4>1, <4>2, <4>4 DEF Messages, AcceptedHasMessage
      <4> QED
        BY <2>3, <3>2, <4>3, <4>4 DEF Turn
    <3> QED
      BY <3>1, <3>2 DEF AcceptedHasMessage
  <2> QED
    BY <2>1, <2>2, <2>3, Steps
<1>4. SentHasMessage'
  <2>1. ASSUME NEW l \in Lane, Claims(l)
        PROVE  SentHasMessage'
    BY <1>2, <2>1 DEF Claims, Messages, SentHasMessage
  <2>2. CASE Keeps
    BY <1>2, <2>2 DEF Keeps, Messages, SentHasMessage, AcceptedHasMessage
  <2> QED
    BY <2>1, <2>2, Steps
<1> QED
  BY <1>2, <1>3, <1>4 DEF Messages

\* A sender that asked leaves its question only with the message accepted, the
\* context blocked, the session cancelled or an error.
LEMMA AskingStep ==
  ASSUME Shape, Messages, NEW l \in Lane, lane[l].pc \in Asking, [Next]_vars, faults' = 0,
         session.kind = "confirmation", session' = session,
         session.v = lane[l].v, session.n = lane[l].n
  PROVE  \/ lane'[l].v = lane[l].v /\ lane'[l].n = lane[l].n /\ lane'[l].pc \in Asking
         \/ sent[lane[l].v] # {}
         \/ context'[lane[l].v] \in Blocked
<1>0. /\ lane \in [Lane -> SenderState] /\ lane[l].v \in Version
      /\ context \in [Version -> Context]
      /\ faults \in Nat
      /\ session = Question(lane[l].v, lane[l].n)
  <2>1. session \in Session
    BY DEF Shape, TypeOK
  <2> QED
    BY <2>1, SenderFacts, ConfirmationAssumption DEF Shape, TypeOK, Asking, Session, Question
<1> DEFINE Asks == lane'[l].v = lane[l].v /\ lane'[l].n = lane[l].n /\ lane'[l].pc \in Asking
<1>1. ASSUME UNCHANGED lane
      PROVE  Asks
  BY <1>1
<1>2. ASSUME NEW pc \in Asking, Go(l, pc)
      PROVE  Asks
  BY <1>0, <1>2, GoEffect DEF Asking, Working, BeforeSend
<1>3. ASSUME NEW m \in Lane \ {l}, FindCandidate(m) \/ Claiming(m) \/ Sending(m) \/ Failing(m)
      PROVE  Asks
  BY <1>3, SenderMoves, ClaimSteps DEF Moves, Claims
<1>4. ~Failing(l)
  BY <1>0, FailingFaults DEF Fault
<1>5. ~FindCandidate(l) /\ ~Claiming(l)
  BY DEF FindCandidate, Claiming, Reclaim, Insert, BeginAttempt, At, Asking
<1>6. ~EarlyGate(l) /\ ~MarkSuperseded(l) /\ ~CreateSession(l) /\ ~MarkFailed(l)
  BY DEF EarlyGate, MarkSuperseded, CreateSession, MarkFailed, At, Asking
<1>7. ~CancelPrepared(l)
  BY <1>0 DEF CancelPrepared, NoSession, Question
<1>8. CASE FinalGate(l)
  BY <1>2, <1>8 DEF FinalGate, Asking
<1>9. CASE Send(l)
  BY <1>2, <1>9 DEF Send, Asking
<1>10. CASE RecordOutcome(l)
  BY <1>2, <1>10 DEF RecordOutcome, AfterSend, Asking
<1>11. CASE MarkSent(l) \/ MarkSentRecoveryRequired(l)
  BY <1>11 DEF MarkSent, MarkSentRecoveryRequired, At, Messages, AcceptedHasMessage, Delivered
<1>12. CASE Prepare(l)
  <2> DEFINE late == lane[l].v \in operation.past
  <2>0. late \in BOOLEAN
    OBVIOUS
  <2>1. LET seen == Prepared(lane[l].v, late)
        IN  /\ context' = [context EXCEPT ![lane[l].v] = IF seen = "null" THEN @ ELSE seen]
            /\ IF ShouldSkipSend(seen) THEN Stop(l)
               ELSE lane' = [lane EXCEPT ![l].pc = "send", ![l].seen = seen]
    BY <1>12 DEF Prepare
  <2>2. CASE ShouldSkipSend(Prepared(lane[l].v, late))
    <3>1. Prepared(lane[l].v, late) \in Blocked
      BY <2>2 DEF ShouldSkipSend
    <3> QED
      BY <1>0, <2>1, <3>1 DEF Blocked
  <2>3. CASE ~ShouldSkipSend(Prepared(lane[l].v, late))
    <3>1. lane' = [lane EXCEPT ![l].pc = "send", ![l].seen = Prepared(lane[l].v, late)]
      BY <2>1, <2>3
    <3>2. lane'[l] = [lane[l] EXCEPT !.pc = "send", !.seen = Prepared(lane[l].v, late)]
      BY <1>0, <3>1
    <3> QED
      BY <1>0, <3>2 DEF SenderState, Asking
  <2> QED
    BY <2>2, <2>3
<1>13. CASE (\E r \in Replier : Replying(r)) \/ ReconcileSentRecovery \/ Environment \/ UNCHANGED vars
  BY <1>1, <1>13, ReplierKeeps, EnvironmentKeeps DEF ReconcileSentRecovery, vars
<1> QED
  BY <1>3, <1>4, <1>5, <1>6, <1>7, <1>8, <1>9, <1>10, <1>11, <1>12, <1>13 DEF Next, Sending

\* An open question keeps its sender, its message or its blocked context.
LEMMA QuestionStep ==
  ASSUME Shape, Messages, QuestionHasSender, [Next]_vars
  PROVE  QuestionHasSender'
<1> SUFFICES ASSUME session'.kind = "confirmation", faults' = 0
             PROVE  \/ sent'[session'.v] # {}
                    \/ context'[session'.v] \in Blocked
                    \/ \E l \in Lane : /\ lane'[l].v = session'.v /\ lane'[l].n = session'.n
                                       /\ lane'[l].pc \in Asking
  BY DEF QuestionHasSender
<1>1. CASE session' = session
  <2>1. session.v \in Version
    BY <1>1 DEF Shape, SessionShape
  <2>2. CASE sent[session.v] # {}
    BY <1>1, <2>1, <2>2, MessagesStep
  <2>3. CASE context[session.v] \in Blocked
    BY <1>1, <2>1, <2>3, Contexts
  <2>4. ASSUME NEW l \in Lane, lane[l].v = session.v, lane[l].n = session.n, lane[l].pc \in Asking
        PROVE  \/ sent'[session'.v] # {}
               \/ context'[session'.v] \in Blocked
               \/ lane'[l].v = session'.v /\ lane'[l].n = session'.n /\ lane'[l].pc \in Asking
    <3>1. \/ lane'[l].v = lane[l].v /\ lane'[l].n = lane[l].n /\ lane'[l].pc \in Asking
          \/ sent[lane[l].v] # {}
          \/ context'[lane[l].v] \in Blocked
      BY <1>1, <2>4, AskingStep
    <3>2. sent[session.v] # {} => sent'[session.v] # {}
      BY <2>1, MessagesStep
    <3> QED
      BY <1>1, <2>4, <3>1, <3>2
  <2> QED
    BY <1>1, <2>2, <2>3, <2>4, FaultsStep DEF QuestionHasSender
<1>2. ASSUME NEW l \in Lane, CreateSession(l), session' = Question(lane[l].v, lane[l].n), session' # session
      PROVE  /\ lane'[l].v = session'.v /\ lane'[l].n = session'.n
             /\ lane'[l].pc \in Asking
  <2>1. Go(l, "final") /\ lane \in [Lane -> SenderState]
    BY <1>2 DEF CreateSession, Shape, TypeOK
  <2> QED
    BY <1>2, <2>1, GoEffect DEF Question, Asking, Working, BeforeSend
<1> QED
  BY <1>1, <1>2, Sessions DEF NoSession, Physical

-----------------------------------------------------------------------------
(* One durable context, one message *)

\* The starts that are past stay past.
LEMMA PastStays ==
  ASSUME Shape, [Next]_vars
  PROVE  operation.past \subseteq operation'.past
<1>0. operation \in Operation
  BY DEF Shape, TypeOK, Operation
<1>1. CASE UNCHANGED operation
  BY <1>1
<1>2. CASE Reschedule \/ EndOperation
  BY <1>0, <1>2 DEF Reschedule, EndOperation, Operation
<1>3. CASE StartArrives
  BY <1>0, <1>3 DEF StartArrives, Operation
<1>4. CASE Environment /\ ~(Reschedule \/ EndOperation \/ StartArrives)
  BY <1>1, <1>4 DEF Environment, CancelAssignment, CheckIn, StartPhysical, EndSession,
     GrowStale, EndContext, world
<1> QED
  BY <1>1, <1>2, <1>3, <1>4, SenderKeeps, ReplierKeeps
     DEF Next, ReconcileSentRecovery, vars, world

LEMMA WatchedBefore ==
  ASSUME Shape, [Next]_vars, NEW v \in Version, Watched(v)'
  PROVE  Watched(v) /\ v \notin operation'.past /\ ~Fault
<1>1. faults' = 0 /\ ~aged'[v] /\ v \notin operation'.past /\ ContextEnabled
  BY DEF Watched
<1>2. faults = 0 /\ v \notin operation.past
  BY <1>1, FaultsStep, PastStays
<1>3. ~aged[v]
  BY <1>1, Steps DEF Keeps
<1>4. ~Fault
  BY <1>1, <1>2 DEF Fault
<1> QED
  BY <1>1, <1>2, <1>3, <1>4 DEF Watched

\* The sender of a reminder that never went stale has it to itself.
LEMMA Sole ==
  ASSUME Shape, Alone, NEW v \in Version, ~aged[v], NEW l \in Lane, NEW k \in Lane,
         lane[l].v = v, lane[k].v = v, lane[l].pc \in Working, lane[k].pc \in Working
  PROVE  k = l
<1>1. Holding(l, v) /\ Holding(k, v)
  BY DEF Shape, LaneShape, Holding
<1> QED
  BY <1>1 DEF Alone, OverlapOnlyWhenStale

\* A step that neither nears nor leaves the call to Twilio.
Quietly ==
    /\ sent' = sent
    /\ \A v \in Version : context'[v] = context[v] \/ {context[v], context'[v]} \subseteq Blocked
    /\ \A l \in Lane : lane'[l] = lane[l]
                       \/ (lane[l].pc \notin SendPc /\ lane'[l].pc \notin SendPc)

LEMMA QuietSteps ==
  ASSUME Shape, [Next]_vars, ~Fault,
         \A l \in Lane : ~(Prepare(l) \/ Send(l) \/ RecordOutcome(l))
  PROVE  Quietly
<1>0. /\ lane \in [Lane -> SenderState] /\ context \in [Version -> Context]
      /\ \A l \in Lane : lane[l].pc \notin Working => lane[l].n = 0
  BY DEF Shape, TypeOK, LaneShape
<1>1. ASSUME NEW l \in Lane, sent' = sent, context' = context,
             \A m \in Lane \ {l} : lane'[m] = lane[m],
             lane[l].pc \notin SendPc, lane'[l].pc \notin SendPc
      PROVE  Quietly
  BY <1>1 DEF Quietly
<1>2. ASSUME NEW l \in Lane, FindCandidate(l) \/ Claiming(l)
      PROVE  Quietly
  <2>1. sent' = sent /\ context' = context
    BY <1>2, ClaimSteps DEF FindCandidate
  <2>2. lane[l].pc \in Searching
    BY <1>2 DEF FindCandidate, Claiming, Reclaim, Insert, BeginAttempt, At, Searching
  <2>3. Moves(l) \/ (Claims(l) /\ Claiming(l))
    BY <1>2, ClaimSteps, SenderMoves
  <2>4. /\ \A m \in Lane \ {l} : lane'[m] = lane[m]
        /\ lane'[l].pc \notin SendPc
    BY <2>2, <2>3 DEF Moves, Claims, Searching, Working, BeforeSend, SendPc
  <2> QED
    BY <1>1, <2>1, <2>2, <2>4 DEF Searching, SendPc
<1>3. ASSUME NEW l \in Lane, Sending(l)
      PROVE  Quietly
  <2>1. sent' = sent /\ context' = context
    BY <1>3 DEF Sending, EarlyGate, MarkSuperseded, CreateSession, FinalGate, CancelPrepared,
       MarkSent, MarkSentRecoveryRequired, MarkFailed
  <2>2. lane[l].pc \notin SendPc
    BY <1>3 DEF Sending, EarlyGate, MarkSuperseded, CreateSession, FinalGate, CancelPrepared,
       MarkSent, MarkSentRecoveryRequired, MarkFailed, At, SendPc
  <2>3. \A m \in Lane \ {l} : lane'[m] = lane[m]
    BY <1>3, SenderMoves DEF Moves
  <2>4. lane'[l].pc \notin SendPc
    <3>1. \/ \E pc \in {"session", "supersede", "final", "prepare", "drop", "fail"} : Go(l, pc)
          \/ Stop(l)
      BY <1>3 DEF Sending, EarlyGate, MarkSuperseded, CreateSession, FinalGate, CancelPrepared,
         MarkSent, MarkSentRecoveryRequired, MarkFailed
    <3>2. CASE Stop(l)
      BY <1>0, <3>2, StopEffect DEF Idle, SendPc
    <3>3. ASSUME NEW pc \in {"session", "supersede", "final", "prepare", "drop", "fail"}, Go(l, pc)
          PROVE  lane'[l].pc \notin SendPc
      BY <1>0, <3>3, GoEffect DEF SendPc, Working, BeforeSend
    <3> QED
      BY <3>1, <3>2, <3>3
  <2> QED
    BY <1>1, <2>1, <2>2, <2>3, <2>4
<1>4. CASE UNCHANGED <<lane, sent, context>>
  BY <1>4 DEF Quietly
<1>5. CASE Environment
  <2>1. UNCHANGED <<lane, sent>>
    BY <1>5, EnvironmentKeeps
  <2>2. ASSUME NEW v \in Version, EndContext(v)
        PROVE  Quietly
    BY <1>0, <2>1, <2>2 DEF EndContext, Quietly, Blocked
  <2>3. CASE \A v \in Version : ~EndContext(v)
    <3>1. UNCHANGED context
      BY <1>5, <2>3 DEF Environment, Reschedule, CancelAssignment, EndOperation, StartArrives,
         CheckIn, StartPhysical, EndSession, GrowStale
    <3> QED
      BY <1>4, <2>1, <3>1
  <2> QED
    BY <2>2, <2>3
<1> QED
  BY <1>2, <1>3, <1>4, <1>5, ReplierKeeps, FailingFaults
     DEF Next, ReconcileSentRecovery, vars

\* What is left undecided is not sent again.
LEMMA OneContextStep ==
  ASSUME Shape, Alone, OneContext, [Next]_vars
  PROVE  OneContext'
<1> SUFFICES ASSUME NEW v \in Version, Watched(v)'
             PROVE  OnceAt(v)'
  BY DEF OneContext
<1>0. /\ lane \in [Lane -> SenderState] /\ context \in [Version -> Context]
      /\ sent \in [Version -> SUBSET (1 .. Ceiling)]
  BY DEF Shape, TypeOK
<1>1. /\ ContextEnabled /\ ~aged[v] /\ v \notin operation.past /\ ~Fault
      /\ OnceAt(v)
  BY WatchedBefore DEF Watched, OneContext
<1>2. ASSUME NEW l \in Lane, NEW k \in Lane, lane[l].v = v, lane[k].v = v,
             lane[l].pc \in SendPc \cup {"prepare"}, lane[k].pc \in SendPc \cup {"prepare"}
      PROVE  k = l
  BY <1>1, <1>2, Sole DEF Working, BeforeSend, SendPc
<1>3. CASE Quietly
  BY <1>1, <1>3 DEF Quietly, OnceAt, SendPc, Blocked
<1>4. ASSUME NEW l \in Lane, lane[l].v # v, lane[l].v \in Version,
             \A m \in Lane \ {l} : lane'[m] = lane[m], lane'[l].v # v,
             sent'[v] = sent[v], context'[v] = context[v]
      PROVE  OnceAt(v)'
  BY <1>1, <1>4 DEF OnceAt, SendPc
<1>5. ASSUME NEW l \in Lane, Prepare(l)
      PROVE  OnceAt(v)'
  <2> DEFINE u == lane[l].v
             seen == Prepared(u, u \in operation.past)
  <2>1. /\ lane[l].pc = "prepare" /\ u \in Version /\ sent' = sent
        /\ context' = [context EXCEPT ![u] = IF seen = "null" THEN @ ELSE seen]
        /\ IF ShouldSkipSend(seen) THEN Stop(l)
           ELSE lane' = [lane EXCEPT ![l].pc = "send", ![l].seen = seen]
    BY <1>5, SenderFacts DEF Prepare, At
  <2>2. /\ \A m \in Lane \ {l} : lane'[m] = lane[m]
        /\ IF ShouldSkipSend(seen) THEN lane'[l] = Idle
           ELSE lane'[l].pc = "send" /\ lane'[l].v = u
    <3>1. CASE ShouldSkipSend(seen)
      BY <1>0, <2>1, <3>1, StopEffect DEF Moves
    <3>2. CASE ~ShouldSkipSend(seen)
      BY <1>0, <2>1, <3>2 DEF SenderState
    <3> QED
      BY <3>1, <3>2
  <2>3. CASE u # v
    <3>1. context'[v] = context[v]
      BY <1>0, <2>1, <2>3
    <3>2. lane'[l].v # v
      BY <2>2, <2>3, ConfirmationAssumption DEF Idle, Version
    <3> QED
      BY <1>4, <2>1, <2>2, <2>3, <3>1, <3>2
  <2>4. CASE u = v /\ context[v] \in Blocked
    <3>1. seen = context[v] /\ seen # "null"
      BY <1>1, <2>4 DEF Prepared, Blocked
    <3>2. lane'[l] = Idle /\ context'[v] = context[v]
      BY <1>0, <2>1, <2>2, <2>4, <3>1 DEF ShouldSkipSend
    <3>3. Idle.pc = "idle"
      BY DEF Idle
    <3> QED
      BY <1>1, <2>1, <2>2, <3>2, <3>3 DEF OnceAt, SendPc
  <2>5. CASE u = v /\ context[v] \notin Blocked
    <3>1. seen = "PREPARED"
      <4>1. context[v] \in Context
        BY <1>0
      <4> QED
        BY <1>1, <2>5, <4>1 DEF Prepared, Blocked, Context
    <3>2. lane'[l].pc = "send" /\ context'[v] = "PREPARED"
      BY <1>0, <2>1, <2>2, <2>5, <3>1 DEF ShouldSkipSend, Blocked
    <3>3. \A k \in Lane \ {l} : ~(lane[k].v = v /\ lane[k].pc \in SendPc)
      BY <1>2, <2>1, <2>5
    <3>4. sent[v] = {}
      BY <1>1, <2>1, <2>5, <3>3 DEF OnceAt, SendPc
    <3> QED
      BY <2>1, <2>2, <3>2, <3>3, <3>4 DEF OnceAt, SendPc
  <2> QED
    BY <2>3, <2>4, <2>5
<1>6. ASSUME NEW l \in Lane, Send(l)
      PROVE  OnceAt(v)'
  <2> DEFINE u == lane[l].v
  <2>1. /\ lane[l].pc = "send" /\ u \in Version /\ context' = context
        /\ \E pc \in {"record", "ambiguous", "refused"} :
              /\ Go(l, pc)
              /\ \/ sent' = sent
                 \/ pc # "refused" /\ sent' = [sent EXCEPT ![u] = @ \cup {lane[l].n}]
    BY <1>6, SenderFacts DEF Send, At
  <2>2. PICK pc \in {"record", "ambiguous", "refused"} :
              /\ Go(l, pc)
              /\ \/ sent' = sent
                 \/ pc # "refused" /\ sent' = [sent EXCEPT ![u] = @ \cup {lane[l].n}]
    BY <2>1
  <2>3. /\ \A m \in Lane \ {l} : lane'[m] = lane[m]
        /\ lane'[l].pc = pc /\ lane'[l].v = u
    BY <1>0, <2>2, GoEffect DEF Working
  <2>4. CASE u # v
    BY <1>0, <1>4, <2>1, <2>2, <2>3, <2>4
  <2>5. CASE u = v
    <3>1. sent[v] = {} /\ context[v] = "PREPARED"
      BY <1>1, <2>1, <2>5 DEF OnceAt, SendPc
    <3>2. \A k \in Lane \ {l} : ~(lane[k].v = v /\ lane[k].pc \in SendPc)
      BY <1>2, <2>1, <2>5 DEF SendPc
    <3>3. sent'[v] = {} \/ (pc # "refused" /\ sent'[v] = {lane[l].n})
      BY <1>0, <2>2, <2>5, <3>1
    <3> QED
      BY <2>1, <2>3, <2>5, <3>1, <3>2, <3>3 DEF OnceAt, SendPc
  <2> QED
    BY <2>4, <2>5
<1>7. ASSUME NEW l \in Lane, RecordOutcome(l)
      PROVE  OnceAt(v)'
  <2> DEFINE u == lane[l].v
             pc == lane[l].pc
  <2>1. /\ pc \in {"record", "ambiguous", "refused"} /\ u \in Version /\ sent' = sent
        /\ context' = [context EXCEPT ![u] = Recorded(pc, @)]
        /\ Go(l, AfterSend(pc))
    BY <1>7, SenderFacts DEF RecordOutcome
  <2>2. /\ \A m \in Lane \ {l} : lane'[m] = lane[m]
        /\ lane'[l].pc \in {"markSent", "cleanup"} /\ lane'[l].v = u
    <3>1. AfterSend(pc) \in {"markSent", "cleanup"}
      BY DEF AfterSend
    <3> QED
      BY <1>0, <2>1, <3>1, GoEffect DEF Working
  <2>3. CASE u # v
    BY <1>0, <1>4, <2>1, <2>2, <2>3
  <2>4. CASE u = v
    <3>1. context[v] = "PREPARED" /\ (pc = "refused" => sent[v] = {})
      BY <1>1, <2>1, <2>4 DEF OnceAt, SendPc
    <3>2. \A k \in Lane \ {l} : ~(lane[k].v = v /\ lane[k].pc \in SendPc)
      BY <1>2, <2>1, <2>4 DEF SendPc
    <3>3. context'[v] \in Blocked \/ sent[v] = {}
      BY <1>0, <2>1, <2>4, <3>1 DEF Recorded, Blocked
    <3> QED
      BY <1>1, <2>1, <2>2, <3>2, <3>3 DEF OnceAt, SendPc
  <2> QED
    BY <2>3, <2>4
<1> QED
  BY <1>1, <1>3, <1>5, <1>6, <1>7, QuietSteps

-----------------------------------------------------------------------------
(* The theorems *)

LEMMA Initially == Init => IInv
<1> SUFFICES ASSUME Init PROVE IInv
  OBVIOUS
<1>1. /\ 0 \in Attempt /\ 1 \in Version /\ 0 \in 0 .. MaxVersion /\ 0 \in 0 .. MaxFaults
  BY ConfirmationAssumption DEF Attempt, Version
<1>2. Idle \in SenderState /\ NoSession \in Session /\ Quiet \in ReplyState
  BY <1>1 DEF Idle, SenderState, NoSession, Session, Quiet, ReplyState
<1>3. [status |-> "NONE", attempts |-> 0, fresh |-> TRUE] \in Note
  BY <1>1 DEF Note
<1>4. /\ assignment \in [status: Confirmation, version: Version,
                         cancelled: BOOLEAN, workday: BOOLEAN]
      /\ operation \in Operation /\ VersionShape
      /\ attended \in BOOLEAN /\ away \in BOOLEAN
  <2>1. PICK w \in BOOLEAN :
          assignment = [status |-> "PENDING", version |-> 1, cancelled |-> FALSE, workday |-> w]
    BY DEF Init
  <2>2. assignment \in [status: Confirmation, version: Version, cancelled: BOOLEAN, workday: BOOLEAN]
    BY <1>1, <2>1 DEF Confirmation
  <2>3. /\ operation \in Operation
        /\ attended \in BOOLEAN /\ away \in BOOLEAN
    BY <1>1 DEF Init, Operation
  <2>4. VersionShape
    BY DEF Init, VersionShape
  <2> QED
    BY <2>2, <2>3, <2>4
<1>5. TypeOK
  BY <1>1, <1>2, <1>3, <1>4 DEF Init, TypeOK, Context, Operation
<1>6. LaneShape /\ SessionShape
  BY DEF Init, LaneShape, SessionShape, Idle, NoSession, Working, BeforeSend
<1>7. \A l \in Lane, v \in Version : ~Holding(l, v)
  BY DEF Init, Idle, Holding
<1>8. EveryMessageIsCounted /\ Alone
  BY <1>7 DEF Init, EveryMessageIsCounted, Alone, OverlapOnlyWhenStale, StaleIsAged, FailedIsFree
<1>9. Messages /\ QuestionHasSender
  BY DEF Init, Messages, SentHasMessage, AcceptedHasMessage, QuestionHasSender, Idle, Delivered,
     NoSession
<1>10. OneContext
  BY DEF Init, OneContext, OnceAt, Idle, SendPc
<1> QED
  BY <1>4, <1>5, <1>6, <1>8, <1>9, <1>10 DEF IInv, Shape

LEMMA Kept == IInv /\ [Next]_vars => IInv'
BY ShapeStep, CountedStep, AloneStep, MessagesStep, QuestionStep, OneContextStep DEF IInv

\* IInv holds in every reachable state.
LEMMA Invariance == Spec => []IInv
BY Initially, Kept, PTL DEF Spec

\* Every variable keeps its type.
THEOREM TypeCorrect == Spec => []TypeOK
<1>1. IInv => TypeOK
  BY DEF IInv, Shape
<1> QED
  BY <1>1, Invariance, PTL

\* Whatever overlaps, crashes or goes stale: every sender works under an
\* attempt of its own and every message Twilio accepted belongs to a counted
\* one, so attempt_count bounds what an employee can receive.
THEOREM MessagesCounted == Spec => []EveryMessageIsCounted
<1>1. IInv => EveryMessageIsCounted
  BY DEF IInv
<1> QED
  BY <1>1, Invariance, PTL

\* Two senders work on one reminder only after its row went stale, for any
\* number of senders, schedule versions and errors.
THEOREM SendersOverlapWhenStale == Spec => []OverlapOnlyWhenStale
<1>1. IInv => OverlapOnlyWhenStale
  BY DEF IInv, Alone
<1> QED
  BY <1>1, Invariance, PTL

\* A reminder recorded as sent, by its sender or by the recovery of a lost
\* record, was accepted by Twilio.
THEOREM SentIsAccepted == Spec => []SentHasMessage
<1>1. IInv => SentHasMessage
  BY DEF IInv, Messages
<1> QED
  BY <1>1, Invariance, PTL

\* Without errors no session waits for the answer to a question that was
\* never sent.
THEOREM QuestionAsked == Spec => []OpenQuestionWasAsked
<1>1. IInv => OpenQuestionWasAsked
  BY DEF IInv, QuestionHasSender, OpenQuestionWasAsked
<1> QED
  BY <1>1, Invariance, PTL

\* What Twilio left undecided is not sent again: without errors, overlap and
\* a start that has passed, a reminder with a durable context is accepted once,
\* however many senders, attempts and reschedules there are.
THEOREM MessagesAcceptedOnce == Spec => []AcceptedOnce
<1>1. IInv => AcceptedOnce
  <2> SUFFICES ASSUME IInv, NEW v \in Version, Watched(v)
               PROVE  Cardinality(sent[v]) <= 1
    BY DEF AcceptedOnce, Watched
  <2>1. \A n, k \in sent[v] : n = k
    BY DEF IInv, OneContext, OnceAt
  <2>2. sent[v] = {} \/ \E n \in sent[v] : sent[v] = {n}
    BY <2>1
  <2>3. CASE sent[v] = {}
    <3>1. Cardinality(sent[v]) = 0
      BY <2>3, FS_EmptySet
    <3> QED
      BY <3>1
  <2>4. ASSUME NEW n \in sent[v], sent[v] = {n}
        PROVE  Cardinality(sent[v]) <= 1
    <3>1. Cardinality({n}) = 1
      BY FS_Singleton
    <3> QED
      BY <2>4, <3>1
  <2> QED
    BY <2>2, <2>3, <2>4
<1> QED
  BY <1>1, Invariance, PTL

\* A confirmation moves from PENDING only, with one compare-and-set, and goes
\* back only with a new schedule version.
THEOREM AnswersFinal == Spec => AnswersAreFinal
<1> DEFINE Final == assignment'.status # assignment.status =>
                      /\ ~assignment.cancelled
                      /\ \/ assignment.status = "PENDING" /\ assignment'.version = assignment.version
                         \/ assignment'.status = "PENDING" /\ assignment'.version > assignment.version
<1>1. IInv /\ [Next]_vars => [Final]_vars
  <2> SUFFICES ASSUME IInv, [Next]_vars PROVE Final
    OBVIOUS
  <2>0. assignment \in [status: Confirmation, version: Version,
                        cancelled: BOOLEAN, workday: BOOLEAN]
        /\ \A v \in Version : v \in Nat
    BY ConfirmationAssumption DEF IInv, Shape, TypeOK, Version
  <2>1. CASE UNCHANGED assignment
    BY <2>1
  <2>2. ASSUME NEW r \in Replier, Replying(r)
        PROVE  UNCHANGED assignment \/ UpdateConfirmationStatus(r)
    BY <2>2 DEF Replying, AnswerSession, AnswerDurably, ReadAssignment, MarkUnavailable,
       Conclude, ReplyFails, world
  <2>3. ASSUME NEW r \in Replier, UpdateConfirmationStatus(r)
        PROVE  Final
    BY <2>0, <2>3 DEF UpdateConfirmationStatus, CanMove
  <2>4. CASE Reschedule
    BY <2>0, <2>4 DEF Reschedule
  <2>5. CASE CancelAssignment
    BY <2>0, <2>5 DEF CancelAssignment
  <2>6. CASE \/ EndOperation \/ StartArrives \/ CheckIn \/ StartPhysical \/ EndSession
             \/ ReconcileSentRecovery \/ UNCHANGED vars
             \/ \E v \in Version : GrowStale(v) \/ EndContext(v)
    BY <2>6 DEF EndOperation, StartArrives, CheckIn, StartPhysical, EndSession, GrowStale,
       EndContext, ReconcileSentRecovery, vars, world
  <2> QED
    BY <2>1, <2>2, <2>3, <2>4, <2>5, <2>6, SenderKeeps DEF Next, Environment, world
<1> QED
  BY <1>1, Invariance, PTL DEF Spec, AnswersAreFinal

=============================================================================
