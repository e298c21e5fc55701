----------------------- MODULE AttendanceConfirmation -----------------------
(***************************************************************************)
(* The attendance confirmation of one assignment of a one-time operation:  *)
(* the reminder that asks for it and the replies that answer it.  A sender *)
(* claims the reminder row of the current schedule version, checks the     *)
(* send gate, opens a bot session, checks the gate again, prepares the     *)
(* durable context of the message, calls Twilio and records what came of   *)
(* it, statement by statement.  A reply finds its question in the session  *)
(* or in a sent reminder, reads the assignment and moves it with a         *)
(* compare-and-set.  Reschedules, check-ins, cancellations and the clock   *)
(* come in between.                                                        *)
(***************************************************************************)
EXTENDS Integers, FiniteSets

CONSTANTS
    Lane,           \* senders: the tick of the job and the test send
    Replier,        \* inbound messages being handled
    ContextEnabled, \* WHATSAPP_SYSTEM_CONTEXT_ENABLED
    Event,          \* bound: what may happen around the reminder
    MaxAttempts,    \* ATTENDANCE_REMINDER_MAX_ATTEMPTS, 3 in the code
    MaxVersion,     \* bound: schedule versions
    Ceiling,        \* bound: attempts of a reminder row
    MaxFaults       \* bound: SQL errors, session races and crashes

ASSUME ConfirmationAssumption ==
    /\ ContextEnabled \in BOOLEAN
    /\ Event \subseteq {"reschedule", "unassign", "end", "start", "attend", "lapse", "crash"}
    /\ MaxAttempts \in Nat \ {0}
    /\ MaxVersion \in Nat \ {0}
    /\ Ceiling \in Nat /\ MaxFaults \in Nat

VARIABLES
    assignment,     \* operation_assignments: confirmation and its version;
                    \* whether it has an employee_workdays row
    operation,      \* scheduled_operations: status, the start that stands, by
                    \* number, and the starts it has had that are past
    attended,       \* a valid attendance record exists
    away,           \* employee_workdays.unavailable_at is set
    note,           \* whatsapp_attendance_notifications, by schedule_version
    context,        \* whatsapp_system_interactions of each row of note
    session,        \* the active bot session of the phone
    lane,           \* the senders
    reply,          \* the replies
    sent,           \* attempts whose message Twilio accepted, by version
    aged,           \* versions whose pending row has once gone stale
    faults

vars == <<assignment, operation, attended, away, note, context, session,
          lane, reply, sent, aged, faults>>
world == <<assignment, operation, attended, away>>

-----------------------------------------------------------------------------
(* Types *)

Version == 1..MaxVersion
Attempt == 0..Ceiling
Confirmation == {"PENDING", "CONFIRMED", "UNAVAILABLE"}
Note == [status: {"NONE", "PENDING", "FAILED", "SENT", "SENT_RECOVERY_REQUIRED", "SUPERSEDED"},
         attempts: Attempt,
         fresh: BOOLEAN]            \* last_attempt_at within the stale limit

\* ENDED stands for CONSUMED and EXPIRED; ACTIVE has its provider message id.
Context == {"NONE", "PREPARED", "ACTIVE", "SEND_FAILED", "SEND_AMBIGUOUS", "ENDED"}
Blocked == {"ACTIVE", "SEND_AMBIGUOUS", "ENDED"}

\* "physical" stands for the states of a check-in or check-out; a session of
\* a reminder carries its schedule version and attempt.
Session == [kind: {"none", "physical", "confirmation"},
            v: 0..MaxVersion, n: Attempt]
NoSession == [kind |-> "none", v |-> 0, n |-> 0]
Physical == [kind |-> "physical", v |-> 0, n |-> 0]
Question(v, n) == [kind |-> "confirmation", v |-> v, n |-> n]

SenderState == [pc: {"idle", "claim", "insert", "again", "begin", "gate",
                     "supersede", "session", "final", "drop", "prepare",
                     "send", "record", "ambiguous", "refused", "markSent",
                     "recover", "cleanup", "fail"},
                v: 0..MaxVersion,
                n: Attempt,                    \* attempt_count as claimed
                seen: Context \cup {"null"}]   \* what prepare returned
Idle == [pc |-> "idle", v |-> 0, n |-> 0, seen |-> "null"]

ReplyState == [pc: {"idle", "read", "mark", "cas", "conclude"},
               intent: {"CONFIRMED", "UNAVAILABLE"},
               from: Session]                  \* session that was answered
Quiet == [pc |-> "idle", intent |-> "CONFIRMED", from |-> NoSession]

TypeOK ==
    /\ assignment \in [status: Confirmation, version: Version,
                     cancelled: BOOLEAN, workday: BOOLEAN]
    /\ operation \in [status: {"ACTIVE", "COMPLETED", "CANCELLED"},
                      start: Version, past: SUBSET Version]
    /\ attended \in BOOLEAN /\ away \in BOOLEAN
    /\ note \in [Version -> Note]
    /\ context \in [Version -> Context]
    /\ session \in Session
    /\ lane \in [Lane -> SenderState]
    /\ reply \in [Replier -> ReplyState]
    /\ sent \in [Version -> SUBSET (1..Ceiling)]
    /\ aged \in [Version -> BOOLEAN]
    /\ faults \in 0..MaxFaults

Init ==
    /\ \E w \in BOOLEAN :
          assignment = [status |-> "PENDING", version |-> 1, cancelled |-> FALSE, workday |-> w]
    /\ operation = [status |-> "ACTIVE", start |-> 1, past |-> {}]
    /\ attended = FALSE /\ away = FALSE
    /\ note = [v \in Version |-> [status |-> "NONE", attempts |-> 0, fresh |-> TRUE]]
    /\ context = [v \in Version |-> "NONE"]
    /\ session = NoSession
    /\ lane = [l \in Lane |-> Idle]
    /\ reply = [r \in Replier |-> Quiet]
    /\ sent = [v \in Version |-> {}]
    /\ aged = [v \in Version |-> FALSE]
    /\ faults = 0

Started == operation.start \in operation.past

Fault == faults < MaxFaults /\ faults' = faults + 1

-----------------------------------------------------------------------------
(* The reminder row *)

\* getConfirmationReminderSendGate
Eligible(v) ==
    /\ assignment.status = "PENDING" /\ assignment.version = v
    /\ operation.status = "ACTIVE"
    /\ ~attended

\* MUTANT of Reclaimable: a pending row is taken over at once.
ReclaimableAtOnce(v) ==
    /\ \/ note[v].status = "FAILED" /\ note[v].attempts < MaxAttempts
       \/ note[v].status = "PENDING"
    /\ note[v].attempts < Ceiling

\* MUTANT of Reclaimable: only failures are retried.
ReclaimableFailedOnly(v) ==
    /\ note[v].status = "FAILED" /\ note[v].attempts < MaxAttempts
    /\ note[v].attempts < Ceiling

Reclaimable(v) ==
    /\ \/ note[v].status = "FAILED" /\ note[v].attempts < MaxAttempts
       \/ note[v].status = "PENDING" /\ ~note[v].fresh
    /\ note[v].attempts < Ceiling

\* findConfirmationReminderCandidates
Candidate(v) ==
    /\ Eligible(v)
    /\ ~assignment.cancelled /\ ~Started
    /\ note[v].status = "NONE" \/ Reclaimable(v)

\* MUTANT of Claimed: reclaiming does not count the attempt.
ClaimedUncounted(row) == [status |-> "PENDING",
                          attempts |-> IF row.attempts = 0 THEN 1 ELSE row.attempts,
                          fresh |-> TRUE]
Claimed(row) == [status |-> "PENDING", attempts |-> row.attempts + 1, fresh |-> TRUE]

At(l, pc) == lane[l].pc = pc
Go(l, pc) == lane' = [lane EXCEPT ![l].pc = pc]
Stop(l) == lane' = [lane EXCEPT ![l] = Idle]
SetNote(v, s) == note' = [note EXCEPT ![v].status = s]

\* The rows the tick is going to work through were selected at its start.
FindCandidate(l) ==
    /\ At(l, "idle")
    /\ \E v \in Version : Candidate(v) /\ lane' = [lane EXCEPT ![l] = [Idle EXCEPT !.pc = "claim", !.v = v]]
    /\ UNCHANGED <<world, note, context, session, reply, sent, aged, faults>>

\* The claim: reclaim, else insert, else reclaim once more, else begin the
\* first attempt of whatever row is there.
Take(l) ==
    LET v == lane[l].v
    IN  /\ note' = [note EXCEPT ![v] = Claimed(@)]
        /\ lane' = [lane EXCEPT ![l].pc = "gate", ![l].n = note[v].attempts + 1]

Reclaim(l) ==
    /\ At(l, "claim") \/ At(l, "again")
    /\ IF Reclaimable(lane[l].v) THEN Take(l)
       ELSE Go(l, IF At(l, "claim") THEN "insert" ELSE "begin") /\ UNCHANGED note
    /\ UNCHANGED <<world, context, session, reply, sent, aged, faults>>

Insert(l) ==
    LET v == lane[l].v
    IN  /\ At(l, "insert")
        /\ IF note[v].status = "NONE"
           THEN SetNote(v, "PENDING") /\ Go(l, "begin")
           ELSE Go(l, "again") /\ UNCHANGED note
        /\ UNCHANGED <<world, context, session, reply, sent, aged, faults>>

BeginAttempt(l) ==
    LET row == note[lane[l].v]
    IN  /\ At(l, "begin")
        /\ IF row.status = "PENDING" /\ row.attempts = 0 /\ Ceiling > 0
           THEN Take(l)
           ELSE Stop(l) /\ UNCHANGED note
        /\ UNCHANGED <<world, context, session, reply, sent, aged, faults>>

-----------------------------------------------------------------------------
(* Sending *)

EarlyGate(l) ==
    /\ At(l, "gate")
    /\ Go(l, IF Eligible(lane[l].v) THEN "session" ELSE "supersede")
    /\ UNCHANGED <<world, note, context, session, reply, sent, aged, faults>>

MarkSuperseded(l) ==
    LET v == lane[l].v
    IN  /\ At(l, "supersede")
        /\ IF note[v].status \in {"PENDING", "FAILED", "SENT_RECOVERY_REQUIRED"}
           THEN SetNote(v, "SUPERSEDED") ELSE UNCHANGED note
        /\ Stop(l)
        /\ UNCHANGED <<world, context, session, reply, sent, aged, faults>>

\* A physical attendance session is preserved; any other one is cancelled.
CreateSession(l) ==
    /\ At(l, "session")
    /\ IF session.kind = "physical" THEN Go(l, "supersede") /\ UNCHANGED session
       ELSE session' = Question(lane[l].v, lane[l].n) /\ Go(l, "final")
    /\ UNCHANGED <<world, note, context, reply, sent, aged, faults>>

FinalGate(l) ==
    /\ At(l, "final")
    /\ Go(l, IF Eligible(lane[l].v) THEN "prepare" ELSE "drop")
    /\ UNCHANGED <<world, note, context, session, reply, sent, aged, faults>>

\* MUTANT of CancelPrepared: the session stays open.
CancelPreparedSkipped(l) ==
    /\ At(l, "drop") \/ At(l, "cleanup")
    /\ Go(l, IF At(l, "drop") THEN "supersede" ELSE "fail")
    /\ UNCHANGED <<world, note, context, session, reply, sent, aged, faults>>

\* cancelSession of the session this sender opened, if it is still active.
CancelPrepared(l) ==
    /\ At(l, "drop") \/ At(l, "cleanup")
    /\ session' = IF session = Question(lane[l].v, lane[l].n) THEN NoSession ELSE session
    /\ Go(l, IF At(l, "drop") THEN "supersede" ELSE "fail")
    /\ UNCHANGED <<world, note, context, reply, sent, aged, faults>>

\* The context prepareAttendanceReminderContext leaves and returns; late: the
\* start it was given, that of the candidate, is past.
Prepared(v, late) ==
    CASE ~ContextEnabled -> "null"
      [] ContextEnabled /\ context[v] = "SEND_FAILED" -> "PREPARED"
      [] ContextEnabled /\ context[v] = "NONE" -> IF late THEN "null" ELSE "PREPARED"
      [] OTHER -> context[v]

\* MUTANT of ShouldSkipSend: only an active context forbids the send.
ShouldSkipSendActive(seen) == seen = "ACTIVE"
ShouldSkipSend(seen) == seen \in Blocked

Prepare(l) ==
    LET v == lane[l].v
    IN  /\ At(l, "prepare")
        /\ LET seen == Prepared(v, v \in operation.past)
           IN  /\ context' = [context EXCEPT ![v] = IF seen = "null" THEN @ ELSE seen]
               /\ IF ShouldSkipSend(seen) THEN Stop(l)
                  ELSE lane' = [lane EXCEPT ![l].pc = "send", ![l].seen = seen]
        /\ UNCHANGED <<world, note, session, reply, sent, aged, faults>>

\* "null" is what the caller gets when the context could not be read.
PrepareFails(l) ==
    /\ At(l, "prepare") /\ ContextEnabled /\ Fault
    /\ lane' = [lane EXCEPT ![l].pc = "send", ![l].seen = "null"]
    /\ UNCHANGED <<world, note, context, session, reply, sent, aged>>

\* Twilio accepts, answers nothing conclusive, or refuses.
Send(l) ==
    LET delivered == [sent EXCEPT ![lane[l].v] = @ \cup {lane[l].n}]
    IN  /\ At(l, "send")
        /\ \/ sent' = delivered /\ Go(l, "record")
           \/ sent' \in {sent, delivered} /\ Go(l, "ambiguous")
           \/ sent' = sent /\ Go(l, "refused")
        /\ UNCHANGED <<world, note, context, session, reply, aged, faults>>

\* markSendAcceptedSafe, markSendAmbiguousSafe, markSendFailedSafe
Recorded(pc, c) ==
    CASE pc = "record" /\ c \in {"PREPARED", "SEND_AMBIGUOUS", "ACTIVE"} -> "ACTIVE"
      [] pc = "ambiguous" /\ c \in {"PREPARED", "SEND_AMBIGUOUS"} -> "SEND_AMBIGUOUS"
      [] pc = "refused" /\ c = "PREPARED" -> "SEND_FAILED"
      [] OTHER -> c

AfterSend(pc) == IF pc = "record" THEN "markSent" ELSE "cleanup"

RecordOutcome(l) ==
    /\ lane[l].pc \in {"record", "ambiguous", "refused"}
    /\ context' = [context EXCEPT ![lane[l].v] = Recorded(lane[l].pc, @)]
    /\ Go(l, AfterSend(lane[l].pc))
    /\ UNCHANGED <<world, note, session, reply, sent, aged, faults>>

RecordFails(l) ==
    /\ lane[l].pc \in {"record", "ambiguous", "refused"} /\ Fault
    /\ Go(l, AfterSend(lane[l].pc))
    /\ UNCHANGED <<world, note, context, session, reply, sent, aged>>

MarkSent(l) ==
    /\ At(l, "markSent")
    /\ SetNote(lane[l].v, "SENT")
    /\ Stop(l)
    /\ UNCHANGED <<world, context, session, reply, sent, aged, faults>>

MarkSentFails(l) ==
    /\ At(l, "markSent") /\ Fault
    /\ Go(l, "recover")
    /\ UNCHANGED <<world, note, context, session, reply, sent, aged>>

MarkSentRecoveryRequired(l) ==
    LET v == lane[l].v
    IN  /\ At(l, "recover")
        /\ IF note[v].status = "PENDING" THEN SetNote(v, "SENT_RECOVERY_REQUIRED") ELSE UNCHANGED note
        /\ Stop(l)
        /\ UNCHANGED <<world, context, session, reply, sent, aged, faults>>

MarkFailed(l) ==
    /\ At(l, "fail")
    /\ SetNote(lane[l].v, "FAILED")
    /\ Stop(l)
    /\ UNCHANGED <<world, context, session, reply, sent, aged, faults>>

\* An error where the code catches it: the session could not be created, or
\* something threw between the session and the send.
Throws(l) ==
    /\ Fault
    /\ \/ At(l, "session") /\ Go(l, "fail")
       \/ At(l, "final") /\ Go(l, "cleanup")
       \/ At(l, "drop") /\ Go(l, "supersede")
       \/ At(l, "cleanup") /\ Go(l, "fail")
    /\ UNCHANGED <<world, note, context, session, reply, sent, aged>>

\* An error that only the loop over the candidates catches.
Uncaught(l) ==
    /\ lane[l].pc \in {"claim", "insert", "again", "begin", "gate", "supersede", "recover", "fail"}
    /\ Fault
    /\ Stop(l)
    /\ UNCHANGED <<world, note, context, session, reply, sent, aged>>

Dies(l) ==
    /\ "crash" \in Event /\ ~At(l, "idle") /\ Fault
    /\ Stop(l)
    /\ UNCHANGED <<world, note, context, session, reply, sent, aged>>

\* reconcileSentRecoveryRequired, at the start of a tick.
Reconcilable(row) == row.status = "SENT_RECOVERY_REQUIRED"
ReconcileSentRecovery ==
    /\ \E v \in Version : Reconcilable(note[v])
    /\ note' = [v \in Version |-> IF Reconcilable(note[v])
                                  THEN [note[v] EXCEPT !.status = "SENT"] ELSE note[v]]
    /\ UNCHANGED <<world, context, session, lane, reply, sent, aged, faults>>

-----------------------------------------------------------------------------
(* Replies *)

\* The confirmation session of the phone, whatever its schedule version.
AnswerSession(r, i) ==
    /\ reply[r].pc = "idle" /\ session.kind = "confirmation"
    /\ reply' = [reply EXCEPT ![r] = [pc |-> "read", intent |-> i, from |-> session]]
    /\ UNCHANGED <<world, note, context, session, lane, sent, aged, faults>>

\* No session: findConfirmationReplyTarget.
ReplyTarget(v) ==
    /\ note[v].status = "SENT" /\ v = assignment.version
    /\ ~assignment.cancelled
    /\ operation.status = "ACTIVE" /\ ~Started

AnswerDurably(r, i) ==
    /\ reply[r].pc = "idle" /\ session.kind = "none"
    /\ \E v \in Version : ReplyTarget(v)
    /\ reply' = [reply EXCEPT ![r] = [pc |-> "read", intent |-> i, from |-> NoSession]]
    /\ UNCHANGED <<world, note, context, session, lane, sent, aged, faults>>

\* findByOperationForEmployee
Found == ~assignment.cancelled /\ operation.status # "CANCELLED"

ReadAssignment(r) ==
    /\ reply[r].pc = "read"
    /\ reply' = [reply EXCEPT
          ![r].pc = IF ~Found \/ Started THEN "conclude"
                    ELSE IF reply[r].intent = "UNAVAILABLE" /\ assignment.workday THEN "mark"
                    ELSE IF assignment.status = "PENDING" THEN "cas"
                    ELSE "conclude"]
    /\ UNCHANGED <<world, note, context, session, lane, sent, aged, faults>>

\* markUnavailable of the workday; a cancelled assignment has no expected one.
MarkUnavailable(r) ==
    /\ reply[r].pc = "mark"
    /\ away' = (away \/ ~assignment.cancelled)
    /\ reply' = [reply EXCEPT ![r].pc = "conclude"]
    /\ UNCHANGED <<assignment, operation, attended, note, context, session, lane, sent, aged, faults>>

\* MUTANT of CanMove: the status is not compared.
CanMoveAlways == ~assignment.cancelled
CanMove == ~assignment.cancelled /\ assignment.status = "PENDING"

\* Who loses the race reads the assignment again for the wording alone.
UpdateConfirmationStatus(r) ==
    /\ reply[r].pc = "cas"
    /\ assignment' = IF CanMove THEN [assignment EXCEPT !.status = reply[r].intent] ELSE assignment
    /\ reply' = [reply EXCEPT ![r].pc = "conclude"]
    /\ UNCHANGED <<operation, attended, away, note, context, session, lane, sent, aged, faults>>

\* completeSession of the session that was answered, and the answer.
Conclude(r) ==
    /\ reply[r].pc = "conclude"
    /\ session' = IF session = reply[r].from THEN NoSession ELSE session
    /\ reply' = [reply EXCEPT ![r] = Quiet]
    /\ UNCHANGED <<world, note, context, lane, sent, aged, faults>>

ReplyFails(r) ==
    /\ reply[r].pc # "idle" /\ Fault
    /\ reply' = [reply EXCEPT ![r] = Quiet]
    /\ UNCHANGED <<world, note, context, session, lane, sent, aged>>

-----------------------------------------------------------------------------
(* Administration, the employee and the clock *)

\* A new start in the future: confirmations are reset and unsent reminders
\* superseded in the transaction of the update, which also makes sure of the
\* employee workday and leaves its unavailable_at as it is.
Reschedule ==
    /\ "reschedule" \in Event
    /\ operation.status = "ACTIVE" /\ ~attended
    /\ operation.start < MaxVersion
    /\ operation' = [operation EXCEPT !.start = @ + 1]
    /\ assignment' = IF assignment.cancelled THEN assignment
                     ELSE [assignment EXCEPT !.status = "PENDING", !.version = @ + 1, !.workday = TRUE]
    /\ note' = [v \in Version |->
                  IF note[v].status \in {"PENDING", "SENT_RECOVERY_REQUIRED"}
                  THEN [note[v] EXCEPT !.status = "SUPERSEDED"] ELSE note[v]]
    /\ UNCHANGED <<attended, away, context, session, lane, reply, sent, aged, faults>>

CancelAssignment ==
    /\ "unassign" \in Event /\ ~assignment.cancelled
    /\ assignment' = [assignment EXCEPT !.cancelled = TRUE]
    /\ UNCHANGED <<operation, attended, away, note, context, session, lane, reply, sent, aged, faults>>

EndOperation ==
    /\ "end" \in Event /\ operation.status = "ACTIVE"
    /\ \E s \in {"COMPLETED", "CANCELLED"} : operation' = [operation EXCEPT !.status = s]
    /\ UNCHANGED <<assignment, attended, away, note, context, session, lane, reply, sent, aged, faults>>

\* The start that stands, or one that was put off and a sender still goes by.
StartArrives ==
    /\ "start" \in Event
    /\ \E v \in 1..operation.start \ operation.past :
          operation' = [operation EXCEPT !.past = @ \cup {v}]
    /\ UNCHANGED <<assignment, attended, away, note, context, session, lane, reply, sent, aged, faults>>

\* The check-in ends its own session.
CheckIn ==
    /\ ~attended /\ ~assignment.cancelled /\ operation.status = "ACTIVE"
    /\ session.kind = "physical"
    /\ attended' = TRUE /\ session' = NoSession
    /\ UNCHANGED <<assignment, operation, away, note, context, lane, reply, sent, aged, faults>>

\* A check-in or check-out begins and cancels the active session.
StartPhysical ==
    /\ "attend" \in Event /\ session.kind # "physical"
    /\ session' = Physical
    /\ UNCHANGED <<world, note, context, lane, reply, sent, aged, faults>>

\* The session is cancelled by its user, completed or expires.
EndSession ==
    /\ {"attend", "lapse"} \cap Event # {} /\ session.kind # "none"
    /\ session' = NoSession
    /\ UNCHANGED <<world, note, context, lane, reply, sent, aged, faults>>

\* ATTENDANCE_REMINDER_STALE_PENDING_MINUTES pass since the last attempt.
GrowStale(v) ==
    /\ note[v].status = "PENDING" /\ note[v].fresh
    /\ note' = [note EXCEPT ![v].fresh = FALSE]
    /\ aged' = [aged EXCEPT ![v] = TRUE]
    /\ UNCHANGED <<world, context, session, lane, reply, sent, faults>>

\* A turn consumes the context, or its expiry is noticed.
EndContext(v) ==
    /\ "lapse" \in Event /\ context[v] = "ACTIVE"
    /\ context' = [context EXCEPT ![v] = "ENDED"]
    /\ UNCHANGED <<world, note, session, lane, reply, sent, aged, faults>>

-----------------------------------------------------------------------------

Claiming(l) == Reclaim(l) \/ Insert(l) \/ BeginAttempt(l)
Sending(l) ==
    \/ EarlyGate(l) \/ MarkSuperseded(l) \/ CreateSession(l) \/ FinalGate(l)
    \/ CancelPrepared(l) \/ Prepare(l) \/ Send(l) \/ RecordOutcome(l)
    \/ MarkSent(l) \/ MarkSentRecoveryRequired(l) \/ MarkFailed(l)
Failing(l) == PrepareFails(l) \/ RecordFails(l) \/ MarkSentFails(l) \/ Throws(l) \/ Uncaught(l) \/ Dies(l)
Replying(r) ==
    \/ \E i \in {"CONFIRMED", "UNAVAILABLE"} : AnswerSession(r, i) \/ AnswerDurably(r, i)
    \/ ReadAssignment(r) \/ MarkUnavailable(r) \/ UpdateConfirmationStatus(r)
    \/ Conclude(r) \/ ReplyFails(r)
Environment ==
    \/ Reschedule \/ CancelAssignment \/ EndOperation \/ StartArrives
    \/ CheckIn \/ StartPhysical \/ EndSession
    \/ \E v \in Version : GrowStale(v) \/ EndContext(v)

Next ==
    \/ \E l \in Lane : FindCandidate(l) \/ Claiming(l) \/ Sending(l) \/ Failing(l)
    \/ \E r \in Replier : Replying(r)
    \/ ReconcileSentRecovery
    \/ Environment

\* The tick runs every minute, what it started goes on, and time passes.
Fairness ==
    /\ \A l \in Lane : WF_vars(FindCandidate(l)) /\ WF_vars(Claiming(l) \/ Sending(l))
    /\ WF_vars(ReconcileSentRecovery)
    /\ \A v \in Version : WF_vars(GrowStale(v))

Spec == Init /\ [][Next]_vars
FairSpec == Spec /\ Fairness

-----------------------------------------------------------------------------
(* Safety *)

Holding(l, v) == lane[l].v = v /\ lane[l].n > 0

\* attempt_count budgets the messages: every sender works under an attempt
\* of its own, and every message Twilio accepted belongs to one that was
\* counted, whatever overlaps after a row went stale.
EveryMessageIsCounted ==
    \A v \in Version :
        /\ \A n \in sent[v] : n <= note[v].attempts
        /\ \A l \in Lane : Holding(l, v) =>
              /\ lane[l].n <= note[v].attempts
              /\ lane[l].pc \in {"gate", "session", "final", "prepare", "send"} => lane[l].n \notin sent[v]
              /\ \A m \in Lane \ {l} : Holding(m, v) => lane[m].n # lane[l].n

\* Two senders work on one reminder only after its row went stale.
OverlapOnlyWhenStale ==
    \A v \in Version : ~aged[v] =>
        \A l, m \in Lane : Holding(l, v) /\ Holding(m, v) => l = m

\* A reminder recorded as sent was accepted by Twilio, so a reply that finds
\* it durably answers a question the employee was asked.
SentHasMessage ==
    \A v \in Version :
        note[v].status \in {"SENT", "SENT_RECOVERY_REQUIRED"} => sent[v] # {}

\* An open question whose sender has ended was sent, or may have been:
\* without errors and crashes no session waits for the answer to a message
\* that was never sent.
OpenQuestionWasAsked ==
    LET v == session.v
    IN  (/\ session.kind = "confirmation" /\ faults = 0
         /\ \A l \in Lane : ~(lane[l].v = v /\ lane[l].n = session.n))
        => sent[v] # {} \/ context[v] \in Blocked

\* "Final states: same reply is idempotent; opposite reply does not flip"
\* (confirmAssignment): a confirmation changes from PENDING only, never after
\* the assignment was cancelled, and goes back to PENDING only with a new
\* schedule version.
AnswersAreFinal ==
    [][assignment'.status # assignment.status =>
         /\ ~assignment.cancelled
         /\ \/ assignment.status = "PENDING" /\ assignment'.version = assignment.version
            \/ assignment'.status = "PENDING" /\ assignment'.version > assignment.version]_vars

\* A reminder with a durable context is accepted by Twilio once: whatever
\* Twilio leaves undecided is not sent again.  The exceptions are what the
\* code cannot see or does not keep: an error that lost the record of the
\* outcome, a sender slower than the stale limit, a start that was past
\* before the context was prepared.
AcceptedOnce ==
    \A v \in Version :
        (ContextEnabled /\ faults = 0 /\ ~aged[v] /\ v \notin operation.past)
            => Cardinality(sent[v]) <= 1

-----------------------------------------------------------------------------
(* Liveness *)

\* A pending reminder of the current schedule is sent, failed or superseded,
\* unless it stops being due or its context forbids another send.
RemindersSettle ==
    \A v \in Version :
        note[v].status = "PENDING" ~>
            \/ note[v].status # "PENDING"
            \/ ~Eligible(v) \/ assignment.cancelled \/ Started
            \/ context[v] \in Blocked
=============================================================================
