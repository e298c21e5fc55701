---------------------------- MODULE AlertDelivery ----------------------------
(***************************************************************************)
(* The outbox of WhatsApp alerts to administrators: enqueueing, the        *)
(* claimed batches of the delivery job, the send attempt, its outcomes,    *)
(* the sweep of expired leases and the cutover to the daily e-mail.        *)
(*                                                                         *)
(* A worker is one batch of one backend process: it sweeps, claims its     *)
(* rows one by one and then works through them in order, so that the last  *)
(* rows of a slow batch outlive their lease of two minutes.  The isRunning *)
(* flag of the job keeps batches of one process apart, not of two.  Every  *)
(* database call and the call of the provider is one action.               *)
(***************************************************************************)
EXTENDS Naturals, Sequences, FiniteSets

CONSTANTS
    Note,           \* notifications: one dedup key and recipient each
    Informational,  \* those the daily e-mail replaces
    Worker,         \* batches in progress at a time
    Batch,          \* rows of one batch
    MaxAttempts,    \* ADMIN_ALERT_MAX_ATTEMPTS
    MaxFaults,      \* bound: crashes, failed database calls
    MaxLapses,      \* bound: leases that expire
    NoOne           \* the lease_owner of a row nobody holds

ASSUME AlertAssumption ==
    /\ Informational \subseteq Note
    /\ NoOne \notin Worker
    /\ MaxAttempts \in Nat \ {0}
    /\ {Batch, MaxFaults, MaxLapses} \subseteq Nat

VARIABLES
    row,        \* whatsapp_admin_alert_notifications
    blocked,    \* why the checks before the send would stop a notification
    mode,       \* company_settings.admin_alert_delivery_mode
    cutover,    \* its transaction is open; history: rows inserted meanwhile
    lane,       \* the batch of each worker
    delivered,  \* history: messages the provider accepted, by notification
    overtaken,  \* history: notifications swept away from a worker still at them
    faults,     \* crashes and errors so far
    lapses      \* leases expired so far

vars == <<row, blocked, mode, cutover, lane, delivered, overtaken, faults, lapses>>

-----------------------------------------------------------------------------
Held == {"PROCESSING", "SEND_STARTED"}
Closed == {"SKIPPED", "CANCELLED", "SEND_ACCEPTED", "SENT_RECOVERY_REQUIRED",
           "RECONCILIATION_REQUIRED"}
Status == {"ABSENT", "PENDING", "FAILED"} \cup Held \cup Closed
AttemptStatus == {"NONE", "STARTED", "ACCEPTED", "FAILED", "AMBIGUOUS"}

\* The steps of a worker between beginSendAttempt and the row's mark.
SendingStep == {"call", "taken", "acceptAttempt", "acceptRow", "recoverRow",
                "retryAttempt", "retryRow", "refuseAttempt", "refuseRow",
                "doubtAttempt", "doubtRow"}
Step == {"idle", "claim", "check", "begin", "lostRow"} \cup SendingStep

Row == [status: Status, owner: Worker \cup {NoOne}, live: BOOLEAN,
        attempts: 0 .. MaxAttempts, due: {"now", "later", "never"},
        attempt: AttemptStatus]
Claimed == [note: Note, attempt: 1 .. MaxAttempts]
Lane == [step: Step, queue: UNION {[1 .. n -> Claimed] : n \in 0 .. Batch}]

TypeOK ==
    /\ row \in [Note -> Row]
    /\ blocked \in [Note -> {"no", "gone", "late", "broken"}]
    /\ mode \in {"WHATSAPP_LEGACY", "DAILY_EMAIL"}
    /\ cutover \in [open: BOOLEAN, missed: SUBSET Note]
    /\ lane \in [Worker -> Lane]
    /\ delivered \in [Note -> Nat]
    /\ overtaken \in SUBSET Note
    /\ faults \in 0 .. MaxFaults
    /\ lapses \in 0 .. MaxLapses

Init ==
    /\ row = [n \in Note |-> [status |-> "ABSENT", owner |-> NoOne, live |-> FALSE,
                              attempts |-> 0, due |-> "now", attempt |-> "NONE"]]
    /\ blocked \in [Note -> {"no", "broken"}]
    /\ mode = "WHATSAPP_LEGACY"
    /\ cutover = [open |-> FALSE, missed |-> {}]
    /\ lane = [w \in Worker |-> [step |-> "idle", queue |-> <<>>]]
    /\ delivered = [n \in Note |-> 0]
    /\ overtaken = {}
    /\ faults = 0
    /\ lapses = 0

-----------------------------------------------------------------------------
(* Helpers *)

At(w, step) == lane[w].step = step
Goto(w, step) == lane' = [lane EXCEPT ![w].step = step]
Current(w) == Head(lane[w].queue).note

InQueue(w, n) == \E k \in DOMAIN lane[w].queue : lane[w].queue[k].note = n
Sending(w, n) == lane[w].step \in SendingStep /\ Current(w) = n

\* The next row of the batch, or the end of it.
NextRow(w) ==
    lane' = [lane EXCEPT ![w] =
               [step |-> IF Len(@.queue) > 1 THEN "check" ELSE "idle",
                queue |-> Tail(@.queue)]]

\* A mark of the row: by status alone, whoever holds the lease.
Marked(n, from, status, due) ==
    IF row[n].status \in from
    THEN [row EXCEPT ![n].status = status, ![n].owner = NoOne,
                     ![n].live = FALSE, ![n].due = due]
    ELSE row

\* The informational alerts of a company that reads the daily e-mail.
Suppressed(n) == mode = "DAILY_EMAIL" /\ n \in Informational

-----------------------------------------------------------------------------
(* The notifications *)

\* INSERT under the unique key of (company, dedup key, recipient): a second
\* one finds the row.  An alert that is already too late is born EXPIRED.  The
\* channel was decided on settings read before: the mode may be another by now.
Enqueue(n) ==
    /\ row[n].status = "ABSENT"
    /\ \E status \in {"PENDING", "SKIPPED"} :
         row' = [row EXCEPT ![n].status = status]
    /\ cutover' = IF cutover.open THEN [cutover EXCEPT !.missed = @ \cup {n}] ELSE cutover
    /\ UNCHANGED <<blocked, mode, lane, delivered, overtaken, faults, lapses>>

\* Before it is sent, the recipient is disabled or the matter resolved
\* ("gone"), or the alert type is switched off or its lateness exceeded ("late").
BecomeBlocked(n) ==
    /\ blocked[n] = "no"
    /\ row[n].status \notin Closed \cup {"ABSENT"}
    /\ \E why \in {"gone", "late"} : blocked' = [blocked EXCEPT ![n] = why]
    /\ UNCHANGED <<row, mode, cutover, lane, delivered, overtaken, faults, lapses>>

\* MUTANT of Cancelled: rows a worker has claimed are left to it.
CancelledUnheld(n) ==
    n \in Informational /\ row[n].status \in {"PENDING", "FAILED"}

\* What suppressInformationalPending takes off the queue.
Cancelled(n) ==
    /\ n \in Informational
    /\ row[n].status \in Held \cup {"PENDING", "FAILED", "RECONCILIATION_REQUIRED"}

\* setDeliveryMode: one transaction, two statements.  The rows it cancels stay
\* locked until it commits, so nobody acts on them in between; a row inserted in
\* between is not one of them, and the mode is still the old one.
CutOver ==
    /\ mode = "WHATSAPP_LEGACY" /\ ~cutover.open
    /\ cutover' = [cutover EXCEPT !.open = TRUE]
    /\ row' = [n \in Note |->
                 IF Cancelled(n)
                 THEN [row[n] EXCEPT !.status = "CANCELLED", !.owner = NoOne,
                                     !.live = FALSE, !.due = "now"]
                 ELSE row[n]]
    /\ UNCHANGED <<blocked, mode, lane, delivered, overtaken, faults, lapses>>

CutOverCommits ==
    /\ cutover.open
    /\ cutover' = [cutover EXCEPT !.open = FALSE]
    /\ mode' = "DAILY_EMAIL"
    /\ UNCHANGED <<row, blocked, lane, delivered, overtaken, faults, lapses>>

\* The way back takes no row along.
CutBack ==
    /\ mode = "DAILY_EMAIL"
    /\ mode' = "WHATSAPP_LEGACY"
    /\ UNCHANGED <<row, blocked, cutover, lane, delivered, overtaken, faults, lapses>>

-----------------------------------------------------------------------------
(* Time *)

Lapse(n) ==
    /\ row[n].live
    /\ lapses < MaxLapses
    /\ row' = [row EXCEPT ![n].live = FALSE]
    /\ lapses' = lapses + 1
    /\ UNCHANGED <<blocked, mode, cutover, lane, delivered, overtaken, faults>>

\* The lease of a batch that died with its process.
LapseOfDead(n) ==
    /\ row[n].live
    /\ \A w \in Worker : ~InQueue(w, n)
    /\ row' = [row EXCEPT ![n].live = FALSE]
    /\ UNCHANGED <<blocked, mode, cutover, lane, delivered, overtaken, faults, lapses>>

RetryFallsDue(n) ==
    /\ row[n].due = "later"
    /\ row' = [row EXCEPT ![n].due = "now"]
    /\ UNCHANGED <<blocked, mode, cutover, lane, delivered, overtaken, faults, lapses>>

-----------------------------------------------------------------------------
(* The sweep and the claims *)

\* What an expired lease leaves behind: a send that may have happened is left
\* to the reconciliation.
SweptStatus(n) ==
    IF row[n].status = "SEND_STARTED" \/ row[n].attempt \in {"STARTED", "AMBIGUOUS"}
    THEN "RECONCILIATION_REQUIRED" ELSE "PENDING"

\* MUTANT of Recover: only what has begun to be sent is swept.
RecoverStarted(n) ==
    /\ row[n].status = "SEND_STARTED"
    /\ ~row[n].live
    /\ row' = [row EXCEPT ![n].status = SweptStatus(n), ![n].owner = NoOne,
                          ![n].due = "now"]
    /\ UNCHANGED <<blocked, mode, cutover, lane, delivered, overtaken, faults, lapses>>

\* recoverExpiredLeases for one row; every batch begins with it.
Recover(n) ==
    /\ row[n].status \in Held
    /\ ~row[n].live
    /\ row' = [row EXCEPT ![n].status = SweptStatus(n), ![n].owner = NoOne,
                          ![n].due = "now"]
    /\ overtaken' = IF \E w \in Worker : InQueue(w, n)
                    THEN overtaken \cup {n} ELSE overtaken
    /\ UNCHANGED <<blocked, mode, cutover, lane, delivered, faults, lapses>>

\* A batch over an empty table claims and changes nothing.
StartBatch(w) ==
    /\ At(w, "idle")
    /\ \E n \in Note : row[n].status # "ABSENT"
    /\ Goto(w, "claim")
    /\ UNCHANGED <<row, blocked, mode, cutover, delivered, overtaken, faults, lapses>>

Claimable(n) ==
    /\ row[n].attempts < MaxAttempts
    /\ \/ row[n].status = "PENDING"
       \/ row[n].status = "FAILED" /\ row[n].due = "now"

ClaimNextOne(w, n) ==
    /\ At(w, "claim")
    /\ Len(lane[w].queue) < Batch
    /\ Claimable(n)
    /\ row' = [row EXCEPT ![n].status = "PROCESSING", ![n].owner = w, ![n].live = TRUE,
                          ![n].attempts = @ + 1, ![n].due = "now"]
    /\ lane' = [lane EXCEPT ![w].queue =
                  Append(@, [note |-> n, attempt |-> row[n].attempts + 1])]
    /\ UNCHANGED <<blocked, mode, cutover, delivered, overtaken, faults, lapses>>

\* The batch is full, or a claim found no row.
EndOfClaims(w) ==
    /\ At(w, "claim")
    /\ Len(lane[w].queue) = Batch \/ \A n \in Note : ~Claimable(n)
    /\ Goto(w, IF lane[w].queue = <<>> THEN "idle" ELSE "check")
    /\ UNCHANGED <<row, blocked, mode, cutover, delivered, overtaken, faults, lapses>>

-----------------------------------------------------------------------------
(* processClaimedNotification *)

\* The recipient, the category and the gate: markSkipped.
CheckGone(w) ==
    /\ At(w, "check")
    /\ blocked[Current(w)] = "gone"
    /\ row' = Marked(Current(w), Held, "SKIPPED", "never")
    /\ NextRow(w)
    /\ UNCHANGED <<blocked, mode, cutover, delivered, overtaken, faults, lapses>>

\* The channel policy, the switches and the lateness: markTerminalSkip.
CheckSuppressed(w) ==
    /\ At(w, "check")
    /\ Suppressed(Current(w)) \/ blocked[Current(w)] = "late"
    /\ row' = Marked(Current(w), Held \cup {"PENDING", "FAILED"}, "SKIPPED", "never")
    /\ NextRow(w)
    /\ UNCHANGED <<blocked, mode, cutover, delivered, overtaken, faults, lapses>>

\* The template of its category has no Content SID: markFailed, no retry.
CheckBroken(w) ==
    /\ At(w, "check")
    /\ ~Suppressed(Current(w))
    /\ blocked[Current(w)] = "broken"
    /\ row' = Marked(Current(w), Held, "FAILED", "never")
    /\ NextRow(w)
    /\ UNCHANGED <<blocked, mode, cutover, delivered, overtaken, faults, lapses>>

CheckPasses(w) ==
    /\ At(w, "check")
    /\ ~Suppressed(Current(w))
    /\ blocked[Current(w)] = "no"
    /\ Goto(w, "begin")
    /\ UNCHANGED <<row, blocked, mode, cutover, delivered, overtaken, faults, lapses>>

\* MUTANT of MayBegin: neither the owner nor that it has not begun is compared.
MayBeginHeld(w) == row[Current(w)].status \in Held

MayBegin(w) ==
    row[Current(w)].status = "PROCESSING" /\ row[Current(w)].owner = w

\* The attempt row and the compare-and-set of the notification, or neither.
BeginSendAttempt(w) ==
    /\ At(w, "begin")
    /\ MayBegin(w)
    /\ row' = [row EXCEPT ![Current(w)].status = "SEND_STARTED",
                          ![Current(w)].attempt = "STARTED"]
    /\ Goto(w, "call")
    /\ UNCHANGED <<blocked, mode, cutover, delivered, overtaken, faults, lapses>>

BeginLost(w) ==
    /\ At(w, "begin")
    /\ ~MayBegin(w)
    /\ Goto(w, "lostRow")
    /\ UNCHANGED <<row, blocked, mode, cutover, delivered, overtaken, faults, lapses>>

\* BEGIN_SEND_CAS_FAILED is written on the row, whoever holds it by now.
FailLostRow(w) ==
    /\ At(w, "lostRow")
    /\ row' = Marked(Current(w), Held, "FAILED", "never")
    /\ NextRow(w)
    /\ UNCHANGED <<blocked, mode, cutover, delivered, overtaken, faults, lapses>>

-----------------------------------------------------------------------------
(* The provider's answer *)

ProviderAccepts(w) ==
    /\ At(w, "call")
    /\ delivered' = [delivered EXCEPT ![Current(w)] = @ + 1]
    /\ Goto(w, "taken")
    /\ UNCHANGED <<row, blocked, mode, cutover, overtaken, faults, lapses>>

AnswerArrives(w) ==
    /\ At(w, "taken")
    /\ Goto(w, "acceptAttempt")
    /\ UNCHANGED <<row, blocked, mode, cutover, delivered, overtaken, faults, lapses>>

\* A timeout or a dropped connection, whatever the provider has done.
AnswerLost(w) ==
    /\ lane[w].step \in {"call", "taken"}
    /\ Goto(w, "doubtAttempt")
    /\ UNCHANGED <<row, blocked, mode, cutover, delivered, overtaken, faults, lapses>>

\* Retried when the error allows it and this was not the last attempt.
ProviderRefuses(w) ==
    /\ At(w, "call")
    /\ \/ Goto(w, "refuseAttempt")
       \/ /\ Head(lane[w].queue).attempt < MaxAttempts
          /\ Goto(w, "retryAttempt")
    /\ UNCHANGED <<row, blocked, mode, cutover, delivered, overtaken, faults, lapses>>

\* The attempt row of the worker is marked by its id.
MarkAttempt(w, step, status, next) ==
    /\ At(w, step)
    /\ row' = [row EXCEPT ![Current(w)].attempt = status]
    /\ Goto(w, next)
    /\ UNCHANGED <<blocked, mode, cutover, delivered, overtaken, faults, lapses>>

MarkSendAttempt(w) ==
    \/ MarkAttempt(w, "acceptAttempt", "ACCEPTED", "acceptRow")
    \/ MarkAttempt(w, "retryAttempt", "FAILED", "retryRow")
    \/ MarkAttempt(w, "refuseAttempt", "FAILED", "refuseRow")
    \/ MarkAttempt(w, "doubtAttempt", "AMBIGUOUS", "doubtRow")

MarkRow(w, step, status, due) ==
    /\ At(w, step)
    /\ row' = Marked(Current(w), Held, status, due)
    /\ NextRow(w)
    /\ UNCHANGED <<blocked, mode, cutover, delivered, overtaken, faults, lapses>>

\* markSendAccepted throws when it finds no row to mark: the recovery mark
\* follows, with the same guard.
AcceptedOfNoRow(w) ==
    /\ At(w, "acceptRow")
    /\ row[Current(w)].status \notin Held
    /\ Goto(w, "recoverRow")
    /\ UNCHANGED <<row, blocked, mode, cutover, delivered, overtaken, faults, lapses>>

MarkSendAccepted(w) ==
    /\ At(w, "acceptRow")
    /\ row[Current(w)].status \in Held
    /\ MarkRow(w, "acceptRow", "SEND_ACCEPTED", "never")

MarkNotification(w) ==
    \/ MarkSendAccepted(w) \/ AcceptedOfNoRow(w)
    \/ MarkRow(w, "recoverRow", "SENT_RECOVERY_REQUIRED", "never")
    \/ MarkRow(w, "retryRow", "FAILED", "later")
    \/ MarkRow(w, "refuseRow", "FAILED", "never")
    \/ MarkRow(w, "doubtRow", "RECONCILIATION_REQUIRED", "never")

-----------------------------------------------------------------------------
(* Faults *)

\* MUTANT of AcceptanceNotStored: the failed mark is handled like a failed send.
AcceptanceNotStoredRetried(w) ==
    /\ lane[w].step \in {"acceptAttempt", "acceptRow"}
    /\ faults < MaxFaults
    /\ faults' = faults + 1
    /\ Goto(w, "retryRow")
    /\ UNCHANGED <<row, blocked, mode, cutover, delivered, overtaken, lapses>>

\* An accepted send whose marks fail is set apart for recovery.
AcceptanceNotStored(w) ==
    /\ lane[w].step \in {"acceptAttempt", "acceptRow"}
    /\ faults < MaxFaults
    /\ faults' = faults + 1
    /\ Goto(w, "recoverRow")
    /\ UNCHANGED <<row, blocked, mode, cutover, delivered, overtaken, lapses>>

\* The process dies, or a call throws and the rest of the batch is abandoned.
BatchDies(w) ==
    /\ ~At(w, "idle")
    /\ faults < MaxFaults
    /\ faults' = faults + 1
    /\ lane' = [lane EXCEPT ![w] = [step |-> "idle", queue |-> <<>>]]
    /\ UNCHANGED <<row, blocked, mode, cutover, delivered, overtaken, lapses>>

-----------------------------------------------------------------------------
Work(w) ==
    \/ EndOfClaims(w) \/ \E n \in Note : ClaimNextOne(w, n)
    \/ CheckGone(w) \/ CheckSuppressed(w) \/ CheckBroken(w) \/ CheckPasses(w)
    \/ BeginSendAttempt(w) \/ BeginLost(w) \/ FailLostRow(w)
    \/ ProviderAccepts(w) \/ AnswerArrives(w) \/ AnswerLost(w) \/ ProviderRefuses(w)
    \/ MarkSendAttempt(w) \/ MarkNotification(w)

Next ==
    \/ \E w \in Worker : StartBatch(w) \/ Work(w) \/ AcceptanceNotStored(w) \/ BatchDies(w)
    \/ \E n \in Note :
         \/ Enqueue(n) \/ BecomeBlocked(n) \/ Lapse(n) \/ LapseOfDead(n)
         \/ RetryFallsDue(n) \/ Recover(n)
    \/ CutOver \/ CutOverCommits \/ CutBack

\* The job's timer starts batches, a batch goes on while its process lives,
\* the sweep runs with every batch, and time passes.
Fairness ==
    /\ \A w \in Worker : WF_vars(StartBatch(w)) /\ WF_vars(Work(w))
    /\ \A n \in Note :
         WF_vars(Recover(n)) /\ WF_vars(LapseOfDead(n)) /\ WF_vars(RetryFallsDue(n))

Spec == Init /\ [][Next]_vars
FairSpec == Spec /\ Fairness

-----------------------------------------------------------------------------
(* What the outbox promises *)

\* The queue as OneEffect sees it: a send is asked for while its worker is at
\* it, and in doubt when the worker is gone and the attempt was never refused.
Phase(n) ==
    IF row[n].status \in {"SEND_ACCEPTED", "SENT_RECOVERY_REQUIRED"} THEN "done"
    ELSE IF /\ \E w \in Worker : Sending(w, n)
            /\ row[n].attempt # "FAILED" THEN "asked"
    ELSE IF row[n].attempt \in {"STARTED", "ACCEPTED", "AMBIGUOUS"} THEN "doubt"
    ELSE "open"

Effect == INSTANCE OneEffect WITH
    Item <- Note, phase <- [n \in Note |-> Phase(n)], effects <- delivered

\* A notification is accepted by the provider at most once, is never sent
\* again while its outcome is in doubt, and is never called sent when it was
\* not: with expired leases, overlapping batches, crashes and lost answers.
AlertsAreOneEffect == Effect!Spec

\* A row says FAILED, SKIPPED or PENDING of a message the provider accepted
\* only if its lease was swept while its worker was still at it: the marks
\* compare the status and not the lease, so one worker alone never lies.
AcceptedIsNotDenied ==
    \A n \in Note :
      /\ delivered[n] > 0
      /\ n \notin overtaken
      /\ \A w \in Worker : ~InQueue(w, n)
      => row[n].status \in {"SEND_STARTED", "SEND_ACCEPTED", "SENT_RECOVERY_REQUIRED",
                            "RECONCILIATION_REQUIRED", "CANCELLED"}

\* Once a company reads the daily e-mail, no informational alert begins to be
\* sent: neither one whose checks passed before the cutover, nor one enqueued
\* after it by somebody who still believed in the old mode.  The exception is a
\* row inserted while the transaction was open: the UPDATE was over, and its
\* checks may read the old mode.
NoSendAfterCutover ==
    [][\A n \in Informational \ cutover.missed :
         mode = "DAILY_EMAIL" /\ row[n].status # "SEND_STARTED"
           => row'[n].status # "SEND_STARTED"]_vars

\* Every notification leaves the queue: in the end no row is held and none
\* can be claimed, whatever crashed on the way.
AlertsDrain ==
    <>[](\A n \in Note : row[n].status \notin Held /\ ~Claimable(n) /\ row[n].due # "later")
=============================================================================
