------------------------------- MODULE ReportRun -------------------------------
(***************************************************************************)
(* The daily attendance report of one company and date: the row of its     *)
(* run, the delivery of each recipient, the ticks of the job, and the      *)
(* administrators who ask for the report by hand.                          *)
(*                                                                         *)
(* The run and each delivery have a lease, an attempt count and a backoff  *)
(* of their own; every mark is fenced by PROCESSING and by the owner.  A   *)
(* tick and a command take an owner of their own, here the reporter itself.*)
(* Every database call and the call to the mail server is one action; the  *)
(* two summaries read at the end are one.                                  *)
(***************************************************************************)
EXTENDS Naturals, FiniteSets

CONSTANTS
    Recipient,          \* the people who may receive the report
    Ticker,             \* ticks of the job; two processes may overlap
    ReportAdmin,        \* administrators who may trigger it by hand
    MaxReportAttempts,  \* DAILY_ATTENDANCE_REPORT_MAX_ATTEMPTS
    MaxCommands,        \* bound: commands by hand
    MaxSettings,        \* bound: changes of the settings, of the audience, of the day
    MaxReportFaults,    \* bound: crashes, failed database calls
    MaxLapses,          \* bound: leases that run out under a holder at work
    NoSender            \* the lease owner of a row nobody holds

ASSUME ReportAssumption ==
    /\ NoSender \notin Ticker \cup ReportAdmin
    /\ NoSender \notin Recipient
    /\ {MaxReportAttempts, MaxCommands, MaxSettings} \subseteq Nat
    /\ {MaxReportFaults, MaxLapses} \subseteq Nat

VARIABLES
    run,        \* the row of company_daily_attendance_report_runs
    delivery,   \* company_daily_attendance_report_deliveries, by recipient
    reporter,   \* what each tick or command is doing
    settings,   \* the report is enabled, its recipients, the day had activity
    unsent,     \* history: the audience of the snapshot that was not mailed it
    commands,
    reportChanges,
    reportFaults,
    lapses

reportVars == <<run, delivery, reporter, settings, unsent, commands, reportChanges,
                reportFaults, lapses>>

-----------------------------------------------------------------------------
Sender == Ticker \cup ReportAdmin

\* next_attempt_at: not set, in the future, or past.
Retry == {"none", "later", "due"}
Skipped == {"SKIPPED_NO_RECIPIENTS", "SKIPPED_NO_ACTIVITY"}
RunStatus == {"ABSENT", "PENDING", "PROCESSING", "PARTIAL", "SENT", "FAILED"} \cup Skipped
Outcome == {"SENT", "PARTIAL", "FAILED"}
RunRow == [status: RunStatus, generated: BOOLEAN,
           attempts: Nat, owner: Sender \cup {NoSender}, live: BOOLEAN,
           retry: Retry]
DeliveryStatus == {"ABSENT", "PENDING", "PROCESSING", "FAILED", "FAILED_TERMINAL", "SENT"}
DeliveryRow == [status: DeliveryStatus, attempts: 0 .. MaxReportAttempts,
                owner: Sender \cup {NoSender}, live: BOOLEAN, retry: Retry]
Processing == {"context", "disable", "renew", "recipients", "skip", "persist",
               "refresh", "recover", "claimDelivery", "renewDelivery", "send",
               "markSent", "markFailed", "summarize", "finalize"}
ReportStep == {"idle", "claim", "failRun", "reopen", "delete", "take"} \cup Processing
Reporter == [step: ReportStep, ready: BOOLEAN, current: BOOLEAN,
             audience: SUBSET Recipient, at: Recipient \cup {NoSender},
             answer: Outcome \cup Skipped \cup {"none"}]

ReportTypeOK ==
    /\ run \in RunRow
    /\ delivery \in [Recipient -> DeliveryRow]
    /\ reporter \in [Sender -> Reporter]
    /\ settings \in [enabled: BOOLEAN, recipients: SUBSET Recipient, activity: BOOLEAN]
    /\ unsent \in SUBSET Recipient
    /\ commands \in 0 .. MaxCommands /\ reportChanges \in 0 .. MaxSettings
    /\ reportFaults \in 0 .. MaxReportFaults /\ lapses \in 0 .. MaxLapses

NoDelivery == [status |-> "ABSENT", attempts |-> 0, owner |-> NoSender, live |-> FALSE,
               retry |-> "none"]
NoWork == [step |-> "idle", ready |-> FALSE, current |-> FALSE, audience |-> {},
           at |-> NoSender, answer |-> "none"]

ReportInit ==
    /\ run = [status |-> "ABSENT", generated |-> FALSE, attempts |-> 0,
              owner |-> NoSender, live |-> FALSE, retry |-> "none"]
    /\ delivery = [r \in Recipient |-> NoDelivery]
    /\ reporter = [s \in Sender |-> NoWork]
    /\ settings \in [enabled: {TRUE}, recipients: {{}, Recipient}, activity: BOOLEAN]
    /\ unsent = {}
    /\ commands = 0 /\ reportChanges = 0 /\ reportFaults = 0 /\ lapses = 0

-----------------------------------------------------------------------------
(* Helpers *)

ReportAt(s, step) == reporter[s].step = step
ReportGoes(s, step) == reporter' = [reporter EXCEPT ![s].step = step]

\* A tick goes on with the next run, a command ends.
ReportEnds(s) ==
    reporter' = [reporter EXCEPT ![s] = IF s \in Ticker THEN [NoWork EXCEPT !.step = "claim"]
                                        ELSE NoWork]

OwnsRun(s) == run.status = "PROCESSING" /\ run.owner = s
OwnsDelivery(s, r) == delivery[r].status = "PROCESSING" /\ delivery[r].owner = s
Released(row) == [row EXCEPT !.owner = NoSender, !.live = FALSE]

\* MUTANT of Claimable: a delivery that failed is not claimed again.
ClaimableOnce(r) ==
    /\ delivery[r].attempts < MaxReportAttempts
    /\ ~delivery[r].live
    /\ delivery[r].status \in {"PENDING", "PROCESSING"}

\* Deliveries that can be claimed now, and those being sent under a lease.
Claimable(r) ==
    /\ delivery[r].attempts < MaxReportAttempts
    /\ ~delivery[r].live
    /\ \/ delivery[r].status \in {"PENDING", "PROCESSING"}
       \/ delivery[r].status = "FAILED" /\ delivery[r].retry # "later"
BeingSent == {r \in Recipient : delivery[r].status = "PROCESSING" /\ delivery[r].live}

-----------------------------------------------------------------------------
(* A tick of the job *)

\* recoverExpiredLeases, and the day's row when it does not exist.
StartTick(w) ==
    /\ ReportAt(w, "idle")
    /\ ReportGoes(w, "claim")
    /\ run' = IF run.status = "ABSENT"
              THEN IF settings.enabled THEN [run EXCEPT !.status = "PENDING"] ELSE run
              ELSE IF run.status = "PROCESSING" /\ ~run.live /\ BeingSent = {}
              THEN [Released(run) EXCEPT
                      !.status = IF run.generated THEN "PARTIAL" ELSE "PENDING",
                      !.retry = "due"]
              ELSE run
    /\ UNCHANGED <<delivery, settings, unsent, commands, reportChanges, reportFaults,
                   lapses>>

MayClaimRun ==
    /\ run.attempts < MaxReportAttempts
    /\ ~run.live
    /\ run.retry # "later"
    /\ ~run.generated => run.status \in {"PENDING", "PROCESSING"}
    /\ run.generated =>
         /\ run.status \in {"PENDING", "PARTIAL", "FAILED", "PROCESSING"}
         /\ \E r \in Recipient : Claimable(r)
    /\ BeingSent = {}

\* The claim counts the attempt and leaves next_attempt_at as it is.
Taken(s) ==
    /\ run' = [run EXCEPT !.status = "PROCESSING", !.attempts = @ + 1, !.owner = s,
                          !.live = TRUE]
    /\ reporter' = [reporter EXCEPT ![s].step = "context", ![s].ready = run.generated]

ClaimNextRun(w) ==
    /\ ReportAt(w, "claim")
    /\ MayClaimRun
    /\ Taken(w)
    /\ UNCHANGED <<delivery, settings, unsent, commands, reportChanges, reportFaults,
                   lapses>>

EndTick(w) ==
    /\ ReportAt(w, "claim")
    /\ ~MayClaimRun
    /\ ReportGoes(w, "idle")
    /\ UNCHANGED <<run, delivery, settings, unsent, commands, reportChanges,
                   reportFaults, lapses>>

-----------------------------------------------------------------------------
(* triggerManual *)

\* The row is read once; it is created when the day has none.
Trigger(a) ==
    /\ ReportAt(a, "idle")
    /\ commands < MaxCommands
    /\ commands' = commands + 1
    /\ run' = IF run.status = "ABSENT" THEN [run EXCEPT !.status = "PENDING"] ELSE run
    /\ ReportGoes(a, CASE run.status = "SENT" -> "idle"
                 [] run.status = "SKIPPED_NO_RECIPIENTS" ->
                      IF settings.recipients = {} THEN "idle" ELSE "reopen"
                 [] run.status = "SKIPPED_NO_ACTIVITY" -> "reopen"
                 [] OTHER -> "take")
    /\ UNCHANGED <<delivery, settings, unsent, reportChanges, reportFaults, lapses>>

\* reopenForManual; its answer is not looked at.
Reopen(a) ==
    /\ ReportAt(a, "reopen")
    /\ ReportGoes(a, "delete")
    /\ run' = IF run.status \in Skipped \cup {"PARTIAL", "FAILED", "PENDING"}
              THEN [Released(run) EXCEPT !.status = "PENDING", !.generated = FALSE,
                                         !.retry = "none"]
              ELSE run
    /\ UNCHANGED <<delivery, settings, unsent, commands, reportChanges, reportFaults,
                   lapses>>

DeleteDeliveries(a) ==
    /\ ReportAt(a, "delete")
    /\ ReportGoes(a, "take")
    /\ delivery' = [r \in Recipient |-> NoDelivery]
    /\ UNCHANGED <<run, settings, unsent, commands, reportChanges, reportFaults,
                   lapses>>

\* Neither the attempts nor the backoff of the run hold a command back.
TakeRun(a) ==
    /\ ReportAt(a, "take")
    /\ IF run.status \in {"PENDING", "PARTIAL", "FAILED"} /\ ~run.live
       THEN Taken(a) ELSE ReportGoes(a, "idle") /\ UNCHANGED run
    /\ UNCHANGED <<delivery, settings, unsent, commands, reportChanges, reportFaults,
                   lapses>>

-----------------------------------------------------------------------------
(* processClaimedRun: the snapshot *)

LoadContext(s) ==
    /\ ReportAt(s, "context")
    /\ ReportGoes(s, IF settings.enabled THEN "renew" ELSE "disable")
    /\ UNCHANGED <<run, delivery, settings, unsent, commands, reportChanges,
                   reportFaults, lapses>>

\* finalizeStatus
Finalized(s, status, retry) ==
    run' = IF OwnsRun(s) THEN [Released(run) EXCEPT !.status = status, !.retry = retry]
           ELSE run

Disable(s) ==
    /\ ReportAt(s, "disable")
    /\ Finalized(s, "FAILED", "none")
    /\ ReportEnds(s)
    /\ UNCHANGED <<delivery, settings, unsent, commands, reportChanges, reportFaults,
                   lapses>>

\* The answer of renewLease is not looked at.
Renew(s) ==
    /\ ReportAt(s, "renew")
    /\ run' = IF OwnsRun(s) THEN [run EXCEPT !.live = TRUE] ELSE run
    /\ ReportGoes(s, IF reporter[s].ready THEN "refresh" ELSE "recipients")
    /\ UNCHANGED <<delivery, settings, unsent, commands, reportChanges, reportFaults,
                   lapses>>

\* The recipients, then the report of the day.
Generate(s) ==
    /\ ReportAt(s, "recipients")
    /\ reporter' = [reporter EXCEPT
                  ![s].audience = settings.recipients,
                  ![s].answer = IF settings.recipients = {} THEN "SKIPPED_NO_RECIPIENTS"
                                ELSE IF settings.activity THEN "none"
                                ELSE "SKIPPED_NO_ACTIVITY",
                  ![s].step = IF settings.recipients # {} /\ settings.activity
                              THEN "persist" ELSE "skip"]
    /\ UNCHANGED <<run, delivery, settings, unsent, commands, reportChanges,
                   reportFaults, lapses>>

MarkSkipped(s) ==
    /\ ReportAt(s, "skip")
    /\ run' = IF OwnsRun(s) THEN [Released(run) EXCEPT !.status = reporter[s].answer]
              ELSE run
    /\ ReportEnds(s)
    /\ UNCHANGED <<delivery, settings, unsent, commands, reportChanges, reportFaults,
                   lapses>>

\* The snapshot and a PENDING delivery for each recipient, in one transaction.  A
\* delivery left from an earlier snapshot breaks its unique key and the run fails.
PersistSnapshotAndAudience(s) ==
    LET fenced == OwnsRun(s) /\ ~run.generated
        clash == \E r \in reporter[s].audience : delivery[r].status # "ABSENT" IN
    /\ ReportAt(s, "persist")
    /\ IF ~fenced
       THEN ReportEnds(s) /\ UNCHANGED <<run, delivery, unsent>>
       ELSE IF clash
       THEN ReportGoes(s, IF s \in Ticker THEN "failRun" ELSE "idle")
            /\ UNCHANGED <<run, delivery, unsent>>
       ELSE /\ run' = [run EXCEPT !.generated = TRUE]
            /\ delivery' = [r \in Recipient |->
                              IF r \in reporter[s].audience
                              THEN [NoDelivery EXCEPT !.status = "PENDING"]
                              ELSE delivery[r]]
            /\ unsent' = reporter[s].audience
            /\ reporter' = [x \in Sender |->
                 IF x = s THEN [reporter[s] EXCEPT !.step = "refresh", !.audience = {}]
                 ELSE [reporter[x] EXCEPT !.current = FALSE]]
    /\ UNCHANGED <<settings, commands, reportChanges, reportFaults, lapses>>

\* Without its snapshot the run is left as it is.
Refresh(s) ==
    /\ ReportAt(s, "refresh")
    /\ IF run.generated
       THEN reporter' = [reporter EXCEPT ![s].step = "recover", ![s].ready = FALSE]
       ELSE ReportEnds(s)
    /\ UNCHANGED <<run, delivery, settings, unsent, commands, reportChanges,
                   reportFaults, lapses>>

-----------------------------------------------------------------------------
(* processDeliveriesFromSnapshot *)

\* Whatever their attempts are, expired deliveries become FAILED.
RecoverDeliveries(s) ==
    /\ ReportAt(s, "recover")
    /\ delivery' = [r \in Recipient |->
                      IF delivery[r].status = "PROCESSING" /\ ~delivery[r].live
                      THEN [Released(delivery[r]) EXCEPT !.status = "FAILED",
                                                         !.retry = "due"]
                      ELSE delivery[r]]
    /\ ReportGoes(s, "claimDelivery")
    /\ UNCHANGED <<run, settings, unsent, commands, reportChanges, reportFaults,
                   lapses>>

\* current is a history: that the delivery claimed belongs to the last snapshot.
\* The mail that is sent for it may be of an earlier one the reporter has read.
ClaimDelivery(s) ==
    /\ ReportAt(s, "claimDelivery")
    /\ \E r \in Recipient :
         /\ Claimable(r)
         /\ delivery' = [delivery EXCEPT ![r].status = "PROCESSING", ![r].owner = s,
                                         ![r].live = TRUE, ![r].attempts = @ + 1]
         /\ reporter' = [reporter EXCEPT ![s].step = "renewDelivery", ![s].at = r,
                                 ![s].current = TRUE]
    /\ UNCHANGED <<run, settings, unsent, commands, reportChanges, reportFaults,
                   lapses>>

NothingToClaim(s) ==
    /\ ReportAt(s, "claimDelivery")
    /\ \A r \in Recipient : ~Claimable(r)
    /\ ReportGoes(s, "summarize")
    /\ UNCHANGED <<run, delivery, settings, unsent, commands, reportChanges,
                   reportFaults, lapses>>

RenewDelivery(s) ==
    LET r == reporter[s].at IN
    /\ ReportAt(s, "renewDelivery")
    /\ delivery' = IF OwnsDelivery(s, r) THEN [delivery EXCEPT ![r].live = TRUE]
                   ELSE delivery
    /\ reporter' = [reporter EXCEPT
            ![s].step = IF OwnsDelivery(s, r) THEN "send" ELSE "claimDelivery",
            ![s].at = IF OwnsDelivery(s, r) THEN r ELSE NoSender,
            ![s].current = reporter[s].current /\ OwnsDelivery(s, r)]
    /\ UNCHANGED <<run, settings, unsent, commands, reportChanges, reportFaults,
                   lapses>>

\* The server takes the mail; it may still answer with an error.
MailAccepted(s) ==
    /\ ReportAt(s, "send")
    /\ unsent' = IF reporter[s].current THEN unsent \ {reporter[s].at} ELSE unsent
    /\ \E step \in {"markSent", "markFailed"} : ReportGoes(s, step)
    /\ UNCHANGED <<run, delivery, settings, commands, reportChanges, reportFaults,
                   lapses>>

\* MUTANT of MailRefused: the answer of the server is not looked at.
MailRefusedUnseen(s) ==
    /\ ReportAt(s, "send")
    /\ ReportGoes(s, "markSent")
    /\ UNCHANGED <<run, delivery, settings, unsent, commands, reportChanges,
                   reportFaults, lapses>>

MailRefused(s) ==
    /\ ReportAt(s, "send")
    /\ ReportGoes(s, "markFailed")
    /\ UNCHANGED <<run, delivery, settings, unsent, commands, reportChanges,
                   reportFaults, lapses>>

Marks(s, row) ==
    delivery' = IF OwnsDelivery(s, reporter[s].at)
                THEN [delivery EXCEPT ![reporter[s].at] = Released(row)] ELSE delivery

MarkSent(s) ==
    /\ ReportAt(s, "markSent")
    /\ Marks(s, [delivery[reporter[s].at] EXCEPT !.status = "SENT", !.retry = "none"])
    /\ reporter' = [reporter EXCEPT ![s].step = "claimDelivery", ![s].at = NoSender,
                            ![s].current = FALSE]
    /\ UNCHANGED <<run, settings, unsent, commands, reportChanges, reportFaults,
                   lapses>>

\* Terminal at the last attempt, and at once without a mail server.
MarkDeliveryFailed(s) ==
    LET row == delivery[reporter[s].at] IN
    /\ ReportAt(s, "markFailed")
    /\ \E terminal \in {row.attempts >= MaxReportAttempts, TRUE} :
         Marks(s, [row EXCEPT !.status = IF terminal THEN "FAILED_TERMINAL" ELSE "FAILED",
                              !.retry = IF terminal THEN "none" ELSE "later"])
    /\ reporter' = [reporter EXCEPT ![s].step = "claimDelivery", ![s].at = NoSender,
                            ![s].current = FALSE]
    /\ UNCHANGED <<run, settings, unsent, commands, reportChanges, reportFaults,
                   lapses>>

-----------------------------------------------------------------------------
(* The end of a run *)

Having(statuses) == {r \in Recipient : delivery[r].status \in statuses}

RunOutcome ==
    IF Having({"PENDING", "PROCESSING", "FAILED"}) # {} THEN "PARTIAL"
    ELSE IF Having({"SENT"}) = {} THEN "FAILED"
    ELSE IF Having({"FAILED_TERMINAL"}) = {} THEN "SENT" ELSE "PARTIAL"

Summarize(s) ==
    /\ ReportAt(s, "summarize")
    /\ reporter' = [reporter EXCEPT ![s].step = "finalize", ![s].answer = RunOutcome]
    /\ UNCHANGED <<run, delivery, settings, unsent, commands, reportChanges,
                   reportFaults, lapses>>

\* MIN over the retries; a delivery that waits counts as now.
MinRetry ==
    IF Having({"PENDING"}) # {} \/ \E r \in Having({"FAILED"}) : delivery[r].retry = "due"
    THEN "due"
    ELSE IF Having({"FAILED"}) # {} THEN "later" ELSE "none"

Finalize(s) ==
    /\ ReportAt(s, "finalize")
    /\ Finalized(s, reporter[s].answer,
                 IF reporter[s].answer = "PARTIAL" THEN MinRetry ELSE "none")
    /\ ReportEnds(s)
    /\ UNCHANGED <<delivery, settings, unsent, commands, reportChanges, reportFaults,
                   lapses>>

\* What a tick catches: the run fails, with a time to try it again.
FailRun(w) ==
    /\ ReportAt(w, "failRun")
    /\ Finalized(w, "FAILED", "later")
    /\ ReportEnds(w)
    /\ UNCHANGED <<delivery, settings, unsent, commands, reportChanges, reportFaults,
                   lapses>>

-----------------------------------------------------------------------------
(* Faults and time *)

\* A call throws: a mail that could not be marked counts as failed; otherwise a
\* tick fails the run and a command leaves it to its lease.
Throws(s) ==
    /\ reporter[s].step \in Processing
    /\ reportFaults < MaxReportFaults
    /\ reportFaults' = reportFaults + 1
    /\ IF ReportAt(s, "markSent") THEN ReportGoes(s, "markFailed")
       ELSE reporter' = [reporter EXCEPT
                ![s] = IF s \in Ticker THEN [NoWork EXCEPT !.step = "failRun"] ELSE NoWork]
    /\ UNCHANGED <<run, delivery, settings, unsent, commands, reportChanges, lapses>>

ReporterDies(s) ==
    /\ reporter[s].step # "idle"
    /\ reportFaults < MaxReportFaults
    /\ reportFaults' = reportFaults + 1
    /\ reporter' = [reporter EXCEPT ![s] = NoWork]
    /\ UNCHANGED <<run, delivery, settings, unsent, commands, reportChanges, lapses>>

\* A lease runs out, under its holder's work or after it.
AtWork(s) == s # NoSender /\ reporter[s].step \notin {"idle", "claim"}

RunLapse ==
    /\ run.live
    /\ IF AtWork(run.owner) THEN lapses < MaxLapses /\ lapses' = lapses + 1
       ELSE UNCHANGED lapses
    /\ run' = [run EXCEPT !.live = FALSE]
    /\ UNCHANGED <<delivery, reporter, settings, unsent, commands, reportChanges,
                   reportFaults>>

DeliveryLapse(r) ==
    /\ delivery[r].live
    /\ IF AtWork(delivery[r].owner) /\ reporter[delivery[r].owner].at = r
       THEN lapses < MaxLapses /\ lapses' = lapses + 1
       ELSE UNCHANGED lapses
    /\ delivery' = [delivery EXCEPT ![r].live = FALSE]
    /\ UNCHANGED <<run, reporter, settings, unsent, commands, reportChanges,
                   reportFaults>>

RunDue ==
    /\ run.retry = "later"
    /\ run' = [run EXCEPT !.retry = "due"]
    /\ UNCHANGED <<delivery, reporter, settings, unsent, commands, reportChanges,
                   reportFaults, lapses>>

DeliveryDue(r) ==
    /\ delivery[r].retry = "later"
    /\ delivery' = [delivery EXCEPT ![r].retry = "due"]
    /\ UNCHANGED <<run, reporter, settings, unsent, commands, reportChanges,
                   reportFaults, lapses>>

\* The settings, the recipients, or the day change.
Change ==
    /\ reportChanges < MaxSettings
    /\ reportChanges' = reportChanges + 1
    /\ \/ settings' = [settings EXCEPT !.enabled = ~@]
       \/ settings' = [settings EXCEPT !.recipients = Recipient \ @]
       \/ ~settings.activity /\ settings' = [settings EXCEPT !.activity = TRUE]
    /\ UNCHANGED <<run, delivery, reporter, unsent, commands, reportFaults, lapses>>

-----------------------------------------------------------------------------
ReporterWorks(s) ==
    \/ LoadContext(s) \/ Disable(s) \/ Renew(s) \/ Generate(s) \/ MarkSkipped(s)
    \/ PersistSnapshotAndAudience(s) \/ Refresh(s) \/ RecoverDeliveries(s)
    \/ ClaimDelivery(s) \/ NothingToClaim(s) \/ RenewDelivery(s)
    \/ MailAccepted(s) \/ MailRefused(s) \/ MarkSent(s) \/ MarkDeliveryFailed(s)
    \/ Summarize(s) \/ Finalize(s)

Tick(w) == StartTick(w) \/ ClaimNextRun(w) \/ EndTick(w) \/ FailRun(w) \/ ReporterWorks(w)
Command(a) == Reopen(a) \/ DeleteDeliveries(a) \/ TakeRun(a) \/ ReporterWorks(a)
Clock == RunLapse \/ RunDue \/ \E r \in Recipient : DeliveryLapse(r) \/ DeliveryDue(r)

ReportNext ==
    \/ \E w \in Ticker : Tick(w)
    \/ \E a \in ReportAdmin : Trigger(a) \/ Command(a)
    \/ \E s \in Sender : Throws(s) \/ ReporterDies(s)
    \/ Clock
    \/ Change

\* The interval starts a tick again and again, a command that began goes on,
\* and time passes.
ReportFairness ==
    /\ \A w \in Ticker : WF_reportVars(Tick(w))
    /\ \A a \in ReportAdmin : WF_reportVars(Command(a))
    /\ WF_reportVars(RunLapse) /\ WF_reportVars(RunDue)
    /\ \A r \in Recipient :
         WF_reportVars(DeliveryLapse(r)) /\ WF_reportVars(DeliveryDue(r))

ReportSpec == ReportInit /\ [][ReportNext]_reportVars /\ ReportFairness

-----------------------------------------------------------------------------
(* What the report promises *)

\* A delivery is recorded as SENT only when the mail server took a mail for it,
\* and a run only when it took one for each recipient of the last snapshot,
\* whoever sent, overlapped, regenerated or was lost.
SentMeansMailed ==
    /\ run.status = "SENT" => unsent = {}
    /\ Having({"SENT"}) \cap unsent = {}

\* A recipient with a delivery of the current snapshot gets an answer, or the
\* attempts of the delivery or of the run are used up: the queue forgets no one.
Owed(r) ==
    /\ run.generated /\ run.attempts < MaxReportAttempts
    /\ delivery[r].status \in {"PENDING", "PROCESSING", "FAILED"}
    /\ delivery[r].attempts < MaxReportAttempts
RecipientsAreAnswered == \A r \in Recipient : Owed(r) ~> ~Owed(r)

\* As the comment of claimNextRun says: a run that still needs its generation,
\* has attempts left and is due for the next one is a run that a tick claims.
DueGenerationIsClaimed ==
    /\ run.status = "FAILED" /\ ~run.generated
    /\ run.retry = "due" /\ run.attempts < MaxReportAttempts
    => MayClaimRun
=============================================================================
