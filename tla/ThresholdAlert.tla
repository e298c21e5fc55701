---------------------------- MODULE ThresholdAlert ----------------------------
(***************************************************************************)
(* The attendance threshold of an employee: attendance that changes and    *)
(* the dirty mark that follows it, the evaluation queue, the evaluation    *)
(* (settings, metrics, prior state, new state, alert) and the recovery of  *)
(* crossings whose alert could not be enqueued.                            *)
(*                                                                         *)
(* The queue row is fenced by its lease owner; the state row is not: it is *)
(* written whole from a prior state read several calls earlier.  An        *)
(* evaluator is one batch of one backend process.                          *)
(***************************************************************************)
EXTENDS Naturals, FiniteSets

CONSTANTS
    Evaluator,              \* batches in progress at a time
    MaxEvaluations,         \* ATTENDANCE_ALERT_EVALUATION_MAX_ATTEMPTS
    MaxChanges,             \* bound: changes of the employee's attendance
    MaxEdits,               \* bound: changes of the company's settings
    MaxEvaluationLapses,    \* bound: leases that expire under a living evaluator
    MaxEvaluationFaults     \* bound: crashes and failed database calls

ASSUME ThresholdAssumption ==
    /\ {MaxEvaluations, MaxChanges, MaxEdits} \subseteq Nat
    /\ {MaxEvaluationLapses, MaxEvaluationFaults} \subseteq Nat

VARIABLES
    actual,     \* the band of the employee's attendance as it is
    unmarked,   \* a change is committed and markEmployeeDirty still to come
    config,     \* settings: switched on or not, and their version
    unqueued,   \* new settings are committed, the queue not yet filled
    queue,      \* the employee's row of attendance_alert_evaluation_queue
    state,      \* the row of employee_attendance_alert_state
    outbox,     \* crossings with a notification (dedup key: the sequence)
    evaluation, \* the evaluation of each evaluator
    overlap,    \* history: two evaluations of the employee were in progress at once
    lost,       \* history: a dirty mark failed
    changes, evalLapses, evalFaults

thresholdVars == <<actual, unmarked, config, unqueued, queue, state, outbox,
                   evaluation, overlap, lost, changes, evalLapses, evalFaults>>

-----------------------------------------------------------------------------
Band == {"INSUFFICIENT_SAMPLE", "BELOW", "ABOVE_OR_EQUAL"}
Version == 0 .. MaxEdits

State == [known: BOOLEAN, band: Band, seq: Nat, pending: Nat, version: Version,
          cooling: BOOLEAN]
NoState == [known |-> FALSE, band |-> "INSUFFICIENT_SAMPLE", seq |-> 0, pending |-> 0,
            version |-> 0, cooling |-> FALSE]

EvaluationStep == {"settings", "metrics", "prior", "store", "emit", "clear", "complete",
                   "failed"}
EvaluatorStep == EvaluationStep \cup {"idle", "recheck", "reclear"}
Evaluation == [step: EvaluatorStep, version: Version, band: Band, prior: State, seq: Nat]

ThresholdTypeOK ==
    /\ actual \in Band
    /\ unmarked \in BOOLEAN /\ unqueued \in BOOLEAN
    /\ overlap \in BOOLEAN /\ lost \in BOOLEAN
    /\ config \in [on: BOOLEAN, version: Version]
    /\ queue \in [status: {"ABSENT", "PENDING", "PROCESSING", "FAILED"},
                  owner: SUBSET Evaluator, live: BOOLEAN, due: BOOLEAN,
                  attempts: 0 .. MaxEvaluations]
    /\ state \in State
    /\ outbox \in SUBSET Nat
    /\ evaluation \in [Evaluator -> Evaluation]
    /\ changes \in 0 .. MaxChanges
    /\ evalLapses \in 0 .. MaxEvaluationLapses
    /\ evalFaults \in 0 .. MaxEvaluationFaults

Idle == [step |-> "idle", version |-> 0, band |-> "INSUFFICIENT_SAMPLE",
         prior |-> NoState, seq |-> 0]
NoRow == [status |-> "ABSENT", owner |-> {}, live |-> FALSE, due |-> TRUE, attempts |-> 0]

ThresholdInit ==
    /\ actual \in Band
    /\ unmarked = FALSE
    /\ config = [on |-> TRUE, version |-> 0]
    /\ unqueued = FALSE
    /\ queue = NoRow
    /\ state \in {NoState, [NoState EXCEPT !.known = TRUE, !.band = actual]}
    /\ outbox = {}
    /\ evaluation = [w \in Evaluator |-> Idle]
    /\ overlap = FALSE
    /\ lost = ~state.known
    /\ changes = 0
    /\ evalLapses = 0
    /\ evalFaults = 0

-----------------------------------------------------------------------------
(* Helpers *)

EvaluationAt(w, step) == evaluation[w].step = step
EvaluationGoes(w, step) ==
    evaluation' = [evaluation EXCEPT
        ![w] = IF step = "idle" THEN Idle ELSE [evaluation[w] EXCEPT !.step = step]]
Evaluating(w) == evaluation[w].step \in EvaluationStep

\* The MERGE of markDirty: the lease is taken away, the attempts stay.
Dirty(q) == [q EXCEPT !.status = "PENDING", !.owner = {}, !.live = FALSE, !.due = TRUE]

-----------------------------------------------------------------------------
(* Attendance and settings *)

\* A check-in, a check-out, a correction or a finished operation.
AttendanceChanges ==
    /\ ~unmarked
    /\ changes < MaxChanges
    /\ changes' = changes + 1
    /\ \E band \in Band \ {actual} : actual' = band
    /\ unmarked' = TRUE
    /\ UNCHANGED <<config, unqueued, queue, state, outbox, evaluation, overlap, lost,
                   evalLapses, evalFaults>>

\* After the transaction that changed the attendance.
MarkEmployeeDirty ==
    /\ unmarked
    /\ unmarked' = FALSE
    /\ queue' = Dirty(queue)
    /\ UNCHANGED <<actual, config, unqueued, state, outbox, evaluation, overlap, lost,
                   changes, evalLapses, evalFaults>>

\* Its error is logged and swallowed; a crash in between loses it too.
DirtyMarkLost ==
    /\ unmarked
    /\ evalFaults < MaxEvaluationFaults
    /\ evalFaults' = evalFaults + 1
    /\ unmarked' = FALSE
    /\ lost' = TRUE
    /\ UNCHANGED <<actual, config, unqueued, queue, state, outbox, evaluation, overlap,
                   changes, evalLapses>>

\* The alerts are switched, or the threshold, window or sample changed; every
\* change raises attendance_alert_config_version.
SettingsChange ==
    /\ ~unqueued
    /\ config.version < MaxEdits
    /\ \E on \in BOOLEAN : config' = [on |-> on, version |-> config.version + 1]
    /\ unqueued' = TRUE
    /\ UNCHANGED <<actual, unmarked, queue, state, outbox, evaluation, overlap, lost,
                   changes, evalLapses, evalFaults>>

\* onThresholdSettingsChanged: every employee with a workday in the window.
EnqueueAfterSettings ==
    /\ unqueued
    /\ unqueued' = FALSE
    /\ queue' = Dirty(queue)
    /\ UNCHANGED <<actual, unmarked, config, state, outbox, evaluation, overlap, lost,
                   changes, evalLapses, evalFaults>>

-----------------------------------------------------------------------------
(* The queue *)

EvaluationLapses ==
    /\ queue.live
    /\ \/ /\ evalLapses < MaxEvaluationLapses
          /\ evalLapses' = evalLapses + 1
       \/ /\ \A w \in Evaluator : ~Evaluating(w)
          /\ UNCHANGED evalLapses
    /\ queue' = [queue EXCEPT !.live = FALSE]
    /\ UNCHANGED <<actual, unmarked, config, unqueued, state, outbox, evaluation,
                   overlap, lost, changes, evalFaults>>

EvaluationFallsDue ==
    /\ ~queue.due
    /\ queue' = [queue EXCEPT !.due = TRUE]
    /\ UNCHANGED <<actual, unmarked, config, unqueued, state, outbox, evaluation,
                   overlap, lost, changes, evalLapses, evalFaults>>

RecoverEvaluation ==
    /\ queue.status = "PROCESSING"
    /\ ~queue.live
    /\ queue' = [queue EXCEPT !.status = "PENDING", !.owner = {}]
    /\ UNCHANGED <<actual, unmarked, config, unqueued, state, outbox, evaluation,
                   overlap, lost, changes, evalLapses, evalFaults>>

ClaimEvaluation(w) ==
    /\ EvaluationAt(w, "idle")
    /\ queue.attempts < MaxEvaluations
    /\ queue.status = "PENDING" \/ (queue.status = "FAILED" /\ queue.due)
    /\ queue' = [queue EXCEPT !.status = "PROCESSING", !.owner = {w}, !.live = TRUE,
                              !.attempts = @ + 1]
    /\ EvaluationGoes(w, "settings")
    /\ overlap' = (overlap \/
                  \E v \in Evaluator :
                      evaluation[v].step \in {"settings", "metrics", "prior", "store"})
    /\ UNCHANGED <<actual, unmarked, config, unqueued, state, outbox, lost, changes,
                   evalLapses, evalFaults>>

-----------------------------------------------------------------------------
(* evaluateEmployee *)

ReadSettings(w) ==
    /\ EvaluationAt(w, "settings")
    /\ evaluation' = [evaluation EXCEPT
            ![w].step = IF config.on THEN "metrics" ELSE "complete",
            ![w].version = config.version]
    /\ UNCHANGED <<actual, unmarked, config, unqueued, queue, state, outbox, overlap,
                   lost, changes, evalLapses, evalFaults>>

ReadMetrics(w) ==
    /\ EvaluationAt(w, "metrics")
    /\ evaluation' = [evaluation EXCEPT ![w].step = "prior", ![w].band = actual]
    /\ UNCHANGED <<actual, unmarked, config, unqueued, queue, state, outbox, overlap,
                   lost, changes, evalLapses, evalFaults>>

ReadPrior(w) ==
    /\ EvaluationAt(w, "prior")
    /\ evaluation' = [evaluation EXCEPT ![w].step = "store", ![w].prior = state]
    /\ UNCHANGED <<actual, unmarked, config, unqueued, queue, state, outbox, overlap,
                   lost, changes, evalLapses, evalFaults>>

\* classifyAttendanceThresholdTransition, as far as the alerts go.
Baselines(prior, band, version) ==
    \/ ~prior.known
    \/ prior.version # version
    \/ prior.band = "INSUFFICIENT_SAMPLE" /\ band # "INSUFFICIENT_SAMPLE"

Crosses(prior, band, version) ==
    /\ ~Baselines(prior, band, version)
    /\ prior.band = "ABOVE_OR_EQUAL"
    /\ band = "BELOW"

\* The new state, written whole over whatever the row holds by now.
Evaluated(w) ==
    LET prior == evaluation[w].prior
        band == evaluation[w].band
        version == evaluation[w].version
        kept == [prior EXCEPT !.known = TRUE, !.band = band, !.version = version] IN
    IF Baselines(prior, band, version) THEN [kept EXCEPT !.pending = 0]
    ELSE IF Crosses(prior, band, version) /\ ~prior.cooling
         THEN [kept EXCEPT !.seq = prior.seq + 1, !.pending = prior.seq + 1, !.cooling = TRUE]
    ELSE kept

\* upsertState
Store(w) ==
    LET new == Evaluated(w)
        alerts == /\ Crosses(evaluation[w].prior, evaluation[w].band, evaluation[w].version)
                  /\ ~evaluation[w].prior.cooling IN
    /\ EvaluationAt(w, "store")
    /\ state' = new
    /\ evaluation' = [evaluation EXCEPT
            ![w].step = IF alerts THEN "emit" ELSE "complete",
            ![w].seq = new.seq]
    /\ UNCHANGED <<actual, unmarked, config, unqueued, queue, outbox, overlap, lost,
                   changes, evalLapses, evalFaults>>

\* MUTANT of Emit: an alert that could not be enqueued is cleared as well.
EmitForgets(w, step, next, otherwise) ==
    /\ EvaluationAt(w, step)
    /\ \/ /\ config.on
          /\ outbox' = outbox \cup {evaluation[w].seq}
          /\ UNCHANGED evalFaults
       \/ ~config.on /\ UNCHANGED <<outbox, evalFaults>>
       \/ /\ evalFaults < MaxEvaluationFaults
          /\ evalFaults' = evalFaults + 1
          /\ UNCHANGED outbox
    /\ EvaluationGoes(w, next)
    /\ UNCHANGED <<actual, unmarked, config, unqueued, queue, state, overlap, lost,
                   changes, evalLapses>>

\* emitCrossingAlert: a sequence already in the outbox is a success too.  With
\* nobody to tell, or an error, the crossing stays pending.
Emit(w, step, next, otherwise) ==
    /\ EvaluationAt(w, step)
    /\ \/ /\ config.on
          /\ outbox' = outbox \cup {evaluation[w].seq}
          /\ EvaluationGoes(w, next)
          /\ UNCHANGED evalFaults
       \/ /\ ~config.on
          /\ EvaluationGoes(w, otherwise)
          /\ UNCHANGED <<outbox, evalFaults>>
       \/ /\ evalFaults < MaxEvaluationFaults
          /\ evalFaults' = evalFaults + 1
          /\ EvaluationGoes(w, otherwise)
          /\ UNCHANGED outbox
    /\ UNCHANGED <<actual, unmarked, config, unqueued, queue, state, overlap, lost,
                   changes, evalLapses>>

\* clearPendingAlert compares the sequence.
Clear(w, step, next) ==
    /\ EvaluationAt(w, step)
    /\ state' = IF state.pending = evaluation[w].seq THEN [state EXCEPT !.pending = 0]
                ELSE state
    /\ EvaluationGoes(w, next)
    /\ UNCHANGED <<actual, unmarked, config, unqueued, queue, outbox, overlap, lost,
                   changes, evalLapses, evalFaults>>

\* MUTANT of MarkCompleted: the row is deleted whoever holds it.
MarkCompletedUnfenced(w) ==
    /\ EvaluationAt(w, "complete")
    /\ queue' = NoRow
    /\ EvaluationGoes(w, "idle")
    /\ UNCHANGED <<actual, unmarked, config, unqueued, state, outbox, overlap, lost,
                   changes, evalLapses, evalFaults>>

\* DELETE under the lease owner: a row marked dirty meanwhile stays.
MarkCompleted(w) ==
    /\ EvaluationAt(w, "complete")
    /\ queue' = IF queue.owner = {w} THEN NoRow ELSE queue
    /\ EvaluationGoes(w, "idle")
    /\ UNCHANGED <<actual, unmarked, config, unqueued, state, outbox, overlap, lost,
                   changes, evalLapses, evalFaults>>

\* A call of the evaluation throws: the item is retried in five minutes.
EvaluationFails(w) ==
    /\ evaluation[w].step \in EvaluationStep \ {"emit", "failed"}
    /\ evalFaults < MaxEvaluationFaults
    /\ evalFaults' = evalFaults + 1
    /\ EvaluationGoes(w, "failed")
    /\ UNCHANGED <<actual, unmarked, config, unqueued, queue, state, outbox, overlap,
                   lost, changes, evalLapses>>

MarkFailed(w) ==
    /\ EvaluationAt(w, "failed")
    /\ queue' = IF queue.owner = {w}
                THEN [queue EXCEPT !.status = "FAILED", !.owner = {}, !.live = FALSE,
                                   !.due = FALSE]
                ELSE queue
    /\ EvaluationGoes(w, "idle")
    /\ UNCHANGED <<actual, unmarked, config, unqueued, state, outbox, overlap, lost,
                   changes, evalLapses, evalFaults>>

EvaluatorDies(w) ==
    /\ ~EvaluationAt(w, "idle")
    /\ evalFaults < MaxEvaluationFaults
    /\ evalFaults' = evalFaults + 1
    /\ EvaluationGoes(w, "idle")
    /\ UNCHANGED <<actual, unmarked, config, unqueued, queue, state, outbox, overlap,
                   lost, changes, evalLapses>>

-----------------------------------------------------------------------------
(* reconcilePendingCrossingAlerts: crossings stored and not yet enqueued *)

FindPending(w) ==
    /\ EvaluationAt(w, "idle")
    /\ config.on
    /\ state.pending # 0
    /\ evaluation' = [evaluation EXCEPT ![w].step = "recheck", ![w].seq = state.pending]
    /\ UNCHANGED <<actual, unmarked, config, unqueued, queue, state, outbox, overlap,
                   lost, changes, evalLapses, evalFaults>>

CooldownEnds ==
    /\ state.cooling
    /\ state' = [state EXCEPT !.cooling = FALSE]
    /\ UNCHANGED <<actual, unmarked, config, unqueued, queue, outbox, evaluation,
                   overlap, lost, changes, evalLapses, evalFaults>>

-----------------------------------------------------------------------------
Evaluate(w) ==
    \/ ReadSettings(w) \/ ReadMetrics(w) \/ ReadPrior(w) \/ Store(w)
    \/ Emit(w, "emit", "clear", "complete") \/ Clear(w, "clear", "complete")
    \/ MarkCompleted(w) \/ MarkFailed(w)

Recheck(w) ==
    Emit(w, "recheck", "reclear", "idle") \/ Clear(w, "reclear", "idle")

ThresholdNext ==
    \/ \E w \in Evaluator :
         \/ ClaimEvaluation(w) \/ Evaluate(w) \/ EvaluationFails(w) \/ EvaluatorDies(w)
         \/ FindPending(w) \/ Recheck(w)
    \/ AttendanceChanges \/ MarkEmployeeDirty \/ DirtyMarkLost
    \/ SettingsChange \/ EnqueueAfterSettings
    \/ EvaluationLapses \/ EvaluationFallsDue \/ RecoverEvaluation \/ CooldownEnds

\* The job's timer claims and rechecks while the process lives; the sweep runs
\* with every batch; time passes; what follows a commit is executed.
ThresholdFairness ==
    /\ \A w \in Evaluator :
         /\ WF_thresholdVars(ClaimEvaluation(w)) /\ WF_thresholdVars(Evaluate(w))
         /\ WF_thresholdVars(FindPending(w)) /\ WF_thresholdVars(Recheck(w))
    /\ WF_thresholdVars(MarkEmployeeDirty) /\ WF_thresholdVars(EnqueueAfterSettings)
    /\ WF_thresholdVars(EvaluationLapses) /\ WF_thresholdVars(EvaluationFallsDue)
    /\ WF_thresholdVars(RecoverEvaluation)

ThresholdSpec == ThresholdInit /\ [][ThresholdNext]_thresholdVars
ThresholdFairSpec == ThresholdSpec /\ ThresholdFairness

-----------------------------------------------------------------------------
(* What the evaluations promise *)

\* With nothing queued, in progress or still to be marked, the stored band is
\* that of the employee's attendance - unless a dirty mark was lost, the alerts
\* are off, or two evaluations overlapped: the one that read first may write
\* last, and then nothing is left in the queue to correct it.
QuietMeansCurrent ==
    /\ queue.status = "ABSENT"
    /\ ~unmarked /\ ~unqueued /\ ~lost /\ ~overlap
    /\ config.on
    /\ \A w \in Evaluator : ~Evaluating(w)
    => state.known /\ state.band = actual

\* A crossing that was stored reaches the outbox, or a later one does, whatever
\* fails or crashes - unless new settings or the first sample after a gap make
\* it a baseline, the alerts are switched off, or evaluations overlapped and the
\* slower one wrote the state it had read before the crossing.
CrossingsAreAlerted ==
    \A s \in 1 .. MaxChanges, v \in Version :
        (state.pending = s /\ state.version = v)
            ~> \/ \E k \in outbox : k >= s
               \/ ~config.on \/ config.version # v
               \/ state.band = "INSUFFICIENT_SAMPLE" \/ overlap
=============================================================================
