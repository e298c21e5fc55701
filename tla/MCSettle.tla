------------------------------ MODULE MCSettle ------------------------------
(***************************************************************************)
(* Fair instances, for the liveness of what is retried.  part says which   *)
(* one runs while the others rest:                                         *)
(*   "queue"     the queue of one absence request (AbsenceSync) with       *)
(*               faults and a late edit                                    *)
(*   "days"      a day that is rescheduled while reconciliations of it are *)
(*               stale (AbsenceSync)                                       *)
(*   "shift"     the reminder of one assignment (AttendanceConfirmation)   *)
(*               with crashes and a schedule that moves                    *)
(*   "arrival"   the same beside check-ins and the start of the operation  *)
(*   "edits"     the workday of an operation with one shift, two passes    *)
(*               that may die and an edit of the schedule (WorkdayPlan)    *)
(*   "status"    the same, one pass at a time, with the operation          *)
(*               cancelled and reactivated                                 *)
(*   "shifts"    the workday of an operation with several shifts, one pass *)
(*               at a time beside two date exceptions and a crash          *)
(***************************************************************************)
EXTENDS AbsenceSync, TLC

CONSTANTS r1, r2, fixed, recurring, c1, w1, p1, s1, t1, e1, l1, l2, d1

VARIABLES
    part,
    theRequests, theApprovals, theJobs, jobsSoFar, theDays, theMarks,
    theConflicts, theCallers, thePromised, theFailures,
    asked, event, arrived, away, note, context, session, sender, reply,
    sent, aged, sendFaults,
    operation, plan, draft, assignment, day, seat, present, started, pass, edits,
    crashes

\* The recurring workday is covered by r1 and r2 in its first edition, by r2
\* alone in the second.
BothDated == {r1, r2} \X {recurring}
BothCovers == {<<r1, recurring, 0>>, <<r2, recurring, 0>>, <<r2, recurring, 1>>}

\* The queue: one request and its one-time workday.
OneQueue == INSTANCE AbsenceSync WITH
    Request <- {r1}, Workday <- {fixed}, Recurring <- {},
    Worker <- {w1}, Planner <- {}, Edition <- {0},
    Dated <- {<<r1, fixed>>}, Covers <- {<<r1, fixed, 0>>},
    Integrated <- TRUE, MaxAttempts <- 2, MaxImpact <- 2, MaxSyncFaults <- 1,
    request <- theRequests, approvals <- theApprovals, job <- theJobs,
    enqueued <- jobsSoFar, workday <- theDays, punched <- theMarks,
    conflict <- theConflicts, lane <- theCallers, promised <- thePromised,
    syncFaults <- theFailures

Reminder(happens) == INSTANCE AttendanceConfirmation WITH
    Lane <- {s1}, Replier <- {}, ContextEnabled <- TRUE, Event <- happens,
    Ceiling <- 3, MaxAttempts <- 2, MaxVersion <- 2, MaxFaults <- 1,
    assignment <- asked, operation <- event, attended <- arrived, lane <- sender, faults <- sendFaults

Moving == {"reschedule", "crash"}
Arriving == {"attend", "start", "crash"}

OneSeat == t1 :> e1

Edits == INSTANCE WorkdayPlan WITH
    Assignment <- {t1}, EmployeeOf <- OneSeat, Lane <- {l1, l2}, Editor <- {d1},
    Multi <- FALSE, Event <- {"edit", "assign", "crash"}, Kind <- {}, MaxEdits <- 1,
    MaxVersion <- 3, MaxFaults <- 1, attended <- present, faults <- crashes

Status == INSTANCE WorkdayPlan WITH
    Assignment <- {t1}, EmployeeOf <- OneSeat, Lane <- {l1}, Editor <- {},
    Multi <- FALSE, Event <- {"status", "assign", "start"}, Kind <- {},
    MaxEdits <- 2, MaxVersion <- 3, MaxFaults <- 1, attended <- present, faults <- crashes

Shifts == INSTANCE WorkdayPlan WITH
    Assignment <- {t1}, EmployeeOf <- OneSeat, Lane <- {l1}, Editor <- {},
    Multi <- TRUE, Event <- {"except", "assign", "crash"},
    Kind <- {"CANCEL", "RESTORE", "TIME_OVERRIDE"}, MaxEdits <- 2,
    MaxVersion <- 3, MaxFaults <- 1, attended <- present, faults <- crashes

queueVars == <<theRequests, theApprovals, theJobs, jobsSoFar, theDays, theMarks,
               theConflicts, theCallers, thePromised, theFailures>>
reminderVars == <<asked, event, arrived, away, note, context, session,
                  sender, reply, sent, aged, sendFaults>>
planVars == <<operation, plan, draft, assignment, day, seat, present, started, pass,
              edits, crashes>>

\* Only a reply asks for the workday of the assignment, and there is none here.
SettleInit ==
    /\ part \in {"queue", "days", "shift", "arrival", "edits", "status", "shifts"}
    /\ SyncInit /\ OneQueue!SyncInit
    /\ Reminder(Moving)!Init /\ ~asked.workday
    /\ Edits!Init

SettleNext ==
    /\ part' = part
    /\ \/ /\ part = "queue" /\ OneQueue!SyncNext
          /\ UNCHANGED <<syncVars, reminderVars, planVars>>
       \/ /\ part = "days" /\ SyncNext
          /\ UNCHANGED <<queueVars, reminderVars, planVars>>
       \/ /\ \/ part = "shift" /\ Reminder(Moving)!Next
             \/ part = "arrival" /\ Reminder(Arriving)!Next
          /\ UNCHANGED <<syncVars, queueVars, planVars>>
       \/ /\ \/ part = "edits" /\ Edits!Next
             \/ part = "status" /\ Status!Next
             \/ part = "shifts" /\ Shifts!Next
          /\ UNCHANGED <<syncVars, queueVars, reminderVars>>

\* The fairness of AbsenceSync, AttendanceConfirmation and WorkdayPlan, each
\* for the parts it runs in.
QueueFairness ==
    /\ \A l \in {c1, w1} : WF_queueVars(part = "queue" /\ OneQueue!Proceed(l))
    /\ WF_queueVars(part = "queue" /\ \E j \in JobId : OneQueue!Claim(w1, j))
    /\ \A j \in JobId : WF_queueVars(part = "queue" /\ OneQueue!Recover(j))

DaysFairness ==
    /\ \A l \in {c1, p1} : WF_syncVars(part = "days" /\ Proceed(l))
    /\ \A j \in JobId : WF_syncVars(part = "days" /\ Recover(j))
    /\ WF_syncVars(part = "days" /\ StartPlan(p1))

Reminds == part \in {"shift", "arrival"}
ReminderFairness ==
    /\ WF_reminderVars(Reminds /\ Reminder(Moving)!FindCandidate(s1))
    /\ WF_reminderVars(Reminds /\ (Reminder(Moving)!Claiming(s1) \/ Reminder(Moving)!Sending(s1)))
    /\ WF_reminderVars(Reminds /\ Reminder(Moving)!ReconcileSentRecovery)
    /\ \A v \in 1..2 : WF_reminderVars(Reminds /\ Reminder(Moving)!GrowStale(v))

Plans == part \in {"edits", "status", "shifts"}
PlanFairness ==
    /\ WF_planVars(Plans /\ \E l \in {l1, l2} : Edits!BeginPass(l))
    /\ \A l \in {l1, l2} :
          WF_planVars(/\ Plans
                      /\ IF part = "shifts" THEN Shifts!Work(l) ELSE Edits!Work(l))

SettleSpec ==
    /\ SettleInit /\ [][SettleNext]_<<part, syncVars, queueVars, reminderVars, planVars>>
    /\ QueueFairness /\ DaysFairness /\ ReminderFairness /\ PlanFairness

-----------------------------------------------------------------------------
(* The properties that need the fairness.                                   *)

\* Every job that enters the queue leaves it.
JobsLeave == part = "queue" => OneQueue!JobsSettle

\* An approved absence reaches its one-time workdays, unless its jobs were
\* exhausted or superseded.
AbsencesReachDays == part = "queue" => OneQueue!ApprovedIsApplied

\* In the end every day agrees with the absences that cover it.
AbsencesSettle == part = "days" => DaysSettle

\* A reminder that is due comes to an end: the code of RemindersSettle
\* (AttendanceConfirmation), where lanes, sweeps and the clock are fair.
ReminderSettles == part \in {"shift", "arrival"} => Reminder(Moving)!RemindersSettle

\* A workday ends up as the schedule and the assignments have it: the code of
\* PlanSettles (WorkdayPlan), where the passes are fair.
PlansSettle ==
    /\ part \in {"edits", "status"} => Edits!PlanSettles
    /\ part = "shifts" => Shifts!PlanSettles
=============================================================================
