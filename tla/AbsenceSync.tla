----------------------------- MODULE AbsenceSync -----------------------------
(***************************************************************************)
(* Absence requests of one employee and the workdays they excuse.  A       *)
(* request is reviewed in one transaction that also enqueues a sync job;   *)
(* the reconciliation of the workdays runs after the commit, inline in the *)
(* HTTP call, and again from the queue when the inline run did not close   *)
(* the job.  Job rows are taken under a lease fenced by a version number.  *)
(* The daily materialization of recurring workdays, the edits that move    *)
(* the request's operational version and the WhatsApp check-in interleave  *)
(* with all of it, statement by statement.                                 *)
(***************************************************************************)
EXTENDS Naturals, FiniteSets, Sequences

CONSTANTS
    Request,        \* absence requests of the employee
    NoRequest,
    Workday,        \* employee_workdays rows that may exist
    Recurring,      \* those made and rescheduled by the materialization
    Caller,         \* HTTP requests and WhatsApp messages in progress
    Worker,         \* runs of the sync job
    Planner,        \* runs of the materialization
    Edition,        \* editions 0..n of the schedule of a recurring workday
    Dated,          \* <<r, w>>: the work_date of w is within the dates of r
    Covers,         \* <<r, w, e>>: r overlaps the hours of w in edition e
    Integrated,     \* company setting absenceOperationalIntegrationEnabled
    MaxAttempts,    \* 8 in the code
    MaxImpact,     \* bound: edits of a request
    MaxJobs,        \* bound: rows of the queue
    MaxSyncFaults       \* bound: errors and process crashes

ASSUME SyncAssumption ==
    /\ NoRequest \notin Request
    /\ Recurring \subseteq Workday
    /\ Edition \subseteq Nat /\ 0 \in Edition
    /\ Covers \subseteq Request \X Workday \X Edition
    /\ Dated \subseteq Request \X Workday
    /\ Caller \cap (Worker \cup Planner) = {} /\ Worker \cap Planner = {}
    /\ Integrated \in BOOLEAN
    /\ MaxAttempts \in Nat \ {0}
    /\ MaxImpact \in Nat /\ MaxJobs \in Nat /\ MaxSyncFaults \in Nat

Runner == Caller \cup Worker \cup Planner

VARIABLES
    request,        \* absence_requests: status, operational_impact_version
    approvals,      \* approved requests in the order of reviewed_at
    job,            \* absence_workday_sync_jobs, numbered by created_at
    enqueued,       \* number of rows inserted in job
    workday,        \* employee_workdays: expectation_status, absence_request_id
    punched,       \* workdays with an attendance record
    conflict,       \* absence_operational_conflicts that are OPEN
    lane,           \* the calls in progress
    promised,       \* requests whose caller was answered SYNC_FAILED_MESSAGE
    syncFaults

syncVars == <<request, approvals, job, enqueued, workday, punched, conflict,
          lane, promised, syncFaults>>

-----------------------------------------------------------------------------
(* Types *)

Outcome == {"APPROVED", "REJECTED", "CANCELLED"}
RequestRow == [status: {"NONE", "PENDING", "NEEDS_INFO"} \cup Outcome,
               version: Nat]

JobId == 1..MaxJobs
Operation == {"APPROVE", "AUTO", "REVOKE", "MANUAL"}
JobRow == [request: Request \cup {NoRequest},
           target: Outcome,
           op: Operation,
           version: Nat,
           status: {"NONE", "PENDING", "PROCESSING", "COMPLETED", "FAILED", "SUPERSEDED"},
           attempts: Nat,
           lease: Nat]
NoJob == [request |-> NoRequest, target |-> "APPROVED", op |-> "APPROVE",
          version |-> 0, status |-> "NONE", attempts |-> 0, lease |-> 0]

WorkdayRow == [status: {"NONE", "EXPECTED", "JUSTIFIED"},
               absence: Request \cup {NoRequest},
               edition: Edition]

\* A workday as a reconciliation loaded it, a change it decided on, a conflict.
Loaded == [day: Workday, row: WorkdayRow]
Delta == [op: {"justify", "relink", "restore"}, day: Workday,
          from: Request \cup {NoRequest}, to: Request \cup {NoRequest}]
Conflict == {"ASSIGNMENT", "ATTENDANCE"} \X Request \X Workday

LaneKind == {"idle", "approve", "auto", "revoke", "job", "materialize",
             "manual", "edit", "punch"}
SyncStep == {"idle", "read", "drop", "ready", "list", "context", "write",
         "fence", "impact", "check", "mark", "sweep", "look", "close",
         "failed", "giveup", "stray", "bump", "insert", "plan"}
LaneState == [kind: LaneKind, step: SyncStep,
              req: Request \cup {NoRequest},
              job: {0} \cup JobId,
              lease: Nat,                  \* of the token; 0 for an inline run
              version: Nat,                \* expected by the job or the command
              left: SUBSET {"approved", "present"},
              rows: SUBSET Loaded,
              known: Seq(Request),         \* approved absences as read
              present: SUBSET Workday,     \* attendance as read
              todo: SUBSET Delta,
              marks: SUBSET Conflict]
NoCall == [kind |-> "idle", step |-> "idle", req |-> NoRequest, job |-> 0,
         lease |-> 0, version |-> 0, left |-> {}, rows |-> {}, known |-> <<>>,
         present |-> {}, todo |-> {}, marks |-> {}]

SyncTypeOK ==
    /\ request \in [Request -> RequestRow]
    /\ approvals \in Seq(Request)
    /\ job \in [JobId -> JobRow]
    /\ enqueued \in 0..MaxJobs
    /\ workday \in [Workday -> WorkdayRow]
    /\ punched \subseteq Workday
    /\ conflict \subseteq Conflict
    /\ lane \in [Runner -> LaneState]
    /\ promised \subseteq Request
    /\ syncFaults \in 0..MaxSyncFaults

SyncInit ==
    /\ request = [r \in Request |-> [status |-> "NONE", version |-> 1]]
    /\ approvals = <<>>
    /\ job = [j \in JobId |-> NoJob]
    /\ enqueued = 0
    /\ workday = [w \in Workday |->
                    [status |-> IF w \in Recurring THEN "NONE" ELSE "EXPECTED",
                     absence |-> NoRequest, edition |-> 0]]
    /\ punched = {}
    /\ conflict = {}
    /\ lane = [l \in Runner |-> NoCall]
    /\ promised = {}
    /\ syncFaults = 0

-----------------------------------------------------------------------------
(* Helpers *)

Queue == <<job, enqueued>>
Days == <<workday, punched, conflict>>
Requests == <<request, approvals, promised>>

Free(l) == lane' = [lane EXCEPT ![l] = NoCall]
Goto(l, s) == lane' = [lane EXCEPT ![l].step = s]
At(l, kinds, s) == lane[l].kind \in kinds /\ lane[l].step = s
Inline == {"approve", "auto", "revoke"}

Stale(j, r, target, version) ==
    /\ job[j].request = r
    /\ job[j].status \in {"PENDING", "PROCESSING", "FAILED"}
    /\ job[j].version # version \/ job[j].target # target

\* The UPDATE of enqueue: rows of another version or outcome are given up,
\* the one a worker is processing included.
Swept(r, target, version) ==
    [j \in JobId |-> IF Stale(j, r, target, version)
                     THEN [job[j] EXCEPT !.status = "SUPERSEDED"] ELSE job[j]]

\* The SELECT and INSERT of enqueue, on queue q.  A row of the operation that
\* is still active is returned when it has the same version and outcome, and
\* otherwise makes the INSERT fail (UQ_absence_workday_sync_jobs_active).
Inserted(q, r, target, op, version) ==
    IF \E j \in JobId : /\ q[j].request = r /\ q[j].op = op
                        /\ q[j].status \in {"PENDING", "PROCESSING"}
    THEN job' = q /\ UNCHANGED enqueued
    ELSE /\ enqueued < MaxJobs
         /\ enqueued' = enqueued + 1
         /\ job' = [q EXCEPT ![enqueued + 1] =
                      [request |-> r, target |-> target, op |-> op, version |-> version,
                       status |-> "PENDING", attempts |-> 0, lease |-> 0]]

Enqueue(r, target, op, version) ==
    Inserted(Swept(r, target, version), r, target, op, version)

Approved(r) == request[r].status = "APPROVED"
Ended(r) == request[r].status \in Outcome

\* resolveEffectiveAbsenceForWorkday: the covering absence reviewed first.
Covering(x, known) == {i \in DOMAIN known : <<known[i], x.day, x.row.edition>> \in Covers}
First(I) == CHOOSE i \in I : \A k \in I : i <= k
Effective(x, known) == known[First(Covering(x, known))]

\* MUTANT of Deltas: an excused workday is never restored nor relinked.
DeltasOnce(rows, known, present) ==
    {[op |-> "justify", day |-> x.day, from |-> x.row.absence, to |-> Effective(x, known)] :
        x \in {y \in rows : /\ Covering(y, known) # {} /\ y.day \notin present
                            /\ y.row.status = "EXPECTED"}}

\* resolveWorkdayAbsenceDeltas
Deltas(rows, known, present) ==
    LET Covered == {x \in rows : Covering(x, known) # {} /\ x.day \notin present}
        Bare == {x \in rows : Covering(x, known) = {}}
        Change(op, x, to) == [op |-> op, day |-> x.day, from |-> x.row.absence, to |-> to]
    IN  {Change("justify", x, Effective(x, known)) :
            x \in {y \in Covered : y.row.status = "EXPECTED"}}
        \cup {Change("relink", x, Effective(x, known)) :
            x \in {y \in Covered : /\ y.row.status = "JUSTIFIED"
                                   /\ y.row.absence # Effective(y, known)}}
        \cup {Change("restore", x, NoRequest) :
            x \in {y \in Bare : y.row.status = "JUSTIFIED"}}

\* The WHERE clauses of the three batch updates.
Applies(d) ==
    LET row == workday[d.day]
    IN  CASE d.op = "justify" -> row.status = "EXPECTED" /\ d.day \notin punched
          [] d.op = "relink"  -> row.status = "JUSTIFIED" /\ row.absence = d.from
          [] d.op = "restore" -> /\ row.status = "JUSTIFIED" /\ row.absence = d.from
                                 /\ d.day \notin punched
Applied(d) ==
    [workday[d.day] EXCEPT !.status = IF d.op = "restore" THEN "EXPECTED" ELSE "JUSTIFIED",
                           !.absence = d.to]

\* What a lane does once its workdays are reconciled.
AfterReconcile(kind) ==
    CASE kind = "job"     -> IF Integrated THEN "fence" ELSE "close"
      [] kind = "approve" -> IF Integrated THEN "impact" ELSE "look"
      [] kind = "revoke"  -> IF Integrated THEN "sweep" ELSE "look"
      [] kind = "auto"    -> "look"
      [] kind = "materialize" -> "idle"

\* The reconciliation of lane l is over (or found nothing to load).
DaysReconciled(l) ==
    IF lane[l].kind = "materialize" THEN Free(l)
    ELSE lane' = [lane EXCEPT ![l] =
            [@ EXCEPT !.step = AfterReconcile(lane[l].kind), !.left = {}, !.rows = {},
                      !.known = <<>>, !.present = {}, !.todo = {}]]

\* Statements of a rejected Promise.all are still running on their own.
Release(l) == IF lane[l].todo = {} THEN Free(l) ELSE Goto(l, "stray")

\* The token of l still owns its row: the predicate of every fenced UPDATE.
Holds(l) == /\ job[lane[l].job].status = "PROCESSING"
            /\ job[lane[l].job].lease = lane[l].lease

-----------------------------------------------------------------------------
(* Requests: the transactions of the panel and of WhatsApp *)

Start(l, kind, step, r) ==
    lane' = [lane EXCEPT ![l] = [NoCall EXCEPT !.kind = kind, !.step = step, !.req = r]]

\* A request becomes approved and its job is enqueued, in one transaction;
\* the caller goes on with the inline reconciliation.
Approve(l, r, kind, op) ==
    /\ request' = [request EXCEPT ![r].status = "APPROVED"]
    /\ approvals' = Append(approvals, r)
    /\ Enqueue(r, "APPROVED", op, request[r].version)
    /\ Start(l, kind, "list", r)
    /\ UNCHANGED <<Days, promised, syncFaults>>

Create(l, r) ==
    /\ l \in Caller /\ lane[l] = NoCall
    /\ request[r].status = "NONE"
    /\ \/ /\ request' = [request EXCEPT ![r].status = "PENDING"]
          /\ UNCHANGED <<approvals, promised, Queue, Days, lane, syncFaults>>
       \/ Approve(l, r, "auto", "AUTO")

ReviewApprove(l, r) ==
    /\ l \in Caller /\ lane[l] = NoCall
    /\ request[r].status \in {"PENDING", "NEEDS_INFO"}
    /\ Approve(l, r, "approve", "APPROVE")

\* MUTANT of ReviewRevoke: the absences that excuse are read by review, not by
\* outcome.
ReviewRevokeListed(l, r, outcome) ==
    /\ l \in Caller /\ lane[l] = NoCall
    /\ request[r].status \in {"PENDING", "NEEDS_INFO"}
    /\ outcome \in {"REJECTED", "CANCELLED"}
    /\ request' = [request EXCEPT ![r].status = outcome]
    /\ approvals' = Append(approvals, r)
    /\ Enqueue(r, outcome, "REVOKE", request[r].version)
    /\ Start(l, "revoke", "list", r)
    /\ UNCHANGED <<promised, Days, syncFaults>>

ReviewRevoke(l, r, outcome) ==
    /\ l \in Caller /\ lane[l] = NoCall
    /\ request[r].status \in {"PENDING", "NEEDS_INFO"}
    /\ outcome \in {"REJECTED", "CANCELLED"}
    /\ request' = [request EXCEPT ![r].status = outcome]
    /\ Enqueue(r, outcome, "REVOKE", request[r].version)
    /\ Start(l, "revoke", "list", r)
    /\ UNCHANGED <<approvals, promised, Days, syncFaults>>

AskInfo(r) ==
    /\ request[r].status = "PENDING"
    /\ request' = [request EXCEPT ![r].status = "NEEDS_INFO"]
    /\ UNCHANGED <<approvals, promised, Queue, Days, lane, syncFaults>>

Resubmit(l, r) ==
    /\ l \in Caller /\ lane[l] = NoCall
    /\ request[r].status = "NEEDS_INFO"
    /\ \/ /\ request' = [request EXCEPT ![r].status = "PENDING"]
          /\ UNCHANGED <<approvals, promised, Queue, Days, lane, syncFaults>>
       \/ Approve(l, r, "auto", "AUTO")

\* The edit commits; the version is bumped afterwards by a statement of its
\* own (MaxImpact bounds the edits).
Edit(l, r) ==
    /\ l \in Caller /\ lane[l] = NoCall
    /\ request[r].status \in {"PENDING", "NEEDS_INFO"}
    /\ request[r].version + Cardinality({k \in Caller : lane[k].kind = "edit" /\ lane[k].req = r})
         < MaxImpact
    /\ Start(l, "edit", "bump", r)
    /\ UNCHANGED <<Requests, Queue, Days, syncFaults>>

Bump(l) ==
    /\ At(l, {"edit"}, "bump")
    /\ request' = [request EXCEPT ![lane[l].req].version = @ + 1]
    /\ Free(l)
    /\ UNCHANGED <<approvals, promised, Queue, Days, syncFaults>>

-----------------------------------------------------------------------------
(* Reconciliation of workdays: inline, from the queue, of a materialization *)

\* MUTANT of Selected: an approval loads the workdays already linked to it.
SelectedLinked(l) ==
    {w \in Workday : /\ workday[w].status # "NONE"
                     /\ IF lane[l].kind = "materialize" THEN w \in Recurring
                        ELSE workday[w].absence = lane[l].req}

\* listWithWorkDatesByEmployeeAndDateRange for an approved request, the
\* linked workdays for a revoked one, all its own for the materialization.
Selected(l) ==
    LET r == lane[l].req
    IN  {w \in Workday :
           /\ workday[w].status # "NONE"
           /\ IF lane[l].kind = "materialize" THEN w \in Recurring
              ELSE IF Approved(r) THEN <<r, w>> \in Dated
              ELSE workday[w].absence = r}

List(l) ==
    /\ \/ At(l, Inline \cup {"job"}, "list")
       \/ At(l, {"materialize"}, "plan")
    /\ IF Selected(l) = {}
       THEN DaysReconciled(l)
       ELSE lane' = [lane EXCEPT ![l] =
               [@ EXCEPT !.step = "context", !.left = {"approved", "present"},
                         !.rows = {[day |-> w, row |-> workday[w]] : w \in Selected(l)}]]
    /\ UNCHANGED <<Requests, Queue, Days, syncFaults>>

\* The two reads of loadReconciliationContext run concurrently; the second
\* to answer lets the deltas be computed.
Context(l, what) ==
    /\ lane[l].step = "context" /\ what \in lane[l].left
    /\ LET left == lane[l].left \ {what}
           days == {x.day : x \in lane[l].rows}
           known == IF what = "approved" THEN approvals ELSE lane[l].known
           present == IF what = "present" THEN punched \cap days ELSE lane[l].present
           todo == Deltas(lane[l].rows, known, present)
       IN  IF left # {}
           THEN lane' = [lane EXCEPT ![l] =
                   [@ EXCEPT !.left = left, !.known = known, !.present = present]]
           ELSE IF todo = {} THEN DaysReconciled(l)
           ELSE lane' = [lane EXCEPT ![l] =
                   [@ EXCEPT !.step = "write", !.left = {}, !.rows = {}, !.known = <<>>,
                             !.present = {}, !.todo = todo]]
    /\ UNCHANGED <<Requests, Queue, Days, syncFaults>>

\* One of the three batch updates, in any order.
Write(l, op) ==
    /\ lane[l].step \in {"write", "failed", "giveup", "stray"}
    /\ LET batch == {d \in lane[l].todo : d.op = op}
           todo == lane[l].todo \ batch
           Change(w) == {d \in batch : d.day = w /\ Applies(d)}
       IN  /\ batch # {}
           /\ workday' = [w \in Workday |->
                            IF Change(w) = {} THEN workday[w]
                            ELSE Applied(CHOOSE d \in Change(w) : TRUE)]
           /\ IF todo # {} \/ lane[l].step \in {"failed", "giveup"}
              THEN lane' = [lane EXCEPT ![l].todo = todo]
              ELSE IF lane[l].step = "write" THEN DaysReconciled(l) ELSE Free(l)
    /\ UNCHANGED <<Requests, Queue, punched, conflict, syncFaults>>

-----------------------------------------------------------------------------
(* Operational side effects (applyApproved..., revertOperationalSideEffects) *)

\* computeImpact: an assignment conflict for every covered workday, an
\* attendance conflict for those with a record.
Impact(r) ==
    LET days == {w \in Workday : /\ workday[w].status # "NONE" /\ <<r, w>> \in Dated
                                 /\ <<r, w, workday[w].edition>> \in Covers}
    IN  ({"ASSIGNMENT"} \X {r} \X days) \cup ({"ATTENDANCE"} \X {r} \X (days \cap punched))

Afterwards(l) == IF lane[l].kind = "job" THEN "close" ELSE "look"

ComputeImpact(l) ==
    /\ At(l, {"approve", "job"}, "impact")
    /\ LET marks == Impact(lane[l].req)
       IN  lane' = [lane EXCEPT ![l] =
                [@ EXCEPT !.marks = marks,
                          !.step = IF lane[l].kind = "job" THEN "check"
                                   ELSE IF marks = {} THEN "look" ELSE "mark"]]
    /\ UNCHANGED <<Requests, Queue, Days, syncFaults>>

\* The worker reads the request again: another version is a lost lease.
Check(l) ==
    /\ At(l, {"job"}, "check")
    /\ IF request[lane[l].req].version # lane[l].version THEN Free(l)
       ELSE Goto(l, IF lane[l].marks = {} THEN "close" ELSE "mark")
    /\ UNCHANGED <<Requests, Queue, Days, syncFaults>>

\* One upsertConflict, behind the lease guard when a worker runs it.
Mark(l, c) ==
    /\ At(l, {"approve", "job"}, "mark") /\ c \in lane[l].marks
    /\ IF lane[l].kind = "job" /\ ~Holds(l)
       THEN Free(l) /\ UNCHANGED conflict
       ELSE /\ conflict' = conflict \cup {c}
            /\ lane' = [lane EXCEPT ![l] =
                   [@ EXCEPT !.marks = lane[l].marks \ {c},
                             !.step = IF lane[l].marks = {c} THEN Afterwards(l) ELSE "mark"]]
    /\ UNCHANGED <<Requests, Queue, workday, punched, syncFaults>>

\* dismissOpenConflictsForRequest
Sweep(l) ==
    /\ At(l, {"revoke", "job"}, "sweep")
    /\ conflict' = {c \in conflict : c[2] # lane[l].req}
    /\ Goto(l, Afterwards(l))
    /\ UNCHANGED <<Requests, Queue, workday, punched, syncFaults>>

-----------------------------------------------------------------------------
(* The inline end of runAfterAbsenceMutation *)

ActiveJobs(r) == {j \in JobId : /\ job[j].request = r
                            /\ job[j].status \in {"PENDING", "PROCESSING", "FAILED"}}
Latest(S) == CHOOSE j \in S : \A k \in S : k <= j

\* findActiveByRequest, on the way out or in the catch block.
Look(l) ==
    /\ At(l, Inline, "look") \/ At(l, Inline, "failed")
    /\ LET J == ActiveJobs(lane[l].req)
           settles == J # {} /\ job[Latest(J)].status \in {"PENDING", "FAILED"}
       IN  IF lane[l].step = "look"
           THEN /\ UNCHANGED promised
                /\ IF settles
                   THEN lane' = [lane EXCEPT ![l] = [@ EXCEPT !.step = "close", !.job = Latest(J)]]
                   ELSE Free(l)
           ELSE IF settles
                THEN /\ lane' = [lane EXCEPT ![l] = [@ EXCEPT !.step = "giveup", !.job = Latest(J)]]
                     /\ UNCHANGED promised
                ELSE promised' = promised \cup {lane[l].req} /\ Release(l)
    /\ UNCHANGED <<request, approvals, Queue, Days, syncFaults>>

\* completeInlineJob: never a row a worker has taken meanwhile.
CloseInline(l) ==
    /\ At(l, Inline, "close")
    /\ LET j == lane[l].job
       IN  job' = IF job[j].status \in {"PENDING", "FAILED"}
                  THEN [job EXCEPT ![j].status = "COMPLETED"] ELSE job
    /\ Free(l)
    /\ UNCHANGED <<Requests, enqueued, Days, syncFaults>>

\* MUTANT of AttemptFailed: the last attempt returns to the queue.
AttemptFailedOneMore(j) ==
    [job EXCEPT ![j] =
        [@ EXCEPT !.attempts = job[j].attempts + 1,
                  !.status = IF job[j].attempts + 1 > MaxAttempts THEN "FAILED" ELSE "PENDING"]]

\* The attempt counts; at the last one the row leaves the queue.
AttemptFailed(j) ==
    [job EXCEPT ![j] =
        [@ EXCEPT !.attempts = job[j].attempts + 1,
                  !.status = IF job[j].attempts + 1 >= MaxAttempts THEN "FAILED" ELSE "PENDING"]]

\* MUTANT of FailInline: the job is given up with the inline run.
FailInlineDrops(l) ==
    /\ At(l, Inline, "giveup")
    /\ job' = IF job[lane[l].job].status \in {"PENDING", "FAILED"}
              THEN [job EXCEPT ![lane[l].job].status = "SUPERSEDED"] ELSE job
    /\ promised' = promised \cup {lane[l].req}
    /\ Release(l)
    /\ UNCHANGED <<request, approvals, enqueued, Days, syncFaults>>

\* failInlineJob, then the caller is answered SYNC_FAILED_MESSAGE.
FailInline(l) ==
    /\ At(l, Inline, "giveup")
    /\ job' = IF job[lane[l].job].status \in {"PENDING", "FAILED"}
              THEN AttemptFailed(lane[l].job) ELSE job
    /\ promised' = promised \cup {lane[l].req}
    /\ Release(l)
    /\ UNCHANGED <<request, approvals, enqueued, Days, syncFaults>>

-----------------------------------------------------------------------------
(* The queue: claims, guards, settlements, recovery *)

Claim(l, j) ==
    /\ l \in Worker /\ lane[l] = NoCall
    /\ job[j].status = "PENDING" /\ job[j].attempts < MaxAttempts
    /\ job' = [job EXCEPT ![j] = [@ EXCEPT !.status = "PROCESSING", !.lease = job[j].lease + 1]]
    /\ lane' = [lane EXCEPT ![l] =
                  [NoCall EXCEPT !.kind = "job", !.step = "read", !.req = job[j].request,
                               !.job = j, !.lease = job[j].lease + 1,
                               !.version = job[j].version]]
    /\ UNCHANGED <<Requests, enqueued, Days, syncFaults>>

\* executeClaimedJob: the first guard, then the request is compared with
\* the row that was claimed.
ReadRequest(l) ==
    /\ At(l, {"job"}, "read")
    /\ LET r == request[lane[l].req]
       IN  IF ~Holds(l) THEN Free(l)
           ELSE Goto(l, IF r.version = lane[l].version /\ r.status = job[lane[l].job].target
                        THEN "ready" ELSE "drop")
    /\ UNCHANGED <<Requests, Queue, Days, syncFaults>>

\* The guards before the reconciliation and before the side effects: a lost
\* lease ends the run.  (The last one stands right before the fenced
\* completion, which checks the same.)
Guard(l) ==
    /\ lane[l].kind = "job" /\ lane[l].step \in {"ready", "fence"}
    /\ IF ~Holds(l) THEN Free(l)
       ELSE Goto(l, IF lane[l].step = "ready" THEN "list"
                    ELSE IF Approved(lane[l].req) THEN "impact" ELSE "sweep")
    /\ UNCHANGED <<Requests, Queue, Days, syncFaults>>

\* markSupersededWithLease and markCompletedWithLease
Settle(l, status) ==
    /\ job' = IF Holds(l) THEN [job EXCEPT ![lane[l].job].status = status] ELSE job
    /\ Free(l)
    /\ UNCHANGED <<Requests, enqueued, Days, syncFaults>>

Supersede(l) == At(l, {"job"}, "drop") /\ Settle(l, "SUPERSEDED")

Complete(l) == At(l, {"job"}, "close") /\ Settle(l, "COMPLETED")

\* markFailedAttemptWithLease
FailClaimed(l) ==
    /\ At(l, {"job"}, "failed")
    /\ job' = IF Holds(l) THEN AttemptFailed(lane[l].job) ELSE job
    /\ Release(l)
    /\ UNCHANGED <<Requests, enqueued, Days, syncFaults>>

\* recoverExpiredLeases: the lease of a slow or dead worker has run out,
\* which time may do to any row in PROCESSING.
Recover(j) ==
    /\ job[j].status = "PROCESSING"
    /\ job' = AttemptFailed(j)
    /\ UNCHANGED <<Requests, enqueued, Days, lane, syncFaults>>

\* enqueueManualReconcile: read, UPDATE and INSERT are three statements.
ManualReconcile(l, r) ==
    /\ l \in Caller /\ lane[l] = NoCall
    /\ Integrated /\ Ended(r) /\ enqueued < MaxJobs
    /\ lane' = [lane EXCEPT ![l] = [NoCall EXCEPT !.kind = "manual", !.step = "drop", !.req = r,
                                                !.version = request[r].version]]
    /\ UNCHANGED <<Requests, Queue, Days, syncFaults>>

ManualSweep(l) ==
    /\ At(l, {"manual"}, "drop")
    /\ job' = Swept(lane[l].req, request[lane[l].req].status, lane[l].version)
    /\ Goto(l, "insert")
    /\ UNCHANGED <<Requests, enqueued, Days, syncFaults>>

ManualInsert(l) ==
    /\ At(l, {"manual"}, "insert")
    /\ Inserted(job, lane[l].req, request[lane[l].req].status, "MANUAL", lane[l].version)
    /\ Free(l)
    /\ UNCHANGED <<Requests, Days, syncFaults>>

-----------------------------------------------------------------------------
(* The materialization and the check-in *)

StartPlan(l) ==
    /\ l \in Planner /\ lane[l] = NoCall
    /\ Start(l, "materialize", "plan", NoRequest)
    /\ UNCHANGED <<Requests, Queue, Days, syncFaults>>

\* The horizon reaches a workday: its row is inserted as EXPECTED.
MakeDay(l, w) ==
    /\ At(l, {"materialize"}, "plan") /\ w \in Recurring
    /\ workday[w].status = "NONE"
    /\ workday' = [workday EXCEPT ![w].status = "EXPECTED"]
    /\ UNCHANGED <<Requests, Queue, punched, conflict, lane, syncFaults>>

\* The schedule changed: a future workday without attendance moves to the
\* hours of the next edition.
Reschedule(l, w) ==
    /\ At(l, {"materialize"}, "plan") /\ w \in Recurring \ punched
    /\ workday[w].status # "NONE" /\ workday[w].edition + 1 \in Edition
    /\ workday' = [workday EXCEPT ![w].edition = @ + 1]
    /\ UNCHANGED <<Requests, Queue, punched, conflict, lane, syncFaults>>

\* createAttendanceForEmployeeWorkday reads the candidate outside its
\* transaction, then inserts the record.
ReadCandidate(l, w) ==
    /\ l \in Caller /\ lane[l] = NoCall
    /\ workday[w].status # "NONE" /\ w \notin punched
    /\ lane' = [lane EXCEPT ![l] = [NoCall EXCEPT !.kind = "punch", !.step = "insert",
                                                !.rows = {[day |-> w, row |-> workday[w]]}]]
    /\ UNCHANGED <<Requests, Queue, Days, syncFaults>>

Punch(l) ==
    /\ At(l, {"punch"}, "insert")
    /\ \E x \in lane[l].rows :
         IF x.day \in punched THEN UNCHANGED <<punched, conflict>>
         ELSE /\ punched' = punched \cup {x.day}
              /\ conflict' = IF /\ x.row.status = "JUSTIFIED" /\ Integrated
                                /\ Approved(x.row.absence)
                             THEN conflict \cup {<<"ATTENDANCE", x.row.absence, x.day>>}
                             ELSE conflict
    /\ Free(l)
    /\ UNCHANGED <<Requests, Queue, workday, syncFaults>>

-----------------------------------------------------------------------------
(* Faults, bounded by MaxSyncFaults *)

\* MUTANT of OnError: a worker logs the error and goes on to close its job.
OnErrorClosed(kind) ==
    CASE kind = "materialize" -> "stray"
      [] kind = "job"         -> "close"
      [] OTHER                -> "failed"

\* The catch blocks: a materialization has none and leaves its statements to
\* themselves.
OnError(kind) == IF kind = "materialize" THEN "stray" ELSE "failed"

\* A statement of the reconciliation throws.  In the Promise.all of the
\* writes one batch is lost and the others go on.
Throws(l) ==
    /\ syncFaults < MaxSyncFaults
    /\ lane[l].kind \in Inline \cup {"job", "materialize"}
    /\ lane[l].step \in {"read", "drop", "ready", "list", "context", "write", "fence",
                         "impact", "check", "mark", "sweep", "close"}
    /\ ~At(l, Inline, "close")
    /\ \E op \in {"justify", "relink", "restore"} :
         LET todo == {d \in lane[l].todo : d.op # op}
             step == OnError(lane[l].kind)
         IN  lane' = [lane EXCEPT ![l] =
                        IF step = "stray" /\ todo = {} THEN NoCall
                        ELSE [NoCall EXCEPT !.kind = lane[l].kind, !.step = step,
                                            !.req = lane[l].req, !.job = lane[l].job,
                                            !.lease = lane[l].lease, !.todo = todo]]
    /\ syncFaults' = syncFaults + 1
    /\ UNCHANGED <<Requests, Queue, Days>>

\* The error handling itself throws: it is logged and the run ends; an
\* inline caller is answered all the same.
ThrowsAgain(l) ==
    /\ syncFaults < MaxSyncFaults
    /\ \/ /\ lane[l].kind \in Inline /\ lane[l].step \in {"failed", "giveup"}
          /\ promised' = promised \cup {lane[l].req}
       \/ /\ \/ At(l, {"job"}, "failed")
             \/ lane[l].kind \in Inline /\ lane[l].step \in {"look", "close"}
          /\ UNCHANGED promised
    /\ Release(l)
    /\ syncFaults' = syncFaults + 1
    /\ UNCHANGED <<request, approvals, Queue, Days>>

\* The process dies in the middle of a call.
CallDies(l) ==
    /\ lane[l] # NoCall /\ syncFaults < MaxSyncFaults
    /\ Free(l)
    /\ syncFaults' = syncFaults + 1
    /\ UNCHANGED <<Requests, Queue, Days>>

-----------------------------------------------------------------------------
Reconcile(l) ==
    \/ List(l)
    \/ \E what \in {"approved", "present"} : Context(l, what)
    \/ \E op \in {"justify", "relink", "restore"} : Write(l, op)
    \/ ComputeImpact(l) \/ Check(l) \/ Sweep(l)
    \/ \E c \in lane[l].marks : Mark(l, c)

InlineEnd(l) == Look(l) \/ CloseInline(l) \/ FailInline(l)

Job(l) ==
    \/ Guard(l) \/ ReadRequest(l) \/ Supersede(l) \/ Complete(l) \/ FailClaimed(l)

\* What a call in progress does next on its own.
Proceed(l) ==
    \/ Reconcile(l) \/ InlineEnd(l) \/ Job(l)
    \/ Bump(l) \/ ManualSweep(l) \/ ManualInsert(l) \/ Punch(l)

Arrival ==
    \/ \E l \in Runner, r \in Request :
         \/ Create(l, r) \/ ReviewApprove(l, r) \/ Resubmit(l, r)
         \/ \E outcome \in Outcome : ReviewRevoke(l, r, outcome)
         \/ Edit(l, r) \/ ManualReconcile(l, r)
    \/ \E r \in Request : AskInfo(r)
    \/ \E l \in Runner, w \in Workday : MakeDay(l, w) \/ Reschedule(l, w) \/ ReadCandidate(l, w)

SyncFault == \E l \in Runner : Throws(l) \/ ThrowsAgain(l) \/ CallDies(l)

SyncNext ==
    \/ Arrival
    \/ \E l \in Runner : Proceed(l)
    \/ \E l \in Runner, j \in JobId : Claim(l, j)
    \/ \E j \in JobId : Recover(j)
    \/ \E l \in Runner : StartPlan(l)
    \/ SyncFault

\* A call in progress goes on, an expired lease is recovered, and the two
\* schedulers keep ticking; people and messages owe nothing.
SyncFairness ==
    /\ \A l \in Runner : WF_syncVars(Proceed(l))
    /\ \A l \in Worker : WF_syncVars(\E j \in JobId : Claim(l, j))
    /\ \A j \in JobId : WF_syncVars(Recover(j))
    /\ \A l \in Planner : WF_syncVars(StartPlan(l))

SyncSpec == SyncInit /\ [][SyncNext]_syncVars
FairSyncSpec == SyncSpec /\ SyncFairness

-----------------------------------------------------------------------------
(* Safety *)

\* A workday is excused only by an absence that was approved, and an expected
\* one by none, whatever snapshot the writer worked from.
JustifiedIsBacked ==
    \A w \in Workday :
        IF workday[w].status = "JUSTIFIED"
        THEN /\ workday[w].absence \in Request
             /\ Approved(workday[w].absence)
             /\ \E e \in Edition : <<workday[w].absence, w, e>> \in Covers
        ELSE workday[w].absence = NoRequest

\* A closed job of an approval means the one-time workdays of the absence
\* are excused or were punched: no interleaving of the inline run, workers
\* whose lease ran out, check-ins and failed batches closes it too early.
CompletedMeansReconciled ==
    \A j \in JobId, w \in Workday \ Recurring :
        LET r == job[j].request
        IN  (/\ job[j].status = "COMPLETED" /\ job[j].target = "APPROVED"
             /\ <<r, w>> \in Dated /\ <<r, w, 0>> \in Covers)
            => workday[w].status = "JUSTIFIED" \/ w \in punched

\* A closed job of a reviewed approval means the assignments of the covered
\* workdays were raised as conflicts, when the integration is on.
CompletedMeansAnnounced ==
    \A j \in JobId, w \in Workday \ Recurring :
        LET r == job[j].request
        IN  (/\ Integrated /\ job[j].op = "APPROVE" /\ job[j].status = "COMPLETED"
             /\ <<r, w>> \in Dated /\ <<r, w, 0>> \in Covers)
            => <<"ASSIGNMENT", r, w>> \in conflict

\* A closed job left no covered one-time workday behind, and raised what a
\* reviewed approval has to raise.
ClosedMeansReconciled == CompletedMeansReconciled /\ CompletedMeansAnnounced

\* What "La sincronizacion se reintentara automaticamente" promises: a job of
\* the request is still in the queue, or ended by being applied or by using
\* up its attempts.  The one exception is a job dropped because a late bump
\* had moved the version of the request: nothing is left to retry it.
SyncIsRetried ==
    \A r \in promised : \E j \in JobId :
        /\ job[j].request = r
        /\ job[j].status # "SUPERSEDED" \/ job[j].version < request[r].version

-----------------------------------------------------------------------------
(* Liveness *)

\* Every job that enters the queue leaves it.
JobsSettle ==
    \A j \in JobId : job[j].status \in {"PENDING", "PROCESSING"}
                       ~> job[j].status \in {"COMPLETED", "FAILED", "SUPERSEDED"}

Excused(w) == workday[w].status = "JUSTIFIED" \/ w \in punched

\* An approved absence reaches its one-time workdays, unless its jobs were
\* exhausted or superseded.
ApprovedIsApplied ==
    \A r \in Request, w \in Workday \ Recurring :
        (Approved(r) /\ <<r, w>> \in Dated /\ <<r, w, 0>> \in Covers)
            ~> \/ Excused(w)
               \/ \E j \in JobId : /\ job[j].request = r
                                   /\ job[j].status \in {"FAILED", "SUPERSEDED"}

\* The workday agrees with the absences approved and its current schedule.
Agrees(w) ==
    LET x == [day |-> w, row |-> workday[w]]
    IN  IF Covering(x, approvals) = {} THEN workday[w].status # "JUSTIFIED"
        ELSE workday[w].absence = Effective(x, approvals)

\* Whatever stale reconciliations wrote, the ticks of the materialization end
\* with every unattended recurring workday in agreement for good.
DaysSettle ==
    \A w \in Recurring : <>[](workday[w].status = "NONE" \/ w \in punched \/ Agrees(w))
=============================================================================
