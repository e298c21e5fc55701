---------------------------- MODULE WorkdayPlan ----------------------------
(***************************************************************************)
(* The materialization of one workday of a recurring operation: the row of *)
(* the day, the seats (employee_workdays) of its employees, and the passes *)
(* that bring both in line with the schedule and the assignments.          *)
(*                                                                         *)
(* A pass reads the schedule, the day, the assignments, the seats and the  *)
(* attendance, and then writes row by row on what it read; no transaction  *)
(* holds it together.  It is started by the daily job, by every edit and   *)
(* by the assignments, so passes overlap.  Cancelling and reactivating the *)
(* operation have their own passes.                                        *)
(*                                                                         *)
(* An operation with one shift numbers its schedules and compares-and-sets *)
(* the day's number; an operation with several shifts (Multi) numbers the  *)
(* changes of each day, and has date exceptions that are applied in a      *)
(* transaction.                                                            *)
(***************************************************************************)
EXTENDS Naturals

CONSTANTS
    Assignment, EmployeeOf,
    Lane,           \* passes at a time
    Editor,         \* schedule edits at a time
    Multi,          \* the operation has several shifts
    Event,          \* what may happen beside the passes
    Kind,           \* kinds of date exception an administrator sets
    MaxEdits,       \* bound: edits, exceptions and changes of status
    MaxVersion,     \* bound: versions from here on are not told apart
    MaxFaults       \* bound: crashes of a pass

Employee == {EmployeeOf[a] : a \in Assignment}

Events == {"edit", "resave", "except", "status", "assign", "attend", "start", "crash"}
Kinds == {"CANCEL", "RESTORE", "TIME_OVERRIDE"}

ASSUME PlanAssumption ==
    /\ Multi \in BOOLEAN
    /\ Event \subseteq Events
    /\ Kind \subseteq Kinds
    /\ MaxEdits \in Nat /\ MaxVersion \in Nat \ {0} /\ MaxFaults \in Nat

VARIABLES
    operation,  \* its status
    plan,       \* what the schedule says of the date
    draft,      \* the schedule an edit read before its transaction
    assignment,
    day,        \* the row of operation_workdays
    seat,       \* the rows of employee_workdays
    attended,   \* the employees with an attendance record
    started,    \* the expected start has passed
    pass,       \* the state of every pass
    edits, faults

vars == <<operation, plan, draft, assignment, day, seat, attended, started,
          pass, edits, faults>>

NoRow == [status |-> "NONE"]
NoDraft == [version |-> 0]
Version == 1 .. MaxVersion

\* Hours and tolerances; those of a date exception are of their own.
Special == MaxEdits + 1
Hours == 1 .. 2 * Special

Plan == [enabled: BOOLEAN, hours: 1 .. Special, version: Version,
         exception: Kinds \cup {"NONE"}]
DayRow == {NoRow} \cup
    [status: {"ACTIVE"}, hours: Hours, version: Version] \cup
    [status: {"CANCELLED"}, reason: {"SCHEDULE", "OPERATION", "EXCEPTION"},
     hours: Hours, version: Version]
SeatRow == {NoRow} \cup
    [status: {"EXPECTED"}, by: Assignment] \cup
    [status: {"CANCELLED"}, by: Assignment,
     reason: {"SCHEDULE", "OPERATION", "EXCEPTION", "ASSIGNMENT"}]

Step == {"idle", "day", "rows", "sync", "ensure", "staff", "strike",
         "cancel", "list", "vacate", "revive", "reseat", "again"}

\* What a pass read; it begins with the schedule, or with a cancellation or a
\* reactivation of the operation.
AtFirst == [enabled |-> TRUE, hours |-> 1, version |-> 1, exception |-> "NONE"]
Pass == [step: Step, why: {"SCHEDULE", "OPERATION"}, plan: Plan, day: DayRow,
         staff: SUBSET Assignment, seats: [Employee -> SeatRow],
         taken: SUBSET Employee, todo: SUBSET (Assignment \cup Employee),
         twice: BOOLEAN, sweep: BOOLEAN]
Idle == [step |-> "idle", why |-> "SCHEDULE", plan |-> AtFirst, day |-> NoRow,
         staff |-> {}, seats |-> [e \in Employee |-> NoRow], taken |-> {},
         todo |-> {}, twice |-> FALSE, sweep |-> FALSE]

TypeOK ==
    /\ operation \in {"SCHEDULED", "CANCELLED"}
    /\ plan \in Plan
    /\ draft \in [Editor -> Plan \cup {NoDraft}]
    /\ assignment \in [Assignment -> {"FREE", "CHECKED", "OPEN", "ENDED", "CANCELLED"}]
    /\ day \in DayRow
    /\ seat \in [Employee -> SeatRow]
    /\ attended \subseteq Employee
    /\ started \in BOOLEAN
    /\ pass \in [Lane -> Pass]
    /\ edits \in 0 .. MaxEdits /\ faults \in 0 .. MaxFaults

-----------------------------------------------------------------------------
(* Rows *)

Active(row) == row.status = "ACTIVE"
Expected(row) == row.status = "EXPECTED"
CancelledFor(row, reasons) == row.status = "CANCELLED" /\ row.reason \in reasons
Cancelled(row, why) ==
    IF Expected(row) THEN [status |-> "CANCELLED", by |-> row.by, reason |-> why]
    ELSE [status |-> "CANCELLED", hours |-> row.hours, version |-> row.version, reason |-> why]
Seated(a) == [status |-> "EXPECTED", by |-> a]
Numbered(v) == IF v < MaxVersion THEN v ELSE MaxVersion

\* The times of a date: those of its exception, or the schedule's.
HoursOf(p) == IF p.exception = "TIME_OVERRIDE" THEN p.hours + Special ELSE p.hours

\* buildSnapshotPayload, buildMultiShiftWorkdaySnapshot: the row the schedule
\* asks for.  A day of several shifts is asked for with version 1.
Snapshot(p) ==
    [status |-> "ACTIVE", hours |-> HoursOf(p), version |-> IF Multi THEN 1 ELSE p.version]

\* The number an update of the row writes.
Renumbered(row, p) == IF Multi THEN Numbered(row.version + 1) ELSE p.version

\* The row differs from what the schedule asks for.
Differs(row, p) ==
    row.hours # HoursOf(p) \/ (~Multi /\ row.version # p.version)

\* cancelExpectedForWorkday(InTransaction): the expected seats but those of
\* the people given are cancelled.
Vacated(rows, why, but) ==
    [e \in Employee |->
        IF Expected(rows[e]) /\ e \notin but THEN Cancelled(rows[e], why) ELSE rows[e]]

\* Seats cancelled for one of the reasons are expected again.
Reseated(rows, reasons) ==
    [e \in Employee |->
        IF CancelledFor(rows[e], reasons) /\ e \notin attended
        THEN Seated(rows[e].by) ELSE rows[e]]

-----------------------------------------------------------------------------
(* A pass: what it read, and what it has left to do *)

\* The pass goes on: with the seats to give up once all are given, to the
\* second sweep, or to its end.
StruckNone(r) == {}
Struck(r) == {e \in Employee : /\ Expected(r.seats[e]) /\ e \notin r.taken
                               /\ \A a \in r.staff : EmployeeOf[a] # e}
Onward(r) ==
    IF r.todo # {} THEN r
    ELSE IF r.step = "staff" /\ Struck(r) # {}
    THEN [r EXCEPT !.step = "strike", !.todo = Struck(r)]
    ELSE IF r.step = "vacate" /\ r.twice
    THEN [r EXCEPT !.step = "cancel", !.twice = FALSE]
    ELSE Idle

Become(l, r) == pass' = [pass EXCEPT ![l] = r]
Finish(l) == Become(l, Idle)

\* materializeOperationHorizon: a cancelled operation is refused; then the
\* schedule is read.
BeginPass(l) ==
    /\ pass[l].step \in {"idle", "again"}
    /\ operation = "SCHEDULED"
    /\ Become(l, [Idle EXCEPT !.step = "day", !.plan = plan])
    /\ UNCHANGED <<operation, plan, draft, assignment, day, seat, attended,
                   started, edits, faults>>

RefusePass(l) ==
    /\ pass[l].step = "again" /\ operation # "SCHEDULED"
    /\ Finish(l)
    /\ UNCHANGED <<operation, plan, draft, assignment, day, seat, attended,
                   started, edits, faults>>

\* The day is read; the pass of a cancelled operation looks for one that is
\* active, ahead and unattended (listFutureMutableByOperation).
ReadDay(l) ==
    /\ pass[l].step = "day"
    /\ IF pass[l].why = "OPERATION" /\ ~(Active(day) /\ ~started /\ attended = {})
       THEN Finish(l)
       ELSE Become(l, [pass[l] EXCEPT !.step = "rows", !.day = day])
    /\ UNCHANGED <<operation, plan, draft, assignment, day, seat, attended,
                   started, edits, faults>>

\* isFutureMutableWorkday, for the sweeps.
Sweepable(l) ==
    Active(pass[l].day) /\ ~started /\ attended = {}

\* The assignments, the seats and the attendance are read.  A day without a
\* row has no seats.
Read(l) ==
    [pass[l] EXCEPT
        !.staff = {a \in Assignment : assignment[a] = "OPEN"},
        !.seats = IF pass[l].day = NoRow THEN [e \in Employee |-> NoRow] ELSE seat,
        !.taken = IF pass[l].day = NoRow THEN {} ELSE attended,
        !.sweep = Sweepable(l)]

ReadRows(l) ==
    LET r == Read(l) IN
    /\ pass[l].step = "rows"
    /\ IF r.why = "OPERATION" THEN Become(l, [r EXCEPT !.step = "cancel"])
       ELSE IF ~r.plan.enabled
       THEN IF r.sweep THEN Become(l, [r EXCEPT !.step = "cancel", !.twice = ~Multi])
            ELSE Finish(l)
       ELSE IF Multi /\ r.plan.exception \in {"CANCEL", "RESTORE"}
       THEN Become(l, [r EXCEPT !.step = "sync"])
       ELSE Become(l, [r EXCEPT !.step = "ensure"])
    /\ UNCHANGED <<operation, plan, draft, assignment, day, seat, attended,
                   started, edits, faults>>

\* cancelWorkday: only a row that is not cancelled takes the reason.
CancelDay(l) ==
    /\ pass[l].step = "cancel"
    /\ day' = IF day.status = "CANCELLED" THEN day ELSE Cancelled(day, pass[l].why)
    /\ Become(l, [pass[l] EXCEPT !.step = "list"])
    /\ UNCHANGED <<operation, plan, draft, assignment, seat, attended, started,
                   edits, faults>>

\* cancelExpectedForWorkday: the seats are read again, and those without the
\* attendance read before are cancelled one by one.
ListSeats(l) ==
    LET left == {e \in Employee \ pass[l].taken : Expected(seat[e])} IN
    /\ pass[l].step = "list"
    /\ Become(l, Onward([pass[l] EXCEPT !.step = "vacate", !.todo = left]))
    /\ UNCHANGED <<operation, plan, draft, assignment, day, seat, attended,
                   started, edits, faults>>

\* cancelExpectationWithReason; the seats of the people no longer assigned
\* are given up the same way.
Vacate(l, e) ==
    LET why == IF pass[l].step = "vacate" THEN pass[l].why ELSE "ASSIGNMENT" IN
    /\ pass[l].step \in {"vacate", "strike"} /\ e \in pass[l].todo
    /\ seat' = [seat EXCEPT ![e] = IF Expected(@) THEN Cancelled(@, why) ELSE @]
    /\ Become(l, Onward([pass[l] EXCEPT !.todo = @ \ {e}]))
    /\ UNCHANGED <<operation, plan, draft, assignment, day, attended, started,
                   edits, faults>>

-----------------------------------------------------------------------------
(* The row of the day *)

Staffed(l, row) ==
    Become(l, Onward([pass[l] EXCEPT !.step = "staff", !.day = row, !.todo = pass[l].staff]))

\* ensureOperationWorkdayRow, ensureMultiShiftOperationWorkdayRow: the row is
\* inserted, or the one read (or met at the insert) is taken.
Known(l) == IF pass[l].day = NoRow THEN day ELSE pass[l].day
MayChange(l) == ~started /\ pass[l].taken = {}

InsertDay(l) ==
    /\ pass[l].step = "ensure" /\ Known(l) = NoRow
    /\ day' = Snapshot(pass[l].plan)
    /\ Staffed(l, day')
    /\ UNCHANGED <<operation, plan, draft, assignment, seat, attended, started,
                   edits, faults>>

\* A day the schedule had cancelled comes back, unless a later version has it.
ReviveDay(l) ==
    LET p == pass[l].plan  won == CancelledFor(day, {"SCHEDULE"}) /\ day.version <= Snapshot(p).version
    IN
    /\ pass[l].step = "ensure" /\ Known(l) # NoRow
    /\ CancelledFor(Known(l), {"SCHEDULE"}) /\ MayChange(l) /\ won
    /\ day' = Snapshot(p)
    /\ Staffed(l, day')
    /\ UNCHANGED <<operation, plan, draft, assignment, seat, attended, started,
                   edits, faults>>

\* updateSnapshot: the row follows the schedule unless a later version has
\* it; whatever cancelled the row meanwhile is undone.
NotBehindUnchecked(row, number) == row # NoRow /\ number > 0
NotBehind(row, number) == row.version <= number
MoveDay(l) ==
    LET p == pass[l].plan  number == Renumbered(Known(l), p) IN
    /\ pass[l].step = "ensure" /\ Known(l) # NoRow
    /\ Active(Known(l)) /\ Differs(Known(l), p) /\ MayChange(l)
    /\ IF NotBehind(day, number)
       THEN day' = [status |-> "ACTIVE", hours |-> HoursOf(p), version |-> number]
       ELSE UNCHANGED day
    /\ Staffed(l, IF NotBehind(day, number) THEN day' ELSE Known(l))
    /\ UNCHANGED <<operation, plan, draft, assignment, seat, attended, started,
                   edits, faults>>

\* The row stays as it is: its seats are seen to if it is active.
KeepDay(l) ==
    LET row == Known(l)  p == pass[l].plan IN
    /\ pass[l].step = "ensure" /\ row # NoRow
    /\ IF Active(row)
       THEN /\ ~(Differs(row, p) /\ MayChange(l))
            /\ Staffed(l, row)
       ELSE /\ ~(/\ CancelledFor(row, {"SCHEDULE"}) /\ MayChange(l)
                 /\ CancelledFor(day, {"SCHEDULE"}) /\ day.version <= Snapshot(p).version)
            /\ Finish(l)
    /\ UNCHANGED <<operation, plan, draft, assignment, day, seat, attended,
                   started, edits, faults>>

\* reconcileShiftWorkdayInTransaction: what one serializable transaction makes
\* of the day and its seats.
Reconciled(p) ==
    LET why == IF p.exception = "CANCEL" THEN "EXCEPTION" ELSE "SCHEDULE"
        kept == IF CancelledFor(day, {"EXCEPTION"}) THEN "EXCEPTION" ELSE "SCHEDULE"
        open == ~started /\ attended = {}
        numbered(v) == [status |-> "ACTIVE", hours |-> HoursOf(p), version |-> v]
    IN
    IF ~p.enabled \/ p.exception = "CANCEL"
    THEN IF day = NoRow THEN [row |-> day, seats |-> seat]
         ELSE IF Active(day)
         THEN [row |-> Cancelled(day, why), seats |-> Vacated(seat, why, attended)]
         ELSE [row |-> day, seats |-> Vacated(seat, kept, attended)]
    ELSE IF day = NoRow THEN [row |-> Snapshot(p), seats |-> seat]
    ELSE IF Active(day) THEN [row |-> numbered(Numbered(day.version + 1)), seats |-> seat]
    ELSE IF CancelledFor(day, {"EXCEPTION"}) /\ open
    THEN [row |-> numbered(day.version), seats |-> Reseated(seat, {"EXCEPTION", "SCHEDULE"})]
    ELSE IF CancelledFor(day, {"SCHEDULE"}) /\ open
    THEN [row |-> numbered(Numbered(day.version + 1)), seats |-> Reseated(seat, {"SCHEDULE"})]
    ELSE [row |-> day, seats |-> seat]

\* A date with an exception is applied in a transaction, from the exception
\* the pass read.  A row it read as active and left cancelled is swept too.
SyncDay(l) ==
    LET made == Reconciled(pass[l].plan) IN
    /\ pass[l].step = "sync"
    /\ day' = made.row /\ seat' = made.seats
    /\ IF Active(made.row) THEN Staffed(l, made.row)
       ELSE IF pass[l].sweep THEN Become(l, [pass[l] EXCEPT !.step = "cancel"])
       ELSE Finish(l)
    /\ UNCHANGED <<operation, plan, draft, assignment, attended, started, edits, faults>>

-----------------------------------------------------------------------------
(* The seats *)

\* isRecoverableCancelledExpectation
Recoverable(row, a, here) ==
    /\ CancelledFor(row, {"ASSIGNMENT"}) /\ ~here
    /\ row.by = a \/ assignment[row.by] = "CANCELLED"

\* A cancelled seat is expected again while it is cancelled for that reason
\* and unattended.
Regained(e, why) == CancelledFor(seat[e], {why}) /\ e \notin attended

\* ensureExpectedForRecurringAssignment: the seat is inserted, or the one read
\* (or met at the insert) is kept or expected again; a seat of another
\* assignment, and one that cannot be expected again, end the pass.
Seat(l, a) ==
    LET e == EmployeeOf[a]
        read == pass[l].seats[e]
        row == IF read = NoRow THEN seat[e] ELSE read
        here == read # NoRow /\ e \in pass[l].taken
        back == Recoverable(row, a, here)
        foreign == row # NoRow /\ Expected(row) /\ row.by # a
        missed == back /\ ~Regained(e, "ASSIGNMENT")
        scheduled == /\ row # NoRow /\ CancelledFor(row, {"SCHEDULE"})
                     /\ row.by = a /\ ~here /\ Regained(e, "SCHEDULE")
    IN
    /\ pass[l].step = "staff" /\ a \in pass[l].todo
    /\ IF row = NoRow \/ (back /\ ~missed) \/ scheduled
       THEN seat' = [seat EXCEPT ![e] = Seated(a)]
       ELSE UNCHANGED seat
    /\ IF foreign \/ missed THEN Finish(l)
       ELSE Become(l, Onward([pass[l] EXCEPT !.todo = @ \ {a}]))
    /\ UNCHANGED <<operation, plan, draft, assignment, day, attended, started,
                   edits, faults>>

-----------------------------------------------------------------------------
(* The operation is cancelled and reactivated *)

\* cancel, and reconcileFutureWorkdaysForCancelledOperation after its commit.
CancelOperation(l) ==
    /\ "status" \in Event /\ edits < MaxEdits
    /\ pass[l] = Idle /\ operation = "SCHEDULED"
    /\ operation' = "CANCELLED" /\ edits' = edits + 1
    /\ Become(l, [Idle EXCEPT !.step = "day", !.why = "OPERATION"])
    /\ UNCHANGED <<plan, draft, assignment, day, seat, attended, started, faults>>

\* reactivate, and reconcileWorkdaysForReactivatedOperation after its commit.
ReactivateOperation(l) ==
    /\ "status" \in Event /\ edits < MaxEdits
    /\ pass[l] = Idle /\ operation = "CANCELLED"
    /\ operation' = "SCHEDULED" /\ edits' = edits + 1
    /\ Become(l, [Idle EXCEPT !.step = "revive"])
    /\ UNCHANGED <<plan, draft, assignment, day, seat, attended, started, faults>>

\* reactivateOperationCancelledWorkday
RestoreDay(l) ==
    /\ pass[l].step = "revive"
    /\ IF CancelledFor(day, {"OPERATION"}) /\ attended = {}
       THEN /\ day' = [status |-> "ACTIVE", hours |-> day.hours, version |-> day.version]
            /\ Become(l, [Idle EXCEPT !.step = "reseat"])
       ELSE UNCHANGED day /\ Become(l, [Idle EXCEPT !.step = "again"])
    /\ UNCHANGED <<operation, plan, draft, assignment, seat, attended, started,
                   edits, faults>>

\* reactivateOperationCancelledForWorkday
RestoreSeats(l) ==
    /\ pass[l].step = "reseat"
    /\ seat' = Reseated(seat, {"OPERATION"})
    /\ Become(l, [Idle EXCEPT !.step = "again"])
    /\ UNCHANGED <<operation, plan, draft, assignment, day, attended, started,
                   edits, faults>>

-----------------------------------------------------------------------------
(* The schedule, its exceptions and the assignments *)

\* updateRecurring reads the schedule before its transaction.
OpenEdit(d) ==
    /\ ~Multi /\ Event \cap {"edit", "resave"} # {}
    /\ draft[d] = NoDraft /\ operation = "SCHEDULED" /\ edits < MaxEdits
    /\ draft' = [draft EXCEPT ![d] = plan]
    /\ UNCHANGED <<operation, plan, assignment, day, seat, attended, started,
                   pass, edits, faults>>

\* It writes the schedule it was given with the number after the one it read,
\* or, when the schedule is the one it read, with that one.
SaveEdit(d) ==
    /\ draft[d] # NoDraft /\ edits < MaxEdits
    /\ \/ /\ "edit" \in Event
          /\ \E on \in BOOLEAN, hours \in {draft[d].hours, edits + 2} :
                /\ <<on, hours>> # <<draft[d].enabled, draft[d].hours>>
                /\ plan' = [plan EXCEPT !.enabled = on, !.hours = hours,
                                       !.version = Numbered(draft[d].version + 1)]
       \/ /\ "resave" \in Event
          /\ plan' = [plan EXCEPT !.enabled = draft[d].enabled, !.hours = draft[d].hours,
                                 !.version = draft[d].version]
    /\ draft' = [draft EXCEPT ![d] = NoDraft]
    /\ edits' = edits + 1
    /\ UNCHANGED <<operation, assignment, day, seat, attended, started, pass, faults>>

\* The tolerances, and the hours of the company's schedule, change without a
\* number.
ChangeTerms ==
    /\ "edit" \in Event /\ edits < MaxEdits
    /\ plan' = [plan EXCEPT !.hours = edits + 2]
    /\ edits' = edits + 1
    /\ UNCHANGED <<operation, draft, assignment, day, seat, attended, started,
                   pass, faults>>

\* deactivateShift: for good; another shift of the operation stays.
DeactivateShift ==
    /\ Multi /\ "edit" \in Event /\ edits < MaxEdits /\ plan.enabled
    /\ plan' = [plan EXCEPT !.enabled = FALSE]
    /\ edits' = edits + 1
    /\ UNCHANGED <<operation, draft, assignment, day, seat, attended, started,
                   pass, faults>>

\* upsertDateException: the exception and the day in one transaction.
SetException(kind) ==
    LET p == [plan EXCEPT !.exception = kind]  made == Reconciled(p) IN
    /\ Multi /\ "except" \in Event /\ edits < MaxEdits /\ kind # plan.exception
    /\ plan' = p /\ day' = made.row /\ seat' = made.seats
    /\ edits' = edits + 1
    /\ UNCHANGED <<operation, draft, assignment, attended, started, pass, faults>>

\* assignEmployee asks for an operation that is not cancelled, and in its
\* transaction for no other assignment of the employee over these dates.
CheckAssign(a) ==
    /\ "assign" \in Event /\ assignment[a] = "FREE" /\ operation = "SCHEDULED"
    /\ assignment' = [assignment EXCEPT ![a] = "CHECKED"]
    /\ UNCHANGED <<operation, plan, draft, day, seat, attended, started, pass,
                   edits, faults>>

Assign(a) ==
    /\ assignment[a] = "CHECKED"
    /\ \A b \in Assignment : EmployeeOf[b] = EmployeeOf[a] => assignment[b] # "OPEN"
    /\ assignment' = [assignment EXCEPT ![a] = "OPEN"]
    /\ UNCHANGED <<operation, plan, draft, day, seat, attended, started, pass,
                   edits, faults>>

\* cancelAssignment, and endAssignment before the date: refused once the
\* employee attended; the expected seat goes with the assignment.
Unassign(a) ==
    LET e == EmployeeOf[a] IN
    /\ assignment[a] = "OPEN"
    /\ ~(e \in attended /\ seat[e].by = a)
    /\ \E end \in {"CANCELLED", "ENDED"} : assignment' = [assignment EXCEPT ![a] = end]
    /\ seat' = IF seat[e] = Seated(a)
               THEN [seat EXCEPT ![e] = Cancelled(@, "ASSIGNMENT")] ELSE seat
    /\ UNCHANGED <<operation, plan, draft, day, attended, started, pass, edits, faults>>

\* A check-in of an expected employee on an active day.
Attend(e) ==
    /\ "attend" \in Event /\ Active(day) /\ Expected(seat[e]) /\ e \notin attended
    /\ attended' = attended \cup {e}
    /\ UNCHANGED <<operation, plan, draft, assignment, day, seat, started, pass,
                   edits, faults>>

StartDay ==
    /\ "start" \in Event /\ ~started
    /\ started' = TRUE
    /\ UNCHANGED <<operation, plan, draft, assignment, day, seat, attended, pass,
                   edits, faults>>

\* The process stops in a pass; its caller, or the job, starts another.
Crash(l) ==
    /\ "crash" \in Event /\ faults < MaxFaults /\ pass[l] # Idle
    /\ faults' = faults + 1
    /\ Finish(l)
    /\ UNCHANGED <<operation, plan, draft, assignment, day, seat, attended,
                   started, edits>>

-----------------------------------------------------------------------------
Init ==
    /\ operation = "SCHEDULED"
    /\ plan = AtFirst
    /\ draft = [d \in Editor |-> NoDraft]
    /\ assignment = [a \in Assignment |-> "FREE"]
    /\ day = NoRow
    /\ seat = [e \in Employee |-> NoRow]
    /\ attended = {} /\ started = FALSE
    /\ pass = [l \in Lane |-> Idle]
    /\ edits = 0 /\ faults = 0

Work(l) ==
    \/ RefusePass(l) \/ ReadDay(l) \/ ReadRows(l)
    \/ CancelDay(l) \/ ListSeats(l) \/ (\E e \in Employee : Vacate(l, e))
    \/ InsertDay(l) \/ ReviveDay(l) \/ MoveDay(l) \/ KeepDay(l) \/ SyncDay(l)
    \/ (\E a \in Assignment : Seat(l, a))
    \/ RestoreDay(l) \/ RestoreSeats(l)

Next ==
    \/ \E l \in Lane : \/ BeginPass(l) \/ Work(l) \/ Crash(l)
                       \/ CancelOperation(l) \/ ReactivateOperation(l)
    \/ \E d \in Editor : OpenEdit(d) \/ SaveEdit(d)
    \/ ChangeTerms \/ DeactivateShift
    \/ \E kind \in Kind : SetException(kind)
    \/ \E a \in Assignment : CheckAssign(a) \/ Assign(a) \/ Unassign(a)
    \/ \E e \in Employee : Attend(e)
    \/ StartDay

Spec == Init /\ [][Next]_vars

\* The job materializes every operation again and again, and a pass that was
\* begun goes on.
Fairness ==
    /\ WF_vars(\E l \in Lane : BeginPass(l))
    /\ \A l \in Lane : WF_vars(Work(l))

FairSpec == Spec /\ Fairness

-----------------------------------------------------------------------------
(* Properties *)

\* The number of a day never goes back: a pass that read an older schedule
\* does not undo what one with a newer schedule wrote, and a reminder sent for
\* a version is never for a later one.
VersionsRise ==
    [][day # NoRow => day'.version >= day.version]_vars

\* What the schedule asks for the date.
Wanted == plan.enabled /\ plan.exception # "CANCEL"

\* The day can still be brought in line.  It cannot once it began or someone
\* attended; nor when an edit that had read an older schedule took its number
\* back, or, with several shifts, when a pass with an older exception or an
\* older sweep came after a newer one: the schedule never brings back a day or
\* a seat that an exception cancelled, and a day it cancelled itself only at
\* version 1.
Governed ==
    /\ operation = "SCHEDULED" /\ ~started /\ attended = {}
    /\ Multi \/ day = NoRow \/ day.version <= plan.version
    /\ Multi /\ Wanted =>
          /\ Active(day) => \A e \in Employee : ~CancelledFor(seat[e], {"EXCEPTION"})
          /\ plan.exception # "RESTORE" =>
                /\ ~CancelledFor(day, {"EXCEPTION"})
                /\ CancelledFor(day, {"SCHEDULE"}) => day.version = 1

\* The day is active with the hours of the schedule when the schedule has it.
DayAgrees ==
    IF Wanted THEN Active(day) /\ ~Differs(day, plan) ELSE ~Active(day)

\* On a wanted day the employees assigned, and no others, are expected; but a
\* seat that belongs to another assignment of the employee, which was not
\* cancelled or whose seat came after it was, is not given to the new one.
SeatsAgree ==
    Wanted =>
        /\ \A a \in Assignment :
              assignment[a] = "OPEN" =>
                  LET row == seat[EmployeeOf[a]] IN
                  /\ row # NoRow
                  /\ row.by = a => Expected(row)
                  /\ row.by # a => Expected(row) \/ assignment[row.by] = "ENDED"
        /\ \A e \in Employee :
              Expected(seat[e]) =>
                  \E a \in Assignment : EmployeeOf[a] = e /\ assignment[a] = "OPEN"

\* Once edits and assignments rest, the passes of the job bring the day and its
\* seats in line with them, whatever passes overlapped or died before.
PlanSettles == <>[](Governed => DayAgrees /\ SeatsAgree)
=============================================================================
