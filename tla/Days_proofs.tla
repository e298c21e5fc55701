------------------------------ MODULE Days_proofs ------------------------------
(***************************************************************************)
(* Theorems about the days of employees.                                   *)
(*                                                                         *)
(* WorkdayPlan, for any number of passes, editors and assignments, one     *)
(* shift or several, every choice of events and every bound.  IInv adds to *)
(* the types that a pass which cancels has read a row, and that a row once *)
(* inserted is never gone.                                                 *)
(*                                                                         *)
(* AbsenceSync, for any number of requests, workdays, callers, workers and *)
(* materializations, with the integration on or off, and every bound.      *)
(* SyncInv adds to the types what the tables say of each other (StoresFit: *)
(* rows of the queue are of reviewed requests, every one of which keeps a  *)
(* row, and a closed row is done) and what a call may rely on between its  *)
(* statements (CallFits: what it read, what it has left to write, how far  *)
(* its request has come).                                                  *)
(***************************************************************************)
EXTENDS WorkdayPlan, AbsenceSync, FiniteSetTheorems, WellFoundedInduction, TLAPS

\* What a pass in state r relies on, where d is the row of the day.
Grounded(r, d) ==
    /\ r.day # NoRow => d # NoRow
    /\ r.sweep => r.day # NoRow
    /\ r.why = "OPERATION" /\ r.step = "rows" => r.day # NoRow
    /\ r.step \in {"cancel", "list", "vacate"} => r.day # NoRow

IInv == TypeOK /\ \A l \in Lane : Grounded(pass[l], day)

\* A step keeps the row of the day, and its number does not go back.
Rises == day # NoRow => day' # NoRow /\ day'.version >= day.version

-----------------------------------------------------------------------------
(* WorkdayPlan: the operators *)

LEMMA Bounds ==
    /\ MaxVersion \in Nat /\ MaxVersion >= 1 /\ MaxEdits \in Nat
    /\ Special \in Nat /\ Special >= 1
BY PlanAssumption DEF Special

\* Numbers stay within the bound and grow.
LEMMA Numbering ==
    ASSUME NEW v \in Version
    PROVE  Numbered(v + 1) \in Version /\ Numbered(v + 1) >= v
BY Bounds DEF Numbered, Version

\* The row the schedule asks for is a row.
LEMMA Asked ==
    ASSUME NEW p \in Plan
    PROVE  /\ HoursOf(p) \in Hours
           /\ Snapshot(p) \in DayRow /\ Snapshot(p) # NoRow
<1>1. p.hours \in 1 .. Special /\ p.version \in Version
  BY DEF Plan
<1>2. HoursOf(p) \in Hours
  BY <1>1, Bounds DEF HoursOf, Hours
<1>3. (IF Multi THEN 1 ELSE p.version) \in Version
  BY <1>1, Bounds DEF Version
<1> QED BY <1>2, <1>3 DEF Snapshot, DayRow, NoRow

\* A row of the day has hours and a number, and keeps them when cancelled.
LEMMA DayHas ==
    ASSUME NEW d \in DayRow, d # NoRow
    PROVE  /\ d.hours \in Hours /\ d.version \in Version
           /\ d.status \in {"ACTIVE", "CANCELLED"}
BY DEF DayRow

LEMMA DayRows ==
    ASSUME NEW d \in DayRow, d # NoRow,
           NEW why \in {"SCHEDULE", "OPERATION", "EXCEPTION"}
    PROVE  /\ Cancelled(d, why) \in DayRow /\ Cancelled(d, why) # NoRow
           /\ Cancelled(d, why).version = d.version
<1>1. Cancelled(d, why) = [status |-> "CANCELLED", hours |-> d.hours,
                           version |-> d.version, reason |-> why]
  BY DayHas DEF Cancelled, Expected
<1> QED BY <1>1, DayHas DEF DayRow, NoRow

\* An active row with any hours and number is a row.
LEMMA ActiveRows ==
    ASSUME NEW h \in Hours, NEW v \in Version
    PROVE  /\ [status |-> "ACTIVE", hours |-> h, version |-> v] \in DayRow
           /\ [status |-> "ACTIVE", hours |-> h, version |-> v] # NoRow
BY DEF DayRow, NoRow

\* Seats stay seats.
LEMMA SeatRows ==
    ASSUME NEW rows \in [Employee -> SeatRow], NEW but, NEW reasons,
           NEW why \in {"SCHEDULE", "OPERATION", "EXCEPTION", "ASSIGNMENT"}
    PROVE  /\ \A a \in Assignment : Seated(a) \in SeatRow
           /\ \A e \in Employee : Expected(rows[e]) => Cancelled(rows[e], why) \in SeatRow
           /\ Vacated(rows, why, but) \in [Employee -> SeatRow]
           /\ Reseated(rows, reasons) \in [Employee -> SeatRow]
<1>1. \A a \in Assignment : Seated(a) \in SeatRow
  BY DEF Seated, SeatRow
<1>2. \A e \in Employee : Expected(rows[e]) => Cancelled(rows[e], why) \in SeatRow
  BY DEF Expected, Cancelled, SeatRow, NoRow
<1>3. \A e \in Employee : CancelledFor(rows[e], reasons) => rows[e].by \in Assignment
  BY DEF CancelledFor, SeatRow, NoRow
<1> QED BY <1>1, <1>2, <1>3 DEF Vacated, Reseated

LEMMA IdleIsPass == Idle \in Pass /\ \A d : Grounded(Idle, d)
<1>1. AtFirst \in Plan
  BY Bounds DEF AtFirst, Plan, Version
<1>2. NoRow \in DayRow /\ NoRow \in SeatRow
  BY DEF DayRow, SeatRow
<1> QED BY <1>1, <1>2 DEF Idle, Pass, Step, Grounded

\* A pass that goes on is a pass, and relies on nothing new.
LEMMA GoesOn ==
    ASSUME NEW r \in Pass, NEW d, Grounded(r, d)
    PROVE  Onward(r) \in Pass /\ Grounded(Onward(r), d)
<1>1. Struck(r) \in SUBSET (Assignment \cup Employee)
  BY DEF Struck
<1>2. CASE Onward(r) = r
  BY <1>2
<1>3. CASE r.step = "staff" /\ Onward(r) = [r EXCEPT !.step = "strike", !.todo = Struck(r)]
  BY <1>1, <1>3 DEF Pass, Step, Grounded
<1>4. CASE r.step = "vacate" /\ Onward(r) = [r EXCEPT !.step = "cancel", !.twice = FALSE]
  BY <1>4 DEF Pass, Step, Grounded
<1>5. CASE Onward(r) = Idle
  BY <1>5, IdleIsPass
<1> QED BY <1>2, <1>3, <1>4, <1>5 DEF Onward

\* One pass takes a state that is grounded, and the row is not lost.
LEMMA Becomes ==
    ASSUME IInv, Rises, NEW l \in Lane, NEW r \in Pass, Grounded(r, day'), Become(l, r)
    PROVE  pass' \in [Lane -> Pass] /\ \A m \in Lane : Grounded(pass'[m], day')
<1>1. pass' \in [Lane -> Pass]
  BY DEF IInv, TypeOK, Become
<1>2. ASSUME NEW m \in Lane, m # l PROVE Grounded(pass'[m], day')
  BY <1>2 DEF IInv, TypeOK, Become, Grounded, Rises
<1>3. pass'[l] = r
  BY DEF IInv, TypeOK, Become
<1> QED BY <1>1, <1>2, <1>3

\* A row that stays does not go back.
LEMMA Still ==
    ASSUME IInv, UNCHANGED day
    PROVE  Rises
BY DayHas DEF IInv, TypeOK, Rises, Version

\* What is left of the invariant when only the pass and the rows change.
Rest == <<operation, plan, draft, assignment, attended, started, edits, faults>>

LEMMA Closes ==
    ASSUME IInv, UNCHANGED Rest, Rises, day' \in DayRow, seat' \in [Employee -> SeatRow],
           NEW l \in Lane, NEW r \in Pass, Grounded(r, day'), Become(l, r)
    PROVE  IInv' /\ Rises
BY Becomes DEF IInv, TypeOK, Rest

-----------------------------------------------------------------------------
(* The steps of a pass that only read *)

LEMMA BeginPassStep ==
    ASSUME IInv, NEW l \in Lane, BeginPass(l)
    PROVE  IInv' /\ Rises
<1> DEFINE r == [Idle EXCEPT !.step = "day", !.plan = plan]
<1>1. r \in Pass /\ Grounded(r, day')
  BY IdleIsPass DEF IInv, TypeOK, Idle, Pass, Step, Grounded
<1>2. Become(l, r) /\ UNCHANGED Rest /\ UNCHANGED <<day, seat>>
  BY DEF BeginPass, Rest
<1> QED BY <1>1, <1>2, Still, Closes DEF IInv, TypeOK

LEMMA RefusePassStep ==
    ASSUME IInv, NEW l \in Lane, RefusePass(l)
    PROVE  IInv' /\ Rises
BY Still, Closes, IdleIsPass DEF IInv, TypeOK, RefusePass, Finish, Rest

LEMMA ReadDayStep ==
    ASSUME IInv, NEW l \in Lane, ReadDay(l)
    PROVE  IInv' /\ Rises
<1> DEFINE r == [pass[l] EXCEPT !.step = "rows", !.day = day]
<1>1. pass[l] \in Pass /\ Grounded(pass[l], day) /\ day \in DayRow
  BY DEF IInv, TypeOK
<1>2. UNCHANGED Rest /\ UNCHANGED <<day, seat>>
  BY DEF ReadDay, Rest
<1>3. CASE Finish(l)
  BY <1>2, <1>3, Still, Closes, IdleIsPass DEF IInv, TypeOK, Finish
<1>4. CASE /\ pass[l].why = "OPERATION" => Active(day)
           /\ Become(l, r)
  <2>1. r \in Pass
    BY <1>1 DEF Pass, Step
  <2>2. Active(day) => day # NoRow
    BY DEF Active, NoRow
  <2>3. Grounded(r, day')
    BY <1>1, <1>2, <1>4, <2>2 DEF Grounded, Pass
  <2> QED BY <1>2, <1>4, <2>1, <2>3, Still, Closes DEF IInv, TypeOK
<1> QED BY <1>3, <1>4 DEF ReadDay

\* What the third read adds to a pass.
LEMMA Reads ==
    ASSUME IInv, NEW l \in Lane, pass[l].step = "rows"
    PROVE  /\ Read(l) \in Pass /\ Grounded(Read(l), day)
           /\ Read(l).why = "OPERATION" => Read(l).day # NoRow
<1>1. pass[l] \in Pass /\ Grounded(pass[l], day)
  BY DEF IInv, TypeOK
<1>2. {a \in Assignment : assignment[a] = "OPEN"} \in SUBSET Assignment
  OBVIOUS
<1>3. (IF pass[l].day = NoRow THEN [e \in Employee |-> NoRow] ELSE seat)
         \in [Employee -> SeatRow]
  BY DEF IInv, TypeOK, SeatRow
<1>4. (IF pass[l].day = NoRow THEN {} ELSE attended) \in SUBSET Employee
  BY DEF IInv, TypeOK
<1>5. Sweepable(l) \in BOOLEAN /\ (Sweepable(l) => pass[l].day # NoRow)
  BY DEF Sweepable, Active, NoRow
<1>6. Read(l) \in Pass
  BY <1>1, <1>2, <1>3, <1>4, <1>5 DEF Read, Pass
<1>7. /\ Read(l).day = pass[l].day /\ Read(l).why = pass[l].why
      /\ Read(l).step = "rows" /\ Read(l).sweep = Sweepable(l)
  BY <1>1 DEF Read, Pass
<1> QED BY <1>1, <1>5, <1>6, <1>7 DEF Grounded

LEMMA ReadRowsStep ==
    ASSUME IInv, NEW l \in Lane, ReadRows(l)
    PROVE  IInv' /\ Rises
<1> DEFINE r == Read(l)
<1>1. UNCHANGED Rest /\ UNCHANGED <<day, seat>> /\ Rises
  BY Still DEF ReadRows, Rest
<1>2. /\ r \in Pass /\ Grounded(r, day)
      /\ r.why = "OPERATION" => r.day # NoRow
  BY Reads DEF ReadRows
<1> HIDE DEF r
<1>3. CASE Finish(l)
  BY <1>1, <1>3, Closes, IdleIsPass DEF IInv, TypeOK, Finish
<1>4. CASE r.day # NoRow /\ Become(l, [r EXCEPT !.step = "cancel"])
  <2>1. [r EXCEPT !.step = "cancel"] \in Pass /\ Grounded([r EXCEPT !.step = "cancel"], day')
    BY <1>1, <1>2, <1>4 DEF Pass, Step, Grounded
  <2> QED BY <1>1, <1>4, <2>1, Closes DEF IInv, TypeOK
<1>5. CASE r.sweep /\ Become(l, [r EXCEPT !.step = "cancel", !.twice = ~Multi])
  <2> DEFINE q == [r EXCEPT !.step = "cancel", !.twice = ~Multi]
  <2>1. q \in Pass /\ Grounded(q, day')
    BY <1>1, <1>2, <1>5, PlanAssumption DEF Pass, Step, Grounded
  <2> QED BY <1>1, <1>5, <2>1, Closes DEF IInv, TypeOK
<1>6. ASSUME NEW step \in {"sync", "ensure"}, Become(l, [r EXCEPT !.step = step])
      PROVE  IInv' /\ Rises
  <2>1. [r EXCEPT !.step = step] \in Pass /\ Grounded([r EXCEPT !.step = step], day')
    BY <1>1, <1>2 DEF Pass, Step, Grounded
  <2> QED BY <1>1, <1>6, <2>1, Closes DEF IInv, TypeOK
<1> QED BY <1>2, <1>3, <1>4, <1>5, <1>6 DEF ReadRows, r

LEMMA ListSeatsStep ==
    ASSUME IInv, NEW l \in Lane, ListSeats(l)
    PROVE  IInv' /\ Rises
<1> DEFINE left == {e \in Employee \ pass[l].taken : Expected(seat[e])}
           r == [pass[l] EXCEPT !.step = "vacate", !.todo = left]
<1>1. pass[l] \in Pass /\ Grounded(pass[l], day) /\ pass[l].step = "list"
  BY DEF IInv, TypeOK, ListSeats
<1>2. r \in Pass /\ Grounded(r, day)
  BY <1>1 DEF Pass, Step, Grounded
<1>3. UNCHANGED Rest /\ UNCHANGED <<day, seat>> /\ Become(l, Onward(r))
  BY DEF ListSeats, Rest
<1> HIDE DEF r
<1> QED BY <1>2, <1>3, GoesOn, Still, Closes DEF IInv, TypeOK

-----------------------------------------------------------------------------
(* The steps that cancel *)

LEMMA CancelDayStep ==
    ASSUME IInv, NEW l \in Lane, CancelDay(l)
    PROVE  IInv' /\ Rises
<1> DEFINE r == [pass[l] EXCEPT !.step = "list"]
<1>1. pass[l] \in Pass /\ Grounded(pass[l], day) /\ pass[l].step = "cancel"
  BY DEF IInv, TypeOK, CancelDay
<1>2. pass[l].day # NoRow /\ day # NoRow /\ day \in DayRow
  BY <1>1 DEF Grounded, IInv, TypeOK
<1>3. pass[l].why \in {"SCHEDULE", "OPERATION", "EXCEPTION"}
  BY <1>1 DEF Pass
<1>4. day' \in DayRow /\ day' # NoRow /\ day'.version >= day.version
  BY <1>2, <1>3, DayHas, DayRows DEF CancelDay, Version
<1>5. r \in Pass /\ Grounded(r, day')
  BY <1>1, <1>2, <1>4 DEF Pass, Step, Grounded
<1>6. UNCHANGED Rest /\ UNCHANGED seat /\ Become(l, r)
  BY DEF CancelDay, Rest
<1> QED BY <1>4, <1>5, <1>6, Closes DEF IInv, TypeOK, Rises

LEMMA VacateStep ==
    ASSUME IInv, NEW l \in Lane, NEW e \in Employee, Vacate(l, e)
    PROVE  IInv' /\ Rises
<1> DEFINE r == [pass[l] EXCEPT !.todo = @ \ {e}]
           why == IF pass[l].step = "vacate" THEN pass[l].why ELSE "ASSIGNMENT"
<1>1. pass[l] \in Pass /\ Grounded(pass[l], day)
  BY DEF IInv, TypeOK
<1>2. r \in Pass /\ Grounded(r, day)
  BY <1>1 DEF Pass, Grounded
<1>3. why \in {"SCHEDULE", "OPERATION", "EXCEPTION", "ASSIGNMENT"}
  BY <1>1 DEF Pass
<1>4. seat' \in [Employee -> SeatRow]
  <2>1. seat \in [Employee -> SeatRow]
    BY DEF IInv, TypeOK
  <2>2. Expected(seat[e]) => Cancelled(seat[e], why) \in SeatRow
    BY <1>3, <2>1, SeatRows
  <2>3. seat' = [seat EXCEPT ![e] = IF Expected(@) THEN Cancelled(@, why) ELSE @]
    BY DEF Vacate
  <2> QED BY <2>1, <2>2, <2>3
<1>5. UNCHANGED Rest /\ UNCHANGED day /\ Become(l, Onward(r))
  BY DEF Vacate, Rest
<1> HIDE DEF r
<1> QED BY <1>2, <1>4, <1>5, GoesOn, Still, Closes DEF IInv, TypeOK

-----------------------------------------------------------------------------
(* The steps that bring the row of the day in line *)

\* A pass that turns to the seats.
LEMMA Staffs ==
    ASSUME IInv, NEW l \in Lane, NEW row \in DayRow, row # NoRow,
           day' \in DayRow, day' # NoRow, Rises, UNCHANGED Rest,
           seat' \in [Employee -> SeatRow], Staffed(l, row)
    PROVE  IInv' /\ Rises
<1> DEFINE r == [pass[l] EXCEPT !.step = "staff", !.day = row, !.todo = pass[l].staff]
<1>1. pass[l] \in Pass
  BY DEF IInv, TypeOK
<1>2. r \in Pass /\ Grounded(r, day')
  BY <1>1 DEF Pass, Step, Grounded
<1>3. Become(l, Onward(r))
  BY DEF Staffed
<1> HIDE DEF r
<1> QED BY <1>2, <1>3, GoesOn, Closes

\* The row a pass knows is a row, and the plan it read a plan.
LEMMA Knows ==
    ASSUME IInv, NEW l \in Lane
    PROVE  /\ pass[l].plan \in Plan /\ Known(l) \in DayRow /\ day \in DayRow
           /\ seat \in [Employee -> SeatRow]
           /\ Known(l) # NoRow => day # NoRow
           /\ Known(l) = NoRow => day = NoRow
<1>1. pass[l] \in Pass /\ Grounded(pass[l], day)
  BY DEF IInv, TypeOK
<1> QED BY <1>1 DEF IInv, TypeOK, Pass, Known, Grounded

LEMMA InsertDayStep ==
    ASSUME IInv, NEW l \in Lane, InsertDay(l)
    PROVE  IInv' /\ Rises
<1>1. day = NoRow /\ seat \in [Employee -> SeatRow] /\ pass[l].plan \in Plan
  BY Knows DEF InsertDay
<1>2. day' \in DayRow /\ day' # NoRow
  BY <1>1, Asked DEF InsertDay
<1>3. UNCHANGED Rest /\ UNCHANGED seat /\ Staffed(l, day')
  BY DEF InsertDay, Rest
<1> QED BY <1>1, <1>2, <1>3, Staffs DEF Rises

LEMMA ReviveDayStep ==
    ASSUME IInv, NEW l \in Lane, ReviveDay(l)
    PROVE  IInv' /\ Rises
<1>1. pass[l].plan \in Plan /\ seat \in [Employee -> SeatRow]
  BY Knows
<1>2. day' \in DayRow /\ day' # NoRow /\ day' = Snapshot(pass[l].plan)
  BY <1>1, Asked DEF ReviveDay
<1>3. day.version <= day'.version
  BY <1>2 DEF ReviveDay
<1>4. day \in DayRow
  BY Knows
<1>5. Rises
  <2>1. day # NoRow => day.version \in Version
    BY <1>4, DayHas
  <2>2. day'.version \in Version
    BY <1>2, DayHas
  <2> QED BY <1>2, <1>3, <2>1, <2>2 DEF Rises, Version
<1>6. UNCHANGED Rest /\ UNCHANGED seat /\ Staffed(l, day')
  BY DEF ReviveDay, Rest
<1> QED BY <1>1, <1>2, <1>5, <1>6, Staffs

LEMMA MoveDayStep ==
    ASSUME IInv, NEW l \in Lane, MoveDay(l)
    PROVE  IInv' /\ Rises
<1> DEFINE number == Renumbered(Known(l), pass[l].plan)
<1>1. /\ pass[l].plan \in Plan /\ seat \in [Employee -> SeatRow]
      /\ Known(l) \in DayRow /\ Known(l) # NoRow /\ day \in DayRow /\ day # NoRow
  BY Knows DEF MoveDay
<1>2. number \in Version
  <2>1. Known(l).version \in Version /\ pass[l].plan.version \in Version
    BY <1>1, DayHas DEF Plan
  <2> QED BY <2>1, Numbering DEF Renumbered
<1>3. UNCHANGED Rest /\ UNCHANGED seat
  BY DEF MoveDay, Rest
<1>4. CASE NotBehind(day, number)
  <2>1. day' = [status |-> "ACTIVE", hours |-> HoursOf(pass[l].plan), version |-> number]
    BY <1>4 DEF MoveDay
  <2>2. day' \in DayRow /\ day' # NoRow /\ day'.version = number
    BY <1>1, <1>2, <2>1, Asked, ActiveRows
  <2>3. Rises
    BY <1>1, <1>2, <1>4, <2>2, DayHas DEF Rises, NotBehind, Version
  <2>4. Staffed(l, day')
    BY <1>4 DEF MoveDay
  <2> QED BY <1>1, <1>3, <2>2, <2>3, <2>4, Staffs
<1>5. CASE ~NotBehind(day, number)
  <2>1. UNCHANGED day /\ Staffed(l, Known(l))
    BY <1>5 DEF MoveDay
  <2> QED BY <1>1, <1>3, <2>1, Still, Staffs
<1> QED BY <1>4, <1>5

LEMMA KeepDayStep ==
    ASSUME IInv, NEW l \in Lane, KeepDay(l)
    PROVE  IInv' /\ Rises
<1>1. /\ seat \in [Employee -> SeatRow] /\ Known(l) \in DayRow /\ Known(l) # NoRow
      /\ day \in DayRow /\ day # NoRow
  BY Knows DEF KeepDay
<1>2. UNCHANGED Rest /\ UNCHANGED <<day, seat>> /\ Rises
  BY Still DEF KeepDay, Rest
<1>3. CASE Staffed(l, Known(l))
  BY <1>1, <1>2, <1>3, Staffs
<1>4. CASE Finish(l)
  BY <1>1, <1>2, <1>4, Closes, IdleIsPass DEF Finish
<1> QED BY <1>3, <1>4 DEF KeepDay

\* What one transaction makes of a date is a row and seats, and the row is
\* neither lost nor taken back.
LEMMA Reconciles ==
    ASSUME IInv, NEW p \in Plan
    PROVE  LET made == Reconciled(p) IN
           /\ made.row \in DayRow /\ made.seats \in [Employee -> SeatRow]
           /\ day # NoRow => made.row # NoRow /\ made.row.version >= day.version
<1> DEFINE why == IF p.exception = "CANCEL" THEN "EXCEPTION" ELSE "SCHEDULE"
           kept == IF CancelledFor(day, {"EXCEPTION"}) THEN "EXCEPTION" ELSE "SCHEDULE"
           open == ~started /\ attended = {}
           numbered(v) == [status |-> "ACTIVE", hours |-> HoursOf(p), version |-> v]
           made == Reconciled(p)
<1>1. day \in DayRow /\ seat \in [Employee -> SeatRow]
  BY DEF IInv, TypeOK
<1>2. /\ why \in {"SCHEDULE", "OPERATION", "EXCEPTION"}
      /\ why \in {"SCHEDULE", "OPERATION", "EXCEPTION", "ASSIGNMENT"}
      /\ kept \in {"SCHEDULE", "OPERATION", "EXCEPTION", "ASSIGNMENT"}
  OBVIOUS
<1>3. HoursOf(p) \in Hours /\ Snapshot(p) \in DayRow /\ Snapshot(p) # NoRow
  BY Asked
<1>4. ASSUME day # NoRow
      PROVE  /\ day.version \in Version
             /\ Numbered(day.version + 1) \in Version
             /\ Numbered(day.version + 1) >= day.version /\ day.version >= day.version
  BY <1>1, <1>4, DayHas, Numbering DEF Version
<1>5. ASSUME NEW v \in Version
      PROVE  numbered(v) \in DayRow /\ numbered(v) # NoRow /\ numbered(v).version = v
  BY <1>3, ActiveRows
<1>6. /\ Vacated(seat, why, attended) \in [Employee -> SeatRow]
      /\ Vacated(seat, kept, attended) \in [Employee -> SeatRow]
      /\ Reseated(seat, {"EXCEPTION", "SCHEDULE"}) \in [Employee -> SeatRow]
      /\ Reseated(seat, {"SCHEDULE"}) \in [Employee -> SeatRow]
  BY <1>1, <1>2, SeatRows
<1>7. day # NoRow => /\ Cancelled(day, why) \in DayRow /\ Cancelled(day, why) # NoRow
                     /\ Cancelled(day, why).version = day.version
  BY <1>1, <1>2, DayRows
<1> HIDE DEF why, kept, open, numbered
<1>8. \/ made = [row |-> day, seats |-> seat]
      \/ day # NoRow /\ made = [row |-> Cancelled(day, why),
                                seats |-> Vacated(seat, why, attended)]
      \/ made = [row |-> day, seats |-> Vacated(seat, kept, attended)]
      \/ day = NoRow /\ made = [row |-> Snapshot(p), seats |-> seat]
      \/ day # NoRow /\ made = [row |-> numbered(Numbered(day.version + 1)), seats |-> seat]
      \/ day # NoRow /\ made = [row |-> numbered(day.version),
                                seats |-> Reseated(seat, {"EXCEPTION", "SCHEDULE"})]
      \/ day # NoRow /\ made = [row |-> numbered(Numbered(day.version + 1)),
                                seats |-> Reseated(seat, {"SCHEDULE"})]
  BY DEF Reconciled, why, kept, open, numbered
<1> HIDE DEF made
<1>9. /\ made.row \in DayRow /\ made.seats \in [Employee -> SeatRow]
      /\ day # NoRow => made.row # NoRow /\ made.row.version >= day.version
  BY <1>1, <1>3, <1>4, <1>5, <1>6, <1>7, <1>8
<1> QED BY <1>9 DEF made

LEMMA SyncDayStep ==
    ASSUME IInv, NEW l \in Lane, SyncDay(l)
    PROVE  IInv' /\ Rises
<1> DEFINE made == Reconciled(pass[l].plan)
<1>1. pass[l] \in Pass /\ Grounded(pass[l], day) /\ pass[l].plan \in Plan
  BY Knows DEF IInv, TypeOK
<1>2. day' = made.row /\ seat' = made.seats /\ UNCHANGED Rest
  BY DEF SyncDay, Rest
<1>3. /\ made.row \in DayRow /\ made.seats \in [Employee -> SeatRow]
      /\ day # NoRow => made.row # NoRow /\ made.row.version >= day.version
  BY <1>1, Reconciles
<1> HIDE DEF made
<1>4. day' \in DayRow /\ seat' \in [Employee -> SeatRow] /\ Rises
  BY <1>2, <1>3 DEF Rises
<1>5. CASE Active(made.row) /\ Staffed(l, made.row)
  <2>1. made.row # NoRow
    BY <1>5 DEF Active, NoRow
  <2> QED BY <1>2, <1>3, <1>4, <1>5, <2>1, Staffs
<1>6. CASE pass[l].sweep /\ Become(l, [pass[l] EXCEPT !.step = "cancel"])
  <2>1. /\ [pass[l] EXCEPT !.step = "cancel"] \in Pass
        /\ Grounded([pass[l] EXCEPT !.step = "cancel"], day')
    BY <1>1, <1>4, <1>6 DEF Pass, Step, Grounded, Rises
  <2> QED BY <1>2, <1>4, <1>6, <2>1, Closes
<1>7. CASE Finish(l)
  BY <1>2, <1>4, <1>7, Closes, IdleIsPass DEF Finish
<1> QED BY <1>5, <1>6, <1>7 DEF SyncDay, made

-----------------------------------------------------------------------------
(* The steps that seat *)

LEMMA SeatStep ==
    ASSUME IInv, NEW l \in Lane, NEW a \in Assignment, Seat(l, a)
    PROVE  IInv' /\ Rises
<1> DEFINE r == [pass[l] EXCEPT !.todo = @ \ {a}]
<1>1. pass[l] \in Pass /\ Grounded(pass[l], day) /\ seat \in [Employee -> SeatRow]
  BY DEF IInv, TypeOK
<1>2. r \in Pass /\ Grounded(r, day)
  BY <1>1 DEF Pass, Grounded
<1>3. seat' \in [Employee -> SeatRow]
  <2>1. Seated(a) \in SeatRow
    BY <1>1, SeatRows
  <2>2. \/ seat' = [seat EXCEPT ![EmployeeOf[a]] = Seated(a)]
        \/ UNCHANGED seat
    BY DEF Seat
  <2> QED BY <1>1, <2>1, <2>2
<1>4. UNCHANGED Rest /\ UNCHANGED day
  BY DEF Seat, Rest
<1>5. Rises /\ day' \in DayRow
  BY <1>4, Still DEF IInv, TypeOK
<1>6. CASE Finish(l)
  BY <1>3, <1>4, <1>5, <1>6, Closes, IdleIsPass DEF Finish
<1>7. CASE Become(l, Onward(r))
  <2> HIDE DEF r
  <2>1. Onward(r) \in Pass /\ Grounded(Onward(r), day')
    BY <1>2, <1>4, GoesOn
  <2> QED BY <1>3, <1>4, <1>5, <1>7, <2>1, Closes
<1> QED BY <1>6, <1>7 DEF Seat

LEMMA RestoreDayStep ==
    ASSUME IInv, NEW l \in Lane, RestoreDay(l)
    PROVE  IInv' /\ Rises
<1>1. day \in DayRow /\ seat' \in [Employee -> SeatRow] /\ UNCHANGED Rest
  BY DEF IInv, TypeOK, RestoreDay, Rest
<1>2. day' \in DayRow /\ Rises
  <2>1. CASE UNCHANGED day
    BY <1>1, <2>1, Still
  <2>2. CASE /\ CancelledFor(day, {"OPERATION"})
             /\ day' = [status |-> "ACTIVE", hours |-> day.hours, version |-> day.version]
    <3>1. day # NoRow
      BY <2>2 DEF CancelledFor, NoRow
    <3>2. day.hours \in Hours /\ day.version \in Version
      BY <1>1, <3>1, DayHas
    <3>3. day' \in DayRow /\ day' # NoRow /\ day'.version = day.version
      BY <2>2, <3>2, ActiveRows
    <3> QED BY <3>2, <3>3 DEF Rises, Version
  <2> QED BY <2>1, <2>2 DEF RestoreDay
<1>3. ASSUME NEW step \in {"reseat", "again"}
      PROVE  [Idle EXCEPT !.step = step] \in Pass /\ Grounded([Idle EXCEPT !.step = step], day')
  BY IdleIsPass DEF Idle, Pass, Step, Grounded
<1>4. \E step \in {"reseat", "again"} : Become(l, [Idle EXCEPT !.step = step])
  BY DEF RestoreDay
<1> QED BY <1>1, <1>2, <1>3, <1>4, Closes

LEMMA RestoreSeatsStep ==
    ASSUME IInv, NEW l \in Lane, RestoreSeats(l)
    PROVE  IInv' /\ Rises
<1>1. seat' \in [Employee -> SeatRow]
  BY SeatRows DEF IInv, TypeOK, RestoreSeats
<1>2. UNCHANGED Rest /\ UNCHANGED day
  BY DEF RestoreSeats, Rest
<1>3. [Idle EXCEPT !.step = "again"] \in Pass /\ Grounded([Idle EXCEPT !.step = "again"], day')
  BY IdleIsPass DEF Idle, Pass, Step, Grounded
<1>4. Become(l, [Idle EXCEPT !.step = "again"])
  BY DEF RestoreSeats
<1> QED BY <1>1, <1>2, <1>3, <1>4, Still, Closes DEF IInv, TypeOK

-----------------------------------------------------------------------------
(* The steps beside the passes *)

\* A step that leaves the passes keeps what they rely on.
LEMMA Stays ==
    ASSUME IInv, Rises, UNCHANGED pass
    PROVE  pass' \in [Lane -> Pass] /\ \A l \in Lane : Grounded(pass'[l], day')
BY DEF IInv, TypeOK, Grounded, Rises

\* Cancelling and reactivating the operation begin a pass.
LEMMA StatusStep ==
    ASSUME IInv, NEW l \in Lane, CancelOperation(l) \/ ReactivateOperation(l)
    PROVE  IInv' /\ Rises
<1>1. UNCHANGED <<plan, draft, assignment, day, seat, attended, started, faults>>
  BY DEF CancelOperation, ReactivateOperation
<1>2. /\ operation' \in {"SCHEDULED", "CANCELLED"}
      /\ edits' = edits + 1 /\ edits < MaxEdits
  BY DEF CancelOperation, ReactivateOperation
<1>3. edits' \in 0 .. MaxEdits
  BY <1>2, Bounds DEF IInv, TypeOK
<1>4. PICK r \in Pass : Grounded(r, day') /\ Become(l, r)
  <2>1. [Idle EXCEPT !.step = "day", !.why = "OPERATION"] \in Pass
    BY IdleIsPass DEF Pass, Step
  <2>2. [Idle EXCEPT !.step = "revive"] \in Pass
    BY IdleIsPass DEF Pass, Step
  <2>3. /\ Grounded([Idle EXCEPT !.step = "day", !.why = "OPERATION"], day')
        /\ Grounded([Idle EXCEPT !.step = "revive"], day')
    BY DEF Idle, Grounded
  <2> QED BY <2>1, <2>2, <2>3 DEF CancelOperation, ReactivateOperation
<1>5. Rises
  BY <1>1, Still
<1>6. pass' \in [Lane -> Pass] /\ \A m \in Lane : Grounded(pass'[m], day')
  BY <1>4, <1>5, Becomes
<1> QED BY <1>1, <1>2, <1>3, <1>5, <1>6 DEF IInv, TypeOK

\* An edit may use one more set of hours.
LEMMA EditsFit ==
    ASSUME IInv, edits < MaxEdits
    PROVE  edits + 1 \in 0 .. MaxEdits /\ edits + 2 \in 1 .. Special
BY Bounds DEF IInv, TypeOK, Special

LEMMA OpenEditStep ==
    ASSUME IInv, NEW d \in Editor, OpenEdit(d)
    PROVE  IInv' /\ Rises
<1>1. UNCHANGED <<operation, plan, assignment, day, seat, attended, started, pass,
                  edits, faults>>
  BY DEF OpenEdit
<1>2. draft' \in [Editor -> Plan \cup {NoDraft}]
  BY DEF IInv, TypeOK, OpenEdit
<1>3. Rises /\ pass' \in [Lane -> Pass] /\ \A l \in Lane : Grounded(pass'[l], day')
  BY <1>1, Still, Stays
<1> QED BY <1>1, <1>2, <1>3 DEF IInv, TypeOK

LEMMA SaveEditStep ==
    ASSUME IInv, NEW d \in Editor, SaveEdit(d)
    PROVE  IInv' /\ Rises
<1>1. /\ UNCHANGED <<operation, assignment, day, seat, attended, started, pass, faults>>
      /\ edits' = edits + 1 /\ edits < MaxEdits
  BY DEF SaveEdit
<1>2. draft[d] \in Plan /\ plan \in Plan
  BY DEF IInv, TypeOK, SaveEdit
<1>3. plan' \in Plan
  <2>1. CASE \E on \in BOOLEAN, hours \in {draft[d].hours, edits + 2} :
                plan' = [plan EXCEPT !.enabled = on, !.hours = hours,
                                     !.version = Numbered(draft[d].version + 1)]
    <3>1. Numbered(draft[d].version + 1) \in Version
      BY <1>2, Numbering DEF Plan
    <3>2. draft[d].hours \in 1 .. Special /\ edits + 2 \in 1 .. Special
      BY <1>1, <1>2, EditsFit DEF Plan
    <3> QED BY <1>2, <2>1, <3>1, <3>2 DEF Plan
  <2>2. CASE plan' = [plan EXCEPT !.enabled = draft[d].enabled, !.hours = draft[d].hours,
                                  !.version = draft[d].version]
    BY <1>2, <2>2 DEF Plan
  <2> QED BY <2>1, <2>2 DEF SaveEdit
<1>4. draft' \in [Editor -> Plan \cup {NoDraft}]
  BY DEF IInv, TypeOK, SaveEdit
<1>5. edits' \in 0 .. MaxEdits
  BY <1>1, EditsFit
<1>6. Rises /\ pass' \in [Lane -> Pass] /\ \A l \in Lane : Grounded(pass'[l], day')
  BY <1>1, Still, Stays
<1> QED BY <1>1, <1>3, <1>4, <1>5, <1>6 DEF IInv, TypeOK

LEMMA TermsStep ==
    ASSUME IInv, ChangeTerms \/ DeactivateShift
    PROVE  IInv' /\ Rises
<1>1. /\ UNCHANGED <<operation, draft, assignment, day, seat, attended, started, pass, faults>>
      /\ edits' = edits + 1 /\ edits < MaxEdits
  BY DEF ChangeTerms, DeactivateShift
<1>2. plan' \in Plan
  <2>1. edits + 2 \in 1 .. Special /\ plan \in Plan
    BY <1>1, EditsFit DEF IInv, TypeOK
  <2> QED BY <2>1 DEF ChangeTerms, DeactivateShift, Plan
<1>3. edits' \in 0 .. MaxEdits
  BY <1>1, EditsFit
<1>4. Rises /\ pass' \in [Lane -> Pass] /\ \A l \in Lane : Grounded(pass'[l], day')
  BY <1>1, Still, Stays
<1> QED BY <1>1, <1>2, <1>3, <1>4 DEF IInv, TypeOK

LEMMA SetExceptionStep ==
    ASSUME IInv, NEW kind \in Kind, SetException(kind)
    PROVE  IInv' /\ Rises
<1> DEFINE p == [plan EXCEPT !.exception = kind]
           made == Reconciled(p)
<1>1. /\ UNCHANGED <<operation, draft, assignment, attended, started, pass, faults>>
      /\ edits' = edits + 1 /\ edits < MaxEdits
      /\ plan' = p /\ day' = made.row /\ seat' = made.seats
  BY DEF SetException
<1>2. p \in Plan
  BY PlanAssumption DEF IInv, TypeOK, Plan
<1>3. /\ made.row \in DayRow /\ made.seats \in [Employee -> SeatRow]
      /\ day # NoRow => made.row # NoRow /\ made.row.version >= day.version
  BY <1>2, Reconciles
<1> HIDE DEF made, p
<1>4. Rises
  BY <1>1, <1>3 DEF Rises
<1>5. edits' \in 0 .. MaxEdits
  BY <1>1, EditsFit
<1>6. pass' \in [Lane -> Pass] /\ \A l \in Lane : Grounded(pass'[l], day')
  BY <1>1, <1>4, Stays
<1> QED BY <1>1, <1>2, <1>3, <1>4, <1>5, <1>6 DEF IInv, TypeOK

LEMMA AssignStep ==
    ASSUME IInv, NEW a \in Assignment, CheckAssign(a) \/ Assign(a)
    PROVE  IInv' /\ Rises
<1>1. UNCHANGED <<operation, plan, draft, day, seat, attended, started, pass, edits, faults>>
  BY DEF CheckAssign, Assign
<1>2. assignment' \in [Assignment -> {"FREE", "CHECKED", "OPEN", "ENDED", "CANCELLED"}]
  BY DEF IInv, TypeOK, CheckAssign, Assign
<1>3. Rises /\ pass' \in [Lane -> Pass] /\ \A l \in Lane : Grounded(pass'[l], day')
  BY <1>1, Still, Stays
<1> QED BY <1>1, <1>2, <1>3 DEF IInv, TypeOK

LEMMA UnassignStep ==
    ASSUME IInv, NEW a \in Assignment, Unassign(a)
    PROVE  IInv' /\ Rises
<1>1. UNCHANGED <<operation, plan, draft, day, attended, started, pass, edits, faults>>
  BY DEF Unassign
<1>2. assignment' \in [Assignment -> {"FREE", "CHECKED", "OPEN", "ENDED", "CANCELLED"}]
  BY DEF IInv, TypeOK, Unassign
<1>3. seat' \in [Employee -> SeatRow]
  <2>1. seat \in [Employee -> SeatRow] /\ EmployeeOf[a] \in Employee
    BY DEF IInv, TypeOK, Employee
  <2>2. seat[EmployeeOf[a]] = Seated(a) => Expected(seat[EmployeeOf[a]])
    BY DEF Seated, Expected
  <2>3. Expected(seat[EmployeeOf[a]]) =>
            Cancelled(seat[EmployeeOf[a]], "ASSIGNMENT") \in SeatRow
    BY <2>1, SeatRows
  <2> QED BY <2>1, <2>2, <2>3 DEF Unassign
<1>4. Rises /\ pass' \in [Lane -> Pass] /\ \A l \in Lane : Grounded(pass'[l], day')
  BY <1>1, Still, Stays
<1> QED BY <1>1, <1>2, <1>3, <1>4 DEF IInv, TypeOK

LEMMA WorldStep ==
    ASSUME IInv, (\E e \in Employee : Attend(e)) \/ StartDay
    PROVE  IInv' /\ Rises
<1>1. UNCHANGED <<operation, plan, draft, assignment, day, seat, pass, edits, faults>>
  BY DEF Attend, StartDay
<1>2. attended' \subseteq Employee /\ started' \in BOOLEAN
  BY DEF IInv, TypeOK, Attend, StartDay
<1>3. Rises /\ pass' \in [Lane -> Pass] /\ \A l \in Lane : Grounded(pass'[l], day')
  BY <1>1, Still, Stays
<1> QED BY <1>1, <1>2, <1>3 DEF IInv, TypeOK

LEMMA CrashStep ==
    ASSUME IInv, NEW l \in Lane, Crash(l)
    PROVE  IInv' /\ Rises
<1>1. UNCHANGED <<operation, plan, draft, assignment, day, seat, attended, started, edits>>
  BY DEF Crash
<1>2. faults' \in 0 .. MaxFaults
  BY PlanAssumption DEF IInv, TypeOK, Crash
<1>3. Rises
  BY <1>1, Still
<1>4. pass' \in [Lane -> Pass] /\ \A m \in Lane : Grounded(pass'[m], day')
  BY <1>3, Becomes, IdleIsPass DEF Crash, Finish
<1> QED BY <1>1, <1>2, <1>3, <1>4 DEF IInv, TypeOK

-----------------------------------------------------------------------------
(* WorkdayPlan: the theorems *)

LEMMA Initially == Init => IInv
<1> SUFFICES ASSUME Init PROVE IInv
  OBVIOUS
<1>1. plan \in Plan
  BY Bounds DEF Init, AtFirst, Plan, Version
<1>2. NoRow \in DayRow /\ NoRow \in SeatRow
  BY DEF DayRow, SeatRow
<1>3. edits \in 0 .. MaxEdits /\ faults \in 0 .. MaxFaults
  BY PlanAssumption DEF Init
<1> QED BY <1>1, <1>2, <1>3, IdleIsPass DEF Init, IInv, TypeOK

LEMMA Steps ==
    ASSUME IInv, Next
    PROVE  IInv' /\ Rises
<1>1. ASSUME NEW l \in Lane, Work(l) PROVE IInv' /\ Rises
  BY <1>1, RefusePassStep, ReadDayStep, ReadRowsStep, CancelDayStep, ListSeatsStep,
     VacateStep, InsertDayStep, ReviveDayStep, MoveDayStep, KeepDayStep, SyncDayStep,
     SeatStep, RestoreDayStep, RestoreSeatsStep DEF Work
<1>2. ASSUME NEW l \in Lane,
             BeginPass(l) \/ Crash(l) \/ CancelOperation(l) \/ ReactivateOperation(l)
      PROVE  IInv' /\ Rises
  BY <1>2, BeginPassStep, CrashStep, StatusStep
<1>3. ASSUME NEW d \in Editor, OpenEdit(d) \/ SaveEdit(d) PROVE IInv' /\ Rises
  BY <1>3, OpenEditStep, SaveEditStep
<1>4. ASSUME NEW a \in Assignment, CheckAssign(a) \/ Assign(a) \/ Unassign(a)
      PROVE  IInv' /\ Rises
  BY <1>4, AssignStep, UnassignStep
<1> QED BY <1>1, <1>2, <1>3, <1>4, TermsStep, SetExceptionStep, WorldStep DEF Next

\* Nothing that can happen takes the data out of its types: in particular a
\* pass that cancels always cancels a row it has read.
THEOREM TypeCorrect == Spec => []TypeOK
<1>1. IInv /\ [Next]_vars => IInv'
  <2>1. IInv /\ UNCHANGED vars => IInv'
    BY DEF IInv, TypeOK, vars, Grounded
  <2> QED BY <2>1, Steps
<1>2. IInv => TypeOK
  BY DEF IInv
<1> QED BY <1>1, <1>2, Initially, PTL DEF Spec

\* The number of the day's row never goes back, however many passes overlap,
\* with whatever edits, exceptions, cancellations and crashes between their
\* reads and their writes: each write compares the number it found.
THEOREM VersionsNeverFall == Spec => VersionsRise
<1>1. IInv /\ [Next]_vars => IInv'
  <2>1. IInv /\ UNCHANGED vars => IInv'
    BY DEF IInv, TypeOK, vars, Grounded
  <2> QED BY <2>1, Steps
<1>2. IInv /\ [Next]_vars => [day # NoRow => day'.version >= day.version]_vars
  BY Steps DEF Rises
<1> QED BY <1>1, <1>2, Initially, PTL DEF Spec, VersionsRise

-----------------------------------------------------------------------------
(* AbsenceSync: the least and the largest of finitely many *)

\* A family of subsets of a finite set has a smallest member.
LEMMA SmallestOf ==
  ASSUME NEW S, IsFiniteSet(S), NEW T \in SUBSET SUBSET S, T # {}
  PROVE  \E s \in T : \A u \in T : u \subseteq s => u = s
<1>1. IsWellFoundedOn(StrictSubsetOrdering(S), FiniteSubsetsOf(S))
  BY FS_StrictSubsetOrderingWellFounded
<1>2. T \subseteq FiniteSubsetsOf(S)
  BY FS_Subset DEF FiniteSubsetsOf
<1>3. PICK s \in T : \A u \in T : ~ (<<u, s>> \in StrictSubsetOrdering(S))
  BY <1>1, <1>2, WFMin
<1> QED
  BY <1>2, <1>3 DEF StrictSubsetOrdering, FiniteSubsetsOf

\* A map of a finite set to its subsets is smallest somewhere.
LEMMA SmallestAt ==
  ASSUME NEW S, IsFiniteSet(S), S # {}, NEW f, \A r \in S : f[r] \subseteq S
  PROVE  \E r \in S : \A s \in S : f[s] \subseteq f[r] => f[s] = f[r]
<1> DEFINE T == {f[r] : r \in S}
<1>1. T \in SUBSET SUBSET S /\ T # {}
  OBVIOUS
<1>2. \E t \in T : \A u \in T : u \subseteq t => u = t
  <2> HIDE DEF T
  <2> QED
    BY <1>1, SmallestOf
<1> QED
  BY <1>2

\* Finitely many numbers have a largest one and a least one.
Numbers(S) == S \subseteq Nat
Largest(S, r) == \A s \in S : s <= r
Least(S, r) == \A s \in S : r <= s

LEMMA LargestOf ==
  ASSUME NEW S, IsFiniteSet(S), S # {}, Numbers(S)
  PROVE  \E r \in S : Largest(S, r)
<1> DEFINE above == [r \in S |-> {s \in S : r < s}]
<1>2. \A r \in S : above[r] \subseteq S
  OBVIOUS
<1>3. \E r \in S : \A s \in S : above[s] \subseteq above[r] => above[s] = above[r]
  <2> HIDE DEF above
  <2> QED
    BY <1>2, SmallestAt
<1>4. PICK r \in S : \A s \in S : above[s] \subseteq above[r] => above[s] = above[r]
  BY <1>3
<1>5. ASSUME NEW s \in S, r < s PROVE FALSE
  <2>2. \A x \in S : s < x => r < x
    BY <1>5 DEF Numbers
  <2>3. above[s] \subseteq above[r]
    BY <2>2
  <2>4. s \in above[r] /\ s \notin above[s]
    BY <1>5 DEF Numbers
  <2> QED
    BY <2>3, <2>4, <1>4
<1> QED
  BY <1>5 DEF Numbers, Largest

LEMMA LeastOf ==
  ASSUME NEW S, IsFiniteSet(S), S # {}, Numbers(S)
  PROVE  \E r \in S : Least(S, r)
<1> DEFINE below == [r \in S |-> {s \in S : s < r}]
<1>2. \A r \in S : below[r] \subseteq S
  OBVIOUS
<1>3. \E r \in S : \A s \in S : below[s] \subseteq below[r] => below[s] = below[r]
  <2> HIDE DEF below
  <2> QED
    BY <1>2, SmallestAt
<1>4. PICK r \in S : \A s \in S : below[s] \subseteq below[r] => below[s] = below[r]
  BY <1>3
<1>5. ASSUME NEW s \in S, s < r PROVE FALSE
  <2>2. \A x \in S : x < s => x < r
    BY <1>5 DEF Numbers
  <2>3. below[s] \subseteq below[r]
    BY <2>2
  <2>4. s \in below[r] /\ s \notin below[s]
    BY <1>5 DEF Numbers
  <2> QED
    BY <2>3, <2>4, <1>4
<1> QED
  BY <1>5 DEF Numbers, Least

-----------------------------------------------------------------------------
(* AbsenceSync: types *)

StoresTyped ==
    /\ request \in [Request -> RequestRow]
    /\ approvals \in Seq(Request)
    /\ job \in [JobId -> JobRow]
    /\ enqueued \in 0..MaxJobs
    /\ workday \in [Workday -> WorkdayRow]
    /\ punched \subseteq Workday
    /\ conflict \subseteq Conflict
    /\ promised \subseteq Request
    /\ syncFaults \in 0..MaxSyncFaults
LanesTyped == lane \in [Runner -> LaneState]

LEMMA SyncTypeParts == SyncTypeOK <=> StoresTyped /\ LanesTyped
BY DEF SyncTypeOK, StoresTyped, LanesTyped

LEMMA SyncBounds ==
  /\ MaxJobs \in Nat /\ MaxSyncFaults \in Nat /\ Edition \subseteq Nat /\ 0 \in Edition
  /\ NoRequest \notin Request
  /\ \A j \in JobId : j \in Nat /\ j # 0
BY SyncAssumption DEF JobId

\* What a step leaves to the other calls.
Others(l) == \A k \in Runner : k # l => lane'[k] = lane[k]
Runs == Inline \cup {"job", "materialize"}

LEMMA CallMoves ==
  ASSUME LanesTyped, NEW l \in Runner, NEW d \in LaneState, lane' = [lane EXCEPT ![l] = d]
  PROVE  LanesTyped' /\ lane'[l] = d /\ Others(l)
BY DEF LanesTyped, Others

CallFields(c) ==
    /\ c.kind \in LaneKind /\ c.step \in SyncStep
    /\ c.req \in Request \cup {NoRequest} /\ c.job \in {0} \cup JobId
    /\ c.lease \in Nat /\ c.version \in Nat
    /\ c.left \subseteq {"approved", "present"} /\ c.rows \subseteq Loaded
    /\ c.known \in Seq(Request) /\ c.present \subseteq Workday
    /\ c.todo \subseteq Delta /\ c.marks \subseteq Conflict

LEMMA CallTyped ==
  ASSUME LanesTyped, NEW l \in Runner
  PROVE  lane[l] \in LaneState /\ CallFields(lane[l])
<1>1. ASSUME NEW c \in LaneState PROVE CallFields(c)
  BY DEF LaneState, CallFields
<1> QED
  BY <1>1 DEF LanesTyped

LEMMA NoCallTyped ==
  /\ NoCall \in LaneState
  /\ NoCall.kind = "idle" /\ NoCall.step = "idle" /\ NoCall.req = NoRequest /\ NoCall.job = 0
  /\ NoCall.lease = 0 /\ NoCall.version = 0 /\ NoCall.left = {} /\ NoCall.rows = {}
  /\ NoCall.known = <<>> /\ NoCall.present = {} /\ NoCall.todo = {} /\ NoCall.marks = {}
<1>1. <<>> \in Seq(Request)
  OBVIOUS
<1> QED
  BY <1>1 DEF NoCall, LaneState, LaneKind, SyncStep

\* The same call at another step, with other marks and another job.
Later(c, d) ==
    /\ d.kind = c.kind /\ d.req = c.req /\ d.lease = c.lease /\ d.version = c.version
    /\ d.left = c.left /\ d.rows = c.rows /\ d.known = c.known /\ d.present = c.present
    /\ d.todo = c.todo

Stepped(c, s) == [c EXCEPT !.step = s]

LEMMA LaterStep ==
  ASSUME NEW c \in LaneState, NEW s \in SyncStep
  PROVE  LET d == Stepped(c, s) IN
         d \in LaneState /\ Later(c, d) /\ d.step = s /\ d.job = c.job /\ d.marks = c.marks
BY DEF LaneState, Later, Stepped

Marked(c, s, M) == [c EXCEPT !.marks = M, !.step = s]

LEMMA LaterMarks ==
  ASSUME NEW c \in LaneState, NEW s \in SyncStep, NEW M \in SUBSET Conflict
  PROVE  LET d == Marked(c, s, M) IN
         d \in LaneState /\ Later(c, d) /\ d.step = s /\ d.job = c.job /\ d.marks = M
BY DEF LaneState, Later, Marked

Found(c, s, j) == [c EXCEPT !.step = s, !.job = j]

LEMMA LaterJob ==
  ASSUME NEW c \in LaneState, NEW s \in SyncStep, NEW j \in JobId
  PROVE  LET d == Found(c, s, j) IN
         d \in LaneState /\ Later(c, d) /\ d.step = s /\ d.job = j /\ d.marks = c.marks
BY DEF LaneState, Later, Found

LEMMA CallGoesOn ==
  ASSUME LanesTyped, NEW l \in Runner, NEW s \in SyncStep, Goto(l, s)
  PROVE  /\ LanesTyped' /\ Others(l)
         /\ Later(lane[l], lane'[l]) /\ lane'[l].step = s
         /\ lane'[l].job = lane[l].job /\ lane'[l].marks = lane[l].marks
<1>0. lane[l] \in LaneState
  BY CallTyped
<1> DEFINE d == Stepped(lane[l], s)
<1>1. /\ d \in LaneState /\ Later(lane[l], d) /\ d.step = s
      /\ d.job = lane[l].job /\ d.marks = lane[l].marks
  BY <1>0, LaterStep
<1>2. lane' = [lane EXCEPT ![l] = d]
  BY DEF Goto, Stepped
<1> HIDE DEF d
<1>3. LanesTyped' /\ lane'[l] = d /\ Others(l)
  BY <1>1, <1>2, CallMoves
<1> QED
  BY <1>1, <1>3

LEMMA CallMarks ==
  ASSUME LanesTyped, NEW l \in Runner, NEW s \in SyncStep, NEW M \in SUBSET Conflict,
         lane' = [lane EXCEPT ![l] = Marked(lane[l], s, M)]
  PROVE  /\ LanesTyped' /\ Others(l)
         /\ Later(lane[l], lane'[l]) /\ lane'[l].step = s
         /\ lane'[l].job = lane[l].job /\ lane'[l].marks = M
<1>0. lane[l] \in LaneState
  BY CallTyped
<1> DEFINE d == Marked(lane[l], s, M)
<1>1. /\ d \in LaneState /\ Later(lane[l], d) /\ d.step = s
      /\ d.job = lane[l].job /\ d.marks = M
  BY <1>0, LaterMarks
<1>2. lane' = [lane EXCEPT ![l] = d]
  OBVIOUS
<1> HIDE DEF d
<1>3. LanesTyped' /\ lane'[l] = d /\ Others(l)
  BY <1>1, <1>2, CallMoves
<1> QED
  BY <1>1, <1>3

LEMMA CallFinds ==
  ASSUME LanesTyped, NEW l \in Runner, NEW s \in SyncStep, NEW j \in JobId,
         lane' = [lane EXCEPT ![l] = Found(lane[l], s, j)]
  PROVE  /\ LanesTyped' /\ Others(l)
         /\ Later(lane[l], lane'[l]) /\ lane'[l].step = s
         /\ lane'[l].job = j /\ lane'[l].marks = lane[l].marks
<1>0. lane[l] \in LaneState
  BY CallTyped
<1> DEFINE d == Found(lane[l], s, j)
<1>1. /\ d \in LaneState /\ Later(lane[l], d) /\ d.step = s
      /\ d.job = j /\ d.marks = lane[l].marks
  BY <1>0, LaterJob
<1>2. lane' = [lane EXCEPT ![l] = d]
  OBVIOUS
<1> HIDE DEF d
<1>3. LanesTyped' /\ lane'[l] = d /\ Others(l)
  BY <1>1, <1>2, CallMoves
<1> QED
  BY <1>1, <1>3

LEMMA CallEnds ==
  ASSUME LanesTyped, NEW l \in Runner, Free(l)
  PROVE  LanesTyped' /\ Others(l) /\ lane'[l] = NoCall
BY NoCallTyped, CallMoves DEF Free

\* A call in its first step.
Begun(c, kind, step, r) ==
    /\ c.kind = kind /\ c.step = step /\ c.req = r
    /\ c.left = {} /\ c.known = <<>> /\ c.present = {} /\ c.todo = {} /\ c.marks = {}

LEMMA CallBegins ==
  ASSUME LanesTyped, NEW l \in Runner, NEW k \in LaneKind, NEW s \in SyncStep,
         NEW r \in Request \cup {NoRequest}, Start(l, k, s, r)
  PROVE  LanesTyped' /\ Others(l) /\ Begun(lane'[l], k, s, r) /\ lane'[l].rows = {}
<1>2. [NoCall EXCEPT !.kind = k, !.step = s, !.req = r] \in LaneState
  BY NoCallTyped DEF LaneState
<1>3. /\ LanesTyped' /\ lane'[l] = [NoCall EXCEPT !.kind = k, !.step = s, !.req = r]
      /\ Others(l)
  BY <1>2, CallMoves DEF Start
<1> QED
  BY <1>3, NoCallTyped DEF LaneState, Begun

\* A call that has loaded its days, that has heard of absences and attendance,
\* and that has decided what to change.
Listing(c, R) == [c EXCEPT !.step = "context", !.left = {"approved", "present"}, !.rows = R]
Hearing(c, L, K, P) == [c EXCEPT !.left = L, !.known = K, !.present = P]
Decided(c, s, T) == [c EXCEPT !.step = s, !.left = {}, !.rows = {}, !.known = <<>>,
                              !.present = {}, !.todo = T]
Left(c, T) == [c EXCEPT !.todo = T]
Thrown(c, s, T) == [NoCall EXCEPT !.kind = c.kind, !.step = s, !.req = c.req, !.job = c.job,
                                  !.lease = c.lease, !.todo = T]

SameCall(c, d) == /\ d.kind = c.kind /\ d.req = c.req /\ d.job = c.job
                  /\ d.lease = c.lease /\ d.version = c.version /\ d.marks = c.marks

LEMMA ListingIs ==
  ASSUME NEW c \in LaneState, NEW R \in SUBSET Loaded
  PROVE  LET d == Listing(c, R) IN
         /\ d \in LaneState /\ SameCall(c, d)
         /\ d.step = "context" /\ d.left = {"approved", "present"} /\ d.rows = R
         /\ d.known = c.known /\ d.present = c.present /\ d.todo = c.todo
BY DEF LaneState, SameCall, Listing, SyncStep

LEMMA HearingIs ==
  ASSUME NEW c \in LaneState, NEW L \in SUBSET {"approved", "present"},
         NEW K \in Seq(Request), NEW P \in SUBSET Workday
  PROVE  LET d == Hearing(c, L, K, P) IN
         /\ d \in LaneState /\ SameCall(c, d)
         /\ d.step = c.step /\ d.left = L /\ d.rows = c.rows
         /\ d.known = K /\ d.present = P /\ d.todo = c.todo
BY DEF LaneState, SameCall, Hearing

LEMMA DecidedIs ==
  ASSUME NEW c \in LaneState, NEW s \in SyncStep, NEW T \in SUBSET Delta
  PROVE  LET d == Decided(c, s, T) IN
         /\ d \in LaneState /\ SameCall(c, d)
         /\ d.step = s /\ d.left = {} /\ d.rows = {}
         /\ d.known = <<>> /\ d.present = {} /\ d.todo = T
<1>1. <<>> \in Seq(Request)
  OBVIOUS
<1> QED
  BY <1>1 DEF LaneState, SameCall, Decided

LEMMA LeftIs ==
  ASSUME NEW c \in LaneState, NEW T \in SUBSET Delta
  PROVE  LET d == Left(c, T) IN
         /\ d \in LaneState /\ SameCall(c, d)
         /\ d.step = c.step /\ d.left = c.left /\ d.rows = c.rows
         /\ d.known = c.known /\ d.present = c.present /\ d.todo = T
BY DEF LaneState, SameCall, Left

LEMMA ThrownIs ==
  ASSUME NEW c \in LaneState, NEW s \in SyncStep, NEW T \in SUBSET Delta
  PROVE  LET d == Thrown(c, s, T) IN
         /\ d \in LaneState
         /\ d.kind = c.kind /\ d.req = c.req /\ d.job = c.job /\ d.lease = c.lease
         /\ d.version = 0 /\ d.marks = {} /\ d.step = s /\ d.left = {} /\ d.rows = {}
         /\ d.known = <<>> /\ d.present = {} /\ d.todo = T
BY NoCallTyped DEF LaneState, Thrown

\* The calls of CallTyped, moved.
LEMMA CallLists ==
  ASSUME LanesTyped, NEW l \in Runner, NEW R \in SUBSET Loaded,
         lane' = [lane EXCEPT ![l] = Listing(lane[l], R)]
  PROVE  /\ LanesTyped' /\ Others(l) /\ SameCall(lane[l], lane'[l])
         /\ lane'[l].step = "context" /\ lane'[l].left = {"approved", "present"}
         /\ lane'[l].rows = R /\ lane'[l].known = lane[l].known
         /\ lane'[l].present = lane[l].present /\ lane'[l].todo = lane[l].todo
<1>0. lane[l] \in LaneState
  BY CallTyped
<1> DEFINE d == Listing(lane[l], R)
<1>1. /\ d \in LaneState /\ SameCall(lane[l], d)
      /\ d.step = "context" /\ d.left = {"approved", "present"} /\ d.rows = R
      /\ d.known = lane[l].known /\ d.present = lane[l].present /\ d.todo = lane[l].todo
  BY <1>0, ListingIs
<1>2. lane' = [lane EXCEPT ![l] = d]
  OBVIOUS
<1> HIDE DEF d
<1>3. LanesTyped' /\ lane'[l] = d /\ Others(l)
  BY <1>1, <1>2, CallMoves
<1> QED
  BY <1>1, <1>3

LEMMA CallHears ==
  ASSUME LanesTyped, NEW l \in Runner, NEW L \in SUBSET {"approved", "present"},
         NEW K \in Seq(Request), NEW P \in SUBSET Workday,
         lane' = [lane EXCEPT ![l] = Hearing(lane[l], L, K, P)]
  PROVE  /\ LanesTyped' /\ Others(l) /\ SameCall(lane[l], lane'[l])
         /\ lane'[l].step = lane[l].step /\ lane'[l].left = L
         /\ lane'[l].rows = lane[l].rows /\ lane'[l].known = K
         /\ lane'[l].present = P /\ lane'[l].todo = lane[l].todo
<1>0. lane[l] \in LaneState
  BY CallTyped
<1> DEFINE d == Hearing(lane[l], L, K, P)
<1>1. /\ d \in LaneState /\ SameCall(lane[l], d)
      /\ d.step = lane[l].step /\ d.left = L /\ d.rows = lane[l].rows
      /\ d.known = K /\ d.present = P /\ d.todo = lane[l].todo
  BY <1>0, HearingIs
<1>2. lane' = [lane EXCEPT ![l] = d]
  OBVIOUS
<1> HIDE DEF d
<1>3. LanesTyped' /\ lane'[l] = d /\ Others(l)
  BY <1>1, <1>2, CallMoves
<1> QED
  BY <1>1, <1>3

LEMMA CallDecides ==
  ASSUME LanesTyped, NEW l \in Runner, NEW s \in SyncStep, NEW T \in SUBSET Delta,
         lane' = [lane EXCEPT ![l] = Decided(lane[l], s, T)]
  PROVE  /\ LanesTyped' /\ Others(l) /\ SameCall(lane[l], lane'[l])
         /\ lane'[l].step = s /\ lane'[l].left = {} /\ lane'[l].rows = {}
         /\ lane'[l].known = <<>> /\ lane'[l].present = {} /\ lane'[l].todo = T
<1>0. lane[l] \in LaneState
  BY CallTyped
<1> DEFINE d == Decided(lane[l], s, T)
<1>1. /\ d \in LaneState /\ SameCall(lane[l], d)
      /\ d.step = s /\ d.left = {} /\ d.rows = {}
      /\ d.known = <<>> /\ d.present = {} /\ d.todo = T
  BY <1>0, DecidedIs
<1>2. lane' = [lane EXCEPT ![l] = d]
  OBVIOUS
<1> HIDE DEF d
<1>3. LanesTyped' /\ lane'[l] = d /\ Others(l)
  BY <1>1, <1>2, CallMoves
<1> QED
  BY <1>1, <1>3

LEMMA CallWrites ==
  ASSUME LanesTyped, NEW l \in Runner, NEW T \in SUBSET Delta,
         lane' = [lane EXCEPT ![l] = Left(lane[l], T)]
  PROVE  /\ LanesTyped' /\ Others(l) /\ SameCall(lane[l], lane'[l])
         /\ lane'[l].step = lane[l].step /\ lane'[l].left = lane[l].left
         /\ lane'[l].rows = lane[l].rows /\ lane'[l].known = lane[l].known
         /\ lane'[l].present = lane[l].present /\ lane'[l].todo = T
<1>0. lane[l] \in LaneState
  BY CallTyped
<1> DEFINE d == Left(lane[l], T)
<1>1. /\ d \in LaneState /\ SameCall(lane[l], d)
      /\ d.step = lane[l].step /\ d.left = lane[l].left /\ d.rows = lane[l].rows
      /\ d.known = lane[l].known /\ d.present = lane[l].present /\ d.todo = T
  BY <1>0, LeftIs
<1>2. lane' = [lane EXCEPT ![l] = d]
  OBVIOUS
<1> HIDE DEF d
<1>3. LanesTyped' /\ lane'[l] = d /\ Others(l)
  BY <1>1, <1>2, CallMoves
<1> QED
  BY <1>1, <1>3

\* What a call that is over, thrown out of its course or at its end becomes.
Over(l) == lane'[l] = NoCall
Strays(l) == Later(lane[l], lane'[l]) /\ lane'[l].step = "stray" /\ lane[l].todo # {}
MovesOn(l) ==
    /\ SameCall(lane[l], lane'[l]) /\ lane'[l].step = AfterReconcile(lane[l].kind)
    /\ lane'[l].left = {} /\ lane'[l].rows = {} /\ lane'[l].known = <<>>
    /\ lane'[l].present = {} /\ lane'[l].todo = {}

LEMMA CallReleases ==
  ASSUME LanesTyped, NEW l \in Runner, Release(l)
  PROVE  LanesTyped' /\ Others(l) /\ (Over(l) \/ Strays(l))
<1>1. "stray" \in SyncStep
  BY DEF SyncStep
<1> QED
  BY <1>1, CallEnds, CallGoesOn DEF Release, Over, Strays

LEMMA CallReconciles ==
  ASSUME LanesTyped, NEW l \in Runner, lane[l].kind \in Runs, DaysReconciled(l)
  PROVE  /\ LanesTyped' /\ Others(l)
         /\ \/ Over(l) /\ lane[l].kind = "materialize"
            \/ MovesOn(l) /\ lane[l].kind \in Inline \cup {"job"}
<1>1. CASE lane[l].kind = "materialize"
  BY <1>1, CallEnds DEF DaysReconciled, Over
<1>2. CASE lane[l].kind # "materialize"
  <2>1. AfterReconcile(lane[l].kind) \in SyncStep
    BY <1>2 DEF AfterReconcile, SyncStep, Runs, Inline
  <2>2. {} \in SUBSET Delta
    OBVIOUS
  <2>3. lane' = [lane EXCEPT ![l] = Decided(lane[l], AfterReconcile(lane[l].kind), {})]
    BY <1>2 DEF DaysReconciled, Decided
  <2>4. /\ LanesTyped' /\ Others(l) /\ SameCall(lane[l], lane'[l])
        /\ lane'[l].step = AfterReconcile(lane[l].kind)
        /\ lane'[l].left = {} /\ lane'[l].rows = {}
        /\ lane'[l].known = <<>> /\ lane'[l].present = {} /\ lane'[l].todo = {}
    <3> DEFINE s == AfterReconcile(lane[l].kind)
               T == {}
    <3>1. s \in SyncStep /\ T \in SUBSET Delta
          /\ lane' = [lane EXCEPT ![l] = Decided(lane[l], s, T)]
      BY <2>1, <2>2, <2>3
    <3> HIDE DEF s, T
    <3>2. /\ LanesTyped' /\ Others(l) /\ SameCall(lane[l], lane'[l])
          /\ lane'[l].step = s /\ lane'[l].left = {} /\ lane'[l].rows = {}
          /\ lane'[l].known = <<>> /\ lane'[l].present = {} /\ lane'[l].todo = T
      BY <3>1, CallDecides
    <3> QED
      BY <3>1, <3>2 DEF s, T
  <2> QED
    BY <1>2, <2>4 DEF MovesOn, Runs
<1> QED
  BY <1>1, <1>2

-----------------------------------------------------------------------------
\* What the choices and the conversions of the model return.
LEMMA LatestIs ==
  ASSUME NEW S \in SUBSET JobId, S # {}
  PROVE  Latest(S) \in S
<1>0. Numbers(S)
  BY SyncBounds DEF Numbers
<1>1. IsFiniteSet(S)
  <2>1. IsFiniteSet(JobId)
    BY SyncBounds, FS_Interval DEF JobId
  <2> QED
    BY <2>1, FS_Subset
<1>2. PICK j \in S : Largest(S, j)
  BY <1>0, <1>1, LargestOf
<1> QED
  BY <1>2 DEF Latest, Largest

LEMMA FirstIs ==
  ASSUME NEW known \in Seq(Request), NEW I \in SUBSET DOMAIN known, I # {}
  PROVE  First(I) \in I
<1>1. IsFiniteSet(I) /\ Numbers(I)
  BY FS_Interval, FS_Subset DEF Numbers
<1>2. PICK i \in I : Least(I, i)
  BY <1>1, LeastOf
<1> QED
  BY <1>2 DEF First, Least

\* The absence that excuses a day is one of those known, and covers it.
LEMMA EffectiveCovers ==
  ASSUME NEW x, NEW known \in Seq(Request), Covering(x, known) # {}
  PROVE  \E i \in DOMAIN known : /\ Effective(x, known) = known[i] /\ known[i] \in Request
                                 /\ <<known[i], x.day, x.row.edition>> \in Covers
<1>1. Covering(x, known) \in SUBSET DOMAIN known
  BY DEF Covering
<1>2. First(Covering(x, known)) \in Covering(x, known)
  BY <1>1, FirstIs
<1>3. \A i \in Covering(x, known) :
        i \in DOMAIN known /\ <<known[i], x.day, x.row.edition>> \in Covers
  BY DEF Covering
<1>4. \A i \in DOMAIN known : known[i] \in Request
  OBVIOUS
<1> QED
  BY <1>2, <1>3, <1>4 DEF Effective

\* A change is that of one of the days loaded.
LEMMA DeltaOf ==
  ASSUME NEW rows \in SUBSET Loaded, NEW known \in Seq(Request), NEW present,
         NEW d \in Deltas(rows, known, present)
  PROVE  \E x \in rows :
           /\ d.day = x.day /\ d.from = x.row.absence
           /\ \/ /\ d.op \in {"justify", "relink"} /\ Covering(x, known) # {}
                 /\ d.to = Effective(x, known)
              \/ /\ d.op = "restore" /\ Covering(x, known) = {} /\ x.row.status = "JUSTIFIED"
                 /\ d.to = NoRequest
           /\ d = [op |-> d.op, day |-> d.day, from |-> d.from, to |-> d.to]
BY DEF Deltas

LEMMA LoadedTyped ==
  ASSUME NEW x \in Loaded
  PROVE  /\ x.day \in Workday /\ x.row \in WorkdayRow
         /\ x.row.absence \in Request \cup {NoRequest} /\ x.row.edition \in Edition
         /\ x.row.status \in {"NONE", "EXPECTED", "JUSTIFIED"}
BY DEF Loaded, WorkdayRow

LEMMA DeltasTyped ==
  ASSUME NEW rows \in SUBSET Loaded, NEW known \in Seq(Request), NEW present
  PROVE  Deltas(rows, known, present) \in SUBSET Delta
<1>1. ASSUME NEW d \in Deltas(rows, known, present) PROVE d \in Delta
  <2>1. PICK x \in rows :
           /\ d.day = x.day /\ d.from = x.row.absence
           /\ \/ /\ d.op \in {"justify", "relink"} /\ Covering(x, known) # {}
                 /\ d.to = Effective(x, known)
              \/ /\ d.op = "restore" /\ Covering(x, known) = {} /\ x.row.status = "JUSTIFIED"
                 /\ d.to = NoRequest
           /\ d = [op |-> d.op, day |-> d.day, from |-> d.from, to |-> d.to]
    BY DeltaOf
  <2>2. d.to \in Request \cup {NoRequest}
    BY <2>1, EffectiveCovers
  <2>3. d.day \in Workday /\ d.from \in Request \cup {NoRequest}
    BY <2>1, LoadedTyped
  <2> QED
    BY <2>1, <2>2, <2>3 DEF Delta
<1> QED
  BY <1>1

-----------------------------------------------------------------------------
\* The rows of the queue and of the requests, changed in one place.
JobStatus == {"NONE", "PENDING", "PROCESSING", "COMPLETED", "FAILED", "SUPERSEDED"}
RequestStatus == {"NONE", "PENDING", "NEEDS_INFO"} \cup Outcome

\* A row that is there stays the row of the same request, outcome and version.
JobKept(j) == /\ job'[j].request = job[j].request /\ job'[j].target = job[j].target
              /\ job'[j].op = job[j].op /\ job'[j].version = job[j].version

LEMMA JobRowTyped ==
  ASSUME NEW x \in JobRow
  PROVE  /\ x.request \in Request \cup {NoRequest} /\ x.target \in Outcome
         /\ x.op \in Operation /\ x.version \in Nat /\ x.status \in JobStatus
         /\ x.attempts \in Nat /\ x.lease \in Nat
BY DEF JobRow, JobStatus

LEMMA JobRowMarked ==
  ASSUME NEW x \in JobRow, NEW st \in JobStatus
  PROVE  LET y == [x EXCEPT !.status = st] IN
         /\ y \in JobRow /\ y.status = st
         /\ y.request = x.request /\ y.target = x.target /\ y.op = x.op /\ y.version = x.version
BY DEF JobRow, JobStatus

LEMMA JobMarked ==
  ASSUME StoresTyped, NEW j \in {0} \cup JobId, NEW st \in JobStatus,
         job' = [job EXCEPT ![j].status = st]
  PROVE  /\ job' \in [JobId -> JobRow]
         /\ \A k \in JobId : JobKept(k) /\ (k # j => job'[k] = job[k])
         /\ j \in JobId => job'[j].status = st
<1>1. \A k \in JobId : job'[k] = IF k = j THEN [job[k] EXCEPT !.status = st] ELSE job[k]
  BY DEF StoresTyped
<1>2. \A k \in JobId : job[k] \in JobRow
  BY DEF StoresTyped
<1>3. job' \in [JobId -> JobRow]
  BY <1>2, JobRowMarked DEF StoresTyped
<1> QED
  BY <1>1, <1>2, <1>3, JobRowMarked DEF JobKept

Attempted(x, st) == [x EXCEPT !.attempts = @ + 1, !.status = st]
Claimed(x) == [x EXCEPT !.status = "PROCESSING", !.lease = @ + 1]
SameRow(x, y) == /\ y.request = x.request /\ y.target = x.target
                 /\ y.op = x.op /\ y.version = x.version

LEMMA JobRowAttempted ==
  ASSUME NEW x \in JobRow, NEW st \in JobStatus
  PROVE  LET y == Attempted(x, st) IN y \in JobRow /\ y.status = st /\ SameRow(x, y)
<1>1. x.attempts + 1 \in Nat
  BY JobRowTyped
<1>2. \A n \in Nat : [x EXCEPT !.attempts = n, !.status = st] \in JobRow
  BY DEF JobRow, JobStatus
<1> QED
  BY <1>1, <1>2 DEF JobRow, Attempted, SameRow

LEMMA JobRowClaimed ==
  ASSUME NEW x \in JobRow
  PROVE  LET y == Claimed(x) IN y \in JobRow /\ y.status = "PROCESSING" /\ SameRow(x, y)
<1>1. x.lease + 1 \in Nat
  BY JobRowTyped
<1>2. \A n \in Nat : [x EXCEPT !.status = "PROCESSING", !.lease = n] \in JobRow
  BY DEF JobRow
<1> QED
  BY <1>1, <1>2 DEF JobRow, Claimed, SameRow

\* One row replaced by another of the same request, outcome and version.
LEMMA JobReplaced ==
  ASSUME StoresTyped, NEW j \in {0} \cup JobId, NEW y,
         j \in JobId => y \in JobRow /\ SameRow(job[j], y),
         job' = [job EXCEPT ![j] = y]
  PROVE  /\ job' \in [JobId -> JobRow]
         /\ \A k \in JobId : JobKept(k) /\ (k # j => job'[k] = job[k])
         /\ j \in JobId => job'[j] = y
<1>1. \A k \in JobId : job'[k] = IF k = j THEN y ELSE job[k]
  BY DEF StoresTyped
<1>2. \A k \in JobId : job[k] \in JobRow
  BY DEF StoresTyped
<1>3. job' \in [JobId -> JobRow]
  BY <1>2 DEF StoresTyped
<1> QED
  BY <1>1, <1>3 DEF JobKept, SameRow

LEMMA JobAttempted ==
  ASSUME StoresTyped, NEW j \in {0} \cup JobId, job' = AttemptFailed(j)
  PROVE  /\ job' \in [JobId -> JobRow]
         /\ \A k \in JobId : JobKept(k) /\ (k # j => job'[k] = job[k])
         /\ j \in JobId => job'[j].status \in {"FAILED", "PENDING"}
<1> DEFINE st == IF job[j].attempts + 1 >= MaxAttempts THEN "FAILED" ELSE "PENDING"
           y == Attempted(job[j], st)
<1>0. st \in JobStatus /\ st \in {"FAILED", "PENDING"}
  BY DEF JobStatus
<1>1. job' = [job EXCEPT ![j] = y]
  BY DEF AttemptFailed, Attempted
<1> HIDE DEF st
<1>2. j \in JobId => job[j] \in JobRow
  BY DEF StoresTyped
<1>3. j \in JobId => y \in JobRow /\ y.status = st /\ SameRow(job[j], y)
  BY <1>0, <1>2, JobRowAttempted
<1> HIDE DEF y
<1> QED
  BY <1>0, <1>1, <1>3, JobReplaced

LEMMA JobClaimed ==
  ASSUME StoresTyped, NEW j \in JobId,
         job' = [job EXCEPT ![j] = [@ EXCEPT !.status = "PROCESSING", !.lease = job[j].lease + 1]]
  PROVE  /\ job' \in [JobId -> JobRow]
         /\ \A k \in JobId : JobKept(k) /\ (k # j => job'[k] = job[k])
         /\ job'[j].status = "PROCESSING"
<1> DEFINE y == Claimed(job[j])
<1>1. job' = [job EXCEPT ![j] = y]
  BY DEF Claimed
<1>2. job[j] \in JobRow
  BY DEF StoresTyped
<1>3. y \in JobRow /\ y.status = "PROCESSING" /\ SameRow(job[j], y)
  BY <1>2, JobRowClaimed
<1> HIDE DEF y
<1> QED
  BY <1>1, <1>3, JobReplaced

LEMMA SweptIs ==
  ASSUME StoresTyped, NEW r, NEW target, NEW version
  PROVE  LET q == Swept(r, target, version) IN
         /\ q \in [JobId -> JobRow]
         /\ \A k \in JobId : /\ q[k].request = job[k].request /\ q[k].target = job[k].target
                             /\ q[k].op = job[k].op /\ q[k].version = job[k].version
                             /\ q[k].status = IF Stale(k, r, target, version) THEN "SUPERSEDED"
                                              ELSE job[k].status
<1>1. \A k \in JobId : job[k] \in JobRow
  BY DEF StoresTyped
<1>2. "SUPERSEDED" \in JobStatus
  BY DEF JobStatus
<1> QED
  BY <1>1, <1>2, JobRowMarked DEF Swept

\* A row inserted, or one that is there already.
Inserts(q, r, target, op, version) ==
    /\ enqueued' = enqueued + 1 /\ enqueued + 1 \in JobId
    /\ \A k \in JobId : k # enqueued + 1 => job'[k] = q[k]
    /\ job'[enqueued + 1].request = r /\ job'[enqueued + 1].target = target
    /\ job'[enqueued + 1].op = op /\ job'[enqueued + 1].version = version
    /\ job'[enqueued + 1].status = "PENDING"
There(q, r, op) == \E j \in JobId : q[j].request = r /\ q[j].op = op

LEMMA InsertedIs ==
  ASSUME StoresTyped, NEW q \in [JobId -> JobRow], NEW r \in Request, NEW target \in Outcome,
         NEW op \in Operation, NEW version \in Nat, Inserted(q, r, target, op, version)
  PROVE  /\ job' \in [JobId -> JobRow] /\ enqueued' \in 0..MaxJobs
         /\ \/ job' = q /\ enqueued' = enqueued /\ There(q, r, op)
            \/ Inserts(q, r, target, op, version)
<1>1. CASE job' = q /\ UNCHANGED enqueued /\ There(q, r, op)
  BY <1>1 DEF StoresTyped
<1>2. CASE /\ enqueued < MaxJobs /\ enqueued' = enqueued + 1
           /\ job' = [q EXCEPT ![enqueued + 1] =
                      [request |-> r, target |-> target, op |-> op, version |-> version,
                       status |-> "PENDING", attempts |-> 0, lease |-> 0]]
  <2> DEFINE new == [request |-> r, target |-> target, op |-> op, version |-> version,
                     status |-> "PENDING", attempts |-> 0, lease |-> 0]
  <2>1. enqueued + 1 \in JobId /\ enqueued' \in 0..MaxJobs
    BY <1>2, SyncBounds DEF StoresTyped, JobId
  <2>2. /\ new \in JobRow /\ new.request = r /\ new.target = target /\ new.op = op
        /\ new.version = version /\ new.status = "PENDING"
    BY DEF JobRow
  <2> HIDE DEF new
  <2>3. job' = [q EXCEPT ![enqueued + 1] = new]
    BY <1>2 DEF new
  <2>4. job' \in [JobId -> JobRow] /\ job'[enqueued + 1] = new
        /\ \A k \in JobId : k # enqueued + 1 => job'[k] = q[k]
    BY <2>1, <2>2, <2>3
  <2> QED
    BY <1>2, <2>1, <2>2, <2>4 DEF Inserts
<1> QED
  BY <1>1, <1>2 DEF Inserted, There

-----------------------------------------------------------------------------
(* AbsenceSync: the inductive invariant *)

Seen(known, r) == \E i \in DOMAIN known : known[i] = r
\* The one-time workdays an absence has to excuse.
Need(r) == {w \in Workday \ Recurring : <<r, w>> \in Dated /\ <<r, w, 0>> \in Covers}

\* What a row of workday w says, in the table or as somebody read it.
RowFits(w, x) ==
    /\ IF x.status = "JUSTIFIED"
       THEN /\ x.absence \in Request /\ Approved(x.absence)
            /\ \E e \in Edition : <<x.absence, w, e>> \in Covers
       ELSE x.absence = NoRequest
    /\ w \notin Recurring =>
         /\ x.edition = 0 /\ x.status # "NONE"
         /\ x.status = "JUSTIFIED" => <<x.absence, w, 0>> \in Covers
DaysFit == \A w \in Workday : RowFits(w, workday[w])

Listed == \A r \in Request : Approved(r) <=> Seen(approvals, r)

\* Rows are of reviewed requests, of their outcome, and not ahead of them.
JobFits(j) ==
    IF job[j].request = NoRequest THEN job[j].status = "NONE"
    ELSE /\ j <= enqueued
         /\ Ended(job[j].request) /\ request[job[j].request].status = job[j].target
         /\ job[j].version <= request[job[j].request].version
         /\ job[j].op = "APPROVE" => job[j].target = "APPROVED"
JobsFit == \A j \in JobId : JobFits(j)

\* Every reviewed request keeps a row that pursues it.
Pursues(j, r) ==
    /\ job[j].request = r
    /\ job[j].status # "SUPERSEDED" \/ job[j].version < request[r].version
Pursued == \A r \in Request : Ended(r) => \E j \in JobId : Pursues(j, r)

PromisesFit == \A r \in promised : Ended(r)

\* What a call knows of its request and of its row.
Remembers(l) ==
    /\ lane[l].step \in {"context", "write"} => lane[l].kind \in Runs
    /\ lane[l].kind \in {"approve", "auto"} => lane[l].req \in Request /\ Approved(lane[l].req)
    /\ lane[l].kind = "revoke" \/ lane[l].step = "sweep" =>
         lane[l].req \in Request /\ Ended(lane[l].req) /\ ~Approved(lane[l].req)
    /\ lane[l].kind = "job" =>
         /\ lane[l].job \in JobId /\ lane[l].req \in Request
         /\ job[lane[l].job].request = lane[l].req
         /\ lane[l].step = "read" => lane[l].version = job[lane[l].job].version
         /\ lane[l].step = "drop" => job[lane[l].job].version < request[lane[l].req].version
    /\ lane[l].kind = "manual" =>
         /\ lane[l].req \in Request /\ Ended(lane[l].req)
         /\ lane[l].version <= request[lane[l].req].version
         /\ \E j \in JobId : /\ job[j].request = lane[l].req
                             /\ job[j].version <= lane[l].version
    /\ lane[l].kind = "edit" => lane[l].req \in Request
    /\ lane[l].kind \in Inline /\ lane[l].step \in {"close", "giveup"} =>
         lane[l].job \in JobId /\ job[lane[l].job].request = lane[l].req
    /\ lane[l].kind = "auto" =>
         \A j \in JobId : job[j].request = lane[l].req => job[j].op # "APPROVE"

\* The days as it loaded them, and the absences and the attendance it read.
Heard(l) == lane[l].step = "context" /\ "approved" \notin lane[l].left
RowsFit(l) ==
    \A x \in lane[l].rows :
        /\ RowFits(x.day, x.row)
        /\ x.day \notin Recurring /\ x.row.status = "JUSTIFIED"
             => workday[x.day].status = "JUSTIFIED"
        /\ Heard(l) /\ x.row.status = "JUSTIFIED" => Seen(lane[l].known, x.row.absence)
KnownFit(l) ==
    /\ \A i \in DOMAIN lane[l].known : Approved(lane[l].known[i])
    /\ Heard(l) /\ lane[l].kind \in Inline \cup {"job"} /\ Approved(lane[l].req)
         => Seen(lane[l].known, lane[l].req)
    /\ lane[l].present \subseteq punched

\* A change it decided on is one the table may take at any time.
TodoFits(d) ==
    /\ d.op \in {"justify", "relink"} =>
         /\ d.to \in Request /\ Approved(d.to)
         /\ \E e \in Edition : <<d.to, d.day, e>> \in Covers
         /\ d.day \notin Recurring => <<d.to, d.day, 0>> \in Covers
    /\ d.op = "restore" => d.to = NoRequest /\ d.day \in Recurring
TodoFit(l) == \A d \in lane[l].todo : TodoFits(d)

\* How far the days its request has to excuse are.
Justifies(d, w) == d.op = "justify" /\ d.day = w
Finished == {"fence", "impact", "check", "mark", "sweep", "look", "close"}
Advances(l) ==
    lane[l].kind \in Inline \cup {"job"} /\ Approved(lane[l].req) =>
    \A w \in Need(lane[l].req) :
        /\ lane[l].step = "context" => \E x \in lane[l].rows : x.day = w
        /\ lane[l].step = "write" => Excused(w) \/ \E d \in lane[l].todo : Justifies(d, w)
        /\ lane[l].step \in Finished => Excused(w)

\* How far the conflicts it has to raise are.
Raised(r, w) == <<"ASSIGNMENT", r, w>>
Announces(l) ==
    Integrated /\ lane[l].kind \in {"approve", "job"} /\ Approved(lane[l].req) =>
    \A w \in Need(lane[l].req) :
        /\ lane[l].step \in {"check", "mark"} =>
             Raised(lane[l].req, w) \in lane[l].marks \cup conflict
        /\ lane[l].step \in {"look", "close"} => Raised(lane[l].req, w) \in conflict

CallFits(l) ==
    Remembers(l) /\ RowsFit(l) /\ KnownFit(l) /\ TodoFit(l) /\ Advances(l) /\ Announces(l)
CallsFit == \A l \in Runner : CallFits(l)
StoresFit ==
    DaysFit /\ Listed /\ JobsFit /\ Pursued /\ PromisesFit /\ ClosedMeansReconciled
SyncInv == StoresTyped /\ LanesTyped /\ StoresFit /\ CallsFit

-----------------------------------------------------------------------------
(* What every step leaves standing *)

ReviewsStand ==
    \A r \in Request : /\ Ended(r) => request'[r].status = request[r].status
                       /\ request[r].version <= request'[r].version
RowsStand ==
    \A j \in JobId : job[j].request # NoRequest => JobKept(j)
NewRows ==
    \A j \in JobId : job'[j].request # NoRequest =>
        JobKept(j) \/ (job'[j].op = "APPROVE" => ~Ended(job'[j].request))
DaysStand ==
    /\ \A w \in Workday \ Recurring : workday[w].status = "JUSTIFIED"
                                        => workday'[w].status = "JUSTIFIED"
    /\ punched \subseteq punched'
MarksStand ==
    \A r \in Request, w \in Workday :
        Approved(r) /\ Raised(r, w) \in conflict => Raised(r, w) \in conflict'
Grows == ReviewsStand /\ RowsStand /\ NewRows /\ DaysStand /\ MarksStand

LEMMA EndedStands ==
  ASSUME ReviewsStand, NEW r \in Request, Ended(r)
  PROVE  Ended(r)' /\ (Approved(r)' <=> Approved(r))
BY DEF ReviewsStand, Ended, Approved

LEMMA ApprovedStands ==
  ASSUME ReviewsStand, NEW r \in Request, Approved(r)
  PROVE  Approved(r)' /\ Ended(r)
BY DEF ReviewsStand, Ended, Approved, Outcome

LEMMA RowStands ==
  ASSUME ReviewsStand, NEW w, NEW x, RowFits(w, x)
  PROVE  RowFits(w, x)'
BY ApprovedStands DEF RowFits

LEMMA DeltaStands ==
  ASSUME ReviewsStand, NEW d, TodoFits(d)
  PROVE  TodoFits(d)'
BY ApprovedStands DEF TodoFits

LEMMA ExcusedStands ==
  ASSUME DaysStand, NEW w \in Workday \ Recurring, Excused(w)
  PROVE  Excused(w)'
BY DEF DaysStand, Excused

\* The request of an inline run or of a job is reviewed.
LEMMA CallReviewed ==
  ASSUME JobsFit, NEW k \in Runner, Remembers(k), lane[k].kind \in Inline \cup {"job"}
  PROVE  lane[k].req \in Request /\ Ended(lane[k].req)
<1>1. CASE lane[k].kind \in {"approve", "auto"}
  BY <1>1 DEF Remembers, Approved, Ended, Outcome
<1>2. CASE lane[k].kind = "revoke"
  BY <1>2 DEF Remembers
<1>3. CASE lane[k].kind = "job"
  BY <1>3, SyncBounds DEF Remembers, JobsFit, JobFits
<1> QED
  BY <1>1, <1>2, <1>3 DEF Inline

\* A call goes on for the same request, and what its next step relies on is so.
SameWho(c, d) ==
    /\ d.kind = c.kind /\ d.req = c.req
    /\ c.kind = "manual" => d.version = c.version
    /\ c.kind = "job" => d.job = c.job
Expects(c, d) ==
    /\ d.step \in {"context", "write"} => c.kind \in Runs
    /\ d.step = "sweep" => c.req \in Request /\ Ended(c.req) /\ ~Approved(c.req)
    /\ c.kind = "job" /\ d.step = "read" => d.version = job[c.job].version
    /\ c.kind = "job" /\ d.step = "drop" => job[c.job].version < request[c.req].version
    /\ c.kind \in Inline /\ d.step \in {"close", "giveup"} =>
         d.job \in JobId /\ job[d.job].request = c.req

LEMMA RemembersOn ==
  ASSUME StoresTyped, StoresTyped', LanesTyped, LanesTyped', Grows, NEW k \in Runner, Remembers(k),
         NEW c, NEW d, c = lane[k], d = lane'[k], SameWho(c, d), Expects(c, d)
  PROVE  Remembers(k)'
<1>1. ReviewsStand /\ RowsStand /\ NewRows
  BY DEF Grows
<1>2. \A r \in Request : /\ request[r].version \in Nat /\ request'[r].version \in Nat
                         /\ request[r].version <= request'[r].version
  BY <1>1 DEF ReviewsStand, StoresTyped, RequestRow
<1>3. \A j \in JobId : job[j].version \in Nat /\ job'[j].version \in Nat
  BY JobRowTyped DEF StoresTyped
<1>4. c.version \in Nat
  BY CallTyped DEF CallFields
<1>5. NoRequest \notin Request
  BY SyncBounds
<1>6. d.kind = c.kind /\ d.req = c.req
  BY DEF SameWho
<1>7. d.step = "sweep" => c.req \in Request /\ Ended(c.req)' /\ ~ Approved(c.req)'
  BY <1>1, EndedStands DEF Expects
<1>8. d.step \in {"context", "write"} => d.kind \in Runs
  BY <1>6 DEF Expects
<1>9. CASE c.kind \in {"approve", "auto", "revoke"}
  <2>1. c.req \in Request /\ Ended(c.req)
    BY <1>1, <1>9, ApprovedStands DEF Remembers
  <2>2. Ended(c.req)' /\ (Approved(c.req)' <=> Approved(c.req))
    BY <1>1, <2>1, EndedStands
  <2>3. d.step \in {"close", "giveup"} => d.job \in JobId /\ job'[d.job].request = c.req
    BY <1>1, <1>5, <1>9, <2>1 DEF Expects, RowsStand, JobKept, Inline
  <2>4. c.kind = "auto" => \A j \in JobId : job'[j].request = c.req => job'[j].op # "APPROVE"
    BY <1>1, <1>5, <2>1, <2>2 DEF Remembers, NewRows, JobKept, Ended
  <2>5. /\ c.kind \in {"approve", "auto"} => Approved(c.req)
        /\ c.kind = "revoke" => ~ Approved(c.req)
    BY <1>9 DEF Remembers
  <2> QED
    BY <1>6, <1>7, <1>8, <1>9, <2>1, <2>2, <2>3, <2>4, <2>5 DEF Remembers, Inline
<1>10. CASE c.kind = "job"
  <2>1. c.job \in JobId /\ c.req \in Request /\ job[c.job].request = c.req /\ d.job = c.job
    BY <1>10 DEF Remembers, SameWho
  <2>2. JobKept(c.job)
    BY <1>1, <1>5, <2>1 DEF RowsStand
  <2>3. d.step = "drop" => job'[c.job].version < request'[c.req].version
    BY <1>2, <1>3, <1>10, <2>1, <2>2 DEF Expects, JobKept
  <2>4. d.step = "read" => d.version = job'[c.job].version
    BY <1>10, <2>1, <2>2 DEF Expects, JobKept
  <2>5. job'[c.job].request = c.req
    BY <2>1, <2>2 DEF JobKept
  <2> QED
    BY <1>6, <1>7, <1>8, <1>10, <2>1, <2>3, <2>4, <2>5 DEF Remembers, Inline
<1>11. CASE c.kind = "manual"
  <2>1. c.req \in Request /\ Ended(c.req) /\ d.version = c.version
    BY <1>11 DEF Remembers, SameWho
  <2>2. Ended(c.req)'
    BY <1>1, <2>1, EndedStands
  <2>3. PICK j \in JobId : job[j].request = c.req /\ job[j].version <= c.version
    BY <1>11 DEF Remembers
  <2>4. job'[j].request = c.req /\ job'[j].version <= c.version
    BY <1>1, <1>5, <2>1, <2>3 DEF RowsStand, JobKept
  <2>5. c.version <= request[c.req].version
    BY <1>11 DEF Remembers
  <2>6. c.version <= request'[c.req].version
    BY <1>2, <1>4, <2>1, <2>5
  <2> QED
    BY <1>6, <1>7, <1>8, <1>11, <2>1, <2>2, <2>4, <2>6 DEF Remembers, Inline
<1>12. CASE c.kind \notin {"approve", "auto", "revoke", "job", "manual"}
  <2>1. c.kind = "edit" => c.req \in Request
    BY DEF Remembers
  <2> QED
    BY <1>6, <1>7, <1>8, <1>12, <2>1 DEF Remembers, Inline
<1> QED
  BY <1>9, <1>10, <1>11, <1>12

\* A call that the step does not move still fits.
LEMMA RemembersStands ==
  ASSUME StoresTyped, StoresTyped', LanesTyped, LanesTyped', Grows,
         NEW k \in Runner, lane'[k] = lane[k], Remembers(k)
  PROVE  Remembers(k)'
<1> DEFINE c == lane[k]
<1>1. SameWho(c, c)
  BY DEF SameWho
<1>2. Expects(c, c)
  BY DEF Remembers, Expects, Inline
<1>3. c = lane[k] /\ c = lane'[k]
  OBVIOUS
<1> HIDE DEF c
<1> QED
  BY <1>1, <1>2, <1>3, RemembersOn

LEMMA RowsFitStands ==
  ASSUME LanesTyped, Grows, NEW k \in Runner, lane'[k] = lane[k], RowsFit(k)
  PROVE  RowsFit(k)'
<1>1. ASSUME NEW x \in lane[k].rows
      PROVE  /\ RowFits(x.day, x.row)'
             /\ x.day \notin Recurring /\ x.row.status = "JUSTIFIED"
                  => workday'[x.day].status = "JUSTIFIED"
             /\ Heard(k) /\ x.row.status = "JUSTIFIED" => Seen(lane[k].known, x.row.absence)
  <2>1. RowFits(x.day, x.row)'
    BY RowStands DEF RowsFit, Grows
  <2>2. x.day \in Workday
    BY CallTyped, LoadedTyped DEF CallFields
  <2> QED
    BY <2>1, <2>2 DEF RowsFit, Heard, Grows, DaysStand
<1> QED
  BY <1>1 DEF RowsFit, Heard

LEMMA KnownFitStands ==
  ASSUME LanesTyped, JobsFit, Grows, NEW k \in Runner, lane'[k] = lane[k],
         Remembers(k), KnownFit(k)
  PROVE  KnownFit(k)'
<1>1. \A i \in DOMAIN lane[k].known : lane[k].known[i] \in Request
  BY CallTyped DEF CallFields
<1>2. \A i \in DOMAIN lane[k].known : Approved(lane[k].known[i])'
  BY <1>1, ApprovedStands DEF KnownFit, Grows
<1>3. lane[k].present \subseteq punched'
  BY DEF KnownFit, Grows, DaysStand
<1>4. lane[k].kind \in Inline \cup {"job"} /\ Approved(lane[k].req)' => Approved(lane[k].req)
  BY CallReviewed, EndedStands DEF Grows
<1> QED
  BY <1>2, <1>3, <1>4 DEF KnownFit, Heard

LEMMA TodoFitStands ==
  ASSUME Grows, NEW k \in Runner, lane'[k] = lane[k], TodoFit(k)
  PROVE  TodoFit(k)'
BY DeltaStands DEF TodoFit, Grows

LEMMA AdvancesStands ==
  ASSUME LanesTyped, JobsFit, Grows, NEW k \in Runner, lane'[k] = lane[k],
         Remembers(k), Advances(k)
  PROVE  Advances(k)'
<1>1. lane[k].kind \in Inline \cup {"job"} /\ Approved(lane[k].req)' => Approved(lane[k].req)
  BY CallReviewed, EndedStands DEF Grows
<1>2. \A w \in Need(lane[k].req) : Excused(w) => Excused(w)'
  BY ExcusedStands DEF Grows, Need
<1> QED
  BY <1>1, <1>2 DEF Advances

LEMMA AnnouncesStands ==
  ASSUME LanesTyped, JobsFit, Grows, NEW k \in Runner, lane'[k] = lane[k],
         Remembers(k), Announces(k)
  PROVE  Announces(k)'
<1>1. lane[k].kind \in {"approve", "job"} /\ Approved(lane[k].req)'
        => lane[k].req \in Request /\ Approved(lane[k].req)
  BY CallReviewed, EndedStands DEF Grows, Inline
<1>2. ASSUME NEW w \in Need(lane[k].req), lane[k].req \in Request, Approved(lane[k].req),
             Raised(lane[k].req, w) \in conflict
      PROVE  Raised(lane[k].req, w) \in conflict'
  BY <1>2 DEF Need, Grows, MarksStand
<1> QED
  BY <1>1, <1>2 DEF Announces

LEMMA CallStands ==
  ASSUME StoresTyped, StoresTyped', LanesTyped, LanesTyped', JobsFit, Grows,
         NEW k \in Runner, lane'[k] = lane[k], CallFits(k)
  PROVE  CallFits(k)'
BY RemembersStands, RowsFitStands, KnownFitStands, TodoFitStands, AdvancesStands,
   AnnouncesStands DEF CallFits

\* A call that is over relies on nothing.
LEMMA OverFits ==
  ASSUME NEW k \in Runner, Over(k)
  PROVE  CallFits(k)'
<1>1. /\ lane'[k].kind = "idle" /\ lane'[k].step = "idle" /\ lane'[k].rows = {}
      /\ lane'[k].known = <<>> /\ lane'[k].present = {} /\ lane'[k].todo = {}
  BY NoCallTyped DEF Over
<1>2. Remembers(k)'
  BY <1>1 DEF Remembers, Inline
<1>3. RowsFit(k)' /\ TodoFit(k)'
  BY <1>1 DEF RowsFit, TodoFit
<1>4. KnownFit(k)'
  <2>1. \A i : i \notin DOMAIN <<>>
    OBVIOUS
  <2>2. \A i : i \notin DOMAIN lane'[k].known
    BY <1>1, <2>1
  <2> QED
    BY <1>1, <2>2 DEF KnownFit, Heard
<1>5. Advances(k)' /\ Announces(k)'
  BY <1>1 DEF Advances, Announces, Inline
<1> QED
  BY <1>2, <1>3, <1>4, <1>5 DEF CallFits

\* One call moves and the others stand.
LEMMA StepFits ==
  ASSUME SyncInv, StoresTyped', LanesTyped', StoresFit', Grows,
         NEW l \in Runner, Others(l), CallFits(l)'
  PROVE  SyncInv'
<1>1. ASSUME NEW k \in Runner PROVE CallFits(k)'
  BY CallStands DEF SyncInv, StoresFit, CallsFit, Others
<1> QED
  BY <1>1 DEF SyncInv, CallsFit

LEMMA StoresStep ==
  ASSUME SyncInv, StoresTyped', StoresFit', Grows, UNCHANGED lane
  PROVE  SyncInv'
<1>1. LanesTyped'
  BY DEF SyncInv, LanesTyped
<1>2. ASSUME NEW k \in Runner PROVE CallFits(k)'
  BY <1>1, CallStands DEF SyncInv, StoresFit, CallsFit
<1> QED
  BY <1>1, <1>2 DEF SyncInv, CallsFit

-----------------------------------------------------------------------------
(* What the stores keep saying *)

LEMMA PromisesStand ==
  ASSUME StoresTyped, PromisesFit, ReviewsStand, NEW r \in Request, Ended(r),
         promised' = promised \/ promised' = promised \cup {r}
  PROVE  PromisesFit'
BY EndedStands DEF PromisesFit, StoresTyped

LEMMA PromisesKept ==
  ASSUME StoresTyped, PromisesFit, ReviewsStand, UNCHANGED promised
  PROVE  PromisesFit'
BY EndedStands DEF PromisesFit, StoresTyped

LEMMA DaysKept ==
  ASSUME DaysFit, ReviewsStand, UNCHANGED workday
  PROVE  DaysFit'
BY RowStands DEF DaysFit

LEMMA ListedKept ==
  ASSUME Listed, UNCHANGED <<request, approvals>>
  PROVE  Listed'
BY DEF Listed, Approved, Seen

\* No row is closed by the step.
NoneCloses ==
    \A j \in JobId : job'[j].status = "COMPLETED" => job[j].status = "COMPLETED"

LEMMA ClosedStands ==
  ASSUME StoresTyped, JobsFit, Grows, NoneCloses, ClosedMeansReconciled
  PROVE  ClosedMeansReconciled'
<1>1. ASSUME NEW j \in JobId, job'[j].status = "COMPLETED"
      PROVE  /\ JobKept(j) /\ job[j].status = "COMPLETED" /\ job[j].request \in Request
             /\ job[j].op = "APPROVE" => Approved(job[j].request)
  <2>1. job[j].status = "COMPLETED" /\ job[j].request \in Request \cup {NoRequest}
    BY <1>1, JobRowTyped DEF NoneCloses, StoresTyped
  <2>2. job[j].request # NoRequest
    BY <2>1 DEF JobsFit, JobFits
  <2> QED
    BY <2>1, <2>2 DEF JobsFit, JobFits, Grows, RowsStand, Approved
<1>2. CompletedMeansReconciled'
  <2>1. ASSUME NEW j \in JobId, NEW w \in Workday \ Recurring,
               job'[j].status = "COMPLETED", job'[j].target = "APPROVED",
               <<job'[j].request, w>> \in Dated, <<job'[j].request, w, 0>> \in Covers
        PROVE  workday'[w].status = "JUSTIFIED" \/ w \in punched'
    <3>1. workday[w].status = "JUSTIFIED" \/ w \in punched
      BY <1>1, <2>1 DEF ClosedMeansReconciled, CompletedMeansReconciled, JobKept
    <3> QED
      BY <3>1 DEF Grows, DaysStand
  <2> QED
    BY <2>1 DEF CompletedMeansReconciled
<1>3. CompletedMeansAnnounced'
  <2>1. ASSUME NEW j \in JobId, NEW w \in Workday \ Recurring, Integrated,
               job'[j].op = "APPROVE", job'[j].status = "COMPLETED",
               <<job'[j].request, w>> \in Dated, <<job'[j].request, w, 0>> \in Covers
        PROVE  <<"ASSIGNMENT", job'[j].request, w>> \in conflict'
    <3>1. <<"ASSIGNMENT", job[j].request, w>> \in conflict
      BY <1>1, <2>1 DEF ClosedMeansReconciled, CompletedMeansAnnounced, JobKept
    <3> QED
      BY <1>1, <2>1, <3>1 DEF Grows, MarksStand, JobKept, Raised
  <2> QED
    BY <2>1 DEF CompletedMeansAnnounced
<1> QED
  BY <1>2, <1>3 DEF ClosedMeansReconciled

Quiet == UNCHANGED <<request, approvals, job, enqueued, workday, punched, conflict>>

LEMMA QuietGrows ==
  ASSUME StoresTyped, Quiet
  PROVE  Grows /\ NoneCloses
<1>1. \A r \in Request : request[r].version \in Nat
  BY DEF StoresTyped, RequestRow
<1>2. ReviewsStand
  BY <1>1 DEF Quiet, ReviewsStand
<1>3. RowsStand /\ NewRows /\ NoneCloses
  BY DEF Quiet, RowsStand, NewRows, JobKept, NoneCloses
<1>4. DaysStand /\ MarksStand
  BY DEF Quiet, DaysStand, MarksStand
<1> QED
  BY <1>2, <1>3, <1>4 DEF Grows

LEMMA QuietFits ==
  ASSUME StoresTyped, StoresFit, Quiet, PromisesFit'
  PROVE  StoresFit' /\ Grows
<1>1. Grows /\ NoneCloses
  BY QuietGrows
<1>2. DaysFit' /\ Listed'
  BY <1>1, DaysKept, ListedKept DEF StoresFit, Grows, Quiet
<1>3. JobsFit' /\ Pursued'
  BY DEF StoresFit, Quiet, JobsFit, JobFits, Pursued, Pursues, Ended
<1>4. ClosedMeansReconciled'
  BY <1>1, ClosedStands DEF StoresFit
<1> QED
  BY <1>1, <1>2, <1>3, <1>4 DEF StoresFit

\* One row of a reviewed request changes its status.
LEMMA RowMoves ==
  ASSUME StoresTyped, StoresFit, NEW j \in JobId, job[j].status # "NONE",
         \A k \in JobId : JobKept(k) /\ (k # j => job'[k] = job[k]),
         job'[j].status = "SUPERSEDED" => job[j].version < request[job[j].request].version,
         UNCHANGED <<request, approvals, enqueued, workday, punched, conflict>>
  PROVE  DaysFit' /\ Listed' /\ JobsFit' /\ Pursued' /\ Grows
<1>1. \A r \in Request : request[r].version \in Nat
  BY DEF StoresTyped, RequestRow
<1>2. ReviewsStand
  BY <1>1 DEF ReviewsStand
<1>3. Grows
  <2>1. RowsStand /\ NewRows
    BY DEF RowsStand, NewRows
  <2>2. DaysStand /\ MarksStand
    BY DEF DaysStand, MarksStand
  <2> QED
    BY <1>2, <2>1, <2>2 DEF Grows
<1>4. DaysFit' /\ Listed'
  BY <1>2, DaysKept, ListedKept DEF StoresFit
<1>5. job[j].request # NoRequest
  BY DEF StoresFit, JobsFit, JobFits
<1>6. ASSUME NEW k \in JobId PROVE JobFits(k)'
  <2>1. JobFits(k)
    BY DEF StoresFit, JobsFit
  <2>2. job'[k].request = NoRequest => job'[k].status = "NONE"
    BY <1>5, <2>1 DEF JobFits, JobKept
  <2> QED
    BY <2>1, <2>2 DEF JobFits, JobKept, Ended
<1>7. ASSUME NEW r \in Request, Ended(r)' PROVE \E k \in JobId : Pursues(k, r)'
  <2>1. PICK k \in JobId : Pursues(k, r)
    BY <1>7 DEF StoresFit, Pursued, Ended
  <2>2. Pursues(k, r)'
    BY <2>1 DEF Pursues, JobKept
  <2> QED
    BY <2>2
<1> QED
  BY <1>3, <1>4, <1>6, <1>7 DEF JobsFit, Pursued

-----------------------------------------------------------------------------
(* The queue *)

\* Nothing is swept when no row is of the request.
LEMMA SweptNone ==
  ASSUME StoresTyped, NEW r, NEW target, NEW version,
         \A k \in JobId : job[k].request # r
  PROVE  Swept(r, target, version) = job
<1>1. \A k \in JobId : ~ Stale(k, r, target, version)
  BY DEF Stale
<1> QED
  BY <1>1 DEF Swept, StoresTyped

LEMMA FreshEnqueue ==
  ASSUME StoresTyped, JobsFit, NEW r \in Request, ~ Ended(r), NEW target \in Outcome,
         NEW op \in Operation, NEW version \in Nat, Enqueue(r, target, op, version)
  PROVE  /\ job' \in [JobId -> JobRow] /\ enqueued' \in 0..MaxJobs
         /\ Inserts(job, r, target, op, version)
<1>1. \A k \in JobId : job[k].request # r
  BY SyncBounds DEF JobsFit, JobFits
<1>2. Inserted(job, r, target, op, version)
  BY <1>1, SweptNone DEF Enqueue
<1>3. job \in [JobId -> JobRow]
  BY DEF StoresTyped
<1>4. ~ There(job, r, op)
  BY <1>1 DEF There
<1> QED
  BY <1>2, <1>3, <1>4, InsertedIs

\* The new row stands after all the others.
LEMMA InsertStands ==
  ASSUME StoresTyped, JobsFit, NEW r, NEW target, NEW op, NEW version,
         Inserts(job, r, target, op, version), op = "APPROVE" => ~ Ended(r)
  PROVE  /\ RowsStand /\ NewRows /\ NoneCloses
         /\ \A k \in JobId : k # enqueued + 1 => job'[k] = job[k] /\ JobKept(k)
         /\ job[enqueued + 1].request = NoRequest
<1>1. job[enqueued + 1].request = NoRequest
  <2>1. enqueued \in Nat /\ enqueued + 1 \in JobId /\ ~ (enqueued + 1 <= enqueued)
    BY SyncBounds DEF Inserts, StoresTyped
  <2> QED
    BY <2>1 DEF JobsFit, JobFits
<1>2. \A k \in JobId : k # enqueued + 1 => job'[k] = job[k] /\ JobKept(k)
  BY DEF Inserts, JobKept
<1>3. RowsStand
  BY <1>1, <1>2 DEF RowsStand
<1>4. NewRows
  BY <1>2 DEF NewRows, Inserts
<1>5. NoneCloses
  BY <1>2 DEF NoneCloses, Inserts
<1> QED
  BY <1>1, <1>2, <1>3, <1>4, <1>5

LEMMA SeenAppended ==
  ASSUME NEW known \in Seq(Request), NEW r \in Request, NEW s
  PROVE  Seen(Append(known, r), s) <=> Seen(known, s) \/ s = r
<1>1. /\ Len(known) \in Nat /\ DOMAIN known = 1..Len(known)
      /\ DOMAIN Append(known, r) = 1..(Len(known) + 1)
      /\ \A i \in 1..Len(known) : Append(known, r)[i] = known[i]
      /\ Append(known, r)[Len(known) + 1] = r
  OBVIOUS
<1>2. \A i \in 1..(Len(known) + 1) : i \in 1..Len(known) \/ i = Len(known) + 1
  BY <1>1
<1>3. Len(known) + 1 \in 1..(Len(known) + 1) /\ 1..Len(known) \subseteq 1..(Len(known) + 1)
  BY <1>1
<1> QED
  BY <1>1, <1>2, <1>3 DEF Seen

\* A request is reviewed and its job enqueued.
Reviews(r, target, op) ==
    /\ r \in Request /\ ~ Ended(r) /\ target \in Outcome /\ op \in Operation
    /\ op = "APPROVE" => target = "APPROVED"
    /\ request' = [request EXCEPT ![r].status = target]
    /\ Enqueue(r, target, op, request[r].version)
    /\ approvals' = IF target = "APPROVED" THEN Append(approvals, r) ELSE approvals
    /\ UNCHANGED <<Days, promised, syncFaults>>

LEMMA RequestRowTyped ==
  ASSUME StoresTyped, NEW r \in Request
  PROVE  /\ request[r] \in RequestRow
         /\ request[r].version \in Nat /\ request[r].status \in RequestStatus
BY DEF StoresTyped, RequestRow, RequestStatus

LEMMA RequestMarked ==
  ASSUME StoresTyped, NEW r \in Request, NEW st \in RequestStatus,
         request' = [request EXCEPT ![r].status = st]
  PROVE  /\ request' \in [Request -> RequestRow]
         /\ \A s \in Request : /\ request'[s].version = request[s].version
                               /\ s # r => request'[s] = request[s]
         /\ request'[r].status = st
<1>1. ASSUME NEW x \in RequestRow
      PROVE  LET y == [x EXCEPT !.status = st] IN
             y \in RequestRow /\ y.status = st /\ y.version = x.version
  BY DEF RequestRow, RequestStatus
<1>2. request \in [Request -> RequestRow]
  BY DEF StoresTyped
<1> QED
  BY <1>1, <1>2

LEMMA ReviewsTyped ==
  ASSUME StoresTyped, JobsFit, NEW r, NEW target, NEW op, Reviews(r, target, op)
  PROVE  /\ StoresTyped' /\ Inserts(job, r, target, op, request[r].version)
         /\ \A s \in Request : /\ request'[s].version = request[s].version
                               /\ s # r => request'[s] = request[s]
         /\ request'[r].status = target
<1>1. request[r].version \in Nat /\ target \in RequestStatus
  BY RequestRowTyped DEF Reviews, RequestStatus
<1>2. /\ job' \in [JobId -> JobRow] /\ enqueued' \in 0..MaxJobs
      /\ Inserts(job, r, target, op, request[r].version)
  BY <1>1, FreshEnqueue DEF Reviews
<1>3. /\ request' \in [Request -> RequestRow]
      /\ \A s \in Request : /\ request'[s].version = request[s].version
                            /\ s # r => request'[s] = request[s]
      /\ request'[r].status = target
  BY <1>1, RequestMarked DEF Reviews
<1>4. approvals' \in Seq(Request)
  BY DEF Reviews, StoresTyped
<1> QED
  BY <1>2, <1>3, <1>4 DEF StoresTyped, Reviews, Days

LEMMA ReviewsFit ==
  ASSUME StoresTyped, StoresFit, NEW r, NEW target, NEW op, Reviews(r, target, op)
  PROVE  StoresTyped' /\ StoresFit' /\ Grows
<1>1. /\ StoresTyped' /\ Inserts(job, r, target, op, request[r].version)
      /\ \A s \in Request : /\ request'[s].version = request[s].version
                            /\ s # r => request'[s] = request[s]
      /\ request'[r].status = target
  BY ReviewsTyped DEF StoresFit
<1>2. r \in Request /\ ~ Ended(r) /\ target \in Outcome
  BY DEF Reviews
<1>3. /\ RowsStand /\ NewRows /\ NoneCloses
      /\ \A k \in JobId : k # enqueued + 1 => job'[k] = job[k] /\ JobKept(k)
      /\ job[enqueued + 1].request = NoRequest
  BY <1>1, <1>2, InsertStands DEF StoresFit
<1>4. ReviewsStand
  BY <1>1, <1>2, RequestRowTyped DEF ReviewsStand
<1>5. DaysStand /\ MarksStand
  BY DEF Reviews, Days, DaysStand, MarksStand
<1>6. Grows
  BY <1>3, <1>4, <1>5 DEF Grows
<1>7. DaysFit'
  BY <1>4, DaysKept DEF StoresFit, Reviews, Days
<1>8. ASSUME NEW s \in Request PROVE Approved(s)' <=> Seen(approvals', s)
  <2>1. Approved(s) <=> Seen(approvals, s)
    BY DEF StoresFit, Listed
  <2>2. Seen(Append(approvals, r), s) <=> Seen(approvals, s) \/ s = r
    BY <1>2, SeenAppended DEF StoresTyped
  <2>3. s # r => (Approved(s)' <=> Approved(s))
    BY <1>1 DEF Approved
  <2>4. ~ Approved(r) /\ (Approved(r)' <=> target = "APPROVED")
    BY <1>1, <1>2 DEF Approved, Ended, Outcome
  <2> QED
    BY <2>1, <2>2, <2>3, <2>4 DEF Reviews
<1>9. ASSUME NEW k \in JobId PROVE JobFits(k)'
  <2>1. CASE k = enqueued + 1
    <3>1. k <= enqueued' /\ Ended(r)'
      BY <1>1, <1>2, <2>1, SyncBounds DEF Inserts, Ended, StoresTyped
    <3>2. request'[r].version \in Nat /\ r # NoRequest
      BY <1>1, <1>2, RequestRowTyped, SyncBounds
    <3>3. job'[k].version <= request'[r].version
      BY <1>1, <1>2, <2>1, <3>2 DEF Inserts
    <3> QED
      BY <1>1, <1>2, <2>1, <3>1, <3>2, <3>3 DEF Inserts, JobFits, Reviews
  <2>2. CASE k # enqueued + 1
    <3>1. JobFits(k) /\ job'[k] = job[k]
      BY <1>3, <2>2 DEF StoresFit, JobsFit
    <3>2. k <= enqueued => k <= enqueued'
      BY <1>1, SyncBounds DEF Inserts, StoresTyped
    <3>3. job[k].request # NoRequest => /\ job[k].request \in Request
                                        /\ job[k].request # r /\ Ended(job[k].request)
      BY <1>2, <3>1, JobRowTyped DEF JobFits, StoresTyped
    <3> QED
      BY <1>1, <3>1, <3>2, <3>3 DEF JobFits, Ended
  <2> QED
    BY <2>1, <2>2
<1>10. ASSUME NEW s \in Request, Ended(s)' PROVE \E k \in JobId : Pursues(k, s)'
  <2>1. CASE s = r
    <3>1. PICK k \in JobId : k = enqueued + 1
      BY <1>1 DEF Inserts
    <3>2. Pursues(k, s)'
      BY <1>1, <2>1, <3>1 DEF Inserts, Pursues
    <3> QED
      BY <3>2
  <2>2. CASE s # r
    <3>1. PICK k \in JobId : Pursues(k, s)
      BY <1>1, <1>10, <2>2 DEF StoresFit, Pursued, Ended
    <3>2. job'[k] = job[k]
      BY <1>3, <3>1, SyncBounds DEF Pursues
    <3>3. Pursues(k, s)'
      BY <1>1, <2>2, <3>1, <3>2 DEF Pursues
    <3> QED
      BY <3>3
  <2> QED
    BY <2>1, <2>2
<1>11. PromisesFit'
  BY <1>4, PromisesKept DEF StoresFit, Reviews
<1>12. ClosedMeansReconciled'
  BY <1>3, <1>6, ClosedStands DEF StoresFit
<1> QED
  BY <1>1, <1>6, <1>7, <1>8, <1>9, <1>10, <1>11, <1>12 DEF StoresFit, Listed, JobsFit, Pursued

-----------------------------------------------------------------------------
(* Requests, workdays and conflicts *)

\* No review ends or starts; versions may grow.
LEMMA RequestMoves ==
  ASSUME StoresTyped, StoresFit, StoresTyped',
         \A r \in Request : /\ Ended(r)' <=> Ended(r)
                            /\ Ended(r) => request'[r].status = request[r].status
                            /\ request[r].version <= request'[r].version,
         UNCHANGED <<approvals, job, enqueued, workday, punched, conflict, promised>>
  PROVE  StoresFit' /\ Grows
<1>1. ReviewsStand
  BY DEF ReviewsStand
<1>2. RowsStand /\ NewRows /\ NoneCloses
  BY DEF RowsStand, NewRows, JobKept, NoneCloses
<1>3. DaysStand /\ MarksStand
  BY DEF DaysStand, MarksStand
<1>4. Grows
  BY <1>1, <1>2, <1>3 DEF Grows
<1>5. DaysFit' /\ PromisesFit'
  BY <1>1, DaysKept, PromisesKept DEF StoresFit
<1>6. ASSUME NEW r \in Request PROVE Approved(r)' <=> Seen(approvals', r)
  <2>1. Approved(r)' <=> Approved(r)
    BY DEF Approved, Ended, Outcome
  <2> QED
    BY <2>1 DEF StoresFit, Listed
<1>7. \A r \in Request : request[r].version \in Nat /\ request'[r].version \in Nat
  BY DEF StoresTyped, RequestRow
<1>8. \A k \in JobId : job[k].version \in Nat /\ job[k].request \in Request \cup {NoRequest}
  BY JobRowTyped DEF StoresTyped
<1>9. ASSUME NEW k \in JobId PROVE JobFits(k)'
  <2>1. JobFits(k)
    BY DEF StoresFit, JobsFit
  <2>2. job[k].request # NoRequest =>
          job[k].version <= request'[job[k].request].version
    BY <1>7, <1>8, <2>1 DEF JobFits
  <2> QED
    BY <1>8, <2>1, <2>2 DEF JobFits
<1>10. ASSUME NEW r \in Request, Ended(r)' PROVE \E k \in JobId : Pursues(k, r)'
  <2>1. PICK k \in JobId : Pursues(k, r)
    BY <1>10 DEF StoresFit, Pursued
  <2>2. Pursues(k, r)'
    BY <1>7, <1>8, <2>1 DEF Pursues
  <2> QED
    BY <2>2
<1>11. ClosedMeansReconciled'
  BY <1>2, <1>4, ClosedStands DEF StoresFit
<1> QED
  BY <1>4, <1>5, <1>6, <1>9, <1>10, <1>11 DEF StoresFit, Listed, JobsFit, Pursued

\* A request nobody has reviewed changes hands.
LEMMA RequestWaits ==
  ASSUME StoresTyped, StoresFit, NEW r \in Request, ~ Ended(r),
         NEW st \in {"PENDING", "NEEDS_INFO"},
         request' = [request EXCEPT ![r].status = st],
         UNCHANGED <<approvals, Queue, Days, promised, syncFaults>>
  PROVE  StoresTyped' /\ StoresFit' /\ Grows
<1>1. st \in RequestStatus
  BY DEF RequestStatus
<1>2. /\ request' \in [Request -> RequestRow]
      /\ \A s \in Request : /\ request'[s].version = request[s].version
                            /\ s # r => request'[s] = request[s]
      /\ request'[r].status = st
  BY <1>1, RequestMarked
<1>3. StoresTyped'
  BY <1>2 DEF StoresTyped, Queue, Days
<1>4. \A s \in Request : /\ Ended(s)' <=> Ended(s)
                         /\ Ended(s) => request'[s].status = request[s].status
                         /\ request[s].version <= request'[s].version
  BY <1>2, RequestRowTyped DEF Ended, Outcome
<1> QED
  BY <1>3, <1>4, RequestMoves DEF Queue, Days

LEMMA RequestBumps ==
  ASSUME StoresTyped, StoresFit, NEW r \in Request,
         request' = [request EXCEPT ![r].version = @ + 1],
         UNCHANGED <<approvals, Queue, Days, promised, syncFaults>>
  PROVE  StoresTyped' /\ StoresFit' /\ Grows
<1>1. ASSUME NEW x \in RequestRow, NEW n \in Nat
      PROVE  LET y == [x EXCEPT !.version = n] IN
             y \in RequestRow /\ y.status = x.status /\ y.version = n
  BY DEF RequestRow
<1>2. request[r].version \in Nat /\ request[r].version + 1 \in Nat
      /\ request[r].version <= request[r].version + 1
  BY RequestRowTyped
<1>3. request' = [request EXCEPT ![r] = [request[r] EXCEPT !.version = request[r].version + 1]]
  OBVIOUS
<1>4. /\ request' \in [Request -> RequestRow]
      /\ \A s \in Request : /\ request'[s].status = request[s].status
                            /\ s # r => request'[s] = request[s]
      /\ request'[r].version = request[r].version + 1
  BY <1>1, <1>2, <1>3 DEF StoresTyped
<1>5. StoresTyped'
  BY <1>4 DEF StoresTyped, Queue, Days
<1>6. \A s \in Request : /\ Ended(s)' <=> Ended(s)
                         /\ Ended(s) => request'[s].status = request[s].status
                         /\ request[s].version <= request'[s].version
  BY <1>2, <1>4, RequestRowTyped DEF Ended
<1> QED
  BY <1>5, <1>6, RequestMoves DEF Queue, Days

\* Workdays, attendance and conflicts move; requests and jobs do not.
LEMMA DaysMove ==
  ASSUME StoresTyped, StoresFit, DaysStand, MarksStand,
         \A w \in Workday : RowFits(w, workday'[w]),
         UNCHANGED <<Requests, Queue>>
  PROVE  StoresFit' /\ Grows
<1>1. ReviewsStand
  BY RequestRowTyped DEF ReviewsStand, Requests
<1>2. RowsStand /\ NewRows /\ NoneCloses
  BY DEF RowsStand, NewRows, JobKept, NoneCloses, Queue
<1>3. Grows
  BY <1>1, <1>2 DEF Grows
<1>4. DaysFit'
  <2>1. ASSUME NEW w \in Workday, NEW x, RowFits(w, x) PROVE RowFits(w, x)'
    BY <1>1, <2>1, RowStands
  <2> QED
    BY <2>1 DEF DaysFit, RowFits, Requests, Approved
<1>5. Listed' /\ PromisesFit'
  BY <1>1, ListedKept, PromisesKept DEF StoresFit, Requests
<1>6. JobsFit' /\ Pursued'
  BY DEF StoresFit, Requests, Queue, JobsFit, JobFits, Pursued, Pursues, Ended
<1>7. ClosedMeansReconciled'
  BY <1>2, <1>3, ClosedStands DEF StoresFit
<1> QED
  BY <1>3, <1>4, <1>5, <1>6, <1>7 DEF StoresFit

LEMMA MarksMove ==
  ASSUME StoresTyped, StoresFit, punched \subseteq punched', MarksStand,
         UNCHANGED <<Requests, Queue, workday>>
  PROVE  StoresFit' /\ Grows
<1>1. DaysStand
  BY DEF DaysStand
<1>2. \A w \in Workday : RowFits(w, workday'[w])
  BY DEF StoresFit, DaysFit
<1> QED
  BY <1>1, <1>2, DaysMove

\* The UPDATE of a manual reconciliation leaves a row that pursues the request.
LEMMA SweepFits ==
  ASSUME StoresTyped, StoresFit, NEW r \in Request, Ended(r), NEW version \in Nat,
         version <= request[r].version,
         \E j \in JobId : job[j].request = r /\ job[j].version <= version,
         job' = Swept(r, request[r].status, version),
         UNCHANGED <<Requests, enqueued, Days, syncFaults>>
  PROVE  StoresTyped' /\ StoresFit' /\ Grows
<1> DEFINE stale(k) == Stale(k, r, request[r].status, version)
<1>1. /\ job' \in [JobId -> JobRow]
      /\ \A k \in JobId : /\ JobKept(k)
                          /\ job'[k].status = IF stale(k) THEN "SUPERSEDED" ELSE job[k].status
  BY SweptIs DEF JobKept
<1>2. StoresTyped'
  BY <1>1 DEF StoresTyped, Requests, Days
<1>3. r # NoRequest /\ request[r].version \in Nat
  BY SyncBounds, RequestRowTyped
<1>4. \A k \in JobId : job[k].version \in Nat
  BY JobRowTyped DEF StoresTyped
<1>5. ReviewsStand
  BY RequestRowTyped DEF ReviewsStand, Requests
<1>6. RowsStand /\ NewRows /\ NoneCloses
  BY <1>1 DEF RowsStand, NewRows, NoneCloses
<1>7. DaysStand /\ MarksStand
  BY DEF DaysStand, MarksStand, Days
<1>8. Grows
  BY <1>5, <1>6, <1>7 DEF Grows
<1>9. DaysFit' /\ Listed' /\ PromisesFit'
  BY <1>5, DaysKept, ListedKept, PromisesKept DEF StoresFit, Requests, Days
<1>10. ASSUME NEW k \in JobId PROVE JobFits(k)'
  <2>1. JobFits(k)
    BY DEF StoresFit, JobsFit
  <2>2. job[k].request = NoRequest => job'[k].status = "NONE"
    BY <1>1, <1>3, <2>1 DEF JobFits, Stale
  <2> QED
    BY <1>1, <2>1, <2>2 DEF JobFits, JobKept, Requests, Ended
<1>11. ASSUME NEW s \in Request, Ended(s)' PROVE \E k \in JobId : Pursues(k, s)'
  <2>1. PICK k \in JobId : Pursues(k, s)
    BY <1>11 DEF StoresFit, Pursued, Ended, Requests
  <2>2. CASE s # r
    <3>1. Pursues(k, s)'
      BY <1>1, <2>1, <2>2 DEF Pursues, Stale, JobKept, Requests
    <3> QED
      BY <3>1
  <2>3. CASE \E i \in JobId : job[i].request = s /\ job[i].version < request[s].version
    <3>1. PICK i \in JobId : job[i].request = s /\ job[i].version < request[s].version
      BY <2>3
    <3>2. Pursues(i, s)'
      BY <1>1, <3>1 DEF Pursues, JobKept, Requests
    <3> QED
      BY <3>2
  <2>4. CASE s = r /\ ~ \E i \in JobId : job[i].request = s /\ job[i].version < request[s].version
    <3>1. \A i \in JobId : job[i].request = r => /\ job[i].version = request[r].version
                                                 /\ job[i].target = request[r].status
      BY <1>3, <1>4, <2>4 DEF StoresFit, JobsFit, JobFits
    <3>2. version = request[r].version
      BY <1>3, <3>1
    <3>3. ~ stale(k)
      BY <2>1, <2>4, <3>1, <3>2 DEF Stale, Pursues
    <3>4. Pursues(k, s)'
      BY <1>1, <2>1, <3>3 DEF Pursues, JobKept, Requests
    <3> QED
      BY <3>4
  <2> QED
    BY <2>2, <2>3, <2>4
<1>12. ClosedMeansReconciled'
  BY <1>6, <1>8, ClosedStands DEF StoresFit
<1> QED
  BY <1>2, <1>8, <1>9, <1>10, <1>11, <1>12 DEF StoresFit, JobsFit, Pursued

\* Its INSERT adds a row of the outcome, not ahead of the request.
LEMMA InsertFits ==
  ASSUME StoresTyped, StoresFit, NEW r \in Request, Ended(r), NEW version \in Nat,
         version <= request[r].version,
         Inserted(job, r, request[r].status, "MANUAL", version),
         UNCHANGED <<Requests, Days, syncFaults>>
  PROVE  StoresTyped' /\ StoresFit' /\ Grows
<1>1. request[r].status \in Outcome /\ "MANUAL" \in Operation /\ job \in [JobId -> JobRow]
  BY DEF Ended, Operation, StoresTyped
<1>2. /\ job' \in [JobId -> JobRow] /\ enqueued' \in 0..MaxJobs
      /\ \/ job' = job /\ enqueued' = enqueued
         \/ Inserts(job, r, request[r].status, "MANUAL", version)
  BY <1>1, InsertedIs
<1>3. StoresTyped'
  BY <1>2 DEF StoresTyped, Requests, Days
<1>4. ReviewsStand
  BY RequestRowTyped DEF ReviewsStand, Requests
<1>5. PromisesFit'
  BY <1>4, PromisesKept DEF StoresFit, Requests
<1>6. CASE job' = job /\ enqueued' = enqueued
  BY <1>3, <1>5, <1>6, QuietFits DEF Quiet, Requests, Days
<1>7. CASE Inserts(job, r, request[r].status, "MANUAL", version)
  <2>1. /\ RowsStand /\ NewRows /\ NoneCloses
        /\ \A k \in JobId : k # enqueued + 1 => job'[k] = job[k] /\ JobKept(k)
        /\ job[enqueued + 1].request = NoRequest
    BY <1>7, InsertStands DEF StoresFit
  <2>2. DaysStand /\ MarksStand
    BY DEF DaysStand, MarksStand, Days
  <2>3. Grows
    BY <1>4, <2>1, <2>2 DEF Grows
  <2>4. DaysFit' /\ Listed'
    BY <1>4, DaysKept, ListedKept DEF StoresFit, Requests, Days
  <2>5. ASSUME NEW k \in JobId PROVE JobFits(k)'
    <3>1. CASE k = enqueued + 1
      <4>1. k <= enqueued' /\ r # NoRequest
        BY <1>7, <3>1, SyncBounds DEF Inserts, StoresTyped
      <4> QED
        BY <1>7, <3>1, <4>1 DEF Inserts, JobFits, Requests, Ended
    <3>2. CASE k # enqueued + 1
      <4>1. JobFits(k) /\ job'[k] = job[k]
        BY <2>1, <3>2 DEF StoresFit, JobsFit
      <4>2. k <= enqueued => k <= enqueued'
        BY <1>7, SyncBounds DEF Inserts, StoresTyped
      <4> QED
        BY <4>1, <4>2 DEF JobFits, Ended, Requests
    <3> QED
      BY <3>1, <3>2
  <2>6. ASSUME NEW s \in Request, Ended(s)' PROVE \E k \in JobId : Pursues(k, s)'
    <3>1. PICK k \in JobId : Pursues(k, s)
      BY <2>6 DEF StoresFit, Pursued, Ended, Requests
    <3>2. job'[k] = job[k]
      BY <2>1, <3>1, SyncBounds DEF Pursues
    <3>3. Pursues(k, s)'
      BY <3>1, <3>2 DEF Pursues, Requests
    <3> QED
      BY <3>3
  <2>7. ClosedMeansReconciled'
    BY <2>1, <2>3, ClosedStands DEF StoresFit
  <2> QED
    BY <1>3, <1>5, <2>3, <2>4, <2>5, <2>6, <2>7 DEF StoresFit, JobsFit, Pursued
<1> QED
  BY <1>2, <1>6, <1>7

\* A row fails an attempt: it is active before and after.
LEMMA AttemptFits ==
  ASSUME StoresTyped, StoresFit, NEW j \in JobId, job[j].status # "NONE",
         job' = AttemptFailed(j), PromisesFit', promised' \subseteq Request,
         UNCHANGED <<request, approvals, enqueued, Days, syncFaults>>
  PROVE  StoresTyped' /\ StoresFit' /\ Grows
<1>1. /\ job' \in [JobId -> JobRow]
      /\ \A k \in JobId : JobKept(k) /\ (k # j => job'[k] = job[k])
      /\ job'[j].status \in {"FAILED", "PENDING"}
  BY JobAttempted
<1>2. StoresTyped'
  BY <1>1 DEF StoresTyped, Days
<1>3. DaysFit' /\ Listed' /\ JobsFit' /\ Pursued' /\ Grows
  BY <1>1, RowMoves DEF Days
<1>4. NoneCloses
  BY <1>1 DEF NoneCloses
<1>5. ClosedMeansReconciled'
  BY <1>3, <1>4, ClosedStands DEF StoresFit
<1> QED
  BY <1>2, <1>3, <1>5 DEF StoresFit

-----------------------------------------------------------------------------
(* Calls that begin *)

Early(s) == s \notin {"context", "write"} /\ s \notin Finished

LEMMA EarlyFits ==
  ASSUME NEW l \in Runner, Remembers(l)', RowsFit(l)',
         lane'[l].known = <<>>, lane'[l].present = {}, lane'[l].todo = {},
         Early(lane'[l].step)
  PROVE  CallFits(l)'
<1>1. KnownFit(l)'
  <2>1. \A i : i \notin DOMAIN <<>>
    OBVIOUS
  <2>2. \A i : i \notin DOMAIN lane'[l].known
    BY <2>1
  <2> QED
    BY <2>2 DEF KnownFit, Heard, Early
<1>2. TodoFit(l)' /\ Advances(l)'
  BY DEF TodoFit, Advances, Early
<1>3. Announces(l)'
  BY DEF Announces, Early, Finished
<1> QED
  BY <1>1, <1>2, <1>3 DEF CallFits

LEMMA BegunFits ==
  ASSUME NEW l \in Runner, NEW k, NEW s, NEW r, Begun(lane'[l], k, s, r), lane'[l].rows = {},
         Early(s), Remembers(l)'
  PROVE  CallFits(l)'
<1>1. RowsFit(l)'
  BY DEF RowsFit
<1> QED
  BY <1>1, EarlyFits DEF Begun

\* A review that starts an inline run.
LEMMA ReviewStep ==
  ASSUME SyncInv, NEW l \in Runner, NEW r, NEW target, NEW op, NEW k,
         Reviews(r, target, op), Start(l, k, "list", r),
         \/ k = "approve" /\ target = "APPROVED"
         \/ k = "auto" /\ target = "APPROVED" /\ op = "AUTO"
         \/ k = "revoke" /\ target # "APPROVED"
  PROVE  SyncInv'
<1>1. StoresTyped' /\ StoresFit' /\ Grows
  BY ReviewsFit DEF SyncInv
<1>2. r \in Request /\ k \in LaneKind /\ "list" \in SyncStep
  BY DEF Reviews, LaneKind, SyncStep
<1>3. LanesTyped' /\ Others(l) /\ Begun(lane'[l], k, "list", r) /\ lane'[l].rows = {}
  BY <1>2, CallBegins DEF SyncInv
<1>4. /\ Inserts(job, r, target, op, request[r].version)
      /\ request'[r].status = target /\ target \in Outcome
  BY ReviewsTyped DEF SyncInv, StoresFit, Reviews
<1>5. Approved(r)' <=> target = "APPROVED"
  BY <1>4 DEF Approved
<1>6. k = "auto" => \A j \in JobId : job'[j].request = r => job'[j].op # "APPROVE"
  <2>1. \A j \in JobId : job[j].request # r
    BY <1>2, SyncBounds DEF SyncInv, StoresFit, JobsFit, JobFits, Reviews
  <2> QED
    BY <1>4, <2>1 DEF Inserts
<1>7. Remembers(l)'
  BY <1>2, <1>3, <1>4, <1>5, <1>6 DEF Begun, Remembers, Inline, Ended
<1>8. CallFits(l)'
  BY <1>3, <1>7, BegunFits DEF Early, Finished
<1> QED
  BY <1>1, <1>3, <1>8, StepFits

LEMMA AutoStep ==
  ASSUME SyncInv, NEW l \in Runner, NEW r \in Request, ~ Ended(r), Approve(l, r, "auto", "AUTO")
  PROVE  SyncInv'
<1>1. Reviews(r, "APPROVED", "AUTO") /\ Start(l, "auto", "list", r)
  BY DEF Approve, Reviews, Outcome, Operation
<1> QED
  BY <1>1, ReviewStep

LEMMA CreateStep ==
  ASSUME SyncInv, NEW l \in Runner, NEW r \in Request, Create(l, r)
  PROVE  SyncInv'
<1>1. ~ Ended(r)
  BY DEF Create, Ended, Outcome
<1>2. CASE Approve(l, r, "auto", "AUTO")
  BY <1>1, <1>2, AutoStep
<1>3. CASE /\ request' = [request EXCEPT ![r].status = "PENDING"]
           /\ UNCHANGED <<approvals, promised, Queue, Days, lane, syncFaults>>
  <2>1. StoresTyped' /\ StoresFit' /\ Grows
    BY <1>1, <1>3, RequestWaits DEF SyncInv
  <2> QED
    BY <1>3, <2>1, StoresStep
<1> QED
  BY <1>2, <1>3 DEF Create

LEMMA ReviewApproveStep ==
  ASSUME SyncInv, NEW l \in Runner, NEW r \in Request, ReviewApprove(l, r)
  PROVE  SyncInv'
<1>1. ~ Ended(r)
  BY DEF ReviewApprove, Ended, Outcome
<1>2. Reviews(r, "APPROVED", "APPROVE") /\ Start(l, "approve", "list", r)
  BY <1>1 DEF ReviewApprove, Approve, Reviews, Outcome, Operation
<1> QED
  BY <1>2, ReviewStep

LEMMA ReviewRevokeStep ==
  ASSUME SyncInv, NEW l \in Runner, NEW r \in Request, NEW outcome \in Outcome,
         ReviewRevoke(l, r, outcome)
  PROVE  SyncInv'
<1>1. ~ Ended(r)
  BY DEF ReviewRevoke, Ended, Outcome
<1>2. Reviews(r, outcome, "REVOKE") /\ outcome # "APPROVED" /\ Start(l, "revoke", "list", r)
  BY <1>1 DEF ReviewRevoke, Reviews, Operation
<1> QED
  BY <1>2, ReviewStep

LEMMA AskInfoStep ==
  ASSUME SyncInv, NEW r \in Request, AskInfo(r)
  PROVE  SyncInv'
<1>1. ~ Ended(r)
  BY DEF AskInfo, Ended, Outcome
<1>2. StoresTyped' /\ StoresFit' /\ Grows
  BY <1>1, RequestWaits DEF SyncInv, AskInfo
<1> QED
  BY <1>2, StoresStep DEF AskInfo

LEMMA ResubmitStep ==
  ASSUME SyncInv, NEW l \in Runner, NEW r \in Request, Resubmit(l, r)
  PROVE  SyncInv'
<1>1. ~ Ended(r)
  BY DEF Resubmit, Ended, Outcome
<1>2. CASE Approve(l, r, "auto", "AUTO")
  BY <1>1, <1>2, AutoStep
<1>3. CASE /\ request' = [request EXCEPT ![r].status = "PENDING"]
           /\ UNCHANGED <<approvals, promised, Queue, Days, lane, syncFaults>>
  <2>1. StoresTyped' /\ StoresFit' /\ Grows
    BY <1>1, <1>3, RequestWaits DEF SyncInv
  <2> QED
    BY <1>3, <2>1, StoresStep
<1> QED
  BY <1>2, <1>3 DEF Resubmit

\* The stores stay as they are; only syncFaults may count.
LEMMA StillFits ==
  ASSUME StoresTyped, StoresFit, UNCHANGED <<Requests, Queue, Days>>,
         syncFaults' \in 0..MaxSyncFaults
  PROVE  StoresTyped' /\ StoresFit' /\ Grows
<1>1. Quiet /\ UNCHANGED promised
  BY DEF Quiet, Requests, Queue, Days
<1>2. StoresTyped'
  BY <1>1 DEF Quiet, StoresTyped
<1>3. PromisesFit'
  BY <1>1 DEF StoresFit, PromisesFit, Ended, Quiet
<1> QED
  BY <1>1, <1>2, <1>3, QuietFits

LEMMA Calm ==
  ASSUME SyncInv, UNCHANGED <<Requests, Queue, Days, syncFaults>>
  PROVE  StoresTyped' /\ StoresFit' /\ Grows
<1>1. syncFaults' \in 0..MaxSyncFaults
  BY DEF SyncInv, StoresTyped
<1> QED
  BY <1>1, StillFits DEF SyncInv

LEMMA EditStep ==
  ASSUME SyncInv, NEW l \in Runner, NEW r \in Request, Edit(l, r)
  PROVE  SyncInv'
<1>1. StoresTyped' /\ StoresFit' /\ Grows
  BY Calm DEF Edit
<1>2. "edit" \in LaneKind /\ "bump" \in SyncStep
  BY DEF LaneKind, SyncStep
<1>3. LanesTyped' /\ Others(l) /\ Begun(lane'[l], "edit", "bump", r) /\ lane'[l].rows = {}
  BY <1>2, CallBegins DEF SyncInv, Edit
<1>4. Remembers(l)'
  BY <1>3 DEF Begun, Remembers, Inline
<1>5. CallFits(l)'
  BY <1>3, <1>4, BegunFits DEF Early, Finished
<1> QED
  BY <1>1, <1>3, <1>5, StepFits

LEMMA StartPlanStep ==
  ASSUME SyncInv, NEW l \in Runner, StartPlan(l)
  PROVE  SyncInv'
<1>1. StoresTyped' /\ StoresFit' /\ Grows
  BY Calm DEF StartPlan
<1>2. "materialize" \in LaneKind /\ "plan" \in SyncStep
  BY DEF LaneKind, SyncStep
<1>3. /\ LanesTyped' /\ Others(l) /\ Begun(lane'[l], "materialize", "plan", NoRequest)
      /\ lane'[l].rows = {}
  BY <1>2, CallBegins DEF SyncInv, StartPlan
<1>4. Remembers(l)'
  BY <1>3 DEF Begun, Remembers, Inline
<1>5. CallFits(l)'
  BY <1>3, <1>4, BegunFits DEF Early, Finished
<1> QED
  BY <1>1, <1>3, <1>5, StepFits

\* A manual reconciliation knows a row that is not ahead of what it read.
LEMMA ManualReconcileStep ==
  ASSUME SyncInv, NEW l \in Runner, NEW r \in Request, ManualReconcile(l, r)
  PROVE  SyncInv'
<1>1. StoresTyped' /\ StoresFit' /\ Grows
  BY Calm DEF ManualReconcile
<1> DEFINE v == request[r].version
           d == [NoCall EXCEPT !.kind = "manual", !.step = "drop", !.req = r, !.version = v]
<1>2. v \in Nat
  BY RequestRowTyped DEF SyncInv
<1>3. lane' = [lane EXCEPT ![l] = d]
  BY DEF ManualReconcile
<1> HIDE DEF v
<1>4. /\ d \in LaneState /\ d.kind = "manual" /\ d.step = "drop" /\ d.req = r /\ d.version = v
      /\ d.rows = {} /\ d.known = <<>> /\ d.present = {} /\ d.todo = {}
  BY <1>2, NoCallTyped DEF LaneState, LaneKind, SyncStep
<1> HIDE DEF d
<1>5. LanesTyped' /\ lane'[l] = d /\ Others(l)
  BY <1>3, <1>4, CallMoves DEF SyncInv
<1>6. Ended(r) /\ request' = request /\ job' = job
  BY DEF ManualReconcile, Requests, Queue
<1>7. \E j \in JobId : job[j].request = r /\ job[j].version <= v
  <2>1. PICK j \in JobId : Pursues(j, r)
    BY <1>6 DEF SyncInv, StoresFit, Pursued
  <2>2. job[j].request = r /\ job[j].version <= v
    BY <2>1, SyncBounds DEF SyncInv, StoresFit, JobsFit, JobFits, Pursues, v
  <2> QED
    BY <2>2
<1>8. Remembers(l)'
  <2>1. v <= request[r].version
    BY <1>2 DEF v
  <2> QED
    BY <1>4, <1>5, <1>6, <1>7, <2>1 DEF Remembers, Inline, Ended
<1>9. RowsFit(l)'
  BY <1>4, <1>5 DEF RowsFit
<1>10. CallFits(l)'
  BY <1>4, <1>5, <1>8, <1>9, EarlyFits DEF Early, Finished
<1> QED
  BY <1>1, <1>5, <1>10, StepFits

\* A check-in remembers the row of the workday it is for.
LEMMA ReadCandidateStep ==
  ASSUME SyncInv, NEW l \in Runner, NEW w \in Workday, ReadCandidate(l, w)
  PROVE  SyncInv'
<1>1. StoresTyped' /\ StoresFit' /\ Grows
  BY Calm DEF ReadCandidate
<1> DEFINE x == [day |-> w, row |-> workday[w]]
           R == {x}
           d == [NoCall EXCEPT !.kind = "punch", !.step = "insert", !.rows = R]
<1>2. R \in SUBSET Loaded
  BY DEF SyncInv, StoresTyped, Loaded
<1>3. lane' = [lane EXCEPT ![l] = d]
  BY DEF ReadCandidate
<1>4. \A y \in R : y.day = w /\ y.row = workday[w]
  OBVIOUS
<1> HIDE DEF R
<1>5. /\ d \in LaneState /\ d.kind = "punch" /\ d.step = "insert" /\ d.rows = R
      /\ d.known = <<>> /\ d.present = {} /\ d.todo = {}
  BY <1>2, NoCallTyped DEF LaneState, LaneKind, SyncStep
<1> HIDE DEF d
<1>6. LanesTyped' /\ lane'[l] = d /\ Others(l)
  BY <1>3, <1>5, CallMoves DEF SyncInv
<1>7. Remembers(l)'
  BY <1>5, <1>6 DEF Remembers, Inline
<1>8. RowsFit(l)'
  <2>1. ReviewsStand /\ RowFits(w, workday[w]) /\ workday' = workday
    BY <1>1 DEF Grows, SyncInv, StoresFit, DaysFit, ReadCandidate, Days
  <2>2. ASSUME NEW y \in R PROVE RowFits(y.day, y.row)'
    BY <1>4, <2>1, RowStands
  <2> QED
    BY <1>4, <1>5, <1>6, <2>1, <2>2 DEF RowsFit, Heard
<1>9. CallFits(l)'
  BY <1>5, <1>6, <1>7, <1>8, EarlyFits DEF Early, Finished
<1> QED
  BY <1>1, <1>6, <1>9, StepFits

\* A worker claims a row that waits.
LEMMA ClaimStep ==
  ASSUME SyncInv, NEW l \in Runner, NEW j \in JobId, Claim(l, j)
  PROVE  SyncInv'
<1>1. /\ job' \in [JobId -> JobRow]
      /\ \A k \in JobId : JobKept(k) /\ (k # j => job'[k] = job[k])
      /\ job'[j].status = "PROCESSING"
  BY JobClaimed DEF SyncInv, Claim
<1>2. StoresTyped'
  BY <1>1 DEF SyncInv, StoresTyped, Claim, Requests, Days
<1>3. DaysFit' /\ Listed' /\ JobsFit' /\ Pursued' /\ Grows
  BY <1>1, RowMoves DEF SyncInv, Claim, Requests, Days
<1>4. NoneCloses
  BY <1>1 DEF NoneCloses
<1>5. ClosedMeansReconciled'
  BY <1>3, <1>4, ClosedStands DEF SyncInv, StoresFit
<1>6. PromisesFit'
  BY <1>3, PromisesKept DEF SyncInv, StoresFit, Grows, Claim, Requests
<1>7. StoresFit'
  BY <1>3, <1>5, <1>6 DEF StoresFit
<1> DEFINE r == job[j].request
           n == job[j].lease + 1
           v == job[j].version
           d == [NoCall EXCEPT !.kind = "job", !.step = "read", !.req = r, !.job = j,
                               !.lease = n, !.version = v]
<1>8. r \in Request /\ n \in Nat /\ v \in Nat
  <2>1. job[j].status = "PENDING" /\ JobFits(j)
    BY DEF Claim, SyncInv, StoresFit, JobsFit
  <2> QED
    BY <2>1, JobRowTyped DEF SyncInv, StoresTyped, JobFits
<1>9. lane' = [lane EXCEPT ![l] = d]
  BY DEF Claim
<1>10. job'[j].request = r /\ job'[j].version = v
  BY <1>1 DEF JobKept
<1> HIDE DEF r, n, v
<1>11. /\ d \in LaneState /\ d.kind = "job" /\ d.step = "read" /\ d.req = r /\ d.job = j
       /\ d.version = v /\ d.rows = {} /\ d.known = <<>> /\ d.present = {} /\ d.todo = {}
  BY <1>8, NoCallTyped DEF LaneState, LaneKind, SyncStep
<1> HIDE DEF d
<1>12. LanesTyped' /\ lane'[l] = d /\ Others(l)
  BY <1>9, <1>11, CallMoves DEF SyncInv
<1>13. Remembers(l)'
  BY <1>8, <1>10, <1>11, <1>12 DEF Remembers, Inline
<1>14. RowsFit(l)'
  BY <1>11, <1>12 DEF RowsFit
<1>15. CallFits(l)'
  BY <1>11, <1>12, <1>13, <1>14, EarlyFits DEF Early, Finished
<1> QED
  BY <1>2, <1>3, <1>7, <1>12, <1>15, StepFits

-----------------------------------------------------------------------------
(* Calls that go on *)

\* A call keeps what it read and what is left to write, or drops some of it.
Lighter(c, d) ==
    /\ d.rows \subseteq c.rows /\ d.present \subseteq c.present /\ d.todo \subseteq c.todo
    /\ d.known = c.known \/ d.known = <<>>
    /\ d.step # "context"

LEMMA LighterFits ==
  ASSUME LanesTyped, Grows, NEW l \in Runner, RowsFit(l), KnownFit(l), TodoFit(l),
         Lighter(lane[l], lane'[l])
  PROVE  RowsFit(l)' /\ KnownFit(l)' /\ TodoFit(l)'
<1>1. RowsFit(l)'
  <2>1. ASSUME NEW x \in lane'[l].rows
        PROVE  /\ RowFits(x.day, x.row)'
               /\ x.day \notin Recurring /\ x.row.status = "JUSTIFIED"
                    => workday'[x.day].status = "JUSTIFIED"
    <3>1. x \in lane[l].rows
      BY DEF Lighter
    <3>2. RowFits(x.day, x.row)'
      BY <3>1, RowStands DEF RowsFit, Grows
    <3>3. x.day \in Workday
      BY <3>1, CallTyped, LoadedTyped DEF CallFields
    <3> QED
      BY <3>1, <3>2, <3>3 DEF RowsFit, Grows, DaysStand
  <2> QED
    BY <2>1 DEF RowsFit, Heard, Lighter
<1>2. KnownFit(l)'
  <2>1. \A i \in DOMAIN lane[l].known : lane[l].known[i] \in Request
    BY CallTyped DEF CallFields
  <2>2. \A r \in Request : Approved(r) => request'[r].status = "APPROVED"
    BY ApprovedStands DEF Approved, Grows
  <2>3. \A i : i \notin DOMAIN <<>>
    OBVIOUS
  <2>4. ASSUME NEW i \in DOMAIN lane'[l].known
        PROVE  request'[lane'[l].known[i]].status = "APPROVED"
    BY <2>1, <2>2, <2>3 DEF KnownFit, Lighter
  <2>5. lane'[l].present \subseteq punched'
    BY DEF KnownFit, Grows, DaysStand, Lighter
  <2> QED
    BY <2>4, <2>5 DEF KnownFit, Heard, Lighter, Approved
<1>3. TodoFit(l)'
  BY DeltaStands DEF TodoFit, Grows, Lighter
<1> QED
  BY <1>1, <1>2, <1>3

\* The days of its request are all excused once the workdays are reconciled.
Reaches(l) ==
    lane[l].kind \in Inline \cup {"job"} /\ Approved(lane[l].req) =>
    \A w \in Need(lane[l].req) : Excused(w)'

LEMMA AdvancesOn ==
  ASSUME JobsFit, Grows, NEW l \in Runner, Remembers(l), SameWho(lane[l], lane'[l]),
         lane'[l].step \notin {"context", "write"},
         lane'[l].step \in Finished => Reaches(l)
  PROVE  Advances(l)'
<1>1. lane[l].kind \in Inline \cup {"job"} /\ request'[lane[l].req].status = "APPROVED"
        => Approved(lane[l].req)
  BY CallReviewed, EndedStands DEF Grows, Approved
<1> QED
  BY <1>1 DEF Advances, Reaches, SameWho, Approved

\* The conflicts of its request are raised or about to be.
Announced(l) ==
    Integrated /\ lane[l].kind \in {"approve", "job"} /\ Approved(lane[l].req) =>
    \A w \in Need(lane[l].req) :
        /\ lane'[l].step \in {"check", "mark"} =>
             Raised(lane[l].req, w) \in lane'[l].marks \cup conflict'
        /\ lane'[l].step \in {"look", "close"} => Raised(lane[l].req, w) \in conflict'

LEMMA AnnouncesOn ==
  ASSUME JobsFit, Grows, NEW l \in Runner, Remembers(l), SameWho(lane[l], lane'[l]), Announced(l)
  PROVE  Announces(l)'
<1>1. lane[l].kind \in {"approve", "job"} /\ request'[lane[l].req].status = "APPROVED"
        => Approved(lane[l].req)
  BY CallReviewed, EndedStands DEF Grows, Inline, Approved
<1> QED
  BY <1>1 DEF Announces, Announced, SameWho, Approved

\* A call that was as far goes on.
LEMMA ReachesStill ==
  ASSUME Grows, NEW l \in Runner, Advances(l), lane[l].step \in Finished
  PROVE  Reaches(l)
BY ExcusedStands DEF Grows, Advances, Reaches, Need

LEMMA OnFits ==
  ASSUME SyncInv, StoresTyped', LanesTyped', Grows, NEW l \in Runner,
         Lighter(lane[l], lane'[l]),
         SameWho(lane[l], lane'[l]), Expects(lane[l], lane'[l]),
         lane'[l].step # "write", lane'[l].step \in Finished => Reaches(l),
         Announced(l)
  PROVE  CallFits(l)'
<1>1. CallFits(l) /\ StoresTyped /\ LanesTyped /\ JobsFit
  BY DEF SyncInv, CallsFit, StoresFit
<1>2. Remembers(l) /\ RowsFit(l) /\ KnownFit(l) /\ TodoFit(l)
  BY <1>1 DEF CallFits
<1>3. Remembers(l)'
  BY <1>1, <1>2, RemembersOn
<1>4. RowsFit(l)' /\ KnownFit(l)' /\ TodoFit(l)'
  BY <1>1, <1>2, LighterFits
<1>5. Advances(l)'
  BY <1>1, <1>2, AdvancesOn DEF Lighter
<1>6. Announces(l)'
  BY <1>1, <1>2, AnnouncesOn
<1> QED
  BY <1>3, <1>4, <1>5, <1>6 DEF CallFits

\* The step of a call and what a step that only ends it, or lets it stray, does.
LEMMA EndStep ==
  ASSUME SyncInv, StoresTyped', StoresFit', Grows, NEW l \in Runner, Free(l)
  PROVE  SyncInv'
<1>1. LanesTyped' /\ Others(l) /\ Over(l)
  BY CallEnds DEF SyncInv, Over
<1>2. CallFits(l)'
  BY <1>1, OverFits
<1> QED
  BY <1>1, <1>2, StepFits

LEMMA ReleaseStep ==
  ASSUME SyncInv, StoresTyped', StoresFit', Grows, NEW l \in Runner, Release(l),
         lane[l].kind \in Inline \cup {"job"}
  PROVE  SyncInv'
<1>1. LanesTyped' /\ Others(l) /\ (Over(l) \/ Strays(l))
  BY CallReleases DEF SyncInv
<1>2. CASE Over(l)
  BY <1>1, <1>2, OverFits, StepFits
<1>3. CASE Strays(l)
  <2>1. lane'[l].job = lane[l].job
    BY <1>3, CallGoesOn, NoCallTyped DEF SyncInv, Release, Strays, SyncStep
  <2>2. Lighter(lane[l], lane'[l]) /\ lane'[l].step = "stray"
    BY <1>3 DEF Strays, Later, Lighter
  <2>3. SameWho(lane[l], lane'[l]) /\ Expects(lane[l], lane'[l])
    BY <1>3, <2>1, <2>2 DEF Strays, Later, SameWho, Expects
  <2>4. Announced(l)
    BY <2>2 DEF Announced
  <2>5. CallFits(l)'
    BY <1>1, <2>2, <2>3, <2>4, OnFits DEF Finished
  <2> QED
    BY <1>1, <2>5, StepFits
<1> QED
  BY <1>1, <1>2, <1>3

LEMMA GoStep ==
  ASSUME SyncInv, StoresTyped', StoresFit', LanesTyped', Grows, NEW l \in Runner, Others(l),
         Later(lane[l], lane'[l]), lane[l].kind = "job" => lane'[l].job = lane[l].job,
         lane'[l].step \notin {"context", "write"},
         Expects(lane[l], lane'[l]), lane'[l].step \in Finished => Reaches(l),
         Announced(l)
  PROVE  SyncInv'
<1>1. Lighter(lane[l], lane'[l])
  BY DEF Later, Lighter
<1>2. SameWho(lane[l], lane'[l])
  BY DEF Later, SameWho
<1>3. CallFits(l)'
  BY <1>1, <1>2, OnFits
<1> QED
  BY <1>3, StepFits

-----------------------------------------------------------------------------
(* The queue, step by step *)

\* A row is closed, or dropped because its request has moved on.
LEMMA CloseFits ==
  ASSUME StoresTyped, StoresFit, NEW j \in JobId, job[j].status # "NONE",
         NEW st \in {"COMPLETED", "SUPERSEDED"}, job' = [job EXCEPT ![j].status = st],
         st = "SUPERSEDED" => job[j].version < request[job[j].request].version,
         st = "COMPLETED" /\ Approved(job[j].request) =>
           \A w \in Need(job[j].request) :
             /\ Excused(w)
             /\ Integrated /\ job[j].op = "APPROVE" => Raised(job[j].request, w) \in conflict,
         UNCHANGED <<Requests, enqueued, Days, syncFaults>>
  PROVE  StoresTyped' /\ StoresFit' /\ Grows
<1>1. /\ job' \in [JobId -> JobRow]
      /\ \A k \in JobId : JobKept(k) /\ (k # j => job'[k] = job[k])
      /\ job'[j].status = st
  BY JobMarked DEF JobStatus
<1>2. StoresTyped'
  BY <1>1 DEF StoresTyped, Requests, Days
<1>3. DaysFit' /\ Listed' /\ JobsFit' /\ Pursued' /\ Grows
  BY <1>1, RowMoves DEF Requests, Days
<1>4. PromisesFit'
  BY <1>3, PromisesKept DEF StoresFit, Grows, Requests
<1>5. job[j].target = "APPROVED" => Approved(job[j].request)
  BY DEF StoresFit, JobsFit, JobFits, Approved
<1>6. ASSUME NEW k \in JobId, NEW w \in Workday \ Recurring, job'[k].status = "COMPLETED",
             job'[k].target = "APPROVED",
             <<job'[k].request, w>> \in Dated, <<job'[k].request, w, 0>> \in Covers
      PROVE  Excused(w)
  <2>1. CASE k = j
    <3>1. w \in Need(job[j].request) /\ st = "COMPLETED" /\ job[j].target = "APPROVED"
      BY <1>1, <1>6, <2>1 DEF Need, JobKept
    <3> QED
      BY <1>5, <3>1
  <2>2. CASE k # j
    BY <1>1, <1>6, <2>2 DEF StoresFit, ClosedMeansReconciled, CompletedMeansReconciled, Excused
  <2> QED
    BY <2>1, <2>2
<1>7. ASSUME NEW k \in JobId, NEW w \in Workday \ Recurring, Integrated,
             job'[k].op = "APPROVE", job'[k].status = "COMPLETED",
             <<job'[k].request, w>> \in Dated, <<job'[k].request, w, 0>> \in Covers
      PROVE  <<"ASSIGNMENT", job'[k].request, w>> \in conflict
  <2>1. CASE k = j
    <3>1. /\ w \in Need(job[j].request) /\ st = "COMPLETED" /\ job[j].op = "APPROVE"
          /\ job'[j].request = job[j].request
      BY <1>1, <1>7, <2>1 DEF Need, JobKept
    <3>2. job[j].target = "APPROVED"
      BY <3>1 DEF StoresFit, JobsFit, JobFits
    <3> QED
      BY <1>5, <1>7, <2>1, <3>1, <3>2 DEF Raised
  <2>2. CASE k # j
    BY <1>1, <1>7, <2>2 DEF StoresFit, ClosedMeansReconciled, CompletedMeansAnnounced
  <2> QED
    BY <2>1, <2>2
<1>8. CompletedMeansReconciled'
  BY <1>6 DEF CompletedMeansReconciled, Excused, Days
<1>9. CompletedMeansAnnounced'
  BY <1>7 DEF CompletedMeansAnnounced, Days
<1> QED
  BY <1>2, <1>3, <1>4, <1>8, <1>9 DEF StoresFit, ClosedMeansReconciled

\* What a call of SyncInv relies on.
LEMMA CallOf ==
  ASSUME SyncInv, NEW l \in Runner
  PROVE  /\ StoresTyped /\ LanesTyped /\ StoresFit /\ CallFields(lane[l])
         /\ Remembers(l) /\ RowsFit(l) /\ KnownFit(l) /\ TodoFit(l)
         /\ Advances(l) /\ Announces(l)
BY CallTyped DEF SyncInv, CallsFit, CallFits

LEMMA CloseInlineStep ==
  ASSUME SyncInv, NEW l \in Runner, CloseInline(l)
  PROVE  SyncInv'
<1> DEFINE j == lane[l].job
<1>1. /\ StoresTyped /\ StoresFit /\ Remembers(l) /\ Advances(l) /\ Announces(l)
      /\ lane[l].kind \in Inline /\ lane[l].step = "close"
  BY CallOf DEF CloseInline, At
<1>2. j \in JobId /\ job[j].request = lane[l].req
  BY <1>1 DEF Remembers
<1>3. CASE job' = [job EXCEPT ![j].status = "COMPLETED"] /\ job[j].status \in {"PENDING", "FAILED"}
  <2>1. ASSUME Approved(lane[l].req), NEW w \in Need(lane[l].req)
        PROVE  /\ Excused(w)
               /\ Integrated /\ job[j].op = "APPROVE" => Raised(lane[l].req, w) \in conflict
    <3>1. Excused(w)
      BY <1>1, <2>1 DEF Advances, Finished
    <3>2. job[j].op = "APPROVE" => lane[l].kind = "approve"
      BY <1>1, <1>2, <2>1 DEF Inline, Remembers
    <3> QED
      BY <1>1, <2>1, <3>1, <3>2 DEF Announces
  <2> HIDE DEF j
  <2>2. StoresTyped' /\ StoresFit' /\ Grows
    BY <1>1, <1>2, <1>3, <2>1, CloseFits DEF CloseInline
  <2> QED
    BY <2>2, EndStep DEF CloseInline
<1>4. CASE job' = job
  <2>1. StoresTyped' /\ StoresFit' /\ Grows
    BY <1>4, Calm DEF CloseInline, Queue
  <2> QED
    BY <2>1, EndStep DEF CloseInline
<1> QED
  BY <1>3, <1>4 DEF CloseInline

LEMMA SupersedeStep ==
  ASSUME SyncInv, NEW l \in Runner, Supersede(l)
  PROVE  SyncInv'
<1> DEFINE j == lane[l].job
<1>1. /\ StoresTyped /\ StoresFit /\ Remembers(l)
      /\ lane[l].kind = "job" /\ lane[l].step = "drop"
  BY CallOf DEF Supersede, At
<1>2. j \in JobId /\ job[j].request = lane[l].req /\ job[j].version < request[lane[l].req].version
  BY <1>1 DEF Remembers
<1>3. CASE Holds(l) /\ job' = [job EXCEPT ![j].status = "SUPERSEDED"]
  <2>1. job[j].status = "PROCESSING"
    BY <1>3 DEF Holds
  <2> HIDE DEF j
  <2>2. StoresTyped' /\ StoresFit' /\ Grows
    BY <1>1, <1>2, <1>3, <2>1, CloseFits DEF Supersede, Settle
  <2> QED
    BY <2>2, EndStep DEF Supersede, Settle
<1>4. CASE job' = job
  <2>1. StoresTyped' /\ StoresFit' /\ Grows
    BY <1>4, Calm DEF Supersede, Settle, Queue
  <2> QED
    BY <2>1, EndStep DEF Supersede, Settle
<1> QED
  BY <1>3, <1>4 DEF Supersede, Settle

LEMMA CompleteStep ==
  ASSUME SyncInv, NEW l \in Runner, Complete(l)
  PROVE  SyncInv'
<1> DEFINE j == lane[l].job
<1>1. /\ StoresTyped /\ StoresFit /\ Remembers(l) /\ Advances(l) /\ Announces(l)
      /\ lane[l].kind = "job" /\ lane[l].step = "close"
  BY CallOf DEF Complete, At
<1>2. j \in JobId /\ job[j].request = lane[l].req
  BY <1>1 DEF Remembers
<1>3. CASE Holds(l) /\ job' = [job EXCEPT ![j].status = "COMPLETED"]
  <2>1. job[j].status = "PROCESSING"
    BY <1>3 DEF Holds
  <2>2. ASSUME Approved(lane[l].req), NEW w \in Need(lane[l].req)
        PROVE  Excused(w) /\ (Integrated => Raised(lane[l].req, w) \in conflict)
    BY <1>1, <2>2 DEF Advances, Announces, Finished
  <2> HIDE DEF j
  <2>3. StoresTyped' /\ StoresFit' /\ Grows
    BY <1>1, <1>2, <1>3, <2>1, <2>2, CloseFits DEF Complete, Settle
  <2> QED
    BY <2>3, EndStep DEF Complete, Settle
<1>4. CASE job' = job
  <2>1. StoresTyped' /\ StoresFit' /\ Grows
    BY <1>4, Calm DEF Complete, Settle, Queue
  <2> QED
    BY <2>1, EndStep DEF Complete, Settle
<1> QED
  BY <1>3, <1>4 DEF Complete, Settle

LEMMA FailClaimedStep ==
  ASSUME SyncInv, NEW l \in Runner, FailClaimed(l)
  PROVE  SyncInv'
<1>1. StoresTyped /\ StoresFit /\ Remembers(l) /\ lane[l].kind = "job"
  BY CallOf DEF FailClaimed, At
<1>2. lane[l].job \in JobId
  BY <1>1 DEF Remembers
<1>3. CASE Holds(l) /\ job' = AttemptFailed(lane[l].job)
  <2>1. job[lane[l].job].status # "NONE"
    BY <1>3 DEF Holds
  <2>2. PromisesFit' /\ promised' \subseteq Request
    BY <1>1 DEF StoresFit, StoresTyped, PromisesFit, FailClaimed, Requests, Ended
  <2>3. StoresTyped' /\ StoresFit' /\ Grows
    BY <1>1, <1>2, <1>3, <2>1, <2>2, AttemptFits DEF FailClaimed, Requests
  <2> QED
    BY <1>1, <2>3, ReleaseStep DEF FailClaimed
<1>4. CASE job' = job
  <2>1. StoresTyped' /\ StoresFit' /\ Grows
    BY <1>4, Calm DEF FailClaimed, Queue
  <2> QED
    BY <1>1, <2>1, ReleaseStep DEF FailClaimed
<1> QED
  BY <1>3, <1>4 DEF FailClaimed

LEMMA FailInlineStep ==
  ASSUME SyncInv, NEW l \in Runner, FailInline(l)
  PROVE  SyncInv'
<1>1. /\ StoresTyped /\ StoresFit /\ Remembers(l)
      /\ lane[l].kind \in Inline /\ lane[l].step = "giveup"
  BY CallOf DEF FailInline, At
<1>2. lane[l].job \in JobId
  BY <1>1 DEF Remembers
<1>3. lane[l].req \in Request /\ Ended(lane[l].req)
  BY <1>1, CallReviewed DEF StoresFit
<1>4. PromisesFit' /\ promised' \subseteq Request
  BY <1>1, <1>3 DEF StoresFit, StoresTyped, PromisesFit, FailInline, Ended
<1>5. CASE job[lane[l].job].status \in {"PENDING", "FAILED"} /\ job' = AttemptFailed(lane[l].job)
  <2>1. StoresTyped' /\ StoresFit' /\ Grows
    BY <1>1, <1>2, <1>4, <1>5, AttemptFits DEF FailInline
  <2> QED
    BY <1>1, <2>1, ReleaseStep DEF FailInline
<1>6. CASE job' = job
  <2>1. Quiet
    BY <1>6 DEF Quiet, FailInline, Days
  <2>2. StoresTyped'
    BY <1>1, <1>4, <1>6 DEF FailInline, StoresTyped, Days
  <2>3. StoresFit' /\ Grows
    BY <1>1, <1>4, <2>1, QuietFits
  <2> QED
    BY <1>1, <2>2, <2>3, ReleaseStep DEF FailInline
<1> QED
  BY <1>5, <1>6 DEF FailInline

LEMMA RecoverStep ==
  ASSUME SyncInv, NEW j \in JobId, Recover(j)
  PROVE  SyncInv'
<1>1. PromisesFit' /\ promised' \subseteq Request
  BY DEF SyncInv, StoresFit, StoresTyped, PromisesFit, Recover, Requests, Ended
<1>2. job[j].status # "NONE" /\ job' = AttemptFailed(j)
  BY DEF Recover
<1>3. StoresTyped' /\ StoresFit' /\ Grows
  BY <1>1, <1>2, AttemptFits DEF SyncInv, Recover, Requests
<1> QED
  BY <1>3, StoresStep DEF Recover

LEMMA BumpStep ==
  ASSUME SyncInv, NEW l \in Runner, Bump(l)
  PROVE  SyncInv'
<1>1. lane[l].req \in Request
  BY CallOf DEF Bump, At, Remembers
<1>2. StoresTyped' /\ StoresFit' /\ Grows
  BY <1>1, RequestBumps DEF SyncInv, Bump
<1> QED
  BY <1>2, EndStep DEF Bump

LEMMA ManualSweepStep ==
  ASSUME SyncInv, NEW l \in Runner, ManualSweep(l)
  PROVE  SyncInv'
<1>1. lane[l].kind = "manual" /\ StoresTyped /\ StoresFit /\ LanesTyped
  BY CallOf DEF ManualSweep, At
<1>2. /\ lane[l].req \in Request /\ Ended(lane[l].req) /\ lane[l].version \in Nat
      /\ lane[l].version <= request[lane[l].req].version
      /\ \E j \in JobId : job[j].request = lane[l].req /\ job[j].version <= lane[l].version
  BY <1>1, CallOf DEF Remembers, CallFields
<1>3. StoresTyped' /\ StoresFit' /\ Grows
  BY <1>1, <1>2, SweepFits DEF ManualSweep
<1>4. "insert" \in SyncStep
  BY DEF SyncStep
<1>5. /\ LanesTyped' /\ Others(l) /\ Later(lane[l], lane'[l]) /\ lane'[l].step = "insert"
      /\ lane'[l].job = lane[l].job
  BY <1>1, <1>4, CallGoesOn DEF ManualSweep
<1>6. Expects(lane[l], lane'[l]) /\ Announced(l)
  BY <1>1, <1>5 DEF Expects, Announced, Inline
<1> QED
  BY <1>3, <1>5, <1>6, GoStep DEF Finished

LEMMA ManualInsertStep ==
  ASSUME SyncInv, NEW l \in Runner, ManualInsert(l)
  PROVE  SyncInv'
<1>1. lane[l].kind = "manual" /\ StoresTyped /\ StoresFit
  BY CallOf DEF ManualInsert, At
<1>2. /\ lane[l].req \in Request /\ Ended(lane[l].req) /\ lane[l].version \in Nat
      /\ lane[l].version <= request[lane[l].req].version
  BY <1>1, CallOf DEF Remembers, CallFields
<1>3. StoresTyped' /\ StoresFit' /\ Grows
  BY <1>1, <1>2, InsertFits DEF ManualInsert
<1> QED
  BY <1>3, EndStep DEF ManualInsert

LEMMA LookStep ==
  ASSUME SyncInv, NEW l \in Runner, Look(l)
  PROVE  SyncInv'
<1> DEFINE r == lane[l].req
           j == Latest(ActiveJobs(r))
<1>1. /\ StoresTyped /\ StoresFit /\ LanesTyped /\ Remembers(l) /\ Advances(l) /\ Announces(l)
      /\ lane[l].kind \in Inline /\ lane[l].step \in {"look", "failed"}
  BY CallOf DEF Look, At
<1>2. r \in Request /\ Ended(r)
  BY <1>1, CallReviewed DEF StoresFit
<1>3. ActiveJobs(r) # {} => j \in JobId /\ job[j].request = r
  <2>1. ActiveJobs(r) \in SUBSET JobId /\ \A i \in ActiveJobs(r) : job[i].request = r
    BY DEF ActiveJobs
  <2> QED
    BY <2>1, LatestIs
<1>4. Quiet /\ UNCHANGED syncFaults
  BY DEF Look, Quiet, Queue, Days
<1>5. promised' = promised \/ promised' = promised \cup {r}
  BY DEF Look
<1>6. StoresTyped'
  BY <1>1, <1>2, <1>4, <1>5 DEF StoresTyped, Quiet
<1>7. PromisesFit'
  BY <1>1, <1>2, <1>4, <1>5, QuietGrows, PromisesStand DEF StoresFit, Grows
<1>8. StoresFit' /\ Grows
  BY <1>1, <1>4, <1>7, QuietFits
<1>9. ASSUME NEW s \in {"close", "giveup"}, ActiveJobs(r) # {},
             \/ lane[l].step = "look" /\ s = "close"
             \/ lane[l].step = "failed" /\ s = "giveup",
             lane' = [lane EXCEPT ![l] = [@ EXCEPT !.step = s, !.job = j]]
      PROVE  SyncInv'
  <2>0. j \in JobId /\ job[j].request = r
    BY <1>3, <1>9
  <2>1. s \in SyncStep
    BY DEF SyncStep
  <2>2. lane' = [lane EXCEPT ![l] = Found(lane[l], s, j)]
    BY <1>9 DEF Found
  <2> HIDE DEF j
  <2>3. /\ LanesTyped' /\ Others(l) /\ Later(lane[l], lane'[l]) /\ lane'[l].step = s
        /\ lane'[l].job = j
    BY <1>1, <2>0, <2>1, <2>2, CallFinds
  <2>4. Expects(lane[l], lane'[l])
    BY <1>1, <2>0, <2>3 DEF Expects, Inline
  <2>5. s = "close" => Reaches(l)
    BY <1>1, <1>8, <1>9, ReachesStill DEF Finished
  <2>6. Announced(l)
    BY <1>1, <1>4, <1>9, <2>3 DEF Announced, Announces, Quiet
  <2> QED
    BY <1>1, <1>6, <1>8, <2>3, <2>4, <2>5, <2>6, GoStep DEF Finished, Inline
<1>10. CASE Free(l)
  BY <1>6, <1>8, <1>10, EndStep
<1>11. CASE Release(l)
  BY <1>1, <1>6, <1>8, <1>11, ReleaseStep
<1>12. CASE lane[l].step = "look"
  <2>1. CASE /\ ActiveJobs(r) # {}
             /\ lane' = [lane EXCEPT ![l] = [@ EXCEPT !.step = "close", !.job = j]]
    <3> HIDE DEF j
    <3> QED
      BY <1>9, <1>12, <2>1
  <2> QED
    BY <1>10, <1>12, <2>1 DEF Look
<1>13. CASE lane[l].step = "failed"
  <2>1. CASE /\ ActiveJobs(r) # {}
             /\ lane' = [lane EXCEPT ![l] = [@ EXCEPT !.step = "giveup", !.job = j]]
    <3> HIDE DEF j
    <3> QED
      BY <1>9, <1>13, <2>1
  <2> QED
    BY <1>11, <1>13, <2>1 DEF Look
<1> QED
  BY <1>1, <1>12, <1>13

\* The steps of a call that change nothing but the call.
LEMMA GuardStep ==
  ASSUME SyncInv, NEW l \in Runner, Guard(l)
  PROVE  SyncInv'
<1>1. StoresTyped' /\ StoresFit' /\ Grows
  BY Calm DEF Guard
<1>2. /\ StoresFit /\ LanesTyped /\ Remembers(l) /\ Advances(l)
      /\ lane[l].kind = "job" /\ lane[l].step \in {"ready", "fence"}
  BY CallOf DEF Guard
<1>3. lane[l].req \in Request /\ Ended(lane[l].req)
  BY <1>2, CallReviewed DEF StoresFit
<1>4. ASSUME NEW s \in SyncStep, Goto(l, s),
             \/ s = "list"
             \/ s = "impact" /\ lane[l].step = "fence"
             \/ s = "sweep" /\ lane[l].step = "fence" /\ ~ Approved(lane[l].req)
      PROVE  SyncInv'
  <2>1. /\ LanesTyped' /\ Others(l) /\ Later(lane[l], lane'[l]) /\ lane'[l].step = s
        /\ lane'[l].job = lane[l].job
    BY <1>2, <1>4, CallGoesOn
  <2>2. Expects(lane[l], lane'[l])
    BY <1>2, <1>3, <1>4, <2>1 DEF Expects, Inline
  <2>3. s \in Finished => Reaches(l)
    BY <1>1, <1>2, <1>4, ReachesStill DEF Finished
  <2>4. Announced(l)
    BY <1>4, <2>1 DEF Announced
  <2> QED
    BY <1>1, <1>4, <2>1, <2>2, <2>3, <2>4, GoStep
<1>5. CASE Free(l)
  BY <1>1, <1>5, EndStep
<1>6. "list" \in SyncStep /\ "impact" \in SyncStep /\ "sweep" \in SyncStep
  BY DEF SyncStep
<1> QED
  BY <1>2, <1>4, <1>5, <1>6 DEF Guard

LEMMA ReadRequestStep ==
  ASSUME SyncInv, NEW l \in Runner, ReadRequest(l)
  PROVE  SyncInv'
<1>1. StoresTyped' /\ StoresFit' /\ Grows
  BY Calm DEF ReadRequest
<1>2. /\ StoresTyped /\ StoresFit /\ LanesTyped /\ Remembers(l)
      /\ lane[l].kind = "job" /\ lane[l].step = "read"
  BY CallOf DEF ReadRequest, At
<1>3. /\ lane[l].req \in Request /\ lane[l].job \in JobId
      /\ job[lane[l].job].request = lane[l].req
      /\ lane[l].version = job[lane[l].job].version
  BY <1>2 DEF Remembers
<1>4. /\ job[lane[l].job].version <= request[lane[l].req].version
      /\ request[lane[l].req].status = job[lane[l].job].target
  BY <1>3, SyncBounds DEF SyncInv, StoresFit, JobsFit, JobFits
<1>5. request[lane[l].req].version \in Nat /\ job[lane[l].job].version \in Nat
  BY <1>2, <1>3, RequestRowTyped, JobRowTyped DEF StoresTyped
<1>6. ASSUME NEW s \in SyncStep, Goto(l, s),
             \/ s = "ready"
             \/ s = "drop" /\ request[lane[l].req].version # lane[l].version
      PROVE  SyncInv'
  <2>1. /\ LanesTyped' /\ Others(l) /\ Later(lane[l], lane'[l]) /\ lane'[l].step = s
        /\ lane'[l].job = lane[l].job
    BY <1>2, <1>6, CallGoesOn
  <2>2. s = "drop" => job[lane[l].job].version < request[lane[l].req].version
    BY <1>3, <1>4, <1>5, <1>6
  <2>3. Expects(lane[l], lane'[l])
    BY <1>2, <1>6, <2>1, <2>2 DEF Expects, Inline
  <2>4. Announced(l)
    BY <1>6, <2>1 DEF Announced
  <2> QED
    BY <1>1, <1>6, <2>1, <2>3, <2>4, GoStep DEF Finished
<1>7. CASE Free(l)
  BY <1>1, <1>7, EndStep
<1>8. "ready" \in SyncStep /\ "drop" \in SyncStep
  BY DEF SyncStep
<1>9. \/ Free(l)
      \/ Goto(l, "ready")
      \/ Goto(l, "drop") /\ request[lane[l].req].version # lane[l].version
  BY <1>4 DEF ReadRequest
<1>10. CASE Goto(l, "ready")
  BY <1>6, <1>8, <1>10
<1>11. CASE Goto(l, "drop") /\ request[lane[l].req].version # lane[l].version
  BY <1>6, <1>8, <1>11
<1> QED
  BY <1>7, <1>9, <1>10, <1>11

LEMMA ComputeImpactStep ==
  ASSUME SyncInv, NEW l \in Runner, ComputeImpact(l)
  PROVE  SyncInv'
<1>1. StoresTyped' /\ StoresFit' /\ Grows
  BY Calm DEF ComputeImpact
<1>2. /\ StoresTyped /\ StoresFit /\ LanesTyped /\ Remembers(l) /\ Advances(l)
      /\ lane[l].kind \in {"approve", "job"} /\ lane[l].step = "impact"
  BY CallOf DEF ComputeImpact, At
<1>3. lane[l].req \in Request /\ Ended(lane[l].req)
  BY <1>2, CallReviewed DEF StoresFit, Inline
<1> DEFINE M == Impact(lane[l].req)
           s == IF lane[l].kind = "job" THEN "check"
                ELSE IF M = {} THEN "look" ELSE "mark"
<1>4. M \in SUBSET Conflict
  BY <1>3 DEF Impact, Conflict
<1>5. \A w \in Need(lane[l].req) : Raised(lane[l].req, w) \in M
  <2>1. ASSUME NEW w \in Need(lane[l].req)
        PROVE  /\ w \in Workday /\ workday[w].status # "NONE" /\ <<lane[l].req, w>> \in Dated
               /\ <<lane[l].req, w, workday[w].edition>> \in Covers
    BY <1>2 DEF Need, StoresFit, DaysFit, RowFits
  <2> QED
    BY <2>1 DEF Impact, Raised
<1>6. lane' = [lane EXCEPT ![l] = Marked(lane[l], s, M)]
  BY DEF ComputeImpact, Marked
<1>7. s \in SyncStep /\ s \in {"check", "look", "mark"} /\ (s = "look" => M = {})
  BY DEF SyncStep
<1> HIDE DEF M, s
<1>8. /\ LanesTyped' /\ Others(l) /\ Later(lane[l], lane'[l]) /\ lane'[l].step = s
      /\ lane'[l].job = lane[l].job /\ lane'[l].marks = M
  BY <1>2, <1>4, <1>6, <1>7, CallMarks
<1>9. Expects(lane[l], lane'[l])
  BY <1>2, <1>7, <1>8 DEF Expects, Inline
<1>10. Reaches(l)
  BY <1>1, <1>2, ReachesStill DEF Finished
<1>11. Announced(l)
  BY <1>5, <1>7, <1>8 DEF Announced
<1> QED
  BY <1>1, <1>7, <1>8, <1>9, <1>10, <1>11, GoStep

LEMMA CheckStep ==
  ASSUME SyncInv, NEW l \in Runner, Check(l)
  PROVE  SyncInv'
<1>1. StoresTyped' /\ StoresFit' /\ Grows
  BY Calm DEF Check
<1>2. /\ LanesTyped /\ Remembers(l) /\ Advances(l) /\ Announces(l)
      /\ lane[l].kind = "job" /\ lane[l].step = "check"
  BY CallOf DEF Check, At
<1>3. ASSUME NEW s \in SyncStep, Goto(l, s), s = "mark" \/ (s = "close" /\ lane[l].marks = {})
      PROVE  SyncInv'
  <2>1. /\ LanesTyped' /\ Others(l) /\ Later(lane[l], lane'[l]) /\ lane'[l].step = s
        /\ lane'[l].job = lane[l].job /\ lane'[l].marks = lane[l].marks
    BY <1>2, <1>3, CallGoesOn
  <2>2. Expects(lane[l], lane'[l])
    BY <1>2, <1>3, <2>1 DEF Expects, Inline
  <2>3. Reaches(l)
    BY <1>1, <1>2, ReachesStill DEF Finished
  <2>4. Announced(l)
    BY <1>2, <1>3, <2>1 DEF Announced, Announces, Check, Days
  <2> QED
    BY <1>1, <1>3, <2>1, <2>2, <2>3, <2>4, GoStep
<1>4. CASE Free(l)
  BY <1>1, <1>4, EndStep
<1>5. "mark" \in SyncStep /\ "close" \in SyncStep
  BY DEF SyncStep
<1>6. \/ Free(l)
      \/ Goto(l, "mark")
      \/ Goto(l, "close") /\ lane[l].marks = {}
  BY DEF Check
<1>7. CASE Goto(l, "mark")
  BY <1>3, <1>5, <1>7
<1>8. CASE Goto(l, "close") /\ lane[l].marks = {}
  BY <1>3, <1>5, <1>8
<1> QED
  BY <1>4, <1>6, <1>7, <1>8

-----------------------------------------------------------------------------
(* Conflicts, workdays and attendance, step by step *)

LEMMA MarkStep ==
  ASSUME SyncInv, NEW l \in Runner, NEW c \in lane[l].marks, Mark(l, c)
  PROVE  SyncInv'
<1>1. /\ StoresTyped /\ StoresFit /\ LanesTyped /\ Remembers(l) /\ Advances(l) /\ Announces(l)
      /\ lane[l].kind \in {"approve", "job"} /\ lane[l].step = "mark" /\ c \in Conflict
  BY CallOf DEF Mark, At, CallFields
<1>2. CASE Free(l) /\ UNCHANGED conflict
  <2>1. StoresTyped' /\ StoresFit' /\ Grows
    BY <1>2, Calm DEF Mark, Days
  <2> QED
    BY <1>2, <2>1, EndStep
<1> DEFINE s == IF lane[l].marks = {c} THEN Afterwards(l) ELSE "mark"
           M == lane[l].marks \ {c}
<1>3. CASE conflict' = conflict \cup {c} /\ lane' = [lane EXCEPT ![l] = Marked(lane[l], s, M)]
  <2>1. StoresTyped'
    BY <1>1, <1>3 DEF StoresTyped, Mark, Requests, Queue
  <2>2. StoresFit' /\ Grows
    <3>1. punched \subseteq punched' /\ MarksStand
      BY <1>3 DEF Mark, MarksStand
    <3> QED
      BY <1>1, <3>1, MarksMove DEF Mark
  <2>3. s \in SyncStep /\ s \in {"mark", "look", "close"} /\ M \in SUBSET Conflict
    BY CallOf DEF SyncStep, Afterwards, CallFields
  <2>4. s # "mark" => M = {}
    OBVIOUS
  <2>5. conflict \cup lane[l].marks \subseteq conflict' \cup M
    BY <1>3
  <2> HIDE DEF s, M
  <2>6. /\ LanesTyped' /\ Others(l) /\ Later(lane[l], lane'[l]) /\ lane'[l].step = s
        /\ lane'[l].job = lane[l].job /\ lane'[l].marks = M
    BY <1>1, <1>3, <2>3, CallMarks
  <2>7. Expects(lane[l], lane'[l])
    <3>1. lane[l].kind = "job" \/ s # "close"
      BY <1>1 DEF s, Afterwards
    <3> QED
      BY <1>1, <2>3, <2>6, <3>1 DEF Expects, Inline
  <2>8. Reaches(l)
    BY <1>1, <2>2, ReachesStill DEF Finished
  <2>9. Announced(l)
    BY <1>1, <2>3, <2>4, <2>5, <2>6 DEF Announced, Announces
  <2> QED
    BY <2>1, <2>2, <2>3, <2>6, <2>7, <2>8, <2>9, GoStep
<1> QED
  BY <1>2, <1>3 DEF Mark, Marked

LEMMA SweepStep ==
  ASSUME SyncInv, NEW l \in Runner, Sweep(l)
  PROVE  SyncInv'
<1>1. /\ StoresTyped /\ StoresFit /\ LanesTyped /\ Remembers(l)
      /\ lane[l].kind \in {"revoke", "job"} /\ lane[l].step = "sweep"
  BY CallOf DEF Sweep, At
<1>2. lane[l].req \in Request /\ ~ Approved(lane[l].req)
  BY <1>1 DEF Remembers
<1>3. StoresTyped'
  BY <1>1 DEF StoresTyped, Sweep, Requests, Queue
<1>4. MarksStand
  BY <1>2 DEF MarksStand, Sweep, Raised
<1>5. StoresFit' /\ Grows
  BY <1>1, <1>4, MarksMove DEF Sweep
<1> DEFINE s == Afterwards(l)
<1>6. s \in SyncStep /\ s \in {"look", "close"} /\ (s = "close" => lane[l].kind = "job")
  BY DEF Afterwards, SyncStep
<1>7. Goto(l, s)
  BY DEF Sweep
<1> HIDE DEF s
<1>8. /\ LanesTyped' /\ Others(l) /\ Later(lane[l], lane'[l]) /\ lane'[l].step = s
      /\ lane'[l].job = lane[l].job
  BY <1>1, <1>6, <1>7, CallGoesOn
<1>9. Expects(lane[l], lane'[l])
  BY <1>1, <1>6, <1>8 DEF Expects, Inline
<1>10. Reaches(l) /\ Announced(l)
  BY <1>2 DEF Reaches, Announced
<1> QED
  BY <1>3, <1>5, <1>6, <1>8, <1>9, <1>10, GoStep

LEMMA WorkdayRowTyped ==
  ASSUME NEW x \in WorkdayRow
  PROVE  /\ x.status \in {"NONE", "EXPECTED", "JUSTIFIED"}
         /\ x.absence \in Request \cup {NoRequest} /\ x.edition \in Edition
BY DEF WorkdayRow

\* One workday moves.
LEMMA DayMoves ==
  ASSUME StoresTyped, StoresFit, NEW w \in Workday, NEW y \in WorkdayRow, RowFits(w, y),
         workday' = [workday EXCEPT ![w] = y],
         w \notin Recurring /\ workday[w].status = "JUSTIFIED" => y.status = "JUSTIFIED",
         UNCHANGED <<Requests, Queue, punched, conflict, syncFaults>>
  PROVE  StoresTyped' /\ StoresFit' /\ Grows
<1>1. workday' \in [Workday -> WorkdayRow]
      /\ \A v \in Workday : workday'[v] = IF v = w THEN y ELSE workday[v]
  BY DEF StoresTyped
<1>2. StoresTyped'
  BY <1>1 DEF StoresTyped, Requests, Queue
<1>3. \A v \in Workday : RowFits(v, workday'[v])
  BY <1>1 DEF StoresFit, DaysFit
<1>4. DaysStand /\ MarksStand
  BY <1>1 DEF DaysStand, MarksStand
<1> QED
  BY <1>2, <1>3, <1>4, DaysMove

LEMMA MakeDayStep ==
  ASSUME SyncInv, NEW l \in Runner, NEW w \in Workday, MakeDay(l, w)
  PROVE  SyncInv'
<1> DEFINE y == [workday[w] EXCEPT !.status = "EXPECTED"]
<1>1. workday[w] \in WorkdayRow /\ RowFits(w, workday[w])
  BY DEF SyncInv, StoresTyped, StoresFit, DaysFit
<1>2. y \in WorkdayRow /\ y.status = "EXPECTED" /\ y.absence = workday[w].absence
  BY <1>1 DEF WorkdayRow
<1>3. workday' = [workday EXCEPT ![w] = y] /\ w \in Recurring /\ workday[w].status = "NONE"
  BY DEF MakeDay
<1> HIDE DEF y
<1>4. RowFits(w, y)
  BY <1>1, <1>2, <1>3 DEF RowFits
<1>5. StoresTyped' /\ StoresFit' /\ Grows
  BY <1>2, <1>3, <1>4, DayMoves DEF SyncInv, MakeDay
<1> QED
  BY <1>5, StoresStep DEF MakeDay

LEMMA RescheduleStep ==
  ASSUME SyncInv, NEW l \in Runner, NEW w \in Workday, Reschedule(l, w)
  PROVE  SyncInv'
<1> DEFINE e == workday[w].edition + 1
           y == [workday[w] EXCEPT !.edition = e]
<1>1. workday[w] \in WorkdayRow /\ RowFits(w, workday[w])
  BY DEF SyncInv, StoresTyped, StoresFit, DaysFit
<1>2. workday' = [workday EXCEPT ![w] = [workday[w] EXCEPT !.edition = e]]
      /\ w \in Recurring /\ e \in Edition
  BY DEF Reschedule
<1> HIDE DEF e
<1>3. y \in WorkdayRow /\ y.status = workday[w].status /\ y.absence = workday[w].absence
  BY <1>1, <1>2 DEF WorkdayRow
<1>4. workday' = [workday EXCEPT ![w] = y]
  BY <1>2
<1> HIDE DEF y
<1>5. RowFits(w, y)
  BY <1>1, <1>2, <1>3 DEF RowFits
<1>6. StoresTyped' /\ StoresFit' /\ Grows
  BY <1>2, <1>3, <1>4, <1>5, DayMoves DEF SyncInv, Reschedule
<1> QED
  BY <1>6, StoresStep DEF Reschedule

LEMMA PunchStep ==
  ASSUME SyncInv, NEW l \in Runner, Punch(l)
  PROVE  SyncInv'
<1>1. StoresTyped /\ StoresFit /\ RowsFit(l) /\ CallFields(lane[l])
  BY CallOf
<1>2. PICK x \in lane[l].rows :
        IF x.day \in punched THEN UNCHANGED <<punched, conflict>>
        ELSE /\ punched' = punched \cup {x.day}
             /\ conflict' = IF /\ x.row.status = "JUSTIFIED" /\ Integrated
                               /\ Approved(x.row.absence)
                            THEN conflict \cup {<<"ATTENDANCE", x.row.absence, x.day>>}
                            ELSE conflict
  BY DEF Punch
<1>3. x.day \in Workday /\ (x.row.status = "JUSTIFIED" => x.row.absence \in Request)
  BY <1>1, LoadedTyped DEF CallFields, RowsFit, RowFits
<1>4. x.row.status = "JUSTIFIED" => <<"ATTENDANCE", x.row.absence, x.day>> \in Conflict
  BY <1>3 DEF Conflict
<1>5. /\ punched \subseteq punched' /\ punched' \subseteq Workday
      /\ conflict \subseteq conflict' /\ conflict' \subseteq Conflict
  BY <1>1, <1>2, <1>3, <1>4 DEF StoresTyped
<1>6. StoresTyped'
  BY <1>1, <1>5 DEF StoresTyped, Punch, Requests, Queue
<1>7. MarksStand
  BY <1>5 DEF MarksStand
<1>8. StoresFit' /\ Grows
  BY <1>1, <1>5, <1>7, MarksMove DEF Punch
<1> QED
  BY <1>6, <1>8, EndStep DEF Punch

-----------------------------------------------------------------------------
(* Faults, step by step *)

LEMMA FaultCounts ==
  ASSUME StoresTyped, syncFaults < MaxSyncFaults, syncFaults' = syncFaults + 1
  PROVE  syncFaults' \in 0..MaxSyncFaults
BY SyncBounds DEF StoresTyped

LEMMA CallDiesStep ==
  ASSUME SyncInv, NEW l \in Runner, CallDies(l)
  PROVE  SyncInv'
<1>1. StoresTyped' /\ StoresFit' /\ Grows
  BY FaultCounts, StillFits DEF SyncInv, CallDies
<1> QED
  BY <1>1, EndStep DEF CallDies

LEMMA ThrowsAgainStep ==
  ASSUME SyncInv, NEW l \in Runner, ThrowsAgain(l)
  PROVE  SyncInv'
<1>1. /\ StoresTyped /\ StoresFit /\ Remembers(l) /\ lane[l].kind \in Inline \cup {"job"}
  BY CallOf DEF ThrowsAgain, At
<1>2. lane[l].req \in Request /\ Ended(lane[l].req)
  BY <1>1, CallReviewed DEF StoresFit
<1>3. promised' = promised \/ promised' = promised \cup {lane[l].req}
  BY DEF ThrowsAgain
<1>4. Quiet /\ syncFaults' \in 0..MaxSyncFaults
  BY <1>1, FaultCounts DEF ThrowsAgain, Quiet, Queue, Days
<1>5. StoresTyped'
  BY <1>1, <1>2, <1>3, <1>4 DEF StoresTyped, Quiet
<1>6. PromisesFit'
  BY <1>1, <1>2, <1>3, <1>4, QuietGrows, PromisesStand DEF StoresFit, Grows
<1>7. StoresFit' /\ Grows
  BY <1>1, <1>4, <1>6, QuietFits
<1> QED
  BY <1>1, <1>5, <1>7, ReleaseStep DEF ThrowsAgain

LEMMA ThrowsStep ==
  ASSUME SyncInv, NEW l \in Runner, Throws(l)
  PROVE  SyncInv'
<1>1. /\ StoresTyped /\ LanesTyped /\ lane[l].kind \in Runs /\ lane[l] \in LaneState
      /\ lane[l].todo \in SUBSET Delta
  BY CallOf, CallTyped DEF Throws, Runs, CallFields
<1>2. StoresTyped' /\ StoresFit' /\ Grows
  BY FaultCounts, StillFits DEF SyncInv, Throws
<1>3. PICK op \in {"justify", "relink", "restore"} :
        LET todo == {d \in lane[l].todo : d.op # op}
            step == OnError(lane[l].kind)
        IN  lane' = [lane EXCEPT ![l] =
                       IF step = "stray" /\ todo = {} THEN NoCall
                       ELSE [NoCall EXCEPT !.kind = lane[l].kind, !.step = step,
                                           !.req = lane[l].req, !.job = lane[l].job,
                                           !.lease = lane[l].lease, !.todo = todo]]
  BY DEF Throws
<1> DEFINE T == {d \in lane[l].todo : d.op # op}
           s == OnError(lane[l].kind)
<1>4. CASE lane' = [lane EXCEPT ![l] = NoCall]
  BY <1>2, <1>4, EndStep DEF Free
<1>5. CASE lane' = [lane EXCEPT ![l] = Thrown(lane[l], s, T)]
  <2>1. s \in SyncStep /\ s \in {"stray", "failed"}
    BY DEF OnError, SyncStep
  <2>2. T \in SUBSET Delta /\ T \subseteq lane[l].todo
    BY <1>1
  <2> HIDE DEF s, T
  <2> DEFINE d == Thrown(lane[l], s, T)
  <2>3. /\ d \in LaneState
        /\ d.kind = lane[l].kind /\ d.req = lane[l].req /\ d.job = lane[l].job
        /\ d.step = s /\ d.rows = {}
        /\ d.known = <<>> /\ d.present = {} /\ d.todo = T
    BY <1>1, <2>1, <2>2, ThrownIs
  <2>4. lane' = [lane EXCEPT ![l] = d]
    BY <1>5
  <2> HIDE DEF d
  <2>5. LanesTyped' /\ lane'[l] = d /\ Others(l)
    BY <1>1, <2>3, <2>4, CallMoves
  <2>6. Lighter(lane[l], lane'[l])
    BY <2>1, <2>2, <2>3, <2>5 DEF Lighter
  <2>7. SameWho(lane[l], lane'[l])
    BY <1>1, <2>3, <2>5 DEF SameWho, Runs, Inline
  <2>8. Expects(lane[l], lane'[l]) /\ Announced(l)
    BY <2>1, <2>3, <2>5 DEF Expects, Announced
  <2>9. CallFits(l)'
    BY <1>2, <2>1, <2>3, <2>5, <2>6, <2>7, <2>8, OnFits DEF Finished
  <2> QED
    BY <1>2, <2>5, <2>9, StepFits
<1> QED
  BY <1>3, <1>4, <1>5 DEF Thrown

-----------------------------------------------------------------------------
(* The reconciliation, step by step *)

\* The workdays are reconciled: every day the request has to excuse is.
LEMMA ReconciledStep ==
  ASSUME SyncInv, StoresTyped', StoresFit', Grows, NEW l \in Runner,
         lane[l].kind \in Runs, DaysReconciled(l), Reaches(l)
  PROVE  SyncInv'
<1>1. /\ StoresTyped /\ StoresFit /\ LanesTyped /\ Remembers(l)
  BY CallOf
<1>2. /\ LanesTyped' /\ Others(l)
      /\ \/ Over(l)
         \/ MovesOn(l) /\ lane[l].kind \in Inline \cup {"job"}
  BY <1>1, CallReconciles
<1>3. CASE Over(l)
  BY <1>2, <1>3, OverFits, StepFits
<1>4. CASE MovesOn(l) /\ lane[l].kind \in Inline \cup {"job"}
  <2>1. lane[l].req \in Request /\ Ended(lane[l].req)
    BY <1>1, <1>4, CallReviewed DEF StoresFit
  <2>2. Lighter(lane[l], lane'[l])
    BY <1>4 DEF MovesOn, Lighter, AfterReconcile, Inline
  <2>3. SameWho(lane[l], lane'[l])
    BY <1>4 DEF MovesOn, SameCall, SameWho
  <2>4. Expects(lane[l], lane'[l])
    BY <1>1, <1>4, <2>1 DEF MovesOn, SameCall, Expects, AfterReconcile, Inline, Remembers
  <2>5. Announced(l)
    BY <1>4 DEF MovesOn, Announced, AfterReconcile, Inline
  <2>6. lane'[l].step # "write"
    BY <1>4 DEF MovesOn, AfterReconcile, Inline
  <2>7. CallFits(l)'
    BY <1>2, <2>2, <2>3, <2>4, <2>5, <2>6, OnFits
  <2> QED
    BY <1>2, <2>7, StepFits
<1> QED
  BY <1>2, <1>3, <1>4

LEMMA ListStep ==
  ASSUME SyncInv, NEW l \in Runner, List(l)
  PROVE  SyncInv'
<1>1. /\ StoresTyped /\ StoresFit /\ LanesTyped /\ CallFields(lane[l])
      /\ Remembers(l) /\ KnownFit(l) /\ TodoFit(l)
      /\ lane[l].kind \in Runs /\ lane[l].step \in {"list", "plan"}
      /\ lane[l].kind = "materialize" <=> lane[l].step = "plan"
  BY CallOf DEF List, At, Runs, Inline
<1>2. StoresTyped' /\ StoresFit' /\ Grows
  BY Calm DEF List
<1>3. ASSUME lane[l].kind \in Inline \cup {"job"}, Approved(lane[l].req),
             NEW w \in Need(lane[l].req)
      PROVE  w \in Selected(l)
  BY <1>1, <1>3 DEF Selected, Need, StoresFit, DaysFit, RowFits, Inline
<1>4. CASE Selected(l) = {}
  <2>1. Reaches(l)
    BY <1>3, <1>4 DEF Reaches
  <2> QED
    BY <1>1, <1>2, <1>4, <2>1, ReconciledStep DEF List
<1>5. CASE Selected(l) # {}
  <2> DEFINE R == {[day |-> w, row |-> workday[w]] : w \in Selected(l)}
  <2>1. R \in SUBSET Loaded
    <3>1. Selected(l) \subseteq Workday
      BY DEF Selected
    <3>2. \A w \in Workday : [day |-> w, row |-> workday[w]] \in Loaded
      BY <1>1 DEF Loaded, StoresTyped
    <3> QED
      BY <3>1, <3>2
  <2>2. \A x \in R : x.day \in Selected(l) /\ x.row = workday[x.day]
    OBVIOUS
  <2>3. ASSUME NEW w \in Selected(l) PROVE \E x \in R : x.day = w
    <3>1. [day |-> w, row |-> workday[w]] \in R
      OBVIOUS
    <3> QED
      BY <3>1
  <2>4. lane' = [lane EXCEPT ![l] = Listing(lane[l], R)]
    BY <1>5 DEF List, Listing
  <2> HIDE DEF R
  <2>5. /\ LanesTyped' /\ Others(l) /\ SameCall(lane[l], lane'[l])
        /\ lane'[l].step = "context" /\ lane'[l].left = {"approved", "present"}
        /\ lane'[l].rows = R /\ lane'[l].known = lane[l].known
        /\ lane'[l].present = lane[l].present /\ lane'[l].todo = lane[l].todo
    BY <1>1, <2>1, <2>4, CallLists
  <2>6. ~ Heard(l)'
    BY <2>5 DEF Heard
  <2>7. RowsFit(l)'
    <3>1. ASSUME NEW x \in R
          PROVE  /\ RowFits(x.day, x.row)'
                 /\ x.row.status = "JUSTIFIED" => workday'[x.day].status = "JUSTIFIED"
      <4>1. RowFits(x.day, x.row) /\ x.row = workday[x.day]
        BY <1>1, <2>2 DEF StoresFit, DaysFit, Selected
      <4> QED
        BY <1>2, <4>1, RowStands DEF Grows, List, Days
    <3> QED
      BY <2>5, <2>6, <3>1 DEF RowsFit
  <2>8. KnownFit(l)' /\ TodoFit(l)'
    <3>1. \A r : Approved(r)' <=> Approved(r)
      BY DEF List, Requests, Approved
    <3>2. \A d : TodoFits(d) => TodoFits(d)'
      BY <1>2, DeltaStands DEF Grows
    <3>3. punched' = punched
      BY DEF List, Days
    <3> QED
      BY <1>1, <2>5, <2>6, <3>1, <3>2, <3>3 DEF KnownFit, TodoFit, Approved
  <2>9. Remembers(l)'
    <3>1. SameWho(lane[l], lane'[l])
      BY <2>5 DEF SameCall, SameWho
    <3>2. Expects(lane[l], lane'[l])
      BY <1>1, <2>5 DEF Expects
    <3> QED
      BY <1>1, <1>2, <2>5, <3>1, <3>2, RemembersOn
  <2>10. Advances(l)'
    <3>1. lane'[l].kind \in Inline \cup {"job"} /\ Approved(lane[l].req) =>
             \A w \in Need(lane[l].req) : \E x \in R : x.day = w
      BY <1>3, <2>3, <2>5 DEF SameCall
    <3> QED
      BY <2>5, <3>1 DEF Advances, SameCall, Finished, List, Requests, Approved
  <2>11. Announces(l)'
    BY <2>5 DEF Announces
  <2> QED
    BY <1>2, <2>5, <2>7, <2>8, <2>9, <2>10, <2>11, StepFits DEF CallFits
<1> QED
  BY <1>4, <1>5

\* Decided from rows, absences and attendance that fit, the changes fit.
LEMMA DeltasFit ==
  ASSUME NEW rows \in SUBSET Loaded, NEW known \in Seq(Request), NEW present,
         \A x \in rows : RowFits(x.day, x.row),
         \A x \in rows : x.row.status = "JUSTIFIED" => Seen(known, x.row.absence),
         \A i \in DOMAIN known : Approved(known[i]),
         NEW d \in Deltas(rows, known, present)
  PROVE  TodoFits(d)
<1>1. PICK x \in rows :
         /\ d.day = x.day /\ d.from = x.row.absence
         /\ \/ /\ d.op \in {"justify", "relink"} /\ Covering(x, known) # {}
               /\ d.to = Effective(x, known)
            \/ /\ d.op = "restore" /\ Covering(x, known) = {} /\ x.row.status = "JUSTIFIED"
               /\ d.to = NoRequest
         /\ d = [op |-> d.op, day |-> d.day, from |-> d.from, to |-> d.to]
  BY DeltaOf
<1>2. x.day \in Workday /\ x.row.edition \in Edition /\ RowFits(x.day, x.row)
  BY <1>1, LoadedTyped
<1>3. CASE d.op \in {"justify", "relink"}
  <2>1. Covering(x, known) # {} /\ d.to = Effective(x, known)
    BY <1>1, <1>3
  <2>2. PICK i \in DOMAIN known : /\ Effective(x, known) = known[i] /\ known[i] \in Request
                                  /\ <<known[i], x.day, x.row.edition>> \in Covers
    BY <2>1, EffectiveCovers
  <2>3. x.day \notin Recurring => x.row.edition = 0
    BY <1>2 DEF RowFits
  <2> QED
    BY <1>1, <1>2, <1>3, <2>1, <2>2, <2>3 DEF TodoFits
<1>4. CASE d.op = "restore"
  <2>1. d.to = NoRequest /\ Covering(x, known) = {} /\ x.row.status = "JUSTIFIED"
    BY <1>1, <1>4
  <2>2. ASSUME x.day \notin Recurring PROVE FALSE
    <3>1. <<x.row.absence, x.day, x.row.edition>> \in Covers
      BY <1>2, <2>1, <2>2 DEF RowFits
    <3>2. PICK i \in DOMAIN known : known[i] = x.row.absence
      BY <2>1 DEF Seen
    <3>3. i \in Covering(x, known)
      BY <3>1, <3>2 DEF Covering
    <3> QED
      BY <2>1, <3>3
  <2> QED
    BY <1>1, <1>4, <2>1, <2>2 DEF TodoFits
<1> QED
  BY <1>1, <1>3, <1>4

\* And they reach every one-time day the request has to excuse.
LEMMA DeltasReach ==
  ASSUME NEW rows \in SUBSET Loaded, NEW known \in Seq(Request), NEW present,
         present \subseteq punched, NEW r, Seen(known, r), NEW w \in Need(r),
         NEW x \in rows, x.day = w, RowFits(w, x.row),
         x.row.status = "JUSTIFIED" => workday[w].status = "JUSTIFIED"
  PROVE  Excused(w) \/ \E d \in Deltas(rows, known, present) : Justifies(d, w)
<1>1. w \in Workday /\ w \notin Recurring /\ <<r, w, 0>> \in Covers
  BY DEF Need
<1>2. x.row.edition = 0 /\ x.row.status \in {"EXPECTED", "JUSTIFIED"}
  BY <1>1, LoadedTyped DEF RowFits
<1>3. PICK i \in DOMAIN known : known[i] = r
  BY DEF Seen
<1>4. i \in Covering(x, known)
  BY <1>1, <1>2, <1>3 DEF Covering
<1>5. CASE w \in present \/ x.row.status = "JUSTIFIED"
  BY <1>5 DEF Excused
<1>6. CASE w \notin present /\ x.row.status = "EXPECTED"
  <2> DEFINE d == [op |-> "justify", day |-> x.day, from |-> x.row.absence,
                   to |-> Effective(x, known)]
  <2>1. d \in Deltas(rows, known, present)
    BY <1>4, <1>6 DEF Deltas
  <2>2. Justifies(d, w)
    BY DEF Justifies
  <2> QED
    BY <2>1, <2>2
<1> QED
  BY <1>2, <1>5, <1>6

\* What a call knows once it has heard of absences or of attendance.
Learns(l, L, K, P) ==
    /\ K \in Seq(Request) /\ P \in SUBSET Workday /\ P \subseteq punched
    /\ \A i \in DOMAIN K : Approved(K[i])
    /\ "approved" \notin L =>
         /\ lane[l].kind \in Inline \cup {"job"} /\ Approved(lane[l].req) => Seen(K, lane[l].req)
         /\ \A x \in lane[l].rows : x.row.status = "JUSTIFIED" => Seen(K, x.row.absence)

LEMMA ApprovedLearnt ==
  ASSUME SyncInv, NEW l \in Runner, lane[l].step = "context", NEW L,
         NEW P \in SUBSET Workday, P \subseteq punched
  PROVE  Learns(l, L, approvals, P)
<1>1. /\ StoresTyped /\ StoresFit /\ Remembers(l) /\ RowsFit(l) /\ CallFields(lane[l])
  BY CallOf
<1>2. approvals \in Seq(Request) /\ \A i \in DOMAIN approvals : approvals[i] \in Request
  BY <1>1 DEF StoresTyped
<1>3. \A i \in DOMAIN approvals : Approved(approvals[i])
  BY <1>1, <1>2 DEF StoresFit, Listed, Seen
<1>4. lane[l].kind \in Inline \cup {"job"} /\ Approved(lane[l].req) => Seen(approvals, lane[l].req)
  BY <1>1, CallReviewed DEF StoresFit, Listed
<1>5. \A x \in lane[l].rows : x.row.status = "JUSTIFIED" => Seen(approvals, x.row.absence)
  BY <1>1 DEF StoresFit, Listed, RowsFit, RowFits
<1> QED
  BY <1>2, <1>3, <1>4, <1>5 DEF Learns

LEMMA AttendanceLearnt ==
  ASSUME SyncInv, NEW l \in Runner, lane[l].step = "context", NEW D
  PROVE  Learns(l, lane[l].left \ {"present"}, lane[l].known, punched \cap D)
<1>1. StoresTyped /\ KnownFit(l) /\ RowsFit(l) /\ CallFields(lane[l])
  BY CallOf
<1>2. lane[l].known \in Seq(Request) /\ punched \subseteq Workday
  BY <1>1 DEF CallFields, StoresTyped
<1>3. "approved" \notin lane[l].left \ {"present"} => Heard(l)
  BY DEF Heard
<1> QED
  BY <1>1, <1>2, <1>3 DEF Learns, KnownFit, RowsFit

LEMMA HearingStep ==
  ASSUME SyncInv, StoresTyped', StoresFit', Grows, UNCHANGED <<Requests, Days>>,
         NEW l \in Runner, lane[l].step = "context",
         NEW L \in SUBSET {"approved", "present"}, NEW K, NEW P, Learns(l, L, K, P),
         lane' = [lane EXCEPT ![l] = Hearing(lane[l], L, K, P)]
  PROVE  SyncInv'
<1>1. /\ StoresTyped /\ StoresFit /\ LanesTyped /\ Remembers(l) /\ RowsFit(l) /\ TodoFit(l)
      /\ Advances(l) /\ CallFields(lane[l])
  BY CallOf
<1>2. /\ LanesTyped' /\ Others(l) /\ SameCall(lane[l], lane'[l])
      /\ lane'[l].step = "context" /\ lane'[l].left = L
      /\ lane'[l].rows = lane[l].rows /\ lane'[l].known = K
      /\ lane'[l].present = P /\ lane'[l].todo = lane[l].todo
  <2>1. K \in Seq(Request) /\ P \in SUBSET Workday
    BY DEF Learns
  <2>2. LanesTyped /\ L \in SUBSET {"approved", "present"}
    BY <1>1
  <2>3. /\ LanesTyped' /\ Others(l) /\ SameCall(lane[l], lane'[l])
        /\ lane'[l].step = lane[l].step /\ lane'[l].left = L
        /\ lane'[l].rows = lane[l].rows /\ lane'[l].known = K
        /\ lane'[l].present = P /\ lane'[l].todo = lane[l].todo
    BY <2>1, <2>2, CallHears
  <2> QED
    BY <2>3
<1>3. \A r : Approved(r)' <=> Approved(r)
  BY DEF Requests, Approved
<1>4. Heard(l)' => "approved" \notin L
  BY <1>2 DEF Heard
<1>5. Remembers(l)'
  <2>1. SameWho(lane[l], lane'[l])
    BY <1>2 DEF SameCall, SameWho
  <2>2. Expects(lane[l], lane'[l])
    BY <1>1, <1>2 DEF Expects, Remembers
  <2> QED
    BY <1>1, <1>2, <2>1, <2>2, RemembersOn
<1>6. RowsFit(l)'
  <2>1. ASSUME NEW x \in lane[l].rows
        PROVE  /\ RowFits(x.day, x.row)'
               /\ x.day \notin Recurring /\ x.row.status = "JUSTIFIED"
                    => workday'[x.day].status = "JUSTIFIED"
    <3>1. RowFits(x.day, x.row)'
      BY <1>1, RowStands DEF RowsFit, Grows
    <3> QED
      BY <1>1, <3>1 DEF RowsFit, Days
  <2>2. Heard(l)' => \A x \in lane[l].rows :
                       x.row.status = "JUSTIFIED" => Seen(K, x.row.absence)
    BY <1>4 DEF Learns
  <2> QED
    BY <1>2, <2>1, <2>2 DEF RowsFit
<1>7. KnownFit(l)'
  <2>1. Heard(l)' /\ lane[l].kind \in Inline \cup {"job"} /\ Approved(lane[l].req)
          => Seen(K, lane[l].req)
    BY <1>4 DEF Learns
  <2>2. P \subseteq punched' /\ \A i \in DOMAIN K : Approved(K[i])
    BY DEF Learns, Days
  <2> QED
    BY <1>2, <2>1, <2>2 DEF KnownFit, SameCall, Approved, Requests
<1>8. TodoFit(l)'
  BY <1>1, <1>2, DeltaStands DEF TodoFit, Grows
<1>9. Advances(l)'
  BY <1>1, <1>2 DEF Advances, SameCall, Finished, Approved, Requests
<1>10. Announces(l)'
  BY <1>2 DEF Announces
<1> QED
  BY <1>2, <1>5, <1>6, <1>7, <1>8, <1>9, <1>10, StepFits DEF CallFits

LEMMA DecidedStep ==
  ASSUME SyncInv, StoresTyped', StoresFit', Grows, UNCHANGED <<Requests, Days>>,
         NEW l \in Runner, lane[l].step = "context", NEW K, NEW P, Learns(l, {}, K, P),
         LET T == Deltas(lane[l].rows, K, P) IN
         IF T = {} THEN DaysReconciled(l)
         ELSE lane' = [lane EXCEPT ![l] = Decided(lane[l], "write", T)]
  PROVE  SyncInv'
<1> DEFINE T == Deltas(lane[l].rows, K, P)
<1>1. /\ StoresTyped /\ StoresFit /\ LanesTyped /\ Remembers(l) /\ RowsFit(l)
      /\ Advances(l) /\ CallFields(lane[l]) /\ lane[l].kind \in Runs
  BY CallOf DEF Remembers
<1>2. /\ K \in Seq(Request) /\ P \subseteq punched /\ \A i \in DOMAIN K : Approved(K[i])
      /\ lane[l].kind \in Inline \cup {"job"} /\ Approved(lane[l].req) => Seen(K, lane[l].req)
      /\ \A x \in lane[l].rows : x.row.status = "JUSTIFIED" => Seen(K, x.row.absence)
  BY DEF Learns
<1>3. lane[l].rows \in SUBSET Loaded /\ \A x \in lane[l].rows : RowFits(x.day, x.row)
  BY <1>1 DEF CallFields, RowsFit
<1>4. T \in SUBSET Delta
  BY <1>2, <1>3, DeltasTyped
<1>5. \A d \in T : TodoFits(d)
  BY <1>2, <1>3, DeltasFit
<1>6. ASSUME lane[l].kind \in Inline \cup {"job"}, Approved(lane[l].req),
             NEW w \in Need(lane[l].req)
      PROVE  Excused(w) \/ \E d \in T : Justifies(d, w)
  <2>1. PICK x \in lane[l].rows : x.day = w
    BY <1>1, <1>6 DEF Advances
  <2>2. RowFits(w, x.row) /\ (x.row.status = "JUSTIFIED" => workday[w].status = "JUSTIFIED")
    BY <1>1, <2>1 DEF RowsFit, Need
  <2>3. Seen(K, lane[l].req)
    BY <1>2, <1>6
  <2> QED
    BY <1>2, <1>3, <2>1, <2>2, <2>3, DeltasReach
<1>7. CASE T = {}
  <2>1. Reaches(l)
    BY <1>6, <1>7 DEF Reaches, Excused, Days
  <2> QED
    BY <1>1, <1>7, <2>1, ReconciledStep
<1>8. CASE T # {}
  <2>1. lane' = [lane EXCEPT ![l] = Decided(lane[l], "write", T)]
    BY <1>8
  <2>2. "write" \in SyncStep
    BY DEF SyncStep
  <2> HIDE DEF T
  <2>3. /\ LanesTyped' /\ Others(l) /\ SameCall(lane[l], lane'[l])
        /\ lane'[l].step = "write" /\ lane'[l].left = {} /\ lane'[l].rows = {}
        /\ lane'[l].known = <<>> /\ lane'[l].present = {} /\ lane'[l].todo = T
    BY <1>1, <1>4, <2>1, <2>2, CallDecides
  <2>4. Remembers(l)'
    <3>1. SameWho(lane[l], lane'[l])
      BY <2>3 DEF SameCall, SameWho
    <3>2. Expects(lane[l], lane'[l])
      BY <1>1, <2>3 DEF Expects
    <3> QED
      BY <1>1, <2>3, <3>1, <3>2, RemembersOn
  <2>5. RowsFit(l)' /\ TodoFit(l)'
    <3>1. \A d \in T : TodoFits(d)'
      BY <1>5, DeltaStands DEF Grows
    <3> QED
      BY <2>3, <3>1 DEF RowsFit, TodoFit
  <2>6. KnownFit(l)'
    <3>1. \A i : i \notin DOMAIN <<>>
      OBVIOUS
    <3> QED
      BY <2>3, <3>1 DEF KnownFit, Heard
  <2>7. Advances(l)'
    BY <1>6, <2>3 DEF Advances, SameCall, Finished, Approved, Requests, Excused, Days
  <2>8. Announces(l)'
    BY <2>3 DEF Announces
  <2> QED
    BY <2>3, <2>4, <2>5, <2>6, <2>7, <2>8, StepFits DEF CallFits
<1> QED
  BY <1>7, <1>8

LEMMA ContextStep ==
  ASSUME SyncInv, NEW l \in Runner, NEW what \in {"approved", "present"}, Context(l, what)
  PROVE  SyncInv'
<1>1. StoresTyped' /\ StoresFit' /\ Grows
  BY Calm DEF Context
<1> DEFINE L == lane[l].left \ {what}
           days == {x.day : x \in lane[l].rows}
           K == IF what = "approved" THEN approvals ELSE lane[l].known
           P == IF what = "present" THEN punched \cap days ELSE lane[l].present
           T == Deltas(lane[l].rows, K, P)
<1>2. lane[l].step = "context" /\ UNCHANGED <<Requests, Days>>
  BY DEF Context
<1>3. \/ L # {} /\ lane' = [lane EXCEPT ![l] = Hearing(lane[l], L, K, P)]
      \/ L = {} /\ T = {} /\ DaysReconciled(l)
      \/ L = {} /\ T # {} /\ lane' = [lane EXCEPT ![l] = Decided(lane[l], "write", T)]
  BY DEF Context, Hearing, Decided
<1>4. L \in SUBSET {"approved", "present"}
  BY CallOf DEF CallFields
<1>5. Learns(l, L, K, P)
  <2> HIDE DEF days
  <2>1. CASE what = "approved"
    <3>1. lane[l].present \in SUBSET Workday /\ lane[l].present \subseteq punched
      BY CallOf DEF CallFields, KnownFit
    <3>2. K = approvals /\ P = lane[l].present
      BY <2>1
    <3> HIDE DEF L, K, P
    <3> QED
      BY <1>2, <3>1, <3>2, ApprovedLearnt
  <2>2. CASE what = "present"
    <3>1. L = lane[l].left \ {"present"} /\ K = lane[l].known /\ P = punched \cap days
      BY <2>2
    <3>2. Learns(l, lane[l].left \ {"present"}, lane[l].known, punched \cap days)
      BY <1>2, AttendanceLearnt
    <3> QED
      BY <3>1, <3>2
  <2> QED
    BY <2>1, <2>2
<1> HIDE DEF K, P
<1>6. CASE L # {}
  <2>1. lane' = [lane EXCEPT ![l] = Hearing(lane[l], L, K, P)]
    BY <1>3, <1>6
  <2> HIDE DEF L
  <2> QED
    BY <1>1, <1>2, <1>4, <1>5, <2>1, HearingStep
<1>7. CASE L = {}
  <2>1. IF T = {} THEN DaysReconciled(l)
        ELSE lane' = [lane EXCEPT ![l] = Decided(lane[l], "write", T)]
    BY <1>3, <1>7
  <2>2. Learns(l, {}, K, P)
    BY <1>5, <1>7
  <2> QED
    BY <1>1, <1>2, <2>1, <2>2, DecidedStep
<1> QED
  BY <1>6, <1>7

-----------------------------------------------------------------------------
(* The batch updates *)

LEMMA DeltaTyped ==
  ASSUME NEW d \in Delta
  PROVE  /\ d.op \in {"justify", "relink", "restore"} /\ d.day \in Workday
         /\ d.to \in Request \cup {NoRequest}
BY DEF Delta

Rewritten(x, s, a) == [x EXCEPT !.status = s, !.absence = a]

LEMMA RewrittenIs ==
  ASSUME NEW x \in WorkdayRow, NEW a \in Request \cup {NoRequest},
         NEW s \in {"EXPECTED", "JUSTIFIED"}
  PROVE  LET y == Rewritten(x, s, a) IN
         y \in WorkdayRow /\ y.status = s /\ y.absence = a /\ y.edition = x.edition
BY DEF WorkdayRow, Rewritten

\* An update that its WHERE clause lets through writes a row that fits, and
\* excuses its day or gives a recurring one back.
LEMMA AppliedFits ==
  ASSUME StoresTyped, DaysFit, NEW d \in Delta, TodoFits(d), Applies(d)
  PROVE  /\ Applied(d) \in WorkdayRow
         /\ RowFits(d.day, Applied(d))
         /\ d.day \notin Recurring => Applied(d).status = "JUSTIFIED"
         /\ d.op = "justify" => Applied(d).status = "JUSTIFIED"
<1> DEFINE st == IF d.op = "restore" THEN "EXPECTED" ELSE "JUSTIFIED"
<1>1. /\ d.op \in {"justify", "relink", "restore"} /\ d.day \in Workday
      /\ d.to \in Request \cup {NoRequest}
  BY DeltaTyped
<1>2. workday[d.day] \in WorkdayRow /\ RowFits(d.day, workday[d.day])
  BY <1>1 DEF StoresTyped, DaysFit
<1>4. st \in {"EXPECTED", "JUSTIFIED"}
  OBVIOUS
<1>5. Applied(d) = Rewritten(workday[d.day], st, d.to)
  BY DEF Applied, Rewritten
<1>6. /\ d.op = "restore" => st = "EXPECTED"
      /\ d.op # "restore" => st = "JUSTIFIED"
  OBVIOUS
<1> HIDE DEF st
<1>7. /\ Applied(d) \in WorkdayRow /\ Applied(d).status = st /\ Applied(d).absence = d.to
      /\ Applied(d).edition = workday[d.day].edition
  BY <1>1, <1>2, <1>4, <1>5, RewrittenIs
<1> DEFINE y == Applied(d)
<1> HIDE DEF y
<1>8. /\ y \in WorkdayRow /\ y.status = st /\ y.absence = d.to
      /\ y.edition = workday[d.day].edition
  BY <1>7 DEF y
<1>9. CASE d.op \in {"justify", "relink"}
  <2>1. RowFits(d.day, y)
    BY <1>2, <1>6, <1>8, <1>9 DEF RowFits, TodoFits
  <2> QED
    BY <1>6, <1>8, <1>9, <2>1 DEF y
<1>10. CASE d.op = "restore"
  <2>1. RowFits(d.day, y)
    BY <1>6, <1>8, <1>10 DEF RowFits, TodoFits
  <2> QED
    BY <1>6, <1>8, <1>10, <2>1 DEF y, TodoFits
<1> QED
  BY <1>1, <1>9, <1>10

\* One batch of a call: the days it changes, and those it leaves.
Batch(l, op) == {d \in lane[l].todo : d.op = op}
Touches(l, op, w) == {d \in Batch(l, op) : d.day = w /\ Applies(d)}
Batched(l, op) ==
    workday' = [w \in Workday |->
                  IF Touches(l, op, w) = {} THEN workday[w]
                  ELSE Applied(CHOOSE d \in Touches(l, op, w) : TRUE)]

LEMMA BatchMoves ==
  ASSUME NEW l \in Runner, NEW op, Batched(l, op), NEW w \in Workday
  PROVE  \/ Touches(l, op, w) = {} /\ workday'[w] = workday[w]
         \/ \E d \in Touches(l, op, w) : workday'[w] = Applied(d)
<1>1. CASE Touches(l, op, w) = {}
  BY <1>1 DEF Batched
<1>2. CASE Touches(l, op, w) # {}
  <2> DEFINE T == Touches(l, op, w)
  <2>1. workday'[w] = Applied(CHOOSE d \in T : TRUE)
    BY <1>2 DEF Batched
  <2> HIDE DEF T
  <2>2. T # {} => (CHOOSE d \in T : TRUE) \in T
    OBVIOUS
  <2> QED
    BY <1>2, <2>1, <2>2 DEF T
<1> QED
  BY <1>1, <1>2

LEMMA BatchFits ==
  ASSUME SyncInv, NEW l \in Runner, NEW op, Batched(l, op),
         UNCHANGED <<Requests, Queue, punched, conflict, syncFaults>>
  PROVE  StoresTyped' /\ StoresFit' /\ Grows
<1>1. /\ StoresTyped /\ StoresFit /\ DaysFit /\ TodoFit(l) /\ lane[l].todo \subseteq Delta
  BY CallOf DEF StoresFit, CallFields
<1>2. ASSUME NEW w \in Workday
      PROVE  /\ workday'[w] \in WorkdayRow /\ RowFits(w, workday'[w])
             /\ w \notin Recurring /\ workday[w].status = "JUSTIFIED"
                  => workday'[w].status = "JUSTIFIED"
  <2>1. CASE workday'[w] = workday[w]
    BY <1>1, <2>1 DEF StoresTyped, DaysFit
  <2>2. CASE \E d \in Touches(l, op, w) : workday'[w] = Applied(d)
    <3>1. PICK d \in Touches(l, op, w) : workday'[w] = Applied(d)
      BY <2>2
    <3>2. d \in Delta /\ TodoFits(d) /\ Applies(d) /\ d.day = w
      BY <1>1, <3>1 DEF Touches, Batch, TodoFit
    <3> QED
      BY <1>1, <3>1, <3>2, AppliedFits
  <2> QED
    BY <2>1, <2>2, BatchMoves
<1>3. workday' = [w \in Workday |-> workday'[w]]
  BY DEF Batched
<1>4. workday' \in [Workday -> WorkdayRow]
  BY <1>2, <1>3
<1>5. StoresTyped'
  BY <1>1, <1>4 DEF StoresTyped, Requests, Queue
<1>6. DaysStand /\ MarksStand
  BY <1>2 DEF DaysStand, MarksStand
<1>7. \A w \in Workday : RowFits(w, workday'[w])
  BY <1>2
<1> QED
  BY <1>1, <1>5, <1>6, <1>7, DaysMove

\* What the batch took out of the list of a call is done.
LEMMA BatchReaches ==
  ASSUME SyncInv, NEW l \in Runner, NEW op, Batched(l, op), UNCHANGED punched,
         NEW w \in Workday \ Recurring,
         Excused(w) \/ \E d \in lane[l].todo : Justifies(d, w)
  PROVE  Excused(w)' \/ \E d \in lane[l].todo \ Batch(l, op) : Justifies(d, w)
<1>1. /\ StoresTyped /\ DaysFit /\ TodoFit(l) /\ lane[l].todo \subseteq Delta
  BY CallOf DEF StoresFit, CallFields
<1>2. /\ workday[w].status \in {"EXPECTED", "JUSTIFIED"}
  BY <1>1, WorkdayRowTyped DEF StoresTyped, DaysFit, RowFits
<1>3. ASSUME NEW d \in Touches(l, op, w), workday'[w] = Applied(d)
      PROVE  workday'[w].status = "JUSTIFIED"
  <2>1. d \in Delta /\ TodoFits(d) /\ Applies(d) /\ d.day = w
    BY <1>1 DEF Touches, Batch, TodoFit
  <2> QED
    BY <1>1, <1>3, <2>1, AppliedFits
<1>4. CASE w \in punched \/ workday[w].status = "JUSTIFIED"
  BY <1>3, <1>4, BatchMoves DEF Excused
<1>5. CASE w \notin punched /\ workday[w].status = "EXPECTED"
  <2>1. PICK d \in lane[l].todo : Justifies(d, w)
    BY <1>5 DEF Excused
  <2>2. CASE d \notin Batch(l, op)
    BY <2>1, <2>2
  <2>3. CASE d \in Batch(l, op)
    <3>1. d \in Touches(l, op, w)
      BY <1>5, <2>1, <2>3 DEF Touches, Justifies, Applies
    <3> QED
      BY <1>3, <3>1, BatchMoves DEF Excused
  <2> QED
    BY <2>2, <2>3
<1> QED
  BY <1>2, <1>4, <1>5

LEMMA WriteStep ==
  ASSUME SyncInv, NEW l \in Runner, NEW op, Write(l, op)
  PROVE  SyncInv'
<1> DEFINE T == lane[l].todo \ Batch(l, op)
<1>1. /\ StoresTyped /\ LanesTyped /\ Remembers(l) /\ RowsFit(l) /\ KnownFit(l) /\ TodoFit(l)
      /\ Advances(l) /\ lane[l].todo \subseteq Delta
  BY CallOf DEF CallFields
<1>2. /\ Batched(l, op) /\ UNCHANGED <<Requests, Queue, punched, conflict, syncFaults>>
      /\ lane[l].step \in {"write", "failed", "giveup", "stray"}
  BY DEF Write, Batched, Touches, Batch
<1>3. \/ lane' = [lane EXCEPT ![l] = Left(lane[l], T)]
      \/ lane[l].step = "write" /\ T = {} /\ DaysReconciled(l)
      \/ Free(l)
  BY DEF Write, Batch, Left
<1>4. StoresTyped' /\ StoresFit' /\ Grows
  BY <1>2, BatchFits
<1>5. T \in SUBSET Delta /\ T \subseteq lane[l].todo
  BY <1>1
<1>6. ASSUME lane[l].step = "write", lane[l].kind \in Inline \cup {"job"},
             Approved(lane[l].req), NEW w \in Need(lane[l].req)
      PROVE  Excused(w)' \/ \E d \in T : Justifies(d, w)
  <2>1. w \in Workday \ Recurring
    BY DEF Need
  <2>2. Excused(w) \/ \E d \in lane[l].todo : Justifies(d, w)
    BY <1>1, <1>6 DEF Advances
  <2> QED
    BY <1>2, <2>1, <2>2, BatchReaches
<1>7. CASE Free(l)
  BY <1>4, <1>7, EndStep
<1>8. CASE lane[l].step = "write" /\ T = {} /\ DaysReconciled(l)
  <2>1. Reaches(l)
    BY <1>6, <1>8 DEF Reaches
  <2>2. lane[l].kind \in Runs
    BY <1>1, <1>8 DEF Remembers
  <2> QED
    BY <1>4, <1>8, <2>1, <2>2, ReconciledStep
<1>9. CASE lane' = [lane EXCEPT ![l] = Left(lane[l], T)]
  <2> HIDE DEF T
  <2>1. /\ LanesTyped' /\ Others(l) /\ SameCall(lane[l], lane'[l])
        /\ lane'[l].step = lane[l].step
        /\ lane'[l].rows = lane[l].rows /\ lane'[l].known = lane[l].known
        /\ lane'[l].present = lane[l].present /\ lane'[l].todo = T
    BY <1>1, <1>5, <1>9, CallWrites
  <2>2. SameWho(lane[l], lane'[l])
    BY <2>1 DEF SameCall, SameWho
  <2>3. Expects(lane[l], lane'[l])
    BY <1>1, <1>2, <2>1 DEF Expects, Remembers, SameCall
  <2>4. Remembers(l)'
    BY <1>1, <1>4, <2>1, <2>2, <2>3, RemembersOn
  <2>5. Lighter(lane[l], lane'[l])
    BY <1>2, <1>5, <2>1 DEF Lighter
  <2>6. RowsFit(l)' /\ KnownFit(l)' /\ TodoFit(l)'
    BY <1>1, <1>4, <2>5, LighterFits
  <2>7. Advances(l)'
    BY <1>2, <1>6, <2>1 DEF Advances, SameCall, Finished, Approved, Requests
  <2>8. Announces(l)'
    BY <1>2, <2>1 DEF Announces
  <2> QED
    BY <1>4, <2>1, <2>4, <2>6, <2>7, <2>8, StepFits DEF CallFits
<1> QED
  BY <1>3, <1>7, <1>8, <1>9

-----------------------------------------------------------------------------
(* AbsenceSync: the theorems *)

LEMMA SyncInitially == SyncInit => SyncInv
<1> SUFFICES ASSUME SyncInit PROVE SyncInv
  OBVIOUS
<1>1. NoRequest \notin Request /\ 0 \in Edition /\ MaxSyncFaults \in Nat /\ MaxJobs \in Nat
  BY SyncBounds
<1>2. /\ NoCall \in LaneState /\ \A l \in Runner : lane[l] = NoCall
      /\ NoCall.kind = "idle" /\ NoCall.step = "idle" /\ NoCall.rows = {}
      /\ NoCall.known = <<>> /\ NoCall.present = {} /\ NoCall.todo = {}
  BY NoCallTyped DEF SyncInit
<1>3. /\ NoJob \in JobRow /\ NoJob.request = NoRequest /\ NoJob.status = "NONE"
      /\ \A j \in JobId : job[j] = NoJob
  BY DEF NoJob, JobRow, Outcome, Operation, SyncInit
<1>4. approvals = <<>> /\ approvals \in Seq(Request) /\ \A i : i \notin DOMAIN approvals
  BY DEF SyncInit
<1>5. \A r \in Request : request[r].status = "NONE" /\ ~ Approved(r) /\ ~ Ended(r)
  BY DEF SyncInit, Approved, Ended, Outcome
<1>6. \A w \in Workday :
         /\ workday[w].status = (IF w \in Recurring THEN "NONE" ELSE "EXPECTED")
         /\ workday[w].absence = NoRequest /\ workday[w].edition = 0
  BY DEF SyncInit
<1>7. StoresTyped
  <2>1. request \in [Request -> RequestRow]
    BY DEF SyncInit, RequestRow
  <2>2. workday \in [Workday -> WorkdayRow]
    BY <1>1 DEF SyncInit, WorkdayRow
  <2>3. job \in [JobId -> JobRow]
    BY <1>3 DEF SyncInit
  <2>4. enqueued \in 0..MaxJobs /\ syncFaults \in 0..MaxSyncFaults
    BY <1>1 DEF SyncInit
  <2> QED
    BY <1>4, <2>1, <2>2, <2>3, <2>4 DEF StoresTyped, SyncInit
<1>8. LanesTyped
  BY <1>2 DEF LanesTyped, SyncInit
<1>9. DaysFit
  BY <1>6 DEF DaysFit, RowFits
<1>10. Listed /\ Pursued /\ PromisesFit
  BY <1>4, <1>5 DEF Listed, Seen, Pursued, PromisesFit, SyncInit
<1>11. JobsFit
  BY <1>3 DEF JobsFit, JobFits
<1>12. ClosedMeansReconciled
  BY <1>3 DEF ClosedMeansReconciled, CompletedMeansReconciled, CompletedMeansAnnounced
<1>13. ASSUME NEW l \in Runner PROVE CallFits(l)
  <2>1. Remembers(l)
    BY <1>2 DEF Remembers, Inline
  <2>2. RowsFit(l) /\ TodoFit(l)
    BY <1>2 DEF RowsFit, TodoFit
  <2>3. KnownFit(l)
    <3>1. \A i : i \notin DOMAIN lane[l].known
      BY <1>2, <1>4
    <3> QED
      BY <1>2, <3>1 DEF KnownFit, Heard
  <2>4. Advances(l) /\ Announces(l)
    BY <1>2 DEF Advances, Announces, Inline
  <2> QED
    BY <2>1, <2>2, <2>3, <2>4 DEF CallFits
<1> QED
  BY <1>7, <1>8, <1>9, <1>10, <1>11, <1>12, <1>13 DEF SyncInv, StoresFit, CallsFit

\* What a call does next on its own.
LEMMA ProceedStep ==
  ASSUME SyncInv, NEW l \in Runner, Proceed(l)
  PROVE  SyncInv'
<1>1. CASE Reconcile(l)
  BY <1>1, ListStep, ContextStep, WriteStep, ComputeImpactStep, CheckStep, SweepStep,
     MarkStep DEF Reconcile
<1>2. CASE InlineEnd(l)
  BY <1>2, LookStep, CloseInlineStep, FailInlineStep DEF InlineEnd
<1>3. CASE Job(l)
  BY <1>3, GuardStep, ReadRequestStep, SupersedeStep, CompleteStep, FailClaimedStep DEF Job
<1>4. CASE Bump(l) \/ ManualSweep(l) \/ ManualInsert(l) \/ Punch(l)
  BY <1>4, BumpStep, ManualSweepStep, ManualInsertStep, PunchStep
<1> QED
  BY <1>1, <1>2, <1>3, <1>4 DEF Proceed

\* What people and messages bring.
LEMMA ArrivalStep ==
  ASSUME SyncInv, Arrival
  PROVE  SyncInv'
<1>1. ASSUME NEW l \in Runner, NEW r \in Request,
             \/ Create(l, r) \/ ReviewApprove(l, r) \/ Resubmit(l, r)
             \/ \E outcome \in Outcome : ReviewRevoke(l, r, outcome)
             \/ Edit(l, r) \/ ManualReconcile(l, r)
      PROVE  SyncInv'
  BY <1>1, CreateStep, ReviewApproveStep, ResubmitStep, ReviewRevokeStep, EditStep,
     ManualReconcileStep
<1>2. ASSUME NEW l \in Runner, NEW w \in Workday,
             MakeDay(l, w) \/ Reschedule(l, w) \/ ReadCandidate(l, w)
      PROVE  SyncInv'
  BY <1>2, MakeDayStep, RescheduleStep, ReadCandidateStep
<1> QED
  BY <1>1, <1>2, AskInfoStep DEF Arrival

LEMMA SyncSteps ==
  ASSUME SyncInv, [SyncNext]_syncVars
  PROVE  SyncInv'
<1>1. CASE UNCHANGED syncVars
  <2>1. StoresTyped' /\ StoresFit' /\ Grows
    BY <1>1, Calm DEF syncVars, Requests, Queue, Days
  <2> QED
    BY <1>1, <2>1, StoresStep DEF syncVars
<1>2. CASE SyncNext
  BY <1>2, ArrivalStep, ProceedStep, ClaimStep, RecoverStep, StartPlanStep, ThrowsStep,
     ThrowsAgainStep, CallDiesStep DEF SyncNext, SyncFault
<1> QED
  BY <1>1, <1>2

\* Whatever interleaving of panel, workers, materialization, check-ins and
\* faults, no statement takes the tables, the queue or a call out of its type:
\* a queue row is only written by the identifier the call holds.
THEOREM SyncTypeCorrect == SyncSpec => []SyncTypeOK
<1>1. SyncInv => SyncTypeOK
  BY SyncTypeParts DEF SyncInv
<1> QED
  BY <1>1, SyncInitially, SyncSteps, PTL DEF SyncSpec

\* An excused workday is excused by an absence that was approved and covers its
\* hours, and an expected one by none, although every writer decided on reads
\* of earlier transactions and the three batches of one reconciliation commit
\* apart.
THEOREM AbsencesBackDays == SyncSpec => []JustifiedIsBacked
<1>1. SyncInv => JustifiedIsBacked
  BY DEF SyncInv, StoresFit, DaysFit, RowFits, JustifiedIsBacked
<1> QED
  BY <1>1, SyncInitially, SyncSteps, PTL DEF SyncSpec

\* A job closed as completed left no covered one-time workday expected and no
\* assignment of it unannounced: an inline run, a worker whose lease ran out and
\* a batch that was lost never close it early.
THEOREM ClosedJobsAreDone == SyncSpec => []ClosedMeansReconciled
<1>1. SyncInv => ClosedMeansReconciled
  BY DEF SyncInv, StoresFit
<1> QED
  BY <1>1, SyncInitially, SyncSteps, PTL DEF SyncSpec

\* Whoever was answered that the synchronization will be retried has a job that
\* is still queued, was applied or used up its attempts: no sweep of enqueue or
\* of a manual reconciliation supersedes the last one, unless the version of
\* the request has moved on since.
THEOREM RetriesAreKept == SyncSpec => []SyncIsRetried
<1>1. ASSUME SyncInv PROVE SyncIsRetried
  <2>1. \A r \in promised : r \in Request /\ Ended(r)
    BY <1>1 DEF SyncInv, StoresTyped, StoresFit, PromisesFit
  <2> QED
    BY <1>1, <2>1 DEF SyncInv, StoresFit, Pursued, Pursues, SyncIsRetried
<1> QED
  BY <1>1, SyncInitially, SyncSteps, PTL DEF SyncSpec
=============================================================================
