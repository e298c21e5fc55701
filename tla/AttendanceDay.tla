---------------------------- MODULE AttendanceDay ----------------------------
(***************************************************************************)
(* Checking in and out over WhatsApp: the conversation sessions of one     *)
(* phone, the handlers of its messages, the attendance records they write, *)
(* and what happens beside them: sessions expire, the day's windows close, *)
(* an approved absence justifies a day, an administrator corrects or       *)
(* reviews a record.                                                       *)
(*                                                                         *)
(* Messages of one phone are handled concurrently (only one MessageSid at  *)
(* a time is exclusive), so every handler acts on the session and on the   *)
(* candidates it read some steps ago.  A session is named by the message   *)
(* that created it, a mark by the message whose SID it carries.            *)
(***************************************************************************)
EXTENDS Naturals, FiniteSets

CONSTANTS
    Day,        \* the employee's workdays on offer
    Message,    \* inbound messages of the phone: one MessageSid each
    MaxFails,   \* invalid answers that cancel a session
    MaxEvents,  \* bound: what happens beside the conversation
    NoOne,      \* no session, no message
    Office      \* the author of a manual mark

ASSUME DayAssumption ==
    /\ Day # {}
    /\ MaxFails \in Nat \ {0}
    /\ MaxEvents \in Nat
    /\ {NoOne, Office} \cap Message = {} /\ NoOne # Office

VARIABLES
    phase,      \* open: check in or out; late: only out; over: neither
    expectation,\* employee_workdays.expectation_status
    row,        \* the latest attendance record of each day
    conflicts,  \* days with an attendance-during-absence conflict
    session,    \* bot_sessions, by the message that created them
    h,          \* the handler of each message
    clerk,      \* the manual correction in progress
    located,    \* company setting: a checkout needs a location
    used,       \* history: the marks that carry a message's SID
    events      \* what has happened beside the conversation

vars == <<phase, expectation, row, conflicts, session, h, clerk, located, used,
          events>>

-----------------------------------------------------------------------------
InState == {"WAITING_LOCATION", "WAITING_OPERATION_SELECTION"}
OutState == {"WAITING_CHECKOUT_LOCATION", "WAITING_CHECKOUT_OPERATION_SELECTION"}
Ended == {"COMPLETED", "CANCELLED", "EXPIRED"}
Valid == {"VALID", "PENDING_REVIEW"}
Kind == {"arrive", "leave", "cancel", "location", "reply"}
Step == {"new", "cancel", "cancelIn", "cancelOut", "listIn", "listOut", "listLoc",
         "open", "pick", "invalid", "markIn", "dupIn", "txIn", "inTx",
         "markOut", "txOut", "outTx", "markExit", "txExit", "done"}

Option == [act: {"in", "out"}, day: Day, rec: Nat]
NoOption == [act |-> "in", day |-> CHOOSE d \in Day : TRUE, rec |-> 0]

TypeOK ==
    /\ phase \in [Day -> {"open", "late", "over"}]
    /\ expectation \in [Day -> {"EXPECTED", "JUSTIFIED"}]
    /\ \A d \in Day :
         /\ row[d].id \in Nat
         /\ row[d].arrival \in Message \cup {NoOne, Office}
         /\ row[d].exit \in Message \cup {NoOne, Office}
         /\ row[d].status \in Valid \cup {"REJECTED"}
         /\ row[d].reviewed \in BOOLEAN
         /\ row[d].id # 0 => {row[d].arrival, row[d].exit} # {NoOne}
    /\ conflicts \in SUBSET Day
    /\ \A s \in Message :
         /\ session[s].state \in {"NONE"} \cup InState \cup OutState \cup Ended
         /\ session[s].target \in Option
         /\ session[s].options \in SUBSET Option
         /\ session[s].pending \in Message \cup {NoOne}
         /\ session[s].fails \in 0 .. MaxFails
    /\ \A m \in Message :
         /\ h[m].step \in Step
         /\ h[m].kind \in Kind
         /\ h[m].ses \in Message \cup {NoOne}
         /\ h[m].target \in Option
    /\ used \in [Message -> SUBSET {"arrival", "exit"}]
    /\ located \in BOOLEAN
    /\ events \in 0 .. MaxEvents

NoRow == [id |-> 0, arrival |-> NoOne, exit |-> NoOne, status |-> "VALID",
          reviewed |-> FALSE]
NoSession == [state |-> "NONE", target |-> NoOption, options |-> {},
              pending |-> NoOne, version |-> 0, fails |-> 0, live |-> FALSE,
              asked |-> FALSE]
Idle == [step |-> "new", kind |-> "reply", ses |-> NoOne, version |-> 0,
         target |-> NoOption, options |-> {}, sid |-> NoOne, state |-> "NONE",
         seen |-> "EXPECTED"]

\* A day may already have an arrival, by the office, and its start may have passed.
Init ==
    /\ phase \in [Day -> {"open", "late"}]
    /\ expectation = [d \in Day |-> "EXPECTED"]
    /\ row \in [Day -> {NoRow, [NoRow EXCEPT !.id = 1, !.arrival = Office]}]
    /\ conflicts = {}
    /\ session = [s \in Message |-> NoSession]
    /\ h = [m \in Message |-> Idle]
    /\ clerk = [step |-> "idle", mark |-> "arrival", day |-> NoOption.day, row |-> NoRow]
    /\ located \in BOOLEAN
    /\ used = [m \in Message |-> {}]
    /\ events = 0

-----------------------------------------------------------------------------
(* Candidates: each is one query, and none of them locks what it read *)

Active(d) == row[d].id # 0 /\ row[d].status \in Valid

CheckInDay(d) == phase[d] = "open" /\ ~Active(d)
CheckoutRow(d, rec) ==
    /\ phase[d] # "over"
    /\ Active(d) /\ row[d].id = rec
    /\ row[d].arrival # NoOne /\ row[d].exit = NoOne
ExitDay(d) == phase[d] # "over" /\ ~Active(d)

CheckIns == {[act |-> "in", day |-> d, rec |-> 0] : d \in {d \in Day : CheckInDay(d)}}
Checkouts == {[act |-> "out", day |-> d, rec |-> row[d].id] :
                d \in {d \in Day : CheckoutRow(d, row[d].id)}}
ExitsOnly == {[act |-> "out", day |-> d, rec |-> 0] : d \in {d \in Day : ExitDay(d)}}

-----------------------------------------------------------------------------
(* Sessions *)

Waiting(s) == session[s].state \in InState \cup OutState
Usable(s) == Waiting(s) /\ session[s].live

\* A check-in or checkout transaction holds the update lock of its session
\* from its first statement to its commit.
Locked(s) == \E m \in Message : h[m].step \in {"inTx", "outTx"} /\ h[m].ses = s

\* UPDATE to a final state WHERE the state is an active one: it takes the
\* intent and the context along.
Moved(s, state) ==
    IF Waiting(s) THEN [session EXCEPT ![s] = [NoSession EXCEPT !.state = state]]
    ELSE session

\* The same, against the version and the state the handler read.
MovedIfSame(m, state) ==
    IF /\ h[m].ses # NoOne
       /\ session[h[m].ses].version = h[m].version
    THEN Moved(h[m].ses, state) ELSE session

Done == [Idle EXCEPT !.step = "done"]
Goto(m, step) ==
    h' = [h EXCEPT ![m] = IF step = "done" THEN Done ELSE [@ EXCEPT !.step = step]]
At(m, step) == h[m].step = step
Free(m) == h[m].ses = NoOne \/ ~Locked(h[m].ses)

Event == events < MaxEvents /\ events' = events + 1

Lapse(s) ==
    /\ Usable(s)
    /\ Event
    /\ session' = [session EXCEPT ![s].live = FALSE]
    /\ UNCHANGED <<phase, expectation, row, conflicts, h, clerk, located, used>>

-----------------------------------------------------------------------------
(* Routing: the session of the phone is read once, and decides *)

CheckoutStep(target) == IF target.rec = 0 THEN "markExit" ELSE "markOut"

RouteWithout(kind) ==
    CASE kind = "arrive" -> "listIn"
      [] kind = "leave" -> "listOut"
      [] kind = "location" -> "listLoc"
      [] OTHER -> "done"

RouteWith(kind, s) ==
    LET state == session[s].state IN
    CASE kind = "cancel" -> "cancel"
      [] kind = "leave" /\ state \in InState -> "cancelOut"
      [] kind = "arrive" /\ state \in OutState -> "cancelIn"
      [] kind = "leave" /\ state = "WAITING_CHECKOUT_LOCATION"
           /\ session[s].pending # NoOne -> CheckoutStep(session[s].target)
      [] kind = "location" /\ state = "WAITING_LOCATION" -> "markIn"
      [] kind = "location" /\ state = "WAITING_CHECKOUT_LOCATION" ->
           CheckoutStep(session[s].target)
      [] kind = "location" -> "done"
      [] kind = "reply" /\ session[s].options # {} -> "pick"
      [] OTHER -> "invalid"

\* getActiveSessionByPhone, then the turn's resolution.
ReceiveInSession(m, kind, s) ==
    /\ At(m, "new")
    /\ Usable(s) /\ ~Locked(s)
    /\ h' = [h EXCEPT ![m] =
               [@ EXCEPT !.step = RouteWith(kind, s), !.kind = kind, !.ses = s,
                         !.version = session[s].version,
                         !.target = session[s].target,
                         !.options = session[s].options,
                         !.state = session[s].state,
                         !.sid = IF kind = "location" THEN m ELSE session[s].pending]]
    /\ UNCHANGED <<phase, expectation, row, conflicts, session, clerk, located, used,
                   events>>

\* A session past its expiration is closed by whoever looks for it.
ReceiveAlone(m, kind) ==
    /\ At(m, "new")
    /\ \A s \in Message : ~Usable(s) /\ ~Locked(s)
    /\ session' = [s \in Message |->
                     IF Waiting(s) THEN [NoSession EXCEPT !.state = "EXPIRED"]
                     ELSE session[s]]
    /\ h' = [h EXCEPT ![m] = [@ EXCEPT !.step = RouteWithout(kind), !.kind = kind,
                                       !.sid = IF kind = "location" THEN m ELSE NoOne]]
    /\ UNCHANGED <<phase, expectation, row, conflicts, clerk, located, used, events>>

\* cancelSession with the version the turn was resolved on; its result is not read.
CancelSession(m) ==
    /\ h[m].step \in {"cancel", "cancelIn", "cancelOut"}
    /\ Free(m)
    /\ session' = MovedIfSame(m, "CANCELLED")
    /\ h' = [h EXCEPT ![m] =
               CASE At(m, "cancelIn") -> [Idle EXCEPT !.step = "listIn", !.kind = "arrive"]
                 [] At(m, "cancelOut") -> [Idle EXCEPT !.step = "listOut", !.kind = "leave"]
                 [] OTHER -> Done]
    /\ UNCHANGED <<phase, expectation, row, conflicts, clerk, located, used, events>>

\* recordFailedAttempt: a compare-and-set on the version, or a conflict.
RecordFailedAttempt(m) ==
    /\ At(m, "invalid")
    /\ Free(m)
    /\ LET s == h[m].ses IN
       session' = IF ~Usable(s) \/ session[s].version # h[m].version THEN session
                  ELSE IF session[s].fails + 1 >= MaxFails THEN Moved(s, "CANCELLED")
                  ELSE [session EXCEPT ![s].fails = @ + 1, ![s].version = @ + 1]
    /\ Goto(m, "done")
    /\ UNCHANGED <<phase, expectation, row, conflicts, clerk, located, used, events>>

-----------------------------------------------------------------------------
(* Free turns: the candidates are listed and a session is opened *)

Ask(m, state, target, options, sid) ==
    h' = [h EXCEPT ![m] = [@ EXCEPT !.step = "open", !.state = state, !.target = target,
                                    !.options = options, !.sid = sid, !.ses = m]]

ListCheckIns(m) ==
    /\ At(m, "listIn")
    /\ \/ CheckIns = {} /\ Goto(m, "done")
       \/ \E c \in CheckIns : CheckIns = {c} /\ Ask(m, "WAITING_LOCATION", c, {}, NoOne)
       \/ /\ Cardinality(CheckIns) > 1
          /\ Ask(m, "WAITING_OPERATION_SELECTION", NoOption, CheckIns, NoOne)
    /\ UNCHANGED <<phase, expectation, row, conflicts, session, clerk, located, used,
                   events>>

\* Open shifts first; days nobody arrived at only when there are none.
LeaveOptions == IF Checkouts # {} THEN Checkouts ELSE ExitsOnly

ListCheckouts(m) ==
    /\ At(m, "listOut")
    /\ \/ LeaveOptions = {} /\ Goto(m, "done")
       \/ \E c \in LeaveOptions :
            /\ LeaveOptions = {c}
            /\ IF located THEN Ask(m, "WAITING_CHECKOUT_LOCATION", c, {}, NoOne)
               ELSE h' = [h EXCEPT ![m].step = CheckoutStep(c), ![m].target = c,
                                   ![m].sid = m]
       \/ /\ Cardinality(LeaveOptions) > 1
          /\ Ask(m, "WAITING_CHECKOUT_OPERATION_SELECTION", NoOption, LeaveOptions, NoOne)
    /\ UNCHANGED <<phase, expectation, row, conflicts, session, clerk, located, used,
                   events>>

\* A location nobody asked for: it checks in at the one place to do so, it is
\* kept until the employee chooses, and it never closes a shift by itself.
BareLocation(m) ==
    CASE CheckIns = {} /\ Checkouts = {} ->
           \/ ExitsOnly = {} /\ Goto(m, "done")
           \/ \E c \in ExitsOnly :
                ExitsOnly = {c} /\ Ask(m, "WAITING_CHECKOUT_LOCATION", c, {}, m)
           \/ /\ Cardinality(ExitsOnly) > 1
              /\ Ask(m, "WAITING_CHECKOUT_OPERATION_SELECTION", NoOption, ExitsOnly, m)
      [] CheckIns = {} -> Goto(m, "done")
      [] Checkouts = {} /\ Cardinality(CheckIns) = 1 ->
           \E c \in CheckIns : Ask(m, "WAITING_LOCATION", c, {}, m)
      [] OTHER -> Ask(m, "WAITING_OPERATION_SELECTION", NoOption, CheckIns \cup Checkouts, m)

ProcessDirectLocation(m) ==
    /\ At(m, "listLoc")
    /\ BareLocation(m)
    /\ UNCHANGED <<phase, expectation, row, conflicts, session, clerk, located, used,
                   events>>

\* prepareForNewSession and create, in one transaction: whatever the phone
\* was in is expired or cancelled.  A direct check-in goes on with its location.
CreateSession(m) ==
    /\ At(m, "open")
    /\ \A s \in Message : Waiting(s) => ~Locked(s)
    /\ LET direct == h[m].state = "WAITING_LOCATION" /\ h[m].sid = m IN
       /\ session' = [s \in Message |->
            IF s = m THEN
              [state |-> h[m].state, target |-> h[m].target, options |-> h[m].options,
               pending |-> IF direct THEN NoOne ELSE h[m].sid, version |-> 1,
               fails |-> 0, live |-> TRUE, asked |-> h[m].kind = "leave"]
            ELSE IF Waiting(s) THEN
              [NoSession EXCEPT !.state =
                 IF session[s].live THEN "CANCELLED" ELSE "EXPIRED"]
            ELSE session[s]]
       /\ h' = [h EXCEPT ![m] =
                  IF direct THEN [@ EXCEPT !.step = "markIn", !.version = 1] ELSE Done]
    /\ UNCHANGED <<phase, expectation, row, conflicts, clerk, located, used, events>>

\* Two handlers found no session to cancel and both insert one: the unique
\* index of active sessions refuses the second.
CreateSessionConflict(m) ==
    /\ At(m, "open")
    /\ \E s \in Message \ {m} : Waiting(s)
    /\ Goto(m, "done")
    /\ UNCHANGED <<phase, expectation, row, conflicts, session, clerk, located, used,
                   events>>

-----------------------------------------------------------------------------
(* Answers to a list of options *)

\* The option is checked again; without a required location a checkout goes
\* straight to its record, under the SID of the location it came with.
PickGone(m) ==
    /\ At(m, "pick")
    /\ \E c \in h[m].options :
         ~(IF c.act = "in" THEN CheckInDay(c.day)
           ELSE IF c.rec = 0 THEN ExitDay(c.day) ELSE CheckoutRow(c.day, c.rec))
    /\ Goto(m, "done")
    /\ UNCHANGED <<phase, expectation, row, conflicts, session, clerk, located, used,
                   events>>

PickCheckoutUnlocated(m, c) ==
    /\ ~located
    /\ c.act = "out"
    /\ IF c.rec = 0 THEN ExitDay(c.day) ELSE CheckoutRow(c.day, c.rec)
    /\ h' = [h EXCEPT ![m] =
               [@ EXCEPT !.step = CheckoutStep(c), !.target = c, !.options = {},
                         !.sid = IF h[m].sid # NoOne /\ h[m].state \in InState
                                 THEN h[m].sid ELSE m]]
    /\ UNCHANGED session

\* MUTANT of Choosable: the session of when the answer came in is trusted.
ChoosableOnceRead(s, act) == TRUE

Choosable(s, act) ==
    /\ Usable(s)
    /\ \/ session[s].state = "WAITING_OPERATION_SELECTION"
       \/ act = "out" /\ session[s].state = "WAITING_CHECKOUT_OPERATION_SELECTION"

\* selectOperationAndRenewExpiration and its twin for checkouts: the session
\* must still be one that waits for a choice.
PickAndWait(m, c) ==
    LET s == h[m].ses
        next == IF h[m].sid = NoOne THEN "done"
                ELSE IF c.act = "in" THEN "markIn" ELSE CheckoutStep(c)
    IN
    /\ c.act = "in" \/ located
    /\ IF c.act = "in" THEN CheckInDay(c.day)
       ELSE IF c.rec = 0 THEN ExitDay(c.day) ELSE CheckoutRow(c.day, c.rec)
    /\ Free(m)
    /\ IF Choosable(s, c.act)
       THEN /\ session' = [session EXCEPT
                 ![s].state = IF c.act = "in" THEN "WAITING_LOCATION"
                              ELSE "WAITING_CHECKOUT_LOCATION",
                 ![s].target = c, ![s].options = {}, ![s].pending = NoOne,
                 ![s].version = @ + 1, ![s].fails = 0, ![s].live = TRUE,
                 ![s].asked = c.act = "out"]
            /\ h' = [h EXCEPT ![m] =
                 IF next = "done" THEN Done
                 ELSE [@ EXCEPT !.step = next, !.target = c, !.options = {},
                                !.version = session[s].version + 1]]
       ELSE /\ session' = IF session[s].live THEN session ELSE Moved(s, "EXPIRED")
            /\ Goto(m, "done")

Pick(m) ==
    /\ At(m, "pick")
    /\ \E c \in h[m].options : PickCheckoutUnlocated(m, c) \/ PickAndWait(m, c)
    /\ UNCHANGED <<phase, expectation, row, conflicts, clerk, located, used, events>>

\* No number, or none of the list.
PickInvalid(m) ==
    /\ At(m, "pick")
    /\ Goto(m, "invalid")
    /\ UNCHANGED <<phase, expectation, row, conflicts, session, clerk, located, used,
                   events>>

-----------------------------------------------------------------------------
(* processLocationCheckIn and createAttendanceForEmployeeWorkday *)

NewRow(d, arrival, exit, status) ==
    [row EXCEPT ![d] = [id |-> @.id + 1, arrival |-> arrival, exit |-> exit,
                        status |-> status, reviewed |-> FALSE]]

RevalidateCheckIn(m) ==
    /\ At(m, "markIn")
    /\ Goto(m, IF CheckInDay(h[m].target.day) THEN "dupIn" ELSE "done")
    /\ UNCHANGED <<phase, expectation, row, conflicts, session, clerk, located, used,
                   events>>

CheckDuplicate(m) ==
    /\ At(m, "dupIn")
    /\ IF Active(h[m].target.day)
       THEN Free(m) /\ session' = MovedIfSame(m, "COMPLETED") /\ Goto(m, "done")
       ELSE UNCHANGED session /\ Goto(m, "txIn")
    /\ UNCHANGED <<phase, expectation, row, conflicts, clerk, located, used, events>>

MayCheckIn(m) ==
    Usable(h[m].ses) /\ session[h[m].ses].state = "WAITING_LOCATION"

\* The session row is locked and the candidate read again, on another connection.
BeginCheckIn(m) ==
    /\ At(m, "txIn")
    /\ Free(m)
    /\ h' = [h EXCEPT ![m] =
               IF MayCheckIn(m) /\ CheckInDay(h[m].target.day)
               THEN [@ EXCEPT !.step = "inTx", !.seen = expectation[h[m].target.day]]
               ELSE Done]
    /\ UNCHANGED <<phase, expectation, row, conflicts, session, clerk, located, used,
                   events>>

\* The conflict is decided on the expectation read before, the record
\* on the day's rows now; both, and the end of the session, are committed at once.
CommitCheckIn(m) ==
    /\ At(m, "inTx")
    /\ LET d == h[m].target.day IN
       /\ ~Active(d)
       /\ "arrival" \notin used[h[m].sid]
       /\ \E status \in Valid \cup {"REJECTED"} : row' = NewRow(d, h[m].sid, NoOne, status)
       /\ used' = [used EXCEPT ![h[m].sid] = @ \cup {"arrival"}]
       /\ conflicts' = IF h[m].seen = "JUSTIFIED" THEN conflicts \cup {d} ELSE conflicts
    /\ session' = Moved(h[m].ses, "COMPLETED")
    /\ Goto(m, "done")
    /\ UNCHANGED <<phase, expectation, clerk, located, events>>

\* Rolled back; the session is completed if the caller still sees the
\* duplicate's error and not that of the second rollback.
RefuseCheckIn(m) ==
    /\ At(m, "inTx")
    /\ Active(h[m].target.day) \/ "arrival" \in used[h[m].sid]
    /\ session' \in {session, MovedIfSame(m, "COMPLETED")}
    /\ Goto(m, "done")
    /\ UNCHANGED <<phase, expectation, row, conflicts, clerk, located, used, events>>

-----------------------------------------------------------------------------
(* processLocationCheckout, processCheckoutWithoutLocation and their commands *)

\* A checkout without location completes the session of a vanished candidate.
RevalidateCheckout(m) ==
    /\ At(m, "markOut")
    /\ IF CheckoutRow(h[m].target.day, h[m].target.rec)
       THEN UNCHANGED session /\ Goto(m, "txOut")
       ELSE /\ Free(m)
            /\ session' = IF located \/ h[m].ses = NoOne THEN session
                          ELSE Moved(h[m].ses, "COMPLETED")
            /\ Goto(m, "done")
    /\ UNCHANGED <<phase, expectation, row, conflicts, clerk, located, used, events>>

\* A bare location can be the answer to a checkout even where none is required.
WithLocation(m) == located \/ h[m].kind = "location" \/ h[m].sid # m

\* MUTANT of MayCheckOut: the session is not looked at again.
MayCheckOutAny(m) == h[m].ses # NoOne

MayCheckOut(m) ==
    Usable(h[m].ses) /\ session[h[m].ses].state = "WAITING_CHECKOUT_LOCATION"

BeginCheckout(m) ==
    /\ At(m, "txOut")
    /\ WithLocation(m) /\ h[m].ses # NoOne
    /\ Free(m)
    /\ Goto(m, IF MayCheckOut(m) /\ CheckoutRow(h[m].target.day, h[m].target.rec)
               THEN "outTx" ELSE "done")
    /\ UNCHANGED <<phase, expectation, row, conflicts, session, clerk, located, used,
                   events>>

\* MUTANT of OpenRow: the exit is written whether or not there is one.
OpenRowOrClosed(d, rec) == row[d].id = rec /\ row[d].status \in Valid

\* WHERE checkout_at IS NULL AND validation_status IN (VALID, PENDING_REVIEW).
OpenRow(d, rec) == row[d].id = rec /\ row[d].status \in Valid /\ row[d].exit = NoOne

\* registerCheckoutInTransaction and the end of the session; a record that is
\* no longer open, or a SID already used, is answered as a duplicate.
RegisterCheckout(m, from) ==
    /\ At(m, from)
    /\ LET t == h[m].target IN
       IF OpenRow(t.day, t.rec) /\ "exit" \notin used[h[m].sid]
       THEN /\ row' = [row EXCEPT ![t.day].exit = h[m].sid]
            /\ used' = [used EXCEPT ![h[m].sid] = @ \cup {"exit"}]
       ELSE UNCHANGED <<row, used>>
    /\ session' = IF h[m].ses = NoOne THEN session ELSE Moved(h[m].ses, "COMPLETED")
    /\ Goto(m, "done")
    /\ UNCHANGED <<phase, expectation, conflicts, clerk, located, events>>

CommitCheckout(m) == RegisterCheckout(m, "outTx")

CheckoutWithoutLocation(m) ==
    /\ ~(WithLocation(m) /\ h[m].ses # NoOne)
    /\ Free(m)
    /\ RegisterCheckout(m, "txOut")

RevalidateExit(m) ==
    /\ At(m, "markExit")
    /\ IF ExitDay(h[m].target.day)
       THEN UNCHANGED session /\ Goto(m, "txExit")
       ELSE /\ Free(m)
            /\ session' = IF WithLocation(m) \/ h[m].ses = NoOne THEN session
                          ELSE Moved(h[m].ses, "COMPLETED")
            /\ Goto(m, "done")
    /\ UNCHANGED <<phase, expectation, row, conflicts, clerk, located, used, events>>

\* registerExitWithoutArrival: the workday is locked and checked inside.  A
\* record somebody wrote meanwhile counts as a duplicate, exit or not.
RegisterExitWithoutArrival(m) ==
    /\ At(m, "txExit")
    /\ Free(m)
    /\ LET d == h[m].target.day
           stale == WithLocation(m) /\ h[m].ses # NoOne /\ ~MayCheckOut(m)
           ends == h[m].ses # NoOne /\ ~stale /\ (ExitDay(d) \/ Active(d))
       IN
       /\ IF ~stale /\ ExitDay(d) /\ "exit" \notin used[h[m].sid]
          THEN /\ \E status \in Valid \cup {"REJECTED"} :
                    row' = NewRow(d, NoOne, h[m].sid, status)
               /\ used' = [used EXCEPT ![h[m].sid] = @ \cup {"exit"}]
          ELSE UNCHANGED <<row, used>>
       /\ session' = IF ends THEN Moved(h[m].ses, "COMPLETED") ELSE session
    /\ Goto(m, "done")
    /\ UNCHANGED <<phase, expectation, conflicts, clerk, located, events>>

-----------------------------------------------------------------------------
(* Beside the conversation *)

Pass(d) ==
    /\ Event
    /\ phase' = [phase EXCEPT ![d] = CASE @ = "open" -> "late" [] OTHER -> "over"]
    /\ phase[d] # "over"
    /\ UNCHANGED <<expectation, row, conflicts, session, h, clerk, located, used>>

\* The sync of an approved absence reaches the day: it is justified if it has
\* no record of any status, and its presence is a conflict otherwise.
Justify(d) ==
    /\ Event
    /\ expectation[d] = "EXPECTED" /\ d \notin conflicts
    /\ IF row[d].id = 0
       THEN /\ expectation' = [expectation EXCEPT ![d] = "JUSTIFIED"]
            /\ UNCHANGED conflicts
       ELSE conflicts' = conflicts \cup {d} /\ UNCHANGED expectation
    /\ UNCHANGED <<phase, row, session, h, clerk, located, used>>

\* A reviewer decides once, on a record in review or rejected.
Review(d) ==
    /\ Event
    /\ row[d].id # 0 /\ ~row[d].reviewed
    /\ row[d].status \in {"PENDING_REVIEW", "REJECTED"}
    /\ \E status \in {"VALID", "REJECTED"} :
         row' = [row EXCEPT ![d].status = status, ![d].reviewed = TRUE]
    /\ UNCHANGED <<phase, expectation, conflicts, session, h, clerk, located, used>>

\* A manual correction reads the record first, in no transaction.
ReadForCorrection(d, mark) ==
    /\ clerk.step = "idle"
    /\ Event
    /\ clerk' = [step |-> "write", mark |-> mark, day |-> d,
                 row |-> IF Active(d) THEN row[d] ELSE NoRow]
    /\ UNCHANGED <<phase, expectation, row, conflicts, session, h, located, used>>

\* An existing mark is replaced only if it is the one that was shown; a
\* missing one is filled only if it is still missing; no record, a new one.
Correct ==
    LET d == clerk.day
        old == IF clerk.mark = "arrival" THEN clerk.row.arrival ELSE clerk.row.exit
        now == IF clerk.mark = "arrival" THEN row[d].arrival ELSE row[d].exit
    IN
    /\ clerk.step = "write"
    /\ IF clerk.row.id = 0
       THEN IF Active(d) THEN UNCHANGED row
            ELSE row' = IF clerk.mark = "arrival"
                        THEN NewRow(d, Office, NoOne, "VALID")
                        ELSE NewRow(d, NoOne, Office, "VALID")
       ELSE IF row[d].id = clerk.row.id /\ now = old
               /\ (clerk.mark = "exit" => row[d].status \in Valid)
            THEN row' = IF clerk.mark = "arrival"
                        THEN [row EXCEPT ![d].arrival = Office, ![d].status = "VALID"]
                        ELSE [row EXCEPT ![d].exit = Office]
            ELSE UNCHANGED row
    /\ clerk' = [clerk EXCEPT !.step = "idle"]
    /\ UNCHANGED <<phase, expectation, conflicts, session, h, located, used, events>>

-----------------------------------------------------------------------------
Handle(m) ==
    \/ \E kind \in Kind :
         ReceiveAlone(m, kind) \/ \E s \in Message : ReceiveInSession(m, kind, s)
    \/ CancelSession(m) \/ RecordFailedAttempt(m)
    \/ ListCheckIns(m) \/ ListCheckouts(m) \/ ProcessDirectLocation(m)
    \/ CreateSession(m) \/ CreateSessionConflict(m)
    \/ PickGone(m) \/ Pick(m) \/ PickInvalid(m)
    \/ RevalidateCheckIn(m) \/ CheckDuplicate(m)
    \/ BeginCheckIn(m) \/ CommitCheckIn(m) \/ RefuseCheckIn(m)
    \/ RevalidateCheckout(m) \/ BeginCheckout(m) \/ CommitCheckout(m)
    \/ CheckoutWithoutLocation(m)
    \/ RevalidateExit(m) \/ RegisterExitWithoutArrival(m)

Next ==
    \/ \E m \in Message : Handle(m) \/ Lapse(m)
    \/ \E d \in Day :
         \/ Pass(d) \/ Justify(d) \/ Review(d)
         \/ \E mark \in {"arrival", "exit"} : ReadForCorrection(d, mark)
    \/ Correct

Spec == Init /\ [][Next]_vars

-----------------------------------------------------------------------------
(* What the employee and the office may rely on *)

\* Where a location is required, one message never makes two marks: a kept
\* location that two answers race for ends up in one record, once.
OneMarkPerMessage ==
    located => \A m \in Message : used[m] # {"arrival", "exit"}

\* Where a location is required, a mark made through a session is the end of
\* it: the session was still waiting for just that, so one the employee
\* cancelled, left for another flow or let expire makes no mark later, and no
\* session makes two.
MarksEndTheirSession ==
    [][located =>
         \A m \in Message :
           used'[m] # used[m] =>
             \E s \in Message :
               /\ session[s].state = IF "arrival" \in used'[m] \ used[m]
                                     THEN "WAITING_LOCATION"
                                     ELSE "WAITING_CHECKOUT_LOCATION"
               /\ session'[s].state = "COMPLETED"]_vars

\* The first exit of a record stands against everything but a correction that
\* was shown it: racing answers, sessions and stale screens never replace it.
FirstExitStands ==
    [][\A d \in Day :
         /\ row[d].exit # NoOne
         /\ row'[d].id = row[d].id
         /\ row'[d].exit # row[d].exit
         => clerk.step = "write" /\ clerk.row.exit = row[d].exit]_vars
=============================================================================
