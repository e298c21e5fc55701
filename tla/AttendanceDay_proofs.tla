------------------------- MODULE AttendanceDay_proofs -------------------------
(***************************************************************************)
(* Theorems about AttendanceDay, for any number of messages, days and      *)
(* invalid answers.  A message's SID makes one mark at most because it is  *)
(* either its handler's own, or kept by the one session the message        *)
(* opened; and a session that makes a mark is locked while it still waits  *)
(* for it and ends with the mark.  Conversation says so for every handler  *)
(* on its way.                                                             *)
(***************************************************************************)
EXTENDS AttendanceDay, TLAPS

State == {"NONE"} \cup InState \cup OutState \cup Ended
Author == Message \cup {NoOne, Office}

Row == [id: Nat, arrival: Author, exit: Author, status: Valid \cup {"REJECTED"},
        reviewed: BOOLEAN]
Session == [state: State, target: Option, options: SUBSET Option,
            pending: Message \cup {NoOne}, version: Nat, fails: 0 .. MaxFails,
            live: BOOLEAN, asked: BOOLEAN]
Handler == [step: Step, kind: Kind, ses: Message \cup {NoOne}, version: Nat,
            target: Option, options: SUBSET Option, sid: Message \cup {NoOne},
            state: State, seen: {"EXPECTED", "JUSTIFIED"}]
Clerk == [step: {"idle", "write"}, mark: {"arrival", "exit"}, day: Day, row: Row]

\* A record has a mark.
Marked(d) == row[d].id # 0 => {row[d].arrival, row[d].exit} # {NoOne}

RowsTyped == row \in [Day -> Row] /\ \A d \in Day : Marked(d)

RestTyped ==
    /\ phase \in [Day -> {"open", "late", "over"}]
    /\ expectation \in [Day -> {"EXPECTED", "JUSTIFIED"}]
    /\ conflicts \in SUBSET Day
    /\ clerk \in Clerk
    /\ used \in [Message -> SUBSET {"arrival", "exit"}]
    /\ located \in BOOLEAN
    /\ events \in 0 .. MaxEvents

TalkTyped == session \in [Message -> Session] /\ h \in [Message -> Handler]

\* The handler has a mark to make: of an arrival or of an exit.
MarkingIn == {"markIn", "dupIn", "txIn", "inTx"}
MarkingOut == {"markOut", "txOut", "outTx", "markExit", "txExit"}
Marking == MarkingIn \cup MarkingOut
InTx == {"inTx", "outTx"}

\* The location a session keeps is that of the message that opened it.
KeptLocations == \A s \in Message : session[s].pending \in {NoOne, s}

\* A message opens one session at most, and is then done or goes on in it.
Opening(m) ==
    /\ At(m, "open") => h[m].ses = m /\ h[m].state \in InState \cup OutState
    /\ h[m].step \in {"new", "listIn", "listOut", "listLoc"} => h[m].ses = NoOne
    /\ session[m].state # "NONE" =>
          At(m, "done") \/ (h[m].ses = m /\ h[m].step \in Marking)

\* Outside a free turn the handler works in a session that was opened.
Working(m) ==
    /\ h[m].step \in {"pick", "invalid", "cancel", "cancelIn", "cancelOut"} \cup MarkingIn
          => h[m].ses # NoOne
    /\ located /\ h[m].step \in MarkingOut => h[m].ses # NoOne
    /\ h[m].ses # NoOne /\ ~At(m, "open") => session[h[m].ses].state # "NONE"

\* The SID a mark will carry is the message's own or the one its session keeps.
Carrying(m) ==
    /\ h[m].sid \in {NoOne, m, h[m].ses}
    /\ h[m].step \in Marking => h[m].sid # NoOne

\* The session a transaction has locked still waits for just its mark, and no
\* other transaction holds it.
Holding(m) ==
    /\ At(m, "inTx") => session[h[m].ses].state = "WAITING_LOCATION"
    /\ At(m, "outTx") =>
          h[m].ses # NoOne /\ session[h[m].ses].state = "WAITING_CHECKOUT_LOCATION"
    /\ h[m].step \in InTx =>
          \A n \in Message : h[n].step \in InTx /\ h[n].ses = h[m].ses => n = m

\* A SID with a mark is used up: its handler is done and opened no session, or
\* the session it opened has ended.
UsedUp(x) ==
    used[x] # {} =>
        \/ At(x, "done") /\ session[x].state = "NONE"
        \/ session[x].state \in Ended

Conversation ==
    /\ KeptLocations
    /\ \A m \in Message : Opening(m) /\ Working(m) /\ Carrying(m) /\ Holding(m)
MarksUsedUp == located => \A x \in Message : UsedUp(x)

IInv == TalkTyped /\ RowsTyped /\ RestTyped /\ Conversation /\ MarksUsedUp /\ OneMarkPerMessage

-----------------------------------------------------------------------------
(* The values a behaviour starts from *)

LEMMA OptionTyped == NoOption \in Option
<1>1. (CHOOSE d \in Day : TRUE) \in Day
  BY DayAssumption
<1> QED
  BY <1>1 DEF NoOption, Option

LEMMA NoSessionTyped == NoSession \in Session
BY OptionTyped, DayAssumption DEF NoSession, Session, State

LEMMA IdleTyped ==
  /\ Idle \in Handler /\ Idle.step = "new" /\ Idle.ses = NoOne /\ Idle.sid = NoOne
  /\ Done \in Handler /\ Done.step = "done" /\ Done.ses = NoOne /\ Done.sid = NoOne
BY OptionTyped DEF Idle, Done, Handler, State, Step, Kind

LEMMA NoRowTyped == NoRow \in Row
BY DEF NoRow, Row, Author, Valid

\* What the queries offer are options.
LEMMA CandidatesTyped ==
  ASSUME row \in [Day -> Row]
  PROVE  /\ CheckIns \subseteq Option
         /\ Checkouts \subseteq Option
         /\ ExitsOnly \subseteq Option
         /\ LeaveOptions \subseteq Option
<1>1. CheckIns \subseteq Option /\ ExitsOnly \subseteq Option
  BY DEF CheckIns, ExitsOnly, Option
<1>2. Checkouts \subseteq Option
  BY DEF Checkouts, Option, Row
<1> QED
  BY <1>1, <1>2 DEF LeaveOptions

-----------------------------------------------------------------------------
(* What a handler's step may do to the sessions and to itself *)

Stays(x) == session'[x].state = session[x].state /\ session'[x].pending = session[x].pending

Ends(x) == Waiting(x) /\ session'[x].state \in Ended /\ session'[x].pending = NoOne

Turns(x) ==
    /\ Waiting(x)
    /\ session'[x].state \in {"WAITING_LOCATION", "WAITING_CHECKOUT_LOCATION"}
    /\ session'[x].pending = NoOne

Opens(m) ==
    /\ At(m, "open") /\ session[m].state = "NONE"
    /\ session'[m].state \in InState \cup OutState
    /\ session'[m].pending \in {NoOne, m}

\* No other handler holds session x.
FreeOfOthers(m, x) == \A n \in Message \ {m} : ~(h[n].step \in InTx /\ h[n].ses = x)

SessionsMove(m) ==
    \A x \in Message :
        \/ Stays(x)
        \/ FreeOfOthers(m, x) /\ (Ends(x) \/ Turns(x))
        \/ x = m /\ Opens(m)

Alone(m) == \A n \in Message \ {m} : h'[n] = h[n]

\* The state of a lock is part of what its transaction read.
Secured(m) ==
    h'[m].step \in InTx =>
        /\ h'[m].ses # NoOne
        /\ FreeOfOthers(m, h'[m].ses)
        /\ session'[h'[m].ses].state = IF h'[m].step = "inTx" THEN "WAITING_LOCATION"
                                       ELSE "WAITING_CHECKOUT_LOCATION"

Turn(m) ==
    /\ TalkTyped'
    /\ Alone(m)
    /\ ~At(m, "done")
    /\ SessionsMove(m)
    /\ Opening(m)' /\ Working(m)' /\ Carrying(m)'
    /\ Secured(m)

LEMMA Unmoved ==
  ASSUME TalkTyped, NEW m \in Message, session' = session
  PROVE  session' \in [Message -> Session] /\ SessionsMove(m)
BY DEF TalkTyped, SessionsMove, Stays

LEMMA MovedSession ==
  ASSUME TalkTyped, NEW s, NEW state \in Ended, session' = Moved(s, state)
  PROVE  /\ session' \in [Message -> Session]
         /\ \A x \in Message : Stays(x) \/ (x = s /\ Ends(x))
<1>1. CASE ~Waiting(s)
  BY <1>1 DEF Moved, TalkTyped, Stays
<1>2. CASE Waiting(s)
  <2>1. [NoSession EXCEPT !.state = state] \in Session
    BY NoSessionTyped DEF Session, State
  <2>2. session' = [session EXCEPT ![s] = [NoSession EXCEPT !.state = state]]
    BY <1>2 DEF Moved
  <2>3. /\ [NoSession EXCEPT !.state = state].state = state
        /\ [NoSession EXCEPT !.state = state].pending = NoOne
    BY DEF NoSession
  <2> QED
    BY <1>2, <2>1, <2>2, <2>3 DEF TalkTyped, Stays, Ends
<1> QED
  BY <1>1, <1>2

LEMMA MovedMove ==
  ASSUME TalkTyped, NEW m \in Message, NEW s, NEW state \in Ended,
         session' = Moved(s, state), s \in Message => FreeOfOthers(m, s)
  PROVE  session' \in [Message -> Session] /\ SessionsMove(m)
BY MovedSession DEF SessionsMove

LEMMA MovedIfSameMove ==
  ASSUME TalkTyped, NEW m \in Message, NEW state \in Ended,
         session' = MovedIfSame(m, state), h[m].ses \in Message => FreeOfOthers(m, h[m].ses)
  PROVE  session' \in [Message -> Session] /\ SessionsMove(m)
<1>1. session' = session \/ session' = Moved(h[m].ses, state)
  BY DEF MovedIfSame
<1> QED
  BY <1>1, Unmoved, MovedMove

LEMMA FreeMeans ==
  ASSUME TalkTyped, NEW m \in Message, Free(m)
  PROVE  h[m].ses \in Message => FreeOfOthers(m, h[m].ses)
BY DayAssumption DEF Free, Locked, FreeOfOthers, InTx

LEMMA UnlockedMeans ==
  ASSUME NEW m \in Message, NEW s, ~Locked(s)
  PROVE  FreeOfOthers(m, s)
BY DEF Locked, FreeOfOthers, InTx

\* The handler's own record.
LEMMA BecomesTyped ==
  ASSUME TalkTyped, NEW m \in Message, NEW r \in Handler, h' = [h EXCEPT ![m] = r]
  PROVE  h' \in [Message -> Handler] /\ h'[m] = r /\ Alone(m)
BY DEF TalkTyped, Alone

\* A handler that is done.
LEMMA DoneTurn ==
  ASSUME TalkTyped, NEW m \in Message, h' = [h EXCEPT ![m] = Done], ~At(m, "done"),
         session' \in [Message -> Session], SessionsMove(m)
  PROVE  Turn(m)
<1>1. h' \in [Message -> Handler] /\ h'[m] = Done /\ Alone(m)
  BY IdleTyped, BecomesTyped
<1>2. h'[m].step = "done" /\ h'[m].ses = NoOne /\ h'[m].sid = NoOne
  BY <1>1, IdleTyped
<1>3. Opening(m)' /\ Working(m)' /\ Carrying(m)' /\ Secured(m)
  BY <1>2 DEF Opening, Working, Carrying, Secured, At, Marking, MarkingIn, MarkingOut, InTx
<1> QED
  BY <1>1, <1>3 DEF Turn, TalkTyped

LEMMA GotoDone ==
  ASSUME NEW m \in Message, Goto(m, "done")
  PROVE  h' = [h EXCEPT ![m] = Done]
BY DEF Goto

LEMMA GotoOther ==
  ASSUME TalkTyped, NEW m \in Message, NEW step \in Step \ {"done"}, Goto(m, step)
  PROVE  /\ h' \in [Message -> Handler]
         /\ Alone(m)
         /\ h'[m] = [h[m] EXCEPT !.step = step]
         /\ h'[m].step = step /\ h'[m].ses = h[m].ses /\ h'[m].sid = h[m].sid
<1>1. [h[m] EXCEPT !.step = step] \in Handler
  BY DEF TalkTyped, Handler
<1>2. h' = [h EXCEPT ![m] = [h[m] EXCEPT !.step = step]]
  BY DEF Goto
<1>3. h'[m] = [h[m] EXCEPT !.step = step] /\ h' \in [Message -> Handler] /\ Alone(m)
  BY <1>1, <1>2, BecomesTyped
<1>4. h[m] \in Handler
  BY DEF TalkTyped
<1> QED
  BY <1>3, <1>4 DEF Handler

-----------------------------------------------------------------------------
(* Receiving a message *)

LEMMA ReceiveInSessionTurn ==
  ASSUME TalkTyped, RowsTyped, Conversation, NEW m \in Message, NEW kind \in Kind,
         NEW s \in Message, ReceiveInSession(m, kind, s)
  PROVE  Turn(m)
<1> DEFINE sid == IF kind = "location" THEN m ELSE session[s].pending
           r == [h[m] EXCEPT !.step = RouteWith(kind, s), !.kind = kind, !.ses = s,
                             !.version = session[s].version, !.target = session[s].target,
                             !.options = session[s].options, !.state = session[s].state,
                             !.sid = sid]
<1>1. /\ h[m].step = "new" /\ Waiting(s) /\ session' = session
      /\ h' = [h EXCEPT ![m] = r]
  BY DEF ReceiveInSession, Usable, At
<1>2. h[m] \in Handler /\ session[s] \in Session
  BY DEF TalkTyped
<1>3. sid \in Message \cup {NoOne} /\ sid \in {NoOne, m, s}
  BY <1>2 DEF Session, Conversation, KeptLocations
<1>4. /\ RouteWith(kind, s) \in {"done", "cancel", "cancelIn", "cancelOut", "markIn",
                                 "markOut", "markExit", "pick", "invalid"}
      /\ RouteWith(kind, s) \in Marking => sid # NoOne
  <2>1. CheckoutStep(session[s].target) \in {"markOut", "markExit"}
    BY DEF CheckoutStep
  <2>2. m # NoOne
    BY DayAssumption
  <2> QED
    BY <2>1, <2>2 DEF RouteWith, Marking, MarkingIn, MarkingOut
<1>5. r \in Handler
  BY <1>2, <1>3, <1>4 DEF Handler, Session, Step
<1>6. h' \in [Message -> Handler] /\ h'[m] = r /\ Alone(m)
  BY <1>1, <1>5, BecomesTyped
<1>7. h'[m].step = RouteWith(kind, s) /\ h'[m].ses = s /\ h'[m].sid = sid
  BY <1>2, <1>6 DEF Handler
<1>8. session[m].state = "NONE" /\ session[s].state # "NONE"
  <2>1. session[m].state = "NONE"
    BY <1>1 DEF Conversation, Opening, At, Marking, MarkingIn, MarkingOut
  <2> QED
    BY <1>1, <2>1 DEF Waiting, InState, OutState
<1>9. Opening(m)'
  BY <1>1, <1>4, <1>7, <1>8 DEF Opening, At
<1>10. Working(m)' /\ Carrying(m)'
  <2>1. s # NoOne
    BY DayAssumption
  <2> QED
    BY <1>1, <1>3, <1>4, <1>7, <1>8, <2>1 DEF Working, Carrying
<1>11. Secured(m)
  BY <1>4, <1>7 DEF Secured, InTx
<1> QED
  BY <1>1, <1>6, <1>9, <1>10, <1>11, Unmoved DEF Turn, TalkTyped, At

LEMMA ReceiveAloneTurn ==
  ASSUME TalkTyped, RowsTyped, Conversation, NEW m \in Message, NEW kind \in Kind,
         ReceiveAlone(m, kind)
  PROVE  Turn(m)
<1> DEFINE sid == IF kind = "location" THEN m ELSE NoOne
           r == [h[m] EXCEPT !.step = RouteWithout(kind), !.kind = kind, !.sid = sid]
<1>1. h[m].step = "new" /\ h' = [h EXCEPT ![m] = r]
  BY DEF ReceiveAlone, At
<1>2. h[m] \in Handler
  BY DEF TalkTyped
<1>3. RouteWithout(kind) \in {"listIn", "listOut", "listLoc", "done"}
  BY DEF RouteWithout
<1>4. r \in Handler
  BY <1>2, <1>3 DEF Handler, Step
<1>5. h' \in [Message -> Handler] /\ h'[m] = r /\ Alone(m)
  BY <1>1, <1>4, BecomesTyped
<1>6. h'[m].step = RouteWithout(kind) /\ h'[m].ses = NoOne /\ h'[m].sid \in {NoOne, m}
  BY <1>1, <1>2, <1>5 DEF Handler, Conversation, Opening
<1>7. session' \in [Message -> Session] /\ SessionsMove(m)
  <2>1. [NoSession EXCEPT !.state = "EXPIRED"] \in Session
    BY NoSessionTyped DEF Session, State, Ended
  <2>2. session' \in [Message -> Session]
    BY <2>1 DEF ReceiveAlone, TalkTyped
  <2>3. ASSUME NEW x \in Message
        PROVE  Stays(x) \/ (FreeOfOthers(m, x) /\ Ends(x))
    <3>1. FreeOfOthers(m, x)
      BY UnlockedMeans DEF ReceiveAlone
    <3>2. CASE Waiting(x)
      <4>1. session'[x] = [NoSession EXCEPT !.state = "EXPIRED"]
        BY <3>2 DEF ReceiveAlone
      <4> QED
        BY <3>1, <3>2, <4>1 DEF Ends, Ended, NoSession
    <3>3. CASE ~Waiting(x)
      BY <3>3 DEF ReceiveAlone, Stays
    <3> QED
      BY <3>2, <3>3
  <2> QED
    BY <2>2, <2>3 DEF SessionsMove
<1>8. session[m].state = "NONE" /\ session'[m].state = "NONE"
  <2>1. session[m].state = "NONE"
    BY <1>1 DEF Conversation, Opening, At, Marking, MarkingIn, MarkingOut
  <2> QED
    BY <1>1, <1>7, <2>1
       DEF SessionsMove, Stays, Ends, Turns, Opens, Waiting, InState, OutState, At
<1>9. Opening(m)' /\ Working(m)' /\ Carrying(m)' /\ Secured(m)
  BY <1>3, <1>6, <1>8
     DEF Opening, Working, Carrying, Secured, At, Marking, MarkingIn, MarkingOut, InTx
<1> QED
  BY <1>1, <1>5, <1>7, <1>9 DEF Turn, TalkTyped, At

\* Before it has opened a session a message has none.
LEMMA NotYetOpened ==
  ASSUME Conversation, NEW m \in Message, ~At(m, "done"), h[m].step \notin Marking
  PROVE  session[m].state = "NONE"
BY DEF Conversation, Opening

LEMMA StillNone ==
  ASSUME NEW m \in Message, session[m].state = "NONE", SessionsMove(m), ~At(m, "open")
  PROVE  session'[m].state = "NONE"
BY DEF SessionsMove, Stays, Ends, Turns, Opens, Waiting, InState, OutState

\* A session that was opened stays on record.
LEMMA StaysOpened ==
  ASSUME NEW m \in Message, NEW x \in Message, SessionsMove(m), session[x].state # "NONE"
  PROVE  session'[x].state # "NONE"
BY DEF SessionsMove, Stays, Ends, Turns, Opens, InState, OutState, Ended

LEMMA CancelSessionTurn ==
  ASSUME TalkTyped, RowsTyped, Conversation, NEW m \in Message, CancelSession(m)
  PROVE  Turn(m)
<1>1. session' \in [Message -> Session] /\ SessionsMove(m)
  BY FreeMeans, MovedIfSameMove DEF CancelSession, Ended
<1>2. ~At(m, "done") /\ ~At(m, "open") /\ h[m].step \notin Marking
  BY DEF CancelSession, At, Marking, MarkingIn, MarkingOut
<1>3. CASE h[m].step = "cancel"
  <2>1. h' = [h EXCEPT ![m] = Done]
    BY <1>3 DEF CancelSession, At
  <2> QED
    BY <1>1, <1>2, <2>1, DoneTurn
<1>4. CASE h[m].step # "cancel"
  <2>1. PICK step \in {"listIn", "listOut"}, kind \in Kind :
          h' = [h EXCEPT ![m] = [Idle EXCEPT !.step = step, !.kind = kind]]
    BY <1>4 DEF CancelSession, At, Kind
  <2>2. [Idle EXCEPT !.step = step, !.kind = kind] \in Handler
    BY IdleTyped DEF Handler, Step
  <2>3. h' \in [Message -> Handler] /\ Alone(m)
        /\ h'[m] = [Idle EXCEPT !.step = step, !.kind = kind]
    BY <2>1, <2>2, BecomesTyped
  <2>4. h'[m].step = step /\ h'[m].ses = NoOne /\ h'[m].sid = NoOne
    BY <2>3 DEF Idle
  <2>5. session'[m].state = "NONE"
    BY <1>1, <1>2, NotYetOpened, StillNone
  <2>6. Opening(m)' /\ Working(m)' /\ Carrying(m)' /\ Secured(m)
    BY <2>4, <2>5
       DEF Opening, Working, Carrying, Secured, At, Marking, MarkingIn, MarkingOut, InTx
  <2> QED
    BY <1>1, <1>2, <2>3, <2>6 DEF Turn, TalkTyped
<1> QED
  BY <1>3, <1>4

LEMMA RecordFailedAttemptTurn ==
  ASSUME TalkTyped, RowsTyped, Conversation, NEW m \in Message, RecordFailedAttempt(m)
  PROVE  Turn(m)
<1> DEFINE s == h[m].ses
<1>1. ~At(m, "done") /\ h' = [h EXCEPT ![m] = Done]
  BY GotoDone DEF RecordFailedAttempt, At
<1>2. s \in Message
  BY DEF RecordFailedAttempt, At, Conversation, Working, TalkTyped, Handler
<1>3. FreeOfOthers(m, s)
  BY <1>2, FreeMeans DEF RecordFailedAttempt
<1>4. CASE session' = session
  BY <1>1, <1>4, Unmoved, DoneTurn
<1>5. CASE session' = Moved(s, "CANCELLED")
  BY <1>1, <1>3, <1>5, MovedMove, DoneTurn DEF Ended
<1>6. CASE /\ session[s].fails + 1 < MaxFails
           /\ session' = [session EXCEPT ![s].fails = @ + 1, ![s].version = @ + 1]
  <2>1. session[s] \in Session
    BY <1>2 DEF TalkTyped
  <2>2. PICK f \in 0 .. MaxFails : f = session[s].fails + 1
    BY <1>6, <2>1, DayAssumption DEF Session
  <2>3. PICK v \in Nat : v = session[s].version + 1
    BY <2>1 DEF Session
  <2>4. session' = [session EXCEPT ![s] = [session[s] EXCEPT !.fails = f, !.version = v]]
    BY <1>2, <1>6, <2>2, <2>3 DEF TalkTyped
  <2>5. [session[s] EXCEPT !.fails = f, !.version = v] \in Session
    BY <2>1 DEF Session
  <2>6. session' \in [Message -> Session]
    BY <1>2, <2>4, <2>5 DEF TalkTyped
  <2>7. \A x \in Message : Stays(x)
    BY <1>2, <2>1, <2>4 DEF TalkTyped, Stays, Session
  <2>8. SessionsMove(m)
    BY <2>7 DEF SessionsMove
  <2> QED
    BY <1>1, <2>6, <2>8, DoneTurn
<1>7. session' = session \/ session' = Moved(s, "CANCELLED")
        \/ (/\ ~(session[s].fails + 1 >= MaxFails)
            /\ session' = [session EXCEPT ![s].fails = @ + 1, ![s].version = @ + 1])
  BY DEF RecordFailedAttempt
<1>8. ~(session[s].fails + 1 >= MaxFails) => session[s].fails + 1 < MaxFails
  BY <1>2, DayAssumption DEF TalkTyped, Session
<1> QED
  BY <1>4, <1>5, <1>6, <1>7, <1>8

-----------------------------------------------------------------------------
(* Free turns *)

LEMMA AskTurn ==
  ASSUME TalkTyped, Conversation, NEW m \in Message, session' = session,
         h[m].step \in {"listIn", "listOut", "listLoc"},
         NEW state \in InState \cup OutState, NEW target \in Option,
         NEW options \in SUBSET Option, NEW sid \in {NoOne, m},
         Ask(m, state, target, options, sid)
  PROVE  Turn(m)
<1> DEFINE r == [h[m] EXCEPT !.step = "open", !.state = state, !.target = target,
                             !.options = options, !.sid = sid, !.ses = m]
<1>1. h[m] \in Handler
  BY DEF TalkTyped
<1>2. r \in Handler
  BY <1>1 DEF Handler, Step, State
<1>3. h' = [h EXCEPT ![m] = r]
  BY DEF Ask
<1>4. h' \in [Message -> Handler] /\ h'[m] = r /\ Alone(m)
  BY <1>2, <1>3, BecomesTyped
<1>5. h'[m].step = "open" /\ h'[m].ses = m /\ h'[m].sid = sid /\ h'[m].state = state
  BY <1>1, <1>4 DEF Handler
<1>6. ~At(m, "done") /\ session'[m].state = "NONE"
  BY NotYetOpened DEF At, Marking, MarkingIn, MarkingOut
<1>7. Opening(m)' /\ Working(m)' /\ Carrying(m)' /\ Secured(m)
  BY <1>5, <1>6
     DEF Opening, Working, Carrying, Secured, At, Marking, MarkingIn, MarkingOut, InTx
<1> QED
  BY <1>4, <1>6, <1>7, Unmoved DEF Turn, TalkTyped

LEMMA QuietDone ==
  ASSUME TalkTyped, NEW m \in Message, session' = session, Goto(m, "done"), ~At(m, "done")
  PROVE  Turn(m)
BY GotoDone, Unmoved, DoneTurn

LEMMA ListCheckInsTurn ==
  ASSUME TalkTyped, RowsTyped, Conversation, NEW m \in Message, ListCheckIns(m)
  PROVE  Turn(m)
<1>1. At(m, "listIn") /\ ~At(m, "done") /\ session' = session
  BY DEF ListCheckIns, At
<1>2. CheckIns \in SUBSET Option /\ NoOption \in Option
  BY CandidatesTyped, OptionTyped DEF RowsTyped
<1>3. CASE Goto(m, "done")
  BY <1>1, <1>3, QuietDone
<1>4. ASSUME NEW c \in CheckIns, Ask(m, "WAITING_LOCATION", c, {}, NoOne)
      PROVE  Turn(m)
  <2>1. c \in Option /\ {} \in SUBSET Option
    BY <1>2
  <2> QED
    BY <1>1, <1>4, <2>1, AskTurn DEF InState, At
<1>5. CASE Ask(m, "WAITING_OPERATION_SELECTION", NoOption, CheckIns, NoOne)
  BY <1>1, <1>2, <1>5, AskTurn DEF InState, At
<1> QED
  BY <1>3, <1>4, <1>5 DEF ListCheckIns

\* A checkout that needs no location goes straight to its mark.
LEMMA StraightTurn ==
  ASSUME TalkTyped, Conversation, NEW m \in Message, session' = session,
         UNCHANGED located, ~located,
         h[m].step \in {"listOut", "pick"}, NEW c \in Option,
         NEW options \in SUBSET Option, NEW sid \in {m, h[m].sid}, sid # NoOne,
         h' = [h EXCEPT ![m] = [@ EXCEPT !.step = CheckoutStep(c), !.target = c,
                                         !.options = options, !.sid = sid]]
  PROVE  Turn(m)
<1> DEFINE r == [h[m] EXCEPT !.step = CheckoutStep(c), !.target = c,
                             !.options = options, !.sid = sid]
<1>1. h[m] \in Handler
  BY DEF TalkTyped
<1>2. CheckoutStep(c) \in {"markOut", "markExit"}
  BY DEF CheckoutStep
<1>3. sid \in Message \cup {NoOne}
  BY <1>1 DEF Handler
<1>4. r \in Handler
  BY <1>1, <1>2, <1>3 DEF Handler, Step
<1>5. h' \in [Message -> Handler] /\ h'[m] = r /\ Alone(m)
  BY <1>4, BecomesTyped
<1>6. h'[m].step = CheckoutStep(c) /\ h'[m].ses = h[m].ses /\ h'[m].sid = sid
  BY <1>1, <1>5 DEF Handler
<1>7. ~At(m, "done") /\ ~At(m, "open") /\ session'[m].state = "NONE"
  BY NotYetOpened DEF At, Marking, MarkingIn, MarkingOut
<1>8. h[m].ses # NoOne => session[h[m].ses].state # "NONE"
  BY <1>7 DEF Conversation, Working
<1>9. Opening(m)' /\ Working(m)' /\ Secured(m)
  BY <1>2, <1>6, <1>7, <1>8 DEF Opening, Working, Secured, At, MarkingIn, InTx
<1>10. Carrying(m)'
  BY <1>6 DEF Conversation, Carrying
<1> QED
  BY <1>5, <1>7, <1>9, <1>10, Unmoved DEF Turn, TalkTyped

LEMMA ListCheckoutsTurn ==
  ASSUME TalkTyped, RowsTyped, RestTyped, Conversation, NEW m \in Message, ListCheckouts(m)
  PROVE  Turn(m)
<1>1. At(m, "listOut") /\ ~At(m, "done") /\ session' = session /\ UNCHANGED located
  BY DEF ListCheckouts, At
<1>2. LeaveOptions \in SUBSET Option /\ NoOption \in Option /\ {} \in SUBSET Option
  BY CandidatesTyped, OptionTyped DEF RowsTyped
<1>3. CASE Goto(m, "done")
  BY <1>1, <1>3, QuietDone
<1>4. ASSUME NEW c \in LeaveOptions, Ask(m, "WAITING_CHECKOUT_LOCATION", c, {}, NoOne)
      PROVE  Turn(m)
  <2>1. c \in Option
    BY <1>2
  <2> QED
    BY <1>1, <1>2, <1>4, <2>1, AskTurn DEF OutState, At
<1>5. ASSUME NEW c \in LeaveOptions, ~located,
             h' = [h EXCEPT ![m].step = CheckoutStep(c), ![m].target = c, ![m].sid = m]
      PROVE  Turn(m)
  <2>1. c \in Option /\ h[m] \in Handler
    BY <1>2 DEF TalkTyped
  <2>2. [h[m] EXCEPT !.step = CheckoutStep(c), !.target = c, !.sid = m]
          = [h[m] EXCEPT !.step = CheckoutStep(c), !.target = c,
                         !.options = h[m].options, !.sid = m]
    BY <2>1 DEF Handler
  <2>3. h' = [h EXCEPT ![m] = [@ EXCEPT !.step = CheckoutStep(c), !.target = c,
                                        !.options = h[m].options, !.sid = m]]
    BY <1>5, <2>2 DEF TalkTyped
  <2>4. h[m].options \in SUBSET Option /\ m # NoOne
    BY <2>1, DayAssumption DEF Handler
  <2> QED
    BY <1>1, <1>5, <2>1, <2>3, <2>4, StraightTurn DEF At
<1>6. CASE Ask(m, "WAITING_CHECKOUT_OPERATION_SELECTION", NoOption, LeaveOptions, NoOne)
  BY <1>1, <1>2, <1>6, AskTurn DEF OutState, At
<1> QED
  BY <1>3, <1>4, <1>5, <1>6 DEF ListCheckouts

LEMMA ProcessDirectLocationTurn ==
  ASSUME TalkTyped, RowsTyped, Conversation, NEW m \in Message, ProcessDirectLocation(m)
  PROVE  Turn(m)
<1>1. At(m, "listLoc") /\ ~At(m, "done") /\ session' = session /\ BareLocation(m)
  BY DEF ProcessDirectLocation, At
<1>2. /\ CheckIns \in SUBSET Option /\ Checkouts \in SUBSET Option
      /\ ExitsOnly \in SUBSET Option /\ NoOption \in Option /\ {} \in SUBSET Option
  BY CandidatesTyped, OptionTyped DEF RowsTyped
<1>3. \/ Goto(m, "done")
      \/ \E state \in InState \cup OutState, target \in Option, options \in SUBSET Option :
           Ask(m, state, target, options, m)
  <2>1. CASE CheckIns = {} /\ Checkouts = {}
    <3>1. \/ Goto(m, "done")
          \/ \E c \in ExitsOnly : Ask(m, "WAITING_CHECKOUT_LOCATION", c, {}, m)
          \/ Ask(m, "WAITING_CHECKOUT_OPERATION_SELECTION", NoOption, ExitsOnly, m)
      BY <1>1, <2>1 DEF BareLocation
    <3> QED
      BY <1>2, <3>1 DEF OutState
  <2>2. CASE CheckIns = {} /\ Checkouts # {}
    BY <1>1, <2>2 DEF BareLocation
  <2>3. CASE CheckIns # {} /\ Checkouts = {} /\ Cardinality(CheckIns) = 1
    <3>1. \E c \in CheckIns : Ask(m, "WAITING_LOCATION", c, {}, m)
      BY <1>1, <2>3 DEF BareLocation
    <3> QED
      BY <1>2, <3>1 DEF InState
  <2>4. CASE CheckIns # {} /\ ~(Checkouts = {} /\ Cardinality(CheckIns) = 1)
    <3>1. Ask(m, "WAITING_OPERATION_SELECTION", NoOption, CheckIns \cup Checkouts, m)
      BY <1>1, <2>4 DEF BareLocation
    <3>2. CheckIns \cup Checkouts \in SUBSET Option
      BY <1>2
    <3> QED
      BY <1>2, <3>1, <3>2 DEF InState
  <2> QED
    BY <2>1, <2>2, <2>3, <2>4
<1>4. CASE Goto(m, "done")
  BY <1>1, <1>4, QuietDone
<1>5. CASE \E state \in InState \cup OutState, target \in Option, options \in SUBSET Option :
             Ask(m, state, target, options, m)
  BY <1>1, <1>5, AskTurn DEF At
<1> QED
  BY <1>3, <1>4, <1>5

LEMMA CreateSessionTurn ==
  ASSUME TalkTyped, RowsTyped, Conversation, NEW m \in Message, CreateSession(m)
  PROVE  Turn(m)
<1> DEFINE direct == h[m].state = "WAITING_LOCATION" /\ h[m].sid = m
           new == [state |-> h[m].state, target |-> h[m].target, options |-> h[m].options,
                   pending |-> IF direct THEN NoOne ELSE h[m].sid, version |-> 1,
                   fails |-> 0, live |-> TRUE, asked |-> h[m].kind = "leave"]
<1>1. /\ At(m, "open") /\ ~At(m, "done") /\ h[m].step \notin Marking
      /\ h[m] \in Handler
  BY DEF CreateSession, At, Marking, MarkingIn, MarkingOut, TalkTyped
<1>2. /\ h[m].ses = m /\ h[m].state \in InState \cup OutState
      /\ session[m].state = "NONE" /\ h[m].sid \in {NoOne, m}
  BY <1>1, NotYetOpened DEF Conversation, Opening, Carrying
<1>3. new \in Session
  BY <1>1, <1>2, DayAssumption DEF Handler, Session, State
<1>4. session'[m] = new
  BY DEF CreateSession
<1>5. ASSUME NEW x \in Message \ {m}
      PROVE  /\ session'[x] \in Session
             /\ Stays(x) \/ (FreeOfOthers(m, x) /\ Ends(x))
  <2>1. CASE ~Waiting(x)
    <3>1. session'[x] = session[x]
      BY <1>5, <2>1 DEF CreateSession
    <3> QED
      BY <3>1 DEF Stays, TalkTyped
  <2>2. CASE Waiting(x)
    <3>1. PICK state \in Ended : session'[x] = [NoSession EXCEPT !.state = state]
      BY <1>5, <2>2 DEF CreateSession, Ended
    <3>2. FreeOfOthers(m, x)
      BY <2>2, UnlockedMeans DEF CreateSession
    <3>3. session'[x] \in Session /\ session'[x].state = state /\ session'[x].pending = NoOne
      <4>1. [NoSession EXCEPT !.state = state] \in Session
        BY NoSessionTyped DEF Session, State
      <4> QED
        BY <3>1, <4>1 DEF NoSession
    <3> QED
      BY <2>2, <3>2, <3>3 DEF Ends
  <2> QED
    BY <2>1, <2>2
<1>6. session' \in [Message -> Session]
  <2>1. \A x \in Message : session'[x] \in Session
    BY <1>3, <1>4, <1>5
  <2>2. session' = [s \in Message |-> session'[s]]
    BY DEF CreateSession
  <2> QED
    BY <2>1, <2>2
<1>7. Opens(m)
  BY <1>1, <1>2, <1>4 DEF Opens
<1>8. SessionsMove(m)
  BY <1>5, <1>7 DEF SessionsMove
<1>9. CASE ~direct
  <2>1. h' = [h EXCEPT ![m] = Done]
    BY <1>9 DEF CreateSession
  <2> QED
    BY <1>1, <1>6, <1>8, <2>1, DoneTurn
<1>10. CASE direct
  <2>1. h' = [h EXCEPT ![m] = [h[m] EXCEPT !.step = "markIn", !.version = 1]]
    BY <1>10 DEF CreateSession
  <2>2. [h[m] EXCEPT !.step = "markIn", !.version = 1] \in Handler
    BY <1>1 DEF Handler, Step
  <2>3. h' \in [Message -> Handler] /\ Alone(m)
        /\ h'[m] = [h[m] EXCEPT !.step = "markIn", !.version = 1]
    BY <2>1, <2>2, BecomesTyped
  <2>4. h'[m].step = "markIn" /\ h'[m].ses = m /\ h'[m].sid = m
    BY <1>1, <1>2, <1>10, <2>3 DEF Handler
  <2>5. session'[m].state # "NONE" /\ m # NoOne
    BY <1>2, <1>4, DayAssumption DEF InState, OutState
  <2>6. Opening(m)' /\ Working(m)' /\ Carrying(m)' /\ Secured(m)
    BY <2>4, <2>5
       DEF Opening, Working, Carrying, Secured, At, Marking, MarkingIn, MarkingOut, InTx
  <2> QED
    BY <1>1, <1>6, <1>8, <2>3, <2>6 DEF Turn, TalkTyped
<1> QED
  BY <1>9, <1>10

LEMMA CreateSessionConflictTurn ==
  ASSUME TalkTyped, Conversation, NEW m \in Message, CreateSessionConflict(m)
  PROVE  Turn(m)
BY QuietDone DEF CreateSessionConflict, At

-----------------------------------------------------------------------------
(* Answers to a list *)

LEMMA PickGoneTurn ==
  ASSUME TalkTyped, Conversation, NEW m \in Message, PickGone(m)
  PROVE  Turn(m)
BY QuietDone DEF PickGone, At

LEMMA PickInvalidTurn ==
  ASSUME TalkTyped, RowsTyped, Conversation, NEW m \in Message, PickInvalid(m)
  PROVE  Turn(m)
<1>1. At(m, "pick") /\ ~At(m, "done") /\ session' = session /\ Goto(m, "invalid")
  BY DEF PickInvalid, At
<1>2. /\ h' \in [Message -> Handler] /\ Alone(m)
      /\ h'[m].step = "invalid" /\ h'[m].ses = h[m].ses /\ h'[m].sid = h[m].sid
  BY <1>1, GotoOther DEF Step
<1>3. session'[m].state = "NONE"
  BY <1>1, NotYetOpened DEF At, Marking, MarkingIn, MarkingOut
<1>4. h[m].ses # NoOne /\ session[h[m].ses].state # "NONE"
  BY <1>1 DEF Conversation, Working, At
<1>5. h[m].sid \in {NoOne, m, h[m].ses}
  BY DEF Conversation, Carrying
<1>6. Opening(m)' /\ Working(m)' /\ Carrying(m)' /\ Secured(m)
  BY <1>1, <1>2, <1>3, <1>4, <1>5
     DEF Opening, Working, Carrying, Secured, At, Marking, MarkingIn, MarkingOut, InTx
<1> QED
  BY <1>1, <1>2, <1>6, Unmoved DEF Turn, TalkTyped

LEMMA PickAndWaitTurn ==
  ASSUME TalkTyped, RowsTyped, Conversation, NEW m \in Message, At(m, "pick"),
         NEW c \in h[m].options, PickAndWait(m, c)
  PROVE  Turn(m)
<1> DEFINE s == h[m].ses
           next == IF h[m].sid = NoOne THEN "done"
                   ELSE IF c.act = "in" THEN "markIn" ELSE CheckoutStep(c)
           state == IF c.act = "in" THEN "WAITING_LOCATION" ELSE "WAITING_CHECKOUT_LOCATION"
<1>1. h[m] \in Handler /\ c \in Option /\ ~At(m, "done")
  BY DEF TalkTyped, Handler, At
<1>2. s \in Message /\ s # NoOne /\ session[s].state # "NONE" /\ session[m].state = "NONE"
  BY <1>1, NotYetOpened
     DEF Conversation, Working, Handler, At, Marking, MarkingIn, MarkingOut
<1>3. FreeOfOthers(m, s) /\ session[s] \in Session
  BY <1>2, FreeMeans DEF PickAndWait, TalkTyped
<1>4. CASE ~Choosable(s, c.act)
  <2>1. Goto(m, "done") /\ (session' = session \/ session' = Moved(s, "EXPIRED"))
    BY <1>4 DEF PickAndWait
  <2> QED
    BY <1>1, <1>3, <2>1, QuietDone, MovedMove, DoneTurn, GotoDone DEF Ended
<1>5. CASE Choosable(s, c.act)
  <2>1. PICK v \in Nat : v = session[s].version + 1
    BY <1>3 DEF Session
  <2> DEFINE new == [session[s] EXCEPT !.state = state, !.target = c, !.options = {},
                       !.pending = NoOne, !.version = v, !.fails = 0, !.live = TRUE,
                       !.asked = c.act = "out"]
  <2>2. session' = [session EXCEPT ![s] = new]
    BY <1>2, <1>5, <2>1 DEF PickAndWait, TalkTyped
  <2>3. new \in Session
    <3>1. state \in State /\ 0 \in 0 .. MaxFails /\ {} \in SUBSET Option
      BY DayAssumption DEF State, InState, OutState
    <3>2. (c.act = "out") \in BOOLEAN
      OBVIOUS
    <3> HIDE DEF state
    <3> QED
      BY <1>1, <1>3, <3>1, <3>2 DEF Session
  <2>4. new.state = state /\ new.pending = NoOne
    BY <1>3 DEF Session
  <2>5. session' \in [Message -> Session] /\ session'[s] = new
        /\ \A x \in Message \ {s} : session'[x] = session[x]
    BY <1>2, <2>2, <2>3 DEF TalkTyped
  <2>6. Turns(s)
    BY <1>5, <2>4, <2>5 DEF Turns, Choosable, Usable
  <2>7. SessionsMove(m)
    BY <1>3, <2>5, <2>6 DEF SessionsMove, Stays
  <2>8. CASE next = "done"
    <3>1. h' = [h EXCEPT ![m] = Done]
      BY <1>5, <2>8 DEF PickAndWait
    <3> QED
      BY <1>1, <2>5, <2>7, <3>1, DoneTurn
  <2>9. CASE next # "done"
    <3>1. next \in {"markIn", "markOut", "markExit"} /\ h[m].sid # NoOne
      BY <2>9 DEF CheckoutStep
    <3>2. h' = [h EXCEPT ![m] = [h[m] EXCEPT !.step = next, !.target = c, !.options = {},
                                             !.version = v]]
      BY <1>5, <2>1, <2>9 DEF PickAndWait
    <3>3. [h[m] EXCEPT !.step = next, !.target = c, !.options = {}, !.version = v] \in Handler
      BY <1>1, <3>1 DEF Handler, Step
    <3>4. h' \in [Message -> Handler] /\ Alone(m)
          /\ h'[m] = [h[m] EXCEPT !.step = next, !.target = c, !.options = {}, !.version = v]
      BY <3>2, <3>3, BecomesTyped
    <3>5. h'[m].step = next /\ h'[m].ses = s /\ h'[m].sid = h[m].sid
      BY <1>1, <3>4 DEF Handler
    <3>6. session'[m].state = "NONE" /\ session'[s].state # "NONE"
      BY <1>2, <2>4, <2>5
    <3>7. h[m].sid \in {NoOne, m, s}
      BY DEF Conversation, Carrying
    <3>8. Opening(m)' /\ Working(m)' /\ Carrying(m)' /\ Secured(m)
      BY <1>2, <3>1, <3>5, <3>6, <3>7
         DEF Opening, Working, Carrying, Secured, At, Marking, MarkingIn, MarkingOut, InTx
    <3> QED
      BY <1>1, <2>5, <2>7, <3>4, <3>8 DEF Turn, TalkTyped
  <2> QED
    BY <2>8, <2>9
<1> QED
  BY <1>4, <1>5

LEMMA PickTurn ==
  ASSUME TalkTyped, RowsTyped, Conversation, NEW m \in Message, Pick(m)
  PROVE  Turn(m)
<1>1. PICK c \in h[m].options : PickCheckoutUnlocated(m, c) \/ PickAndWait(m, c)
  BY DEF Pick
<1>2. At(m, "pick") /\ UNCHANGED located
  BY DEF Pick
<1>3. CASE PickAndWait(m, c)
  BY <1>2, <1>3, PickAndWaitTurn
<1>4. CASE PickCheckoutUnlocated(m, c)
  <2>1. c \in Option /\ {} \in SUBSET Option
    BY DEF TalkTyped, Handler
  <2>2. PICK sid \in {m, h[m].sid} : sid = IF h[m].sid # NoOne /\ h[m].state \in InState
                                         THEN h[m].sid ELSE m
    OBVIOUS
  <2>3. sid # NoOne
    BY <2>2, DayAssumption
  <2>4. /\ ~located /\ session' = session
        /\ h' = [h EXCEPT ![m] = [@ EXCEPT !.step = CheckoutStep(c), !.target = c,
                                           !.options = {}, !.sid = sid]]
    BY <1>4, <2>2 DEF PickCheckoutUnlocated
  <2> QED
    BY <1>2, <2>1, <2>3, <2>4, StraightTurn DEF At
<1> QED
  BY <1>1, <1>3, <1>4

-----------------------------------------------------------------------------
(* Marks *)

\* From one step of a mark to the next, outside the transaction.
LEMMA MarkTurn ==
  ASSUME TalkTyped, Conversation, NEW m \in Message, session' = session,
         UNCHANGED located, Goto(m, h'[m].step), h'[m].step \in Marking \ InTx,
         h[m].step \in Marking, h'[m].step \in MarkingIn => h[m].step \in MarkingIn,
         h'[m].step \in MarkingOut => h[m].step \in MarkingOut
  PROVE  Turn(m)
<1>0. PICK step \in Marking \ InTx : step = h'[m].step
  OBVIOUS
<1>1. /\ h' \in [Message -> Handler] /\ Alone(m)
      /\ h'[m].step = step /\ h'[m].ses = h[m].ses /\ h'[m].sid = h[m].sid
  BY <1>0, GotoOther DEF Step, Marking, MarkingIn, MarkingOut
<1>2. ~At(m, "done") /\ ~At(m, "open")
  BY DEF At, Marking, MarkingIn, MarkingOut
<1>3. Opening(m)'
  BY <1>0, <1>1, <1>2 DEF Conversation, Opening, At, Marking, MarkingIn, MarkingOut
<1>4. Working(m)' /\ Carrying(m)'
  BY <1>0, <1>1, <1>2 DEF Conversation, Working, Carrying, At, Marking, MarkingIn, MarkingOut
<1>5. Secured(m)
  BY <1>0, <1>1 DEF Secured
<1> QED
  BY <1>1, <1>2, <1>3, <1>4, <1>5, Unmoved DEF Turn, TalkTyped

\* A transaction begins: the session is free and waits for the mark.
LEMMA TxTurn ==
  ASSUME TalkTyped, Conversation, NEW m \in Message, session' = session, UNCHANGED located,
         NEW step \in InTx, NEW seen \in {"EXPECTED", "JUSTIFIED"},
         h' = [h EXCEPT ![m] = [@ EXCEPT !.step = step, !.seen = seen]],
         h[m].step = IF step = "inTx" THEN "txIn" ELSE "txOut",
         h[m].ses # NoOne, Free(m),
         session[h[m].ses].state = IF step = "inTx" THEN "WAITING_LOCATION"
                                   ELSE "WAITING_CHECKOUT_LOCATION"
  PROVE  Turn(m)
<1>1. h[m] \in Handler /\ step \in Step
  BY DEF TalkTyped, InTx, Step
<1>2. [h[m] EXCEPT !.step = step, !.seen = seen] \in Handler
  BY <1>1 DEF Handler
<1>3. h' \in [Message -> Handler] /\ Alone(m)
      /\ h'[m] = [h[m] EXCEPT !.step = step, !.seen = seen]
  BY <1>2, BecomesTyped
<1>4. h'[m].step = step /\ h'[m].ses = h[m].ses /\ h'[m].sid = h[m].sid
  BY <1>1, <1>3 DEF Handler
<1>5. h[m].ses \in Message /\ FreeOfOthers(m, h[m].ses)
  BY <1>1, FreeMeans DEF Handler
<1>6. ~At(m, "done") /\ ~At(m, "open") /\ h[m].step \in Marking /\ step \in Marking
  BY DEF At, Marking, MarkingIn, MarkingOut, InTx
<1>7. Opening(m)'
  BY <1>4, <1>6 DEF Conversation, Opening, At, Marking, MarkingIn, MarkingOut
<1>8. Working(m)' /\ Carrying(m)'
  BY <1>4, <1>6 DEF Conversation, Working, Carrying, At, Marking, MarkingIn, MarkingOut, InTx
<1>9. Secured(m)
  BY <1>4, <1>5 DEF Secured, InTx
<1> QED
  BY <1>3, <1>6, <1>7, <1>8, <1>9, Unmoved DEF Turn, TalkTyped

\* A mark ends: the handler is done, and its session ended or stays.
LEMMA EndTurn ==
  ASSUME TalkTyped, NEW m \in Message, Goto(m, "done"), ~At(m, "done"),
         h[m].ses \in Message => FreeOfOthers(m, h[m].ses),
         \/ session' = session
         \/ session' = MovedIfSame(m, "COMPLETED")
         \/ session' = Moved(h[m].ses, "COMPLETED")
  PROVE  Turn(m)
<1>1. session' \in [Message -> Session] /\ SessionsMove(m)
  BY Unmoved, MovedIfSameMove, MovedMove DEF Ended
<1> QED
  BY <1>1, GotoDone, DoneTurn

\* The transaction's own session is held by nobody else.
LEMMA HeldAlone ==
  ASSUME Conversation, NEW m \in Message, h[m].step \in InTx
  PROVE  FreeOfOthers(m, h[m].ses)
BY DEF Conversation, Holding, FreeOfOthers

LEMMA CheckInTurn ==
  ASSUME TalkTyped, RowsTyped, RestTyped, Conversation, NEW m \in Message,
         \/ RevalidateCheckIn(m) \/ CheckDuplicate(m) \/ BeginCheckIn(m)
         \/ CommitCheckIn(m) \/ RefuseCheckIn(m)
  PROVE  Turn(m)
<1>0. ~At(m, "done") /\ ~(At(m, "open")) /\ UNCHANGED located
  BY DEF RevalidateCheckIn, CheckDuplicate, BeginCheckIn, CommitCheckIn, RefuseCheckIn, At
<1>1. CASE RevalidateCheckIn(m)
  <2>1. At(m, "markIn") /\ session' = session /\ (Goto(m, "dupIn") \/ Goto(m, "done"))
    BY <1>1 DEF RevalidateCheckIn
  <2>2. CASE Goto(m, "done")
    BY <1>0, <2>1, <2>2, QuietDone
  <2>3. CASE Goto(m, "dupIn")
    <3>1. h'[m].step = "dupIn"
      BY <2>3, GotoOther DEF Step
    <3> QED
      BY <1>0, <2>1, <2>3, <3>1, MarkTurn DEF At, Marking, MarkingIn, MarkingOut, InTx
  <2> QED
    BY <2>1, <2>2, <2>3
<1>2. CASE CheckDuplicate(m)
  <2>1. CASE Active(h[m].target.day)
    BY <1>0, <1>2, <2>1, FreeMeans, EndTurn DEF CheckDuplicate
  <2>2. CASE ~Active(h[m].target.day)
    <3>1. At(m, "dupIn") /\ session' = session /\ Goto(m, "txIn")
      BY <1>2, <2>2 DEF CheckDuplicate
    <3>2. h'[m].step = "txIn"
      BY <3>1, GotoOther DEF Step
    <3> QED
      BY <1>0, <3>1, <3>2, MarkTurn DEF At, Marking, MarkingIn, MarkingOut, InTx
  <2> QED
    BY <2>1, <2>2
<1>3. CASE BeginCheckIn(m)
  <2>1. CASE MayCheckIn(m) /\ CheckInDay(h[m].target.day)
    <3>1. /\ h' = [h EXCEPT ![m] = [@ EXCEPT !.step = "inTx",
                                             !.seen = expectation[h[m].target.day]]]
          /\ At(m, "txIn") /\ Free(m) /\ session' = session
          /\ session[h[m].ses].state = "WAITING_LOCATION"
      BY <1>3, <2>1 DEF BeginCheckIn, MayCheckIn
    <3>2. PICK seen \in {"EXPECTED", "JUSTIFIED"} : seen = expectation[h[m].target.day]
      <4>1. h[m].target.day \in Day
        BY DEF TalkTyped, Handler, Option
      <4> QED
        BY <4>1 DEF RestTyped
    <3>3. h[m].ses # NoOne
      BY <3>1 DEF Conversation, Working, At, MarkingIn
    <3> QED
      BY <1>0, <3>1, <3>2, <3>3, TxTurn DEF At, InTx
  <2>2. CASE ~(MayCheckIn(m) /\ CheckInDay(h[m].target.day))
    <3>1. h' = [h EXCEPT ![m] = Done] /\ session' = session
      BY <1>3, <2>2 DEF BeginCheckIn
    <3> QED
      BY <1>0, <3>1, Unmoved, DoneTurn
  <2> QED
    BY <2>1, <2>2
<1>4. CASE CommitCheckIn(m) \/ RefuseCheckIn(m)
  <2>1. FreeOfOthers(m, h[m].ses)
    BY <1>4, HeldAlone DEF CommitCheckIn, RefuseCheckIn, At, InTx
  <2> QED
    BY <1>0, <1>4, <2>1, EndTurn DEF CommitCheckIn, RefuseCheckIn
<1> QED
  BY <1>1, <1>2, <1>3, <1>4

LEMMA CheckoutTurn ==
  ASSUME TalkTyped, RowsTyped, RestTyped, Conversation, NEW m \in Message,
         \/ RevalidateCheckout(m) \/ BeginCheckout(m) \/ CommitCheckout(m)
         \/ CheckoutWithoutLocation(m) \/ RevalidateExit(m)
         \/ RegisterExitWithoutArrival(m)
  PROVE  Turn(m)
<1>0. ~At(m, "done") /\ ~(At(m, "open")) /\ UNCHANGED located
  BY DEF RevalidateCheckout, BeginCheckout, CommitCheckout, CheckoutWithoutLocation,
         RegisterCheckout, RevalidateExit, RegisterExitWithoutArrival, At
<1>1. CASE RevalidateCheckout(m)
  <2>1. CASE CheckoutRow(h[m].target.day, h[m].target.rec)
    <3>1. At(m, "markOut") /\ session' = session /\ Goto(m, "txOut")
      BY <1>1, <2>1 DEF RevalidateCheckout
    <3>2. h'[m].step = "txOut"
      BY <3>1, GotoOther DEF Step
    <3> QED
      BY <1>0, <3>1, <3>2, MarkTurn DEF At, Marking, MarkingIn, MarkingOut, InTx
  <2>2. CASE ~CheckoutRow(h[m].target.day, h[m].target.rec)
    BY <1>0, <1>1, <2>2, FreeMeans, EndTurn DEF RevalidateCheckout
  <2> QED
    BY <2>1, <2>2
<1>2. CASE RevalidateExit(m)
  <2>1. CASE ExitDay(h[m].target.day)
    <3>1. At(m, "markExit") /\ session' = session /\ Goto(m, "txExit")
      BY <1>2, <2>1 DEF RevalidateExit
    <3>2. h'[m].step = "txExit"
      BY <3>1, GotoOther DEF Step
    <3> QED
      BY <1>0, <3>1, <3>2, MarkTurn DEF At, Marking, MarkingIn, MarkingOut, InTx
  <2>2. CASE ~ExitDay(h[m].target.day)
    BY <1>0, <1>2, <2>2, FreeMeans, EndTurn DEF RevalidateExit
  <2> QED
    BY <2>1, <2>2
<1>3. CASE BeginCheckout(m)
  <2>1. CASE MayCheckOut(m) /\ CheckoutRow(h[m].target.day, h[m].target.rec)
    <3>1. /\ Goto(m, "outTx") /\ At(m, "txOut") /\ Free(m) /\ session' = session
          /\ session[h[m].ses].state = "WAITING_CHECKOUT_LOCATION" /\ h[m].ses # NoOne
      BY <1>3, <2>1 DEF BeginCheckout, MayCheckOut
    <3>2. PICK seen \in {"EXPECTED", "JUSTIFIED"} : seen = h[m].seen
      BY DEF TalkTyped, Handler
    <3>3. h' = [h EXCEPT ![m] = [@ EXCEPT !.step = "outTx", !.seen = seen]]
      <4>1. h[m] \in Handler
        BY DEF TalkTyped
      <4>2. [h[m] EXCEPT !.step = "outTx"] = [h[m] EXCEPT !.step = "outTx", !.seen = seen]
        BY <3>2, <4>1 DEF Handler
      <4>3. h' = [h EXCEPT ![m] = [h[m] EXCEPT !.step = "outTx"]]
        BY <3>1 DEF Goto
      <4> QED
        BY <4>2, <4>3
    <3> QED
      BY <1>0, <3>1, <3>3, TxTurn DEF At, InTx
  <2>2. CASE ~(MayCheckOut(m) /\ CheckoutRow(h[m].target.day, h[m].target.rec))
    BY <1>0, <1>3, <2>2, QuietDone DEF BeginCheckout
  <2> QED
    BY <2>1, <2>2
<1>4. CASE CommitCheckout(m)
  <2>1. FreeOfOthers(m, h[m].ses)
    BY <1>4, HeldAlone DEF CommitCheckout, RegisterCheckout, At, InTx
  <2> QED
    BY <1>0, <1>4, <2>1, EndTurn DEF CommitCheckout, RegisterCheckout
<1>5. CASE CheckoutWithoutLocation(m)
  BY <1>0, <1>5, FreeMeans, EndTurn DEF CheckoutWithoutLocation, RegisterCheckout
<1>6. CASE RegisterExitWithoutArrival(m)
  BY <1>0, <1>6, FreeMeans, EndTurn DEF RegisterExitWithoutArrival
<1> QED
  BY <1>1, <1>2, <1>3, <1>4, <1>5, <1>6

LEMMA HandleTurn ==
  ASSUME TalkTyped, RowsTyped, RestTyped, Conversation, NEW m \in Message, Handle(m)
  PROVE  Turn(m)
BY ReceiveAloneTurn, ReceiveInSessionTurn, CancelSessionTurn, RecordFailedAttemptTurn,
   ListCheckInsTurn, ListCheckoutsTurn, ProcessDirectLocationTurn, CreateSessionTurn,
   CreateSessionConflictTurn, PickGoneTurn, PickTurn, PickInvalidTurn, CheckInTurn,
   CheckoutTurn
   DEF Handle

-----------------------------------------------------------------------------
(* A turn leaves every other handler what it relies on *)

LEMMA LocationsKept ==
  ASSUME Conversation, NEW m \in Message, SessionsMove(m)
  PROVE  KeptLocations'
BY DEF Conversation, KeptLocations, SessionsMove, Stays, Ends, Turns, Opens

\* A session somebody else has locked does not move.
LEMMA LockedStays ==
  ASSUME TalkTyped, Conversation, NEW m \in Message, SessionsMove(m),
         NEW n \in Message \ {m}, h[n].step \in InTx
  PROVE  h[n].ses \in Message /\ h[n].ses # NoOne /\ Stays(h[n].ses)
<1>1. Working(n) /\ Holding(n)
  BY DEF Conversation
<1>2. h[n].ses # NoOne /\ session[h[n].ses].state # "NONE"
  BY <1>1 DEF Working, Holding, At, InTx, MarkingIn
<1>3. h[n].ses \in Message
  BY <1>2 DEF TalkTyped, Handler
<1>4. ~FreeOfOthers(m, h[n].ses)
  BY DEF FreeOfOthers
<1>5. ~Opens(m) \/ h[n].ses # m
  BY <1>2 DEF Opens
<1> QED
  BY <1>2, <1>3, <1>4, <1>5 DEF SessionsMove

LEMMA OtherKept ==
  ASSUME TalkTyped, Conversation, NEW m \in Message, Turn(m), UNCHANGED located,
         NEW n \in Message \ {m}
  PROVE  Opening(n)' /\ Working(n)' /\ Carrying(n)' /\ Holding(n)'
<1>1. h'[n] = h[n] /\ SessionsMove(m)
  BY DEF Turn, Alone
<1>2. Opening(n) /\ Working(n) /\ Carrying(n) /\ Holding(n)
  BY DEF Conversation
<1>3. session[n].state = "NONE" => session'[n].state = "NONE"
  BY <1>1 DEF SessionsMove, Stays, Ends, Turns, Waiting, InState, OutState
<1>4. Opening(n)'
  BY <1>1, <1>2, <1>3 DEF Opening, At
<1>5. Working(n)'
  <2>1. h[n].ses # NoOne => h[n].ses \in Message
    BY DEF TalkTyped, Handler
  <2>2. h[n].ses # NoOne /\ ~At(n, "open") => session'[h[n].ses].state # "NONE"
    BY <1>1, <1>2, <2>1, StaysOpened DEF Working
  <2> QED
    BY <1>1, <1>2, <2>2 DEF Working, At
<1>6. Carrying(n)'
  BY <1>1, <1>2 DEF Carrying
<1>7. Holding(n)'
  <2>1. CASE h[n].step \notin InTx
    BY <1>1, <2>1 DEF Holding, At, InTx
  <2>2. CASE h[n].step \in InTx
    <3>1. Stays(h[n].ses) /\ h[n].ses # NoOne
      BY <1>1, <2>2, LockedStays
    <3>2. ASSUME NEW k \in Message, h'[k].step \in InTx, h'[k].ses = h[n].ses
          PROVE  k = n
      <4>1. CASE k = m
        <5>1. FreeOfOthers(m, h[n].ses)
          BY <3>2, <4>1 DEF Turn, Secured
        <5> QED
          BY <2>2, <5>1 DEF FreeOfOthers
      <4>2. CASE k # m
        <5>1. h'[k] = h[k]
          BY <4>2 DEF Turn, Alone
        <5> QED
          BY <1>2, <2>2, <3>2, <5>1 DEF Holding
      <4> QED
        BY <4>1, <4>2
    <3> QED
      BY <1>1, <1>2, <3>1, <3>2 DEF Holding, Stays, At
  <2> QED
    BY <2>1, <2>2
<1> QED
  BY <1>4, <1>5, <1>6, <1>7

LEMMA OwnHolding ==
  ASSUME NEW m \in Message, Turn(m)
  PROVE  Holding(m)'
<1>1. CASE h'[m].step \notin InTx
  BY <1>1 DEF Holding, At, InTx
<1>2. CASE h'[m].step \in InTx
  <2>1. /\ h'[m].ses # NoOne
        /\ FreeOfOthers(m, h'[m].ses)
        /\ session'[h'[m].ses].state = IF h'[m].step = "inTx" THEN "WAITING_LOCATION"
                                       ELSE "WAITING_CHECKOUT_LOCATION"
    BY <1>2 DEF Turn, Secured
  <2>2. ASSUME NEW k \in Message, h'[k].step \in InTx, h'[k].ses = h'[m].ses
        PROVE  k = m
    <3>1. k # m => h'[k] = h[k]
      BY DEF Turn, Alone
    <3> QED
      BY <2>1, <2>2, <3>1 DEF FreeOfOthers
  <2> QED
    BY <2>1, <2>2 DEF Holding, At
<1> QED
  BY <1>1, <1>2

LEMMA TurnKeeps ==
  ASSUME TalkTyped, Conversation, NEW m \in Message, Turn(m), UNCHANGED located
  PROVE  Conversation'
<1>1. KeptLocations'
  BY LocationsKept DEF Turn
<1>2. ASSUME NEW n \in Message
      PROVE  Opening(n)' /\ Working(n)' /\ Carrying(n)' /\ Holding(n)'
  <2>1. CASE n = m
    BY <2>1, OwnHolding DEF Turn
  <2>2. CASE n # m
    BY <2>2, OtherKept
  <2> QED
    BY <2>1, <2>2
<1> QED
  BY <1>1, <1>2 DEF Conversation

\* What happens beside the handlers leaves the sessions' state as it is.
LEMMA BesideKeeps ==
  ASSUME TalkTyped, Conversation, UNCHANGED <<h, located>>, \A x \in Message : Stays(x)
  PROVE  Conversation'
<1>1. KeptLocations'
  BY DEF Conversation, KeptLocations, Stays
<1>2. ASSUME NEW n \in Message
      PROVE  Opening(n)' /\ Working(n)' /\ Carrying(n)' /\ Holding(n)'
  <2>1. Opening(n) /\ Working(n) /\ Carrying(n) /\ Holding(n)
    BY DEF Conversation
  <2>2. h[n].ses = NoOne \/ Stays(h[n].ses)
    BY DEF TalkTyped, Handler
  <2>3. Opening(n)' /\ Carrying(n)'
    BY <2>1 DEF Opening, Carrying, Stays, At
  <2>4. Working(n)'
    BY <2>1, <2>2 DEF Working, Stays, At
  <2>5. Holding(n)'
    <3>1. h[n].step \in InTx => h[n].ses # NoOne
      BY <2>1 DEF Working, Holding, InTx, MarkingIn, At
    <3> QED
      BY <2>1, <2>2, <3>1 DEF Holding, Stays, At, InTx
  <2> QED
    BY <2>3, <2>4, <2>5
<1> QED
  BY <1>1, <1>2 DEF Conversation

-----------------------------------------------------------------------------
(* What a step may do to the records and to the SIDs *)

\* A record is a new one, or keeps its exit unless it has none, or a
\* correction was shown it.
Writes(d, r) ==
    /\ r \in Row /\ {r.arrival, r.exit} # {NoOne}
    /\ row' = [row EXCEPT ![d] = r]
    /\ \/ r.id = row[d].id + 1
       \/ row[d].exit = NoOne
       \/ r.exit = row[d].exit
       \/ clerk.step = "write" /\ clerk.row.exit = row[d].exit

RowsMove == row' = row \/ \E d \in Day, r \in Row : Writes(d, r)

LEMMA NewRowWrites ==
  ASSUME RowsTyped, NEW d \in Day, NEW arrival \in Author, NEW exit \in Author,
         {arrival, exit} # {NoOne}, NEW status \in Valid \cup {"REJECTED"},
         row' = NewRow(d, arrival, exit, status)
  PROVE  RowsMove
<1>1. PICK id \in Nat : id = row[d].id + 1
  BY DEF RowsTyped, Row
<1> DEFINE r == [id |-> id, arrival |-> arrival, exit |-> exit, status |-> status,
                 reviewed |-> FALSE]
<1>2. r \in Row /\ {r.arrival, r.exit} # {NoOne} /\ r.id = row[d].id + 1
  BY <1>1 DEF Row
<1>3. row' = [row EXCEPT ![d] = r]
  BY <1>1 DEF NewRow
<1> QED
  BY <1>2, <1>3 DEF RowsMove, Writes

LEMMA RowsKept ==
  ASSUME RowsTyped, RowsMove
  PROVE  RowsTyped'
<1>1. CASE row' = row
  BY <1>1 DEF RowsTyped, Marked
<1>2. ASSUME NEW d \in Day, NEW r \in Row, Writes(d, r)
      PROVE  RowsTyped'
  BY <1>2 DEF RowsTyped, Writes, Marked
<1> QED
  BY <1>1, <1>2 DEF RowsMove

\* A mark: the SID's handler ends the session that waited for it.
Marks(m, mark) ==
    /\ used' = [used EXCEPT ![h[m].sid] = @ \cup {mark}]
    /\ h[m].step \in Marking /\ Goto(m, "done")
    /\ located => /\ h[m].ses # NoOne
                  /\ session[h[m].ses].state = IF mark = "arrival" THEN "WAITING_LOCATION"
                                               ELSE "WAITING_CHECKOUT_LOCATION"
                  /\ session' = Moved(h[m].ses, "COMPLETED")

SidsMove(m) == used' = used \/ \E mark \in {"arrival", "exit"} : Marks(m, mark)

RestMoves ==
    /\ UNCHANGED <<phase, expectation, clerk, located, events>>
    /\ conflicts' \in SUBSET Day

Effect(m) == RowsMove /\ SidsMove(m) /\ RestMoves

LEMMA TargetTyped ==
  ASSUME TalkTyped, NEW m \in Message
  PROVE  /\ h[m].target.day \in Day /\ h[m].sid \in Message \cup {NoOne}
         /\ h[m].ses \in Message \cup {NoOne}
BY DEF TalkTyped, Handler, Option

LEMMA SidIsMark ==
  ASSUME TalkTyped, Conversation, NEW m \in Message, h[m].step \in Marking
  PROVE  h[m].sid \in Message /\ h[m].sid # NoOne
BY TargetTyped, DayAssumption DEF Conversation, Carrying

LEMMA CommitCheckInEffect ==
  ASSUME TalkTyped, RowsTyped, RestTyped, Conversation, NEW m \in Message,
         CommitCheckIn(m)
  PROVE  Effect(m)
<1>1. At(m, "inTx") /\ h[m].step \in Marking
  BY DEF CommitCheckIn, At, Marking, MarkingIn
<1>2. h[m].sid \in Message /\ h[m].sid # NoOne
  BY <1>1, SidIsMark
<1>3. PICK status \in Valid \cup {"REJECTED"} :
        row' = NewRow(h[m].target.day, h[m].sid, NoOne, status)
  BY DEF CommitCheckIn
<1>4. RowsMove
  BY <1>2, <1>3, TargetTyped, NewRowWrites DEF Author
<1>5. Marks(m, "arrival")
  BY <1>1 DEF CommitCheckIn, Marks, Conversation, Working, Holding, MarkingIn, At
<1>6. RestMoves
  BY TargetTyped DEF CommitCheckIn, RestMoves, RestTyped
<1> QED
  BY <1>4, <1>5, <1>6 DEF Effect, SidsMove

LEMMA RegisterCheckoutEffect ==
  ASSUME TalkTyped, RowsTyped, RestTyped, Conversation, NEW m \in Message,
         NEW from \in {"txOut", "outTx"}, RegisterCheckout(m, from),
         located => from = "outTx"
  PROVE  Effect(m)
<1> DEFINE t == h[m].target
<1>1. At(m, from) /\ h[m].step \in Marking
  BY DEF RegisterCheckout, At, Marking, MarkingOut
<1>2. h[m].sid \in Message /\ h[m].sid # NoOne
  BY <1>1, SidIsMark
<1>3. RestMoves
  BY DEF RegisterCheckout, RestMoves, RestTyped
<1>4. CASE ~(OpenRow(t.day, t.rec) /\ "exit" \notin used[h[m].sid])
  BY <1>3, <1>4 DEF RegisterCheckout, Effect, RowsMove, SidsMove
<1>5. CASE OpenRow(t.day, t.rec) /\ "exit" \notin used[h[m].sid]
  <2>1. /\ row' = [row EXCEPT ![t.day].exit = h[m].sid]
        /\ used' = [used EXCEPT ![h[m].sid] = @ \cup {"exit"}]
    BY <1>5 DEF RegisterCheckout
  <2>2. t.day \in Day /\ row[t.day] \in Row /\ row[t.day].exit = NoOne
    BY <1>5, TargetTyped DEF RowsTyped, OpenRow
  <2> DEFINE r == [row[t.day] EXCEPT !.exit = h[m].sid]
  <2>3. r \in Row /\ r.exit = h[m].sid
    BY <1>2, <2>2 DEF Row, Author
  <2>4. {r.arrival, r.exit} # {NoOne}
    BY <1>2, <2>3
  <2>5. row' = [row EXCEPT ![t.day] = r]
    BY <2>1
  <2>6. RowsMove
    BY <2>2, <2>3, <2>4, <2>5 DEF RowsMove, Writes
  <2>7. Marks(m, "exit")
    BY <1>1, <2>1 DEF RegisterCheckout, Marks, Conversation, Holding, At
  <2> QED
    BY <1>3, <2>6, <2>7 DEF Effect, SidsMove
<1> QED
  BY <1>4, <1>5

LEMMA RegisterExitEffect ==
  ASSUME TalkTyped, RowsTyped, RestTyped, Conversation, NEW m \in Message,
         RegisterExitWithoutArrival(m)
  PROVE  Effect(m)
<1> DEFINE d == h[m].target.day
           stale == WithLocation(m) /\ h[m].ses # NoOne /\ ~MayCheckOut(m)
<1>1. At(m, "txExit") /\ h[m].step \in Marking
  BY DEF RegisterExitWithoutArrival, At, Marking, MarkingOut
<1>2. h[m].sid \in Message /\ h[m].sid # NoOne
  BY <1>1, SidIsMark
<1>3. RestMoves
  BY DEF RegisterExitWithoutArrival, RestMoves, RestTyped
<1>4. CASE ~(~stale /\ ExitDay(d) /\ "exit" \notin used[h[m].sid])
  BY <1>3, <1>4 DEF RegisterExitWithoutArrival, Effect, RowsMove, SidsMove
<1>5. CASE ~stale /\ ExitDay(d) /\ "exit" \notin used[h[m].sid]
  <2>1. PICK status \in Valid \cup {"REJECTED"} :
          row' = NewRow(h[m].target.day, NoOne, h[m].sid, status)
    BY <1>5 DEF RegisterExitWithoutArrival
  <2>2. RowsMove
    BY <1>2, <2>1, TargetTyped, NewRowWrites DEF Author
  <2>3. used' = [used EXCEPT ![h[m].sid] = @ \cup {"exit"}] /\ Goto(m, "done")
    BY <1>5 DEF RegisterExitWithoutArrival
  <2>4. ASSUME located
        PROVE  /\ h[m].ses # NoOne /\ MayCheckOut(m)
               /\ session' = Moved(h[m].ses, "COMPLETED")
    <3>1. h[m].ses # NoOne
      BY <1>1, <2>4 DEF Conversation, Working, At, MarkingOut
    <3>2. MayCheckOut(m)
      BY <1>5, <2>4, <3>1 DEF WithLocation
    <3> QED
      BY <1>5, <3>1, <3>2 DEF RegisterExitWithoutArrival
  <2>5. Marks(m, "exit")
    BY <1>1, <2>3, <2>4 DEF Marks, MayCheckOut
  <2> QED
    BY <1>3, <2>2, <2>5 DEF Effect, SidsMove
<1> QED
  BY <1>4, <1>5

LEMMA HandleEffect ==
  ASSUME TalkTyped, RowsTyped, RestTyped, Conversation, NEW m \in Message, Handle(m)
  PROVE  Effect(m)
<1>1. CASE CommitCheckIn(m)
  BY <1>1, CommitCheckInEffect
<1>2. CASE CommitCheckout(m)
  BY <1>2, RegisterCheckoutEffect DEF CommitCheckout
<1>3. CASE CheckoutWithoutLocation(m)
  <2>1. RegisterCheckout(m, "txOut") /\ ~(WithLocation(m) /\ h[m].ses # NoOne)
    BY <1>3 DEF CheckoutWithoutLocation
  <2>2. ~located
    BY <2>1 DEF RegisterCheckout, WithLocation, Conversation, Working, MarkingOut, At
  <2> QED
    BY <2>1, <2>2, RegisterCheckoutEffect
<1>4. CASE RegisterExitWithoutArrival(m)
  BY <1>4, RegisterExitEffect
<1>5. CASE UNCHANGED <<phase, expectation, row, conflicts, clerk, located, used, events>>
  BY <1>5 DEF Effect, RowsMove, SidsMove, RestMoves, RestTyped
<1> QED
  BY <1>1, <1>2, <1>3, <1>4, <1>5
     DEF Handle, ReceiveAlone, ReceiveInSession, CancelSession, RecordFailedAttempt,
         ListCheckIns, ListCheckouts, ProcessDirectLocation, CreateSession,
         CreateSessionConflict, PickGone, Pick, PickInvalid, RevalidateCheckIn,
         CheckDuplicate, BeginCheckIn, RefuseCheckIn, RevalidateCheckout, BeginCheckout,
         RevalidateExit

-----------------------------------------------------------------------------
(* A SID is used up by its first mark *)

\* The SID of a mark still was unused, and its session is over with the mark.
LEMMA MarkUsesUp ==
  ASSUME TalkTyped, RestTyped, Conversation, MarksUsedUp, located, NEW m \in Message,
         NEW mark \in {"arrival", "exit"}, Marks(m, mark)
  PROVE  /\ h[m].sid \in Message /\ used[h[m].sid] = {}
         /\ session'[h[m].ses].state = "COMPLETED" /\ h[m].ses \in Message
         /\ \/ h'[h[m].sid].step = "done" /\ session'[h[m].sid].state = "NONE"
            \/ session'[h[m].sid].state \in Ended
<1> DEFINE s == h[m].ses
           x == h[m].sid
<1>1. x \in Message /\ x \in {m, s} /\ s \in Message /\ s # NoOne
  BY SidIsMark, TargetTyped, DayAssumption DEF Marks, Conversation, Carrying
<1>2. Waiting(s) /\ session' = Moved(s, "COMPLETED")
  BY DEF Marks, Waiting, InState, OutState
<1>3. session'[s].state = "COMPLETED" /\ \A y \in Message \ {s} : session'[y] = session[y]
  BY <1>1, <1>2 DEF Moved, TalkTyped, NoSession
<1>4. h'[m].step = "done"
  BY GotoDone, IdleTyped DEF Marks, TalkTyped
<1>5. session[s].state # "NONE" /\ session[s].state \notin Ended /\ h[m].step # "done"
  BY <1>2 DEF Waiting, InState, OutState, Ended, Marks, Marking, MarkingIn, MarkingOut
<1>6. UsedUp(x)
  BY <1>1 DEF MarksUsedUp
<1>7. CASE x = s
  BY <1>1, <1>3, <1>5, <1>6, <1>7 DEF UsedUp, Ended
<1>8. CASE x = m /\ m # s
  <2>1. session[m].state = "NONE" /\ session'[m].state = "NONE"
    BY <1>1, <1>3, <1>5, <1>8 DEF Conversation, Opening, At
  <2>2. used[m] = {}
    BY <1>5, <1>6, <1>8, <2>1 DEF UsedUp, Ended, At
  <2> QED
    BY <1>1, <1>3, <1>4, <1>8, <2>1, <2>2 DEF At
<1> QED
  BY <1>1, <1>7, <1>8

LEMMA StaysUsedUp ==
  ASSUME NEW m \in Message, Turn(m), NEW x \in Message, UsedUp(x), used'[x] = used[x]
  PROVE  UsedUp(x)'
<1>1. CASE used[x] = {}
  BY <1>1 DEF UsedUp
<1>2. CASE At(x, "done") /\ session[x].state = "NONE"
  BY <1>2 DEF UsedUp, Turn, Alone, SessionsMove, Stays, Ends, Turns, Opens, Waiting,
              InState, OutState, At
<1>3. CASE session[x].state \in Ended
  BY <1>3 DEF UsedUp, Turn, SessionsMove, Stays, Ends, Turns, Opens, Waiting,
              InState, OutState, Ended
<1> QED
  BY <1>1, <1>2, <1>3 DEF UsedUp

LEMMA SidsKept ==
  ASSUME TalkTyped, RestTyped, Conversation, MarksUsedUp, OneMarkPerMessage,
         NEW m \in Message, Turn(m), Effect(m)
  PROVE  MarksUsedUp' /\ OneMarkPerMessage'
<1>1. UNCHANGED located
  BY DEF Effect, RestMoves
<1>2. CASE ~located
  BY <1>1, <1>2 DEF MarksUsedUp, OneMarkPerMessage
<1>3. CASE located /\ used' = used
  <2>1. ASSUME NEW x \in Message
        PROVE  UsedUp(x)'
    BY <1>3, <2>1, StaysUsedUp DEF MarksUsedUp
  <2> QED
    BY <1>1, <1>3, <2>1 DEF MarksUsedUp, OneMarkPerMessage
<1>4. ASSUME located, NEW mark \in {"arrival", "exit"}, Marks(m, mark)
      PROVE  MarksUsedUp' /\ OneMarkPerMessage'
  <2>1. used' = [used EXCEPT ![h[m].sid] = @ \cup {mark}] /\ h[m].sid \in Message
    BY <1>4, MarkUsesUp DEF Marks
  <2>2. used'[h[m].sid] = {mark}
    BY <1>4, <2>1, MarkUsesUp DEF RestTyped
  <2>3. \A x \in Message \ {h[m].sid} : used'[x] = used[x]
    BY <2>1 DEF RestTyped
  <2>4. ASSUME NEW x \in Message
        PROVE  UsedUp(x)'
    <3>1. CASE x = h[m].sid
      BY <1>4, <3>1, MarkUsesUp DEF UsedUp, At
    <3>2. CASE x # h[m].sid
      BY <1>4, <2>3, <3>2, StaysUsedUp DEF MarksUsedUp
    <3> QED
      BY <3>1, <3>2
  <2>5. OneMarkPerMessage'
    <3>1. {mark} # {"arrival", "exit"}
      OBVIOUS
    <3> QED
      BY <1>4, <2>2, <2>3, <3>1 DEF OneMarkPerMessage
  <2> QED
    BY <2>4, <2>5 DEF MarksUsedUp
<1> QED
  BY <1>2, <1>3, <1>4 DEF Effect, SidsMove

-----------------------------------------------------------------------------
(* Beside the conversation *)

LEMMA RestKept ==
  ASSUME RestTyped, NEW m \in Message, TalkTyped, Conversation, Effect(m)
  PROVE  RestTyped'
<1>1. used' \in [Message -> SUBSET {"arrival", "exit"}]
  <2>1. CASE used' = used
    BY <2>1 DEF RestTyped
  <2>2. ASSUME NEW mark \in {"arrival", "exit"}, Marks(m, mark)
        PROVE  used' \in [Message -> SUBSET {"arrival", "exit"}]
    BY <2>2 DEF Marks, RestTyped
  <2> QED
    BY <2>1, <2>2 DEF Effect, SidsMove
<1> QED
  BY <1>1 DEF Effect, RestMoves, RestTyped

\* What happens beside it changes neither a session's state nor a handler nor a SID.
Aside == UNCHANGED <<h, located, used>> /\ (\A x \in Message : Stays(x)) /\ TalkTyped'

LEMMA AsideKeeps ==
  ASSUME TalkTyped, Conversation, MarksUsedUp, OneMarkPerMessage, Aside
  PROVE  TalkTyped' /\ Conversation' /\ MarksUsedUp' /\ OneMarkPerMessage'
<1>1. Conversation'
  BY BesideKeeps DEF Aside
<1>2. MarksUsedUp' /\ OneMarkPerMessage'
  BY DEF Aside, MarksUsedUp, OneMarkPerMessage, UsedUp, Stays, At
<1> QED
  BY <1>1, <1>2 DEF Aside

LEMMA LapseAside ==
  ASSUME TalkTyped, RowsTyped, RestTyped, NEW s \in Message, Lapse(s)
  PROVE  Aside /\ RowsMove /\ RestTyped'
<1>1. session[s] \in Session /\ session' = [session EXCEPT ![s] = [session[s] EXCEPT !.live = FALSE]]
  BY DEF Lapse, TalkTyped
<1>2. [session[s] EXCEPT !.live = FALSE] \in Session
  BY <1>1 DEF Session
<1>3. \A x \in Message : Stays(x)
  BY <1>1 DEF TalkTyped, Stays, Session
<1>4. TalkTyped'
  BY <1>1, <1>2 DEF TalkTyped, Lapse
<1>5. RestTyped'
  BY DayAssumption DEF RestTyped, Lapse, Event
<1> QED
  BY <1>3, <1>4, <1>5 DEF Aside, Lapse, RowsMove

LEMMA EventTyped ==
  ASSUME RestTyped, Event
  PROVE  events' \in 0 .. MaxEvents
BY DayAssumption DEF RestTyped, Event

LEMMA EnvironmentAside ==
  ASSUME TalkTyped, RowsTyped, RestTyped, NEW d \in Day,
         \/ Pass(d) \/ Justify(d) \/ Review(d)
         \/ \E mark \in {"arrival", "exit"} : ReadForCorrection(d, mark)
  PROVE  Aside /\ RowsMove /\ RestTyped'
<1>0. Aside
  BY DEF Aside, TalkTyped, Stays, Pass, Justify, Review, ReadForCorrection
<1>1. CASE Pass(d)
  BY <1>0, <1>1, EventTyped DEF Pass, RestTyped, RowsMove
<1>2. CASE Justify(d)
  BY <1>0, <1>2, EventTyped DEF Justify, RestTyped, RowsMove
<1>3. CASE Review(d)
  <2>1. PICK status \in {"VALID", "REJECTED"} :
          row' = [row EXCEPT ![d].status = status, ![d].reviewed = TRUE]
    BY <1>3 DEF Review
  <2> DEFINE r == [row[d] EXCEPT !.status = status, !.reviewed = TRUE]
  <2>2. row[d] \in Row /\ row[d].id # 0 /\ Marked(d)
    BY <1>3 DEF RowsTyped, Review
  <2>3. r \in Row /\ r.exit = row[d].exit /\ r.arrival = row[d].arrival
    BY <2>2 DEF Row, Valid
  <2>4. row' = [row EXCEPT ![d] = r]
    BY <2>1, <2>2 DEF RowsTyped
  <2>5. RowsMove
    BY <2>2, <2>3, <2>4 DEF RowsMove, Writes, Marked
  <2> QED
    BY <1>0, <1>3, <2>5, EventTyped DEF Review, RestTyped
<1>4. ASSUME NEW mark \in {"arrival", "exit"}, ReadForCorrection(d, mark)
      PROVE  RowsMove /\ RestTyped'
  <2>1. (IF Active(d) THEN row[d] ELSE NoRow) \in Row
    BY NoRowTyped DEF RowsTyped
  <2>2. clerk' \in Clerk
    BY <1>4, <2>1 DEF ReadForCorrection, Clerk
  <2> QED
    BY <1>4, <2>2, EventTyped DEF ReadForCorrection, RestTyped, RowsMove
<1> QED
  BY <1>0, <1>1, <1>2, <1>3, <1>4

LEMMA CorrectAside ==
  ASSUME TalkTyped, RowsTyped, RestTyped, Correct
  PROVE  Aside /\ RowsMove /\ RestTyped'
<1> DEFINE d == clerk.day
<1>0. clerk \in Clerk /\ d \in Day /\ clerk.step = "write" /\ Office # NoOne
  BY DayAssumption DEF RestTyped, Clerk, Correct
<1>1. Aside
  BY DEF Aside, TalkTyped, Stays, Correct
<1>2. clerk' \in Clerk
  BY <1>0 DEF Correct, Clerk
<1>3. RestTyped'
  BY <1>2 DEF Correct, RestTyped
<1>4. row[d] \in Row
  BY <1>0 DEF RowsTyped
<1>5. CASE row' = row
  BY <1>1, <1>3, <1>5 DEF RowsMove
<1>6. CASE \/ row' = NewRow(d, Office, NoOne, "VALID")
           \/ row' = NewRow(d, NoOne, Office, "VALID")
  <2>1. {Office, NoOne} # {NoOne} /\ {NoOne, Office} # {NoOne}
    BY <1>0
  <2>2. Office \in Author /\ NoOne \in Author /\ "VALID" \in Valid \cup {"REJECTED"}
    BY DEF Author, Valid
  <2>3. RowsMove
    BY <1>0, <1>6, <2>1, <2>2, NewRowWrites
  <2> QED
    BY <1>1, <1>3, <2>3
<1>7. CASE row' = [row EXCEPT ![d].arrival = Office, ![d].status = "VALID"]
  <2> DEFINE r == [row[d] EXCEPT !.arrival = Office, !.status = "VALID"]
  <2>1. r \in Row /\ r.arrival = Office /\ r.exit = row[d].exit
    BY <1>4 DEF Row, Author, Valid
  <2>2. row' = [row EXCEPT ![d] = r]
    BY <1>0, <1>7 DEF RowsTyped
  <2>3. RowsMove
    BY <1>0, <2>1, <2>2 DEF RowsMove, Writes
  <2> QED
    BY <1>1, <1>3, <2>3
<1>8. CASE /\ row' = [row EXCEPT ![d].exit = Office]
           /\ clerk.row.exit = row[d].exit
  <2> DEFINE r == [row[d] EXCEPT !.exit = Office]
  <2>1. r \in Row /\ r.exit = Office /\ {r.arrival, r.exit} # {NoOne}
    <3>1. r \in Row /\ r.exit = Office
      BY <1>4 DEF Row, Author
    <3> QED
      BY <1>0, <3>1
  <2>2. row' = [row EXCEPT ![d] = r]
    BY <1>8
  <2>3. RowsMove
    BY <1>0, <1>8, <2>1, <2>2 DEF RowsMove, Writes
  <2> QED
    BY <1>1, <1>3, <2>3
<1> QED
  BY <1>5, <1>6, <1>7, <1>8 DEF Correct

-----------------------------------------------------------------------------
(* The theorems *)

LEMMA InitIInv == Init => IInv
<1> SUFFICES ASSUME Init
             PROVE  IInv
  OBVIOUS
<1>1. TalkTyped
  BY NoSessionTyped, IdleTyped DEF Init, TalkTyped
<1>2. RowsTyped
  <2>1. [NoRow EXCEPT !.id = 1, !.arrival = Office] \in Row
    BY NoRowTyped DEF Row, Author
  <2>2. \A r \in {NoRow, [NoRow EXCEPT !.id = 1, !.arrival = Office]} :
           r.id # 0 => {r.arrival, r.exit} # {NoOne}
    <3>1. NoRow.id = 0 /\ {Office, NoOne} # {NoOne}
      BY DayAssumption DEF NoRow
    <3>2. /\ [NoRow EXCEPT !.id = 1, !.arrival = Office].arrival = Office
          /\ [NoRow EXCEPT !.id = 1, !.arrival = Office].exit = NoOne
      BY DEF NoRow
    <3> QED
      BY <3>1, <3>2
  <2> QED
    BY <2>1, <2>2, NoRowTyped DEF Init, RowsTyped, Marked
<1>3. RestTyped
  <2>1. NoOption.day \in Day
    BY OptionTyped DEF Option
  <2> QED
    BY <2>1, NoRowTyped, DayAssumption DEF Init, RestTyped, Clerk
<1>4. Conversation
  <2>1. \A m \in Message : /\ h[m].step = "new" /\ h[m].ses = NoOne /\ h[m].sid = NoOne
                           /\ session[m].state = "NONE" /\ session[m].pending = NoOne
    BY DEF Init, Idle, NoSession
  <2>2. KeptLocations
    BY <2>1 DEF KeptLocations
  <2>3. ASSUME NEW m \in Message
        PROVE  Opening(m) /\ Working(m) /\ Carrying(m) /\ Holding(m)
    BY <2>1 DEF Opening, Working, Carrying, Holding, At, Marking, MarkingIn, MarkingOut, InTx
  <2> QED
    BY <2>2, <2>3 DEF Conversation
<1>5. MarksUsedUp /\ OneMarkPerMessage
  BY DEF Init, MarksUsedUp, UsedUp, OneMarkPerMessage
<1> QED
  BY <1>1, <1>2, <1>3, <1>4, <1>5 DEF IInv

\* Every step is a handler's turn or happens beside the conversation.
LEMMA StepKinds ==
  ASSUME IInv, Next
  PROVE  \/ \E m \in Message : Handle(m) /\ Turn(m) /\ Effect(m)
         \/ Aside /\ RowsMove /\ RestTyped'
<1>1. ASSUME NEW m \in Message, Handle(m)
      PROVE  Turn(m) /\ Effect(m)
  BY <1>1, HandleTurn, HandleEffect DEF IInv
<1>2. ASSUME NEW s \in Message, Lapse(s)
      PROVE  Aside /\ RowsMove /\ RestTyped'
  BY <1>2, LapseAside DEF IInv
<1>3. ASSUME NEW d \in Day,
             \/ Pass(d) \/ Justify(d) \/ Review(d)
             \/ \E mark \in {"arrival", "exit"} : ReadForCorrection(d, mark)
      PROVE  Aside /\ RowsMove /\ RestTyped'
  BY <1>3, EnvironmentAside DEF IInv
<1>4. CASE Correct
  BY <1>4, CorrectAside DEF IInv
<1> QED
  BY <1>1, <1>2, <1>3, <1>4 DEF Next

LEMMA StepIInv == IInv /\ [Next]_vars => IInv'
<1> SUFFICES ASSUME IInv, [Next]_vars
             PROVE  IInv'
  OBVIOUS
<1>1. CASE Next
  <2>1. ASSUME NEW m \in Message, Turn(m), Effect(m)
        PROVE  IInv'
    <3>1. TalkTyped' /\ RowsTyped' /\ RestTyped'
      BY <2>1, RowsKept, RestKept DEF IInv, Turn, Effect
    <3>2. Conversation'
      BY <2>1, TurnKeeps DEF IInv, Effect, RestMoves
    <3>3. MarksUsedUp' /\ OneMarkPerMessage'
      BY <2>1, SidsKept DEF IInv
    <3> QED
      BY <3>1, <3>2, <3>3 DEF IInv
  <2>2. CASE Aside /\ RowsMove /\ RestTyped'
    BY <2>2, AsideKeeps, RowsKept DEF IInv
  <2> QED
    BY <1>1, <2>1, <2>2, StepKinds
<1>2. CASE UNCHANGED vars
  <2>1. Aside /\ RowsMove /\ RestTyped'
    BY <1>2 DEF vars, IInv, Aside, TalkTyped, Stays, RowsMove, RestTyped
  <2> QED
    BY <2>1, AsideKeeps, RowsKept DEF IInv
<1> QED
  BY <1>1, <1>2

\* Invariance: in every reachable state each handler is where its session and
\* its SID let it be, and a SID with a mark can make no other.
THEOREM Invariance == Spec => []IInv
BY InitIInv, StepIInv, PTL DEF Spec

\* Type correctness: records, sessions and handlers hold values of their types,
\* and no record is without a mark.
THEOREM TypeCorrect == Spec => []TypeOK
<1>1. IInv => TypeOK
  BY DEF IInv, TalkTyped, RowsTyped, RestTyped, TypeOK, Session, Handler, Row, Marked,
         State, Author, Option, Clerk, Ended, InState, OutState
<1> QED
  BY <1>1, Invariance, PTL

\* One message, one mark: where a location is required, answers that race for a
\* kept location or repeat one never make two marks of the same SID.
THEOREM MessagesMarkOnce == Spec => []OneMarkPerMessage
<1>1. IInv => OneMarkPerMessage
  BY DEF IInv
<1> QED
  BY <1>1, Invariance, PTL

\* A mark ends the session it was made in, which still waited for it: one that
\* was cancelled, left or expired meanwhile makes none.
THEOREM MarksNeedTheirSession == Spec => MarksEndTheirSession
<1> DEFINE A == located =>
         \A m \in Message :
           used'[m] # used[m] =>
             \E s \in Message :
               /\ session[s].state = IF "arrival" \in used'[m] \ used[m]
                                     THEN "WAITING_LOCATION"
                                     ELSE "WAITING_CHECKOUT_LOCATION"
               /\ session'[s].state = "COMPLETED"
<1>1. ASSUME IInv, [Next]_vars
      PROVE  A
  <2> SUFFICES ASSUME located, NEW x \in Message, used'[x] # used[x]
               PROVE  \E s \in Message :
                        /\ session[s].state = IF "arrival" \in used'[x] \ used[x]
                                              THEN "WAITING_LOCATION"
                                              ELSE "WAITING_CHECKOUT_LOCATION"
                        /\ session'[s].state = "COMPLETED"
    OBVIOUS
  <2>1. Next
    BY <1>1 DEF vars
  <2>2. PICK m \in Message : SidsMove(m)
    BY <1>1, <2>1, StepKinds DEF Effect, Aside
  <2>3. PICK mark \in {"arrival", "exit"} : Marks(m, mark)
    BY <2>2 DEF SidsMove
  <2>4. /\ h[m].sid \in Message /\ used[h[m].sid] = {} /\ h[m].ses \in Message
        /\ session'[h[m].ses].state = "COMPLETED"
    BY <1>1, <2>3, MarkUsesUp DEF IInv
  <2>5. used' = [used EXCEPT ![h[m].sid] = @ \cup {mark}]
    BY <2>3 DEF Marks
  <2>6. x = h[m].sid /\ used'[x] = {mark} /\ used[x] = {}
    BY <1>1, <2>4, <2>5 DEF IInv, RestTyped
  <2>7. session[h[m].ses].state = IF mark = "arrival" THEN "WAITING_LOCATION"
                                  ELSE "WAITING_CHECKOUT_LOCATION"
    BY <2>3 DEF Marks
  <2>8. "arrival" \in used'[x] \ used[x] <=> mark = "arrival"
    BY <2>6
  <2> QED
    BY <2>4, <2>7, <2>8
<1>2. IInv /\ [Next]_vars => [A]_vars
  BY <1>1
<1> QED
  BY <1>2, Invariance, PTL DEF Spec, MarksEndTheirSession

\* The first exit stands: only a correction that was shown an exit replaces it.
THEOREM ExitsStand == Spec => FirstExitStands
<1> DEFINE A == \A d \in Day :
         /\ row[d].exit # NoOne
         /\ row'[d].id = row[d].id
         /\ row'[d].exit # row[d].exit
         => clerk.step = "write" /\ clerk.row.exit = row[d].exit
<1>1. ASSUME IInv, [Next]_vars
      PROVE  A
  <2>1. RowsMove
    BY <1>1, StepKinds DEF Effect, RowsMove, vars
  <2>2. CASE row' = row
    BY <2>2
  <2>3. ASSUME NEW d \in Day, NEW r \in Row, Writes(d, r)
        PROVE  A
    <3>1. row' = [row EXCEPT ![d] = r] /\ row \in [Day -> Row]
      BY <1>1, <2>3 DEF Writes, IInv, RowsTyped
    <3>2. row'[d] = r /\ \A x \in Day \ {d} : row'[x] = row[x]
      BY <3>1
    <3>3. row[d].id \in Nat
      BY <3>1 DEF Row
    <3> QED
      BY <2>3, <3>2, <3>3 DEF Writes
  <2> QED
    BY <2>1, <2>2, <2>3 DEF RowsMove
<1>2. IInv /\ [Next]_vars => [A]_vars
  BY <1>1
<1> QED
  BY <1>2, Invariance, PTL DEF Spec, FirstExitStands
=============================================================================
