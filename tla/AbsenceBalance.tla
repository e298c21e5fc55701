---------------------------- MODULE AbsenceBalance ----------------------------
(***************************************************************************)
(* The absence requests of one employee and the days they take: creation,  *)
(* corrections, review, and the ledger that reserves, releases and         *)
(* consumes days year by year, with a projection beside it.  The ledger    *)
(* may be switched on while requests of the time before are open.  What a  *)
(* review does to the workdays is in AbsenceSync.                          *)
(*                                                                         *)
(* A transaction that locks the request row or the balance row is one      *)
(* step; what it reads before it has the lock is a step of its own.        *)
(***************************************************************************)
EXTENDS Integers, FiniteSets, FiniteSetsExt

CONSTANTS
    Request,        \* rows of absence_requests
    Type,           \* absence types
    Deducting,      \* those that take days from the balance
    Automatic,      \* those that need no approval
    NeedsFile,      \* those that wait for an attachment
    Date,           \* the days that absences are asked for, integers
    YearOf,         \* the year of each day
    Message,        \* WhatsApp messages that bring a request or an edit
    Desk,           \* requests of the panel or the bot being handled at once
    Command,        \* idempotency keys of manual movements
    Start,          \* days assigned to each type and year at the beginning
    LedgerFrom,     \* what the ledger's switch may be at the beginning
    MaxVersion,     \* bound: corrections of a request + 1
    MaxHolidays,    \* bound: changes of the calendar
    NoMessage, NoRequest

ASSUME BalanceAssumption ==
    /\ IsFiniteSet(Request) /\ NoRequest \notin Request
    /\ Type # {} /\ Deducting \subseteq Type
    /\ IsFiniteSet(Date) /\ Date # {} /\ Date \subseteq Int
    /\ Start \in Nat /\ MaxVersion \in Nat \ {0} /\ MaxHolidays \in Nat
    /\ LedgerFrom \subseteq BOOLEAN

VARIABLES
    enabled,        \* company_settings.absence_balance_ledger_enabled
    request,        \* absence_requests
    applied,        \* the messages whose edit left its UPDATED event
    balance,        \* employee_absence_balances, by type and year
    moves,          \* employee_absence_balance_movements
    holidays,       \* days the calendar does not count
    calendarEdits,
    desk            \* what is being handled

books == <<balance, moves>>
balanceVars == <<enabled, request, applied, balance, moves, holidays, calendarEdits, desk>>

Year == {YearOf[d] : d \in Date}
Open == {"PENDING", "NEEDS_INFO"}
Active == Open \cup {"APPROVED"}
NoDays == [y \in Year |-> 0]
AnyDate == CHOOSE d \in Date : TRUE     \* of a row that is not there yet
AtRest == [step |-> "idle"]

RequestRow == [status : Active \cup {"NONE", "REJECTED", "CANCELLED"}, type : Type,
               first : Date, last : Date, days : [Year -> 0..Cardinality(Date)],
               version : 1..MaxVersion, source : Message \cup {NoMessage}]
DayKind == {"RESERVE", "RELEASE", "CONSUME"}
DayMove == [kind : DayKind, ref : Request,
            version : 1..MaxVersion, type : Type, year : Year, quantity : Nat]
ManualMove == [kind : {"CREDIT", "DEBIT"}, ref : Command,
               version : {1}, type : Type, year : Year, quantity : Nat]
ReversalMove == [kind : {"REVERSAL"}, ref : ManualMove,
                 version : {1}, type : Type, year : Year, quantity : Nat]
Form == [step : {"create", "edit"}, request : Request \cup {NoRequest}, type : Type,
         first : Date, last : Date, days : [Year -> 0..Cardinality(Date)],
         via : Message \cup {NoMessage}]
Reversing == [step : {"reverse"}, of : ManualMove]

BalanceTypeOK ==
    /\ enabled \in BOOLEAN
    /\ request \in [Request -> RequestRow]
    /\ applied \subseteq Request \X Message
    /\ balance \in [Type \X Year -> [granted : Nat, reserved : Nat, consumed : Nat]]
    /\ moves \subseteq DayMove \cup ManualMove \cup ReversalMove
    /\ holidays \subseteq Date /\ calendarEdits \in 0..MaxHolidays
    /\ desk \in [Desk -> {AtRest} \cup Form \cup Reversing]

BalanceInit ==
    /\ enabled \in LedgerFrom
    /\ request = [r \in Request |->
                    [status |-> "NONE", type |-> CHOOSE t \in Type : TRUE,
                     first |-> AnyDate, last |-> AnyDate, days |-> NoDays,
                     version |-> 1, source |-> NoMessage]]
    /\ applied = {}
    /\ balance = [a \in Type \X Year |->
                    [granted |-> Start, reserved |-> 0, consumed |-> 0]]
    /\ moves = {}
    /\ holidays = {} /\ calendarEdits = 0
    /\ desk = [k \in Desk |-> AtRest]

-----------------------------------------------------------------------------
(* The ledger *)

\* available_days: a CHECK keeps it equal to this.
Available(b) == b.granted - b.reserved - b.consumed

\* The WHERE of applyProjectionDelta.
Sound(bal) ==
    \A a \in Type \X Year :
        /\ bal[a].granted >= 0 /\ bal[a].reserved >= 0 /\ bal[a].consumed >= 0
        /\ Available(bal[a]) >= 0

\* The idempotency key of a movement is all of it but the quantity.
Movement(kind, ref, v, t, y, q) ==
    [kind |-> kind, ref |-> ref, version |-> v, type |-> t, year |-> y, quantity |-> q]
Booked(ms, kind, ref, v, t, y) ==
    \E m \in ms : m.kind = kind /\ m.ref = ref /\ m.version = v /\ m.type = t /\ m.year = y

\* applyMovement over the years of an allocation, for the effect of a kind.
Effect(kind, q, direct) ==
    CASE kind = "RESERVE" -> [granted |-> 0, reserved |-> q, consumed |-> 0]
      [] kind = "RELEASE" -> [granted |-> 0, reserved |-> -q, consumed |-> 0]
      [] kind = "CONSUME" -> [granted |-> 0, reserved |-> IF direct THEN 0 ELSE -q,
                              consumed |-> q]

Shifted(b, e) ==
    [granted |-> b.granted + e.granted, reserved |-> b.reserved + e.reserved,
     consumed |-> b.consumed + e.consumed]

\* A movement that is there already is answered and changes nothing.
Post(book, kind, r, v, t, days, direct) ==
    LET fresh == {y \in Year : days[y] > 0 /\ ~Booked(book.moves, kind, r, v, t, y)} IN
    [balance |-> [a \in Type \X Year |->
        IF a[1] = t /\ a[2] \in fresh
        THEN Shifted(book.balance[a], Effect(kind, days[a[2]], direct))
        ELSE book.balance[a]],
     moves |-> book.moves \cup {Movement(kind, r, v, t, y, days[y]) : y \in fresh}]

Book == [balance |-> balance, moves |-> moves]

\* The sum of the function f over a set.
Total(f, S) == MapThenSumSet(LAMBDA i : f[i], S)

\* What a request still holds of a type and year: RESERVE - RELEASE - CONSUME.
HeldDays(r, t, y) ==
    LET total(kind) == Total([m \in moves |-> m.quantity],
            {m \in moves : m.kind = kind /\ m.ref = r /\ m.type = t /\ m.year = y})
    IN total("RESERVE") - total("RELEASE") - total("CONSUME")

HoldsAll(r) ==
    \A y \in Year : request[r].days[y] > 0 => HeldDays(r, request[r].type, y) >= request[r].days[y]

\* The book after a reservation is taken, given back or used, where the type
\* deducts and the ledger is on.
Ledgered(t) == enabled /\ t \in Deducting

ReserveDays(book, r, v, t, days) == Post(book, "RESERVE", r, v, t, days, FALSE)

Settle(kind, r) ==
    LET x == request[r] IN Post(Book, kind, r, x.version, x.type, x.days, FALSE)

\* The transaction commits with this book, or is rolled back.
Keep(book) == Sound(book.balance) /\ balance' = book.balance /\ moves' = book.moves

\* releaseReservation and consumeReservation.
SettleReservation(kind, r) ==
    IF Ledgered(request[r].type) THEN HoldsAll(r) /\ Keep(Settle(kind, r))
    ELSE UNCHANGED books

-----------------------------------------------------------------------------
(* Requests *)

\* Whoever corrects a request holds its row.
Locked(r) == \E k \in Desk : desk[k].step = "edit" /\ desk[k].request = r

\* MUTANT of Blocking: a request that waits for information does not count.
BlockingPending == {s \in Request : request[s].status \in {"PENDING", "APPROVED"}}
Blocking == {s \in Request : request[s].status \in Active}

Overlaps(first, last, self) ==
    \E s \in Blocking \ {self} : request[s].first <= last /\ request[s].last >= first

\* calculateDuration: the counted days, by year.
Counted(first, last) ==
    [y \in Year |-> Cardinality({d \in Date \ holidays :
                                    first <= d /\ d <= last /\ YearOf[d] = y})]

\* Days approved in the year a request begins in, without a ledger.
ApprovedDays(t, y) ==
    Total([s \in Request |-> Total(request[s].days, Year)],
          {s \in Request : request[s].status = "APPROVED" /\ request[s].type = t
                           /\ YearOf[request[s].first] = y})

\* ensureSufficientBalanceForApproval: reserved days were checked when they
\* were reserved; without a ledger all is counted in the first year.
Sufficient(t, first, days, fromReserve) ==
    \/ t \notin Deducting
    \/ enabled /\ fromReserve
    \/ enabled /\ \A y \in Year : days[y] <= Available(balance[<<t, y>>])
    \/ ~enabled /\ ApprovedDays(t, YearOf[first]) + Total(days, Year)
                     <= balance[<<t, YearOf[first]>>].granted

\* The form is filled in, or the message read, and the days are counted.
Prepare(k) ==
    /\ desk[k].step = "idle"
    /\ \E first, last \in Date : LET days == Counted(first, last) IN
         /\ first <= last /\ days # NoDays
         /\ \E t \in Type, via \in Message \cup {NoMessage} :
              /\ via # NoMessage => \A r \in Request : request[r].source # via
              /\ desk' = [desk EXCEPT ![k] =
                   [step |-> "create", request |-> NoRequest, type |-> t, first |-> first,
                    last |-> last, days |-> days, via |-> via]]
    /\ UNCHANGED <<enabled, request, applied, books, holidays, calendarEdits>>

NextRow == CHOOSE r \in Request : request[r].status = "NONE"

\* createRequest under the employee's lock; the message is unique.
Create(k) ==
    LET x == desk[k]
        r == NextRow
        auto == x.type \in Automatic /\ x.type \notin NeedsFile IN
    /\ x.step = "create"
    /\ \E s \in Request : request[s].status = "NONE"
    /\ x.via # NoMessage => \A s \in Request : request[s].source # x.via
    /\ ~Overlaps(x.first, x.last, NoRequest)
    /\ auto => Sufficient(x.type, x.first, x.days, FALSE)
    /\ request' = [request EXCEPT ![r] =
         [status |-> IF auto THEN "APPROVED" ELSE "PENDING", type |-> x.type,
          first |-> x.first, last |-> x.last, days |-> x.days, version |-> 1,
          source |-> x.via]]
    /\ IF ~Ledgered(x.type) THEN UNCHANGED books
       ELSE IF auto THEN Keep(Post(Book, "CONSUME", r, 1, x.type, x.days, TRUE))
       ELSE Keep(ReserveDays(Book, r, 1, x.type, x.days))
    /\ desk' = [desk EXCEPT ![k] = AtRest]
    /\ UNCHANGED <<enabled, applied, holidays, calendarEdits>>

\* updateNeedsInfo and updateFromWhatsapp: the row is locked, then the days
\* are counted.  A message whose edit is known is answered at once.
BeginEdit(k, r) ==
    /\ desk[k].step = "idle"
    /\ ~Locked(r)
    /\ request[r].version < MaxVersion
    /\ \E first, last \in Date : LET days == Counted(first, last) IN
         /\ first <= last /\ days # NoDays
         /\ \E t \in Type, via \in Message \cup {NoMessage} :
              /\ IF via = NoMessage THEN request[r].status = "NEEDS_INFO"
                 ELSE /\ request[r].status \in Open /\ t = request[r].type
                      /\ <<r, via>> \notin applied
              /\ desk' = [desk EXCEPT ![k] =
                   [step |-> "edit", request |-> r, type |-> t, first |-> first,
                    last |-> last, days |-> days, via |-> via]]
    /\ UNCHANGED <<enabled, request, applied, books, holidays, calendarEdits>>

\* MUTANT of NextVersion: the reservation keeps its version.
NextVersionKept(r) == request[r].version
NextVersion(r) == request[r].version + 1

\* syncReservationAfterEdit: what the old version holds is given back in the
\* allocation it was reserved with, then the new one is reserved.
CommitEdit(k) ==
    LET x == desk[k]
        r == x.request
        old == request[r]
        released == IF Ledgered(old.type) THEN Settle("RELEASE", r) ELSE Book
        reserved == IF Ledgered(x.type)
                    THEN ReserveDays(released, r, NextVersion(r), x.type, x.days)
                    ELSE released IN
    /\ x.step = "edit"
    /\ ~Overlaps(x.first, x.last, r)
    /\ Ledgered(old.type) => HoldsAll(r) /\ Sound(released.balance)
    /\ Keep(reserved)
    /\ request' = [request EXCEPT ![r] =
         [@ EXCEPT !.type = x.type, !.first = x.first, !.last = x.last,
                   !.days = x.days, !.version = NextVersion(r)]]
    /\ applied' = IF x.via = NoMessage THEN applied ELSE applied \cup {<<r, x.via>>}
    /\ desk' = [desk EXCEPT ![k] = AtRest]
    /\ UNCHANGED <<enabled, holidays, calendarEdits>>

\* An error, a lock that is not granted in time, or the victim of a deadlock
\* between the row and the employee's lock: rolled back.
Abandon(k) ==
    /\ desk[k].step # "idle"
    /\ desk' = [desk EXCEPT ![k] = AtRest]
    /\ UNCHANGED <<enabled, request, applied, books, holidays, calendarEdits>>

-----------------------------------------------------------------------------
(* Review *)

Reviewed(r, status) ==
    /\ ~Locked(r)
    /\ request' = [request EXCEPT ![r].status = status]
    /\ UNCHANGED <<enabled, applied, holidays, calendarEdits, desk>>

\* An override skips the sufficiency check, not the reservation.
Approve(r, override) ==
    /\ request[r].status \in Open
    /\ override \/ Sufficient(request[r].type, request[r].first, request[r].days, TRUE)
    /\ SettleReservation("CONSUME", r)
    /\ Reviewed(r, "APPROVED")

RejectOrCancel(r) ==
    /\ request[r].status \in Open
    /\ SettleReservation("RELEASE", r)
    /\ Reviewed(r, "REJECTED") \/ Reviewed(r, "CANCELLED")

NeedsInfo(r) ==
    /\ request[r].status = "PENDING"
    /\ Reviewed(r, "NEEDS_INFO")
    /\ UNCHANGED books

\* Back to PENDING, and through AUTO_APPROVE where no approval is needed.
Resubmit(r) ==
    /\ request[r].status = "NEEDS_INFO"
    /\ ~Overlaps(request[r].first, request[r].last, r)
    /\ IF request[r].type \in Automatic
       THEN /\ Sufficient(request[r].type, request[r].first, request[r].days, TRUE)
            /\ SettleReservation("CONSUME", r)
            /\ Reviewed(r, "APPROVED")
       ELSE Reviewed(r, "PENDING") /\ UNCHANGED books

-----------------------------------------------------------------------------
(* The office *)

Manual == {m \in moves : m.kind \in {"CREDIT", "DEBIT"}}
Signed(kind, q) == IF kind = "CREDIT" THEN q ELSE -q

\* adjustEmployeeBalance, and upsertEmployeeBalance with its expected version:
\* the balance row is locked before the key is looked up.
Adjust(c, t, y, kind) ==
    /\ enabled
    /\ \A m \in Manual : m.ref # c
    /\ Keep([balance |-> [balance EXCEPT ![<<t, y>>].granted = @ + Signed(kind, 1)],
             moves |-> moves \cup {Movement(kind, c, 1, t, y, 1)}])
    /\ UNCHANGED <<enabled, request, applied, holidays, calendarEdits, desk>>

\* upsertEmployeeBalance without a ledger.
Assign(t, y, total) ==
    /\ ~enabled
    /\ total # balance[<<t, y>>].granted
    /\ balance' = [balance EXCEPT ![<<t, y>>].granted = total]
    /\ Sound(balance')
    /\ UNCHANGED <<enabled, request, applied, moves, holidays, calendarEdits, desk>>

\* reverseMovement: its key is looked up before any lock is taken.
BeginReversal(k, m) ==
    /\ enabled
    /\ desk[k].step = "idle"
    /\ m \in Manual
    /\ ~Booked(moves, "REVERSAL", m, 1, m.type, m.year)
    /\ desk' = [desk EXCEPT ![k] = [step |-> "reverse", of |-> m]]
    /\ UNCHANGED <<enabled, request, applied, books, holidays, calendarEdits>>

\* The delta is applied and the movement inserted.  If somebody else inserted
\* it meanwhile, the duplicate key is taken for an answer and the delta stays.
CommitReversal(k) ==
    LET m == desk[k].of IN
    /\ desk[k].step = "reverse"
    /\ Keep([balance |-> [balance EXCEPT ![<<m.type, m.year>>].granted =
                                                  @ - Signed(m.kind, m.quantity)],
             moves |-> moves \cup
                 {Movement("REVERSAL", m, 1, m.type, m.year, m.quantity)}])
    /\ desk' = [desk EXCEPT ![k] = AtRest]
    /\ UNCHANGED <<enabled, request, applied, holidays, calendarEdits>>

\* The script looks at the projections, not at the requests.
EnableLedger ==
    /\ ~enabled
    /\ Sound(balance)
    /\ enabled' = TRUE
    /\ UNCHANGED <<request, applied, books, holidays, calendarEdits, desk>>

\* A special date of the calendar is added or removed.
EditCalendar(d) ==
    /\ calendarEdits < MaxHolidays
    /\ calendarEdits' = calendarEdits + 1
    /\ holidays' = IF d \in holidays THEN holidays \ {d} ELSE holidays \cup {d}
    /\ UNCHANGED <<enabled, request, applied, books, desk>>

-----------------------------------------------------------------------------
BalanceNext ==
    \/ \E k \in Desk :
         \/ Prepare(k) \/ Create(k) \/ CommitEdit(k) \/ Abandon(k) \/ CommitReversal(k)
         \/ \E r \in Request : BeginEdit(k, r)
         \/ \E m \in Manual : BeginReversal(k, m)
    \/ \E r \in Request :
         \/ RejectOrCancel(r) \/ NeedsInfo(r) \/ Resubmit(r)
         \/ \E override \in BOOLEAN : Approve(r, override)
    \/ \E t \in Type, y \in Year :
         \/ \E c \in Command, kind \in {"CREDIT", "DEBIT"} : Adjust(c, t, y, kind)
         \/ \E total \in 0..Start : Assign(t, y, total)
    \/ EnableLedger
    \/ \E d \in Date : EditCalendar(d)

BalanceSpec == BalanceInit /\ [][BalanceNext]_balanceVars

-----------------------------------------------------------------------------
(* What the balances promise *)

\* Requests that have entered the ledger.
Entered ==
    {r \in Request : \E m \in moves : m.kind \in DayKind /\ m.ref = r}

DaysOf(status, t, y) ==
    Total([r \in Request |-> request[r].days[y]],
          {r \in Entered : request[r].status \in status /\ request[r].type = t})

\* The projection is what the requests say: reserved is the days of the open
\* ones, consumed those of the approved ones, whatever was edited, moved to
\* another type or year, or counted under another calendar in between, and
\* although the ledger was switched on while requests were open.
DaysAreHeld ==
    \A t \in Deducting, y \in Year :
        /\ balance[<<t, y>>].reserved = DaysOf(Open, t, y)
        /\ balance[<<t, y>>].consumed = DaysOf({"APPROVED"}, t, y)

\* One employee never has two absences under way on one day.
AbsencesAreDisjoint ==
    \A r, s \in Request :
        r # s /\ request[r].status \in Active /\ request[s].status \in Active =>
            request[r].last < request[s].first \/ request[s].last < request[r].first

\* "Reconciliation report: projection vs ledger movements": granted days are
\* the days assigned at first and the manual movements since.
GrantedIsBooked ==
    LET total(t, y, kinds) ==
            Total([m \in moves |-> m.quantity],
                {m \in moves : m.type = t /\ m.year = y /\ m.kind \in kinds})
        reversed(t, y, kind) ==
            Total([m \in moves |-> m.quantity],
                {m \in moves : m.type = t /\ m.year = y /\ m.kind = "REVERSAL"
                               /\ m.ref.kind = kind}) IN
    \A t \in Type, y \in Year :
        balance[<<t, y>>].granted = Start
            + total(t, y, {"CREDIT"}) - total(t, y, {"DEBIT"})
            - reversed(t, y, "CREDIT") + reversed(t, y, "DEBIT")
=============================================================================
