--------------------------- MODULE VacancyCoverage ---------------------------
(***************************************************************************)
(* One working day of a recurring operation and the ways a vacancy in it   *)
(* is filled.                                                              *)
(*                                                                         *)
(* An employee who says over WhatsApp that they cannot come has the day    *)
(* marked unavailable and a replacement request opened: candidates are     *)
(* recommended, stored and offered to the company's managers as buttons    *)
(* (replacement-request.service.ts).  A manager's button assigns the       *)
(* candidate.  The office can fill the same vacancy from the panel         *)
(* (employee-workday-coverage.service.ts), alone or while resolving the    *)
(* conflict of an approved absence (absence-operational-conflict.service,  *)
(* absence-workday-coverage-reconciliation.service), and cancel an         *)
(* assignment; the horizon materialization keeps the seats of the day in   *)
(* step with the assignments that stand.                                   *)
(*                                                                         *)
(* Every report, and the reply of a manager, runs in several transactions; *)
(* what it read in one it uses in the next.                                *)
(***************************************************************************)
EXTENDS Naturals, Sequences, FiniteSets

CONSTANTS
    Employee,      \* employees of the company
    Titular,       \* those the operation has a standing assignment for
    Manager,       \* enabled OPERATIONAL alert recipients
    Worker,        \* webhook workers an employee's report runs in
    MaxRequests,   \* replacement requests opened
    MaxReports,    \* reports of unavailability handled
    MaxOffice,     \* steps of the office and of the materialization
    Nobody

ASSUME VacancyAssumption ==
    /\ IsFiniteSet(Employee) /\ Titular \subseteq Employee
    /\ {MaxRequests, MaxReports, MaxOffice} \subseteq Nat

VARIABLES
    day,        \* operation_workdays.status of the day
    seat,       \* employee_workdays of the day, per employee
    assigned,   \* operation_assignments that cover the day, per employee
    cover,      \* whom an employee stands in for, and its coverage event
    away,       \* employees with an approved absence that covers the day
    conflict,   \* absence_operational_conflicts of the day, per employee
    requests,   \* replacement_requests with their candidates and notifications
    report,     \* a webhook worker handling "I cannot come"
    reply,      \* the transaction of a manager's button, if one runs
    reports,    \* reports handled, for MaxReports
    office      \* steps of the office and the materialization, for MaxOffice

Staff == <<seat, assigned, cover>>
Leave == <<away, conflict>>
vacancyVars == <<day, seat, assigned, cover, away, conflict, requests, report, reply,
          reports, office>>

Expectation == {"none", "EXPECTED", "JUSTIFIED", "CANCELLED"}
RequestRow == [absent: Employee, parent: 0..MaxRequests,
               status: {"PENDING", "COVERED", "EXPIRED", "FAILED"},
               by: Employee \cup {Nobody},
               made: BOOLEAN,                     \* candidates_materialized_at
               ranking: Seq(Employee),            \* replacement_request_candidates
               state: [Employee -> {"none", "OFFERED", "SELECTED", "REJECTED", "STALE"}],
               told: SUBSET Manager]              \* replacement_request_notifications
NoReport == [pc |-> "idle", who |-> Nobody, req |-> 0, picks |-> <<>>, left |-> {}]
NoReply == [req |-> 0, who |-> Nobody, vacant |-> FALSE, free |-> FALSE]

VacancyTypeOK ==
    /\ day \in {"ACTIVE", "CANCELLED"}
    /\ seat \in [Employee -> [exp: Expectation, unavailable: BOOLEAN]]
    /\ assigned \in [Employee -> {"none", "active", "cancelled"}]
    /\ cover \in [Employee -> [for: Employee \cup {Nobody}, event: BOOLEAN]]
    /\ away \subseteq Employee
    /\ conflict \in [Employee -> {"none", "OPEN", "RESOLVED"}]
    /\ requests \in Seq(RequestRow)
    /\ Len(requests) <= MaxRequests
    /\ report \in [Worker -> [pc: {"idle", "listed", "marked", "opened", "picked", "telling"},
                              who: Employee \cup {Nobody}, req: 0..Len(requests),
                              picks: Seq(Employee), left: SUBSET Manager]]
    /\ \A w \in Worker : report[w].pc # "idle" => report[w].who \in Employee
    /\ reply \in [req: 0..Len(requests), who: Employee \cup {Nobody},
                  vacant: BOOLEAN, free: BOOLEAN]
    /\ reply # NoReply => reply.req # 0 /\ reply.who \in Employee
    /\ reports \in 0..MaxReports
    /\ office \in 0..MaxOffice

VacancyInit ==
    /\ day = "ACTIVE"
    /\ seat = [e \in Employee |-> [exp |-> IF e \in Titular THEN "EXPECTED" ELSE "none",
                                   unavailable |-> FALSE]]
    /\ assigned = [e \in Employee |-> IF e \in Titular THEN "active" ELSE "none"]
    /\ cover = [e \in Employee |-> [for |-> Nobody, event |-> FALSE]]
    /\ away = {}
    /\ conflict = [e \in Employee |-> "none"]
    /\ requests = <<>>
    /\ report = [w \in Worker |-> NoReport]
    /\ reply = NoReply
    /\ reports = 0
    /\ office = 0

-----------------------------------------------------------------------------
\* Helpers

\* Rows a transaction in flight holds with UPDLOCK: another one that locks the
\* request waits for the manager's reply.
Unlocked(r) == reply.req # r

Standing(e) == assigned[e] = "active"

\* The active coverage event of an absent employee's day.
CoverageEvent(absent) == \E e \in Employee :
    /\ cover[e] = [for |-> absent, event |-> TRUE]
    /\ Standing(e)

\* getAvailabilityForInterval: active and without an absence over the day.
Available(e) == e \notin away

\* The absent employees of a request and of those it descends from.
Chain(r) ==
    LET chain[n \in 0 .. Len(requests)] ==
            IF n = 0 THEN {} ELSE {requests[n].absent} \cup chain[requests[n].parent]
    IN  chain[r]

\* The recommender leaves out who is assigned to the operation on that day;
\* the request keeps the first three that are outside its chain and available.
Rankings(r) ==
    LET eligible == {e \in Employee : ~ Standing(e) /\ e \notin Chain(r) /\ Available(e)}
    IN  {s \in UNION {[1..n -> eligible] : n \in 0..3} :
            /\ Len(s) = IF Cardinality(eligible) < 3 THEN Cardinality(eligible) ELSE 3
            /\ \A i, j \in DOMAIN s : s[i] = s[j] => i = j}

\* cancelExpectationInTransaction: only a row that is EXPECTED.
Release(e) == [seat EXCEPT ![e].exp = IF @ = "EXPECTED" THEN "CANCELLED" ELSE @]

\* The assignment and the seat of somebody who stands in for absent.  The
\* seat is unique for the day and the employee: a second one is a duplicate
\* key and rolls the transaction back.
MaySit(e) == seat[e].exp = "none"
Seated(s, e) == [s EXCEPT ![e].exp = "EXPECTED"]

\* markCoveredForAbsentWorkdayInTransaction
MarkCovered(absent, e) ==
    [r \in DOMAIN requests |->
        IF requests[r].absent = absent /\ requests[r].status = "PENDING"
        THEN [requests[r] EXCEPT !.status = "COVERED", !.by = e]
        ELSE requests[r]]

\* reopenPendingForAbsentWorkdayInTransaction: every covered request.
Reopened(absent) ==
    [r \in DOMAIN requests |->
        IF requests[r].absent = absent /\ requests[r].status = "COVERED"
        THEN [requests[r] EXCEPT !.status = "PENDING", !.by = Nobody]
        ELSE requests[r]]

\* UQ_replacement_requests_absent_workday_pending
OnePending(rs) == \A r, s \in DOMAIN rs :
    (rs[r].status = "PENDING" /\ rs[s].status = "PENDING"
        /\ rs[r].absent = rs[s].absent) => r = s

-----------------------------------------------------------------------------
\* "I cannot come": markAssignmentUnavailable and createForUnavailable

\* The employee is listed the day: a standing assignment whose seat is not
\* cancelled.
Report(w, e) ==
    /\ report[w] = NoReport
    /\ reports < MaxReports
    /\ day = "ACTIVE" /\ Standing(e) /\ seat[e].exp \in {"EXPECTED", "JUSTIFIED"}
    /\ report' = [report EXCEPT ![w] = [NoReport EXCEPT !.pc = "listed", !.who = e]]
    /\ reports' = reports + 1
    /\ UNCHANGED <<day, Staff, Leave, requests, reply, office>>

\* markUnavailable; the request is asked for whether or not the row changed.
MarkUnavailable(w) ==
    LET e == report[w].who IN
    /\ report[w].pc = "listed"
    /\ seat' = IF seat[e].exp = "EXPECTED"
               THEN [seat EXCEPT ![e].unavailable = TRUE] ELSE seat
    /\ report' = [report EXCEPT ![w].pc = "marked"]
    /\ UNCHANGED <<day, assigned, cover, Leave, requests, reply, reports, office>>

\* The covered request this employee resolved: the parent of one they open.
Parent(e) == LET mine == {r \in DOMAIN requests : requests[r].by = e
                                          /\ requests[r].status = "COVERED"}
             IN  IF mine = {} THEN 0 ELSE CHOOSE r \in mine : \A s \in mine : s <= r

\* findOrCreateRequest, one transaction: the pending request of the absent
\* seat or a new one.  The context it returns is what later steps look at.
FindOrCreate(w) ==
    LET e == report[w].who
        open == {r \in DOMAIN requests : /\ requests[r].absent = e
                                         /\ requests[r].status = "PENDING"}
        fresh == [absent |-> e, parent |-> Parent(e), status |-> "PENDING",
                  by |-> Nobody, made |-> FALSE, ranking |-> <<>>,
                  state |-> [x \in Employee |-> "none"], told |-> {}]
    IN
    /\ report[w].pc = "marked"
    /\ IF day # "ACTIVE"
       THEN /\ report' = [report EXCEPT ![w] = NoReport]
            /\ UNCHANGED requests
       ELSE \/ \E r \in open :
                  /\ Unlocked(r)
                  /\ report' = [report EXCEPT ![w].req = r,
                                   ![w].pc = IF requests[r].made THEN "telling" ELSE "opened",
                                   ![w].left = IF requests[r].made THEN Manager ELSE {}]
                  /\ UNCHANGED requests
            \/ /\ open = {} /\ Len(requests) < MaxRequests
               /\ requests' = Append(requests, fresh)
               /\ report' = [report EXCEPT ![w].pc = "opened",
                                           ![w].req = Len(requests) + 1]
    /\ UNCHANGED <<day, Staff, Leave, reply, reports, office>>

\* The recommendation and the availability of each, read outside the
\* transaction that stores them.
Recommend(w) ==
    /\ report[w].pc = "opened"
    /\ \E s \in Rankings(report[w].req) :
          report' = [report EXCEPT ![w].pc = "picked", ![w].picks = s]
    /\ UNCHANGED <<day, Staff, Leave, requests, reply, reports, office>>

\* MUTANT of MayStore: the transaction does not look again at
\* candidates_materialized_at.
MayStoreAgain(r) == requests[r].status = "PENDING"
\* The row is read again under its lock.
MayStore(r) == requests[r].status = "PENDING" /\ ~ requests[r].made

\* materializeCandidates: the worker that finds them stored returns its old
\* context and notifies nobody; nobody to offer fails the request.
StoreCandidates(w) ==
    LET r == report[w].req  picks == report[w].picks IN
    /\ report[w].pc = "picked" /\ Unlocked(r)
    /\ IF MayStore(r)
       THEN requests' = [requests EXCEPT ![r] = [requests[r] EXCEPT
               !.made = TRUE, !.ranking = picks,
               !.status = IF picks = <<>> THEN "FAILED" ELSE @,
               !.state = [e \in Employee |->
                   IF \E i \in DOMAIN picks : picks[i] = e THEN "OFFERED" ELSE "none"]]]
       ELSE UNCHANGED requests
    /\ report' = IF MayStore(r) /\ picks # <<>>
                 THEN [report EXCEPT ![w].pc = "telling", ![w].left = Manager]
                 ELSE [report EXCEPT ![w] = NoReport]
    /\ UNCHANGED <<day, Staff, Leave, reply, reports, office>>

\* materializeNotifications: the outbox row and the notification of one
\* recipient commit together, once per request and recipient.
Notify(w, m) ==
    /\ report[w].pc = "telling" /\ m \in report[w].left
    /\ requests' = [requests EXCEPT ![report[w].req].told = @ \cup {m}]
    /\ report' = IF report[w].left = {m} THEN [report EXCEPT ![w] = NoReport]
                 ELSE [report EXCEPT ![w].left = @ \ {m}]
    /\ UNCHANGED <<day, Staff, Leave, reply, reports, office>>

\* The process dies, or an error leaves the handler between two transactions.
Abandon(w) ==
    /\ report[w] # NoReport
    /\ report' = [report EXCEPT ![w] = NoReport]
    /\ UNCHANGED <<day, Staff, Leave, requests, reply, reports, office>>

-----------------------------------------------------------------------------
\* A manager's button: handleQuickReply

\* The rows of the request, its candidate and the day are read and locked,
\* and the candidate's availability is computed on another connection.  A
\* request no longer pending or a candidate no longer offered answers and
\* changes nothing.
ReplyReads(r, rank) ==
    /\ reply = NoReply
    /\ requests[r].told # {} /\ rank \in DOMAIN requests[r].ranking
    /\ requests[r].status = "PENDING"
    /\ requests[r].state[requests[r].ranking[rank]] = "OFFERED"
    /\ LET e == requests[r].ranking[rank] IN
       reply' = [req |-> r, who |-> e,
                 vacant |-> day = "ACTIVE" /\ seat[requests[r].absent].unavailable,
                 free |-> Available(e)]
    /\ UNCHANGED <<day, Staff, Leave, requests, report, reports, office>>

Absent == requests[reply.req].absent

\* The day was cancelled or the absent employee never said so: the offers
\* are stale and the request expires.
ReplyExpires ==
    /\ reply # NoReply /\ ~ reply.vacant
    /\ requests' = [requests EXCEPT ![reply.req] = [requests[reply.req] EXCEPT
           !.status = "EXPIRED",
           !.state = [e \in Employee |-> IF @[e] = "OFFERED" THEN "STALE" ELSE @[e]]]]
    /\ reply' = NoReply
    /\ UNCHANGED <<day, Staff, Leave, report, reports, office>>

\* Another operation of the candidate overlaps, or an absence does: that
\* candidate is stale.
ReplyStale ==
    /\ reply # NoReply /\ reply.vacant
    /\ \/ ~ reply.free
       \/ office < MaxOffice        \* an overlapping day of another operation
    /\ requests' = [requests EXCEPT ![reply.req].state[reply.who] = "STALE"]
    /\ office' = IF reply.free THEN office + 1 ELSE office
    /\ reply' = NoReply
    /\ UNCHANGED <<day, Staff, Leave, report, reports>>

\* MUTANT of VacancyOpen: the number of rows the cancellation changed is not
\* looked at.
VacancyOpenAny(absent) == TRUE
\* Cancelling the absent employee's expectation must change one row.
VacancyOpen(absent) == seat[absent].exp = "EXPECTED"

\* COVERAGE assignment, the absent seat cancelled, the candidate seated, the
\* request covered and the other candidates rejected, in one commit.  No
\* coverage event is written.
ReplyAssigns ==
    LET e == reply.who IN
    /\ reply # NoReply /\ reply.vacant /\ reply.free
    /\ VacancyOpen(Absent) /\ MaySit(e)
    /\ seat' = Seated(Release(Absent), e)
    /\ assigned' = [assigned EXCEPT ![e] = "active"]
    /\ cover' = [cover EXCEPT ![e] = [for |-> Absent, event |-> FALSE]]
    /\ requests' = [requests EXCEPT ![reply.req] = [requests[reply.req] EXCEPT
           !.status = "COVERED", !.by = e,
           !.state = [x \in Employee |->
               IF x = e THEN "SELECTED" ELSE IF @[x] = "none" THEN "none" ELSE "REJECTED"]]]
    /\ reply' = NoReply
    /\ UNCHANGED <<day, Leave, report, reports, office>>

\* REPLACEMENT_VACANCY_STALE, a duplicate seat or a lost connection: nothing
\* is kept.
ReplyRollsBack ==
    /\ reply # NoReply
    /\ reply' = NoReply
    /\ UNCHANGED <<day, Staff, Leave, requests, report, reports, office>>

-----------------------------------------------------------------------------
\* The office

\* executeCoverEmployeeWorkdayInTransaction.  The panel names the absent
\* employee's day; whether it is still EXPECTED is not asked.  With the
\* absence at hand, its open conflict is resolved and the pending request
\* marked covered; a manual cover without one leaves the request pending.
Cover(absent, e, withAbsence) ==
    /\ office < MaxOffice
    /\ absent # e /\ Available(e)
    /\ seat[absent].exp # "none" /\ Standing(absent) /\ ~ CoverageEvent(absent)
    /\ ~ Standing(e) /\ MaySit(e)
    /\ withAbsence => absent \in away
    /\ seat' = Seated(Release(absent), e)
    /\ assigned' = [assigned EXCEPT ![e] = "active"]
    /\ cover' = [cover EXCEPT ![e] = [for |-> absent, event |-> TRUE]]
    /\ IF withAbsence
       THEN /\ \A r \in DOMAIN requests : requests[r].absent = absent => Unlocked(r)
            /\ requests' = MarkCovered(absent, e)
            /\ conflict' = [conflict EXCEPT ![absent] =
                                IF @ = "OPEN" THEN "RESOLVED" ELSE @]
       ELSE UNCHANGED <<requests, conflict>>
    /\ office' = office + 1
    /\ UNCHANGED <<day, away, report, reply, reports>>

\* cancelAssignment; that of a stand-in supersedes its coverage event, opens
\* the conflict again and the request with it.  A second pending request of
\* the same seat would break its unique index and roll all of it back.
CancelAssignment(e) ==
    LET absent == cover[e].for  stoodIn == cover[e].event IN
    /\ office < MaxOffice
    /\ Standing(e)
    /\ assigned' = [assigned EXCEPT ![e] = "cancelled"]
    /\ seat' = Release(e)
    /\ IF stoodIn
       THEN /\ \A r \in DOMAIN requests : requests[r].absent = absent => Unlocked(r)
            /\ OnePending(Reopened(absent))
            /\ requests' = Reopened(absent)
            /\ conflict' = [conflict EXCEPT ![absent] =
                                IF @ = "RESOLVED" THEN "OPEN" ELSE @]
            /\ cover' = [cover EXCEPT ![e].event = FALSE]
       ELSE UNCHANGED <<requests, conflict, cover>>
    /\ office' = office + 1
    /\ UNCHANGED <<day, away, report, reply, reports>>

\* materializeOperationHorizon for the day: every standing assignment has an
\* EXPECTED seat, a cancelled one is brought back, every other seat is
\* cancelled; then approved absences justify what they cover.
Materialize ==
    /\ office < MaxOffice /\ day = "ACTIVE"
    /\ seat' = [e \in Employee |->
          [seat[e] EXCEPT !.exp =
             IF Standing(e)
             THEN IF e \in away /\ @ # "JUSTIFIED" THEN "JUSTIFIED"
                  ELSE IF @ \in {"none", "CANCELLED"} THEN "EXPECTED" ELSE @
             ELSE IF @ = "EXPECTED" THEN "CANCELLED" ELSE @]]
    /\ office' = office + 1
    /\ UNCHANGED <<day, assigned, cover, Leave, requests, report, reply, reports>>

\* The schedule drops the day.
CancelDay ==
    /\ office < MaxOffice /\ day = "ACTIVE" /\ reply = NoReply
    /\ day' = "CANCELLED"
    /\ seat' = [e \in Employee |-> Release(e)[e]]
    /\ office' = office + 1
    /\ UNCHANGED <<assigned, cover, Leave, requests, report, reply, reports>>

\* An absence over the day is approved, and later its sync job justifies the
\* seat and raises the conflict (module AbsenceSync).
Approve(e) ==
    /\ office < MaxOffice /\ e \notin away
    /\ away' = away \cup {e}
    /\ office' = office + 1
    /\ UNCHANGED <<day, Staff, conflict, requests, report, reply, reports>>

AbsenceApplied(e) ==
    /\ e \in away /\ seat[e].exp = "EXPECTED" /\ day = "ACTIVE"
    /\ seat' = [seat EXCEPT ![e].exp = "JUSTIFIED"]
    /\ conflict' = [conflict EXCEPT ![e] = IF @ = "none" THEN "OPEN" ELSE @]
    /\ UNCHANGED <<day, assigned, cover, away, requests, report, reply, reports,
                   office>>

-----------------------------------------------------------------------------
VacancyNext ==
    \/ \E w \in Worker :
          \/ \E e \in Employee : Report(w, e)
          \/ MarkUnavailable(w) \/ FindOrCreate(w) \/ Recommend(w)
          \/ StoreCandidates(w) \/ Abandon(w)
          \/ \E m \in Manager : Notify(w, m)
    \/ \E r \in DOMAIN requests, rank \in 1..3 : ReplyReads(r, rank)
    \/ ReplyExpires \/ ReplyStale \/ ReplyAssigns \/ ReplyRollsBack
    \/ \E absent, e \in Employee, withAbsence \in BOOLEAN : Cover(absent, e, withAbsence)
    \/ \E e \in Employee : CancelAssignment(e) \/ Approve(e) \/ AbsenceApplied(e)
    \/ Materialize \/ CancelDay

VacancySpec == VacancyInit /\ [][VacancyNext]_vacancyVars

-----------------------------------------------------------------------------
\* Properties

\* What a button means never changes: the managers read the names in one
\* message and answer with a rank, so the candidates of a request are stored
\* once, however many reports of the same employee are handled at once.
ButtonsKeepTheirMeaning ==
    [][\A r \in DOMAIN requests : requests[r].made =>
          requests'[r].ranking = requests[r].ranking]_vacancyVars

\* Buttons alone never bring two people for one place: until the office or
\* the materialization touches the day, as many employees are expected as
\* the operation has standing assignments for, or fewer, whatever the order
\* of reports and replies and whoever of the stand-ins drops out.
RepliesKeepTheHeadcount ==
    office = 0 =>
        Cardinality({e \in Employee : seat[e].exp = "EXPECTED"}) <= Cardinality(Titular)

\* "only one active coverage for the same workday": two employees never stand
\* in for the same absent one at once, whichever way they were assigned.
OneCoverPerVacancy ==
    \A e, x \in Employee :
        (Standing(e) /\ Standing(x) /\ cover[e].for = cover[x].for
            /\ cover[e].for # Nobody) => e = x
=============================================================================
