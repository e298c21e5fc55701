----------------------------- MODULE UsageQuota -----------------------------
(***************************************************************************)
(* WhatsApp usage quotas: the admission of limited turns, the reservation  *)
(* of outbound units and the limit notice.                                 *)
(*                                                                         *)
(* A limited turn (one MessageSid) is admitted against the turn counters   *)
(* of its employee's day and week; every TwiML and every document it sends *)
(* takes one outbound unit of the day, the week and the company's day.     *)
(* Counters live in period rows, the units in a ledger with one row per    *)
(* logical outbound key.  Transactions lock the period rows they count, so *)
(* each is one action; the reads before them, the provider call and the    *)
(* marks after it are actions of their own, and several lanes may work for *)
(* one MessageSid at once (WebhookInbox shows how that comes about).       *)
(*                                                                         *)
(* Only the limited path is modelled, and only the modes SHADOW and        *)
(* ENFORCE: in mode OFF nothing is read or written.  The turns_reserved    *)
(* column is raised and lowered in one transaction, so that it is 0 in     *)
(* every committed state and has no place in the model.                    *)
(***************************************************************************)
EXTENDS Naturals, FiniteSets

CONSTANTS
    Sid,            \* MessageSids of limited turns
    Employee,
    EmployeeOf,     \* the employee who sent each of them
    Company,        \* the owner of the company's own period
    Worker,         \* lanes the backend can have in flight
    NDocs,          \* bound: documents of one payroll query
    Policy,         \* quota settings the company may choose
    MaxDay,         \* bound: days of a behaviour
    MaxTakes,       \* bound: lanes that take up one MessageSid
    DaysPerWeek

Mode == {"SHADOW", "ENFORCE"}
Kind == {"DAY", "WEEK", "COMPANY"}
Setting == [mode: Mode, turns: [Kind -> Nat], outbounds: [Kind -> Nat], burst: Nat]

ASSUME QuotaAssumption ==
    /\ Sid # {} /\ IsFiniteSet(Sid)
    /\ EmployeeOf \in [Sid -> Employee]
    /\ Policy # {} /\ Policy \subseteq Setting
    /\ NDocs \in Nat
    /\ MaxDay \in Nat \ {0}
    /\ MaxTakes \in Nat
    /\ DaysPerWeek \in Nat \ {0}

VARIABLES
    today,      \* the clock, in days
    policy,     \* the company's quota settings
    period,     \* whatsapp_quota_employee_periods and _company_periods
    admission,  \* whatsapp_quota_turn_admissions, by MessageSid
    recent,     \* admitted MessageSids inside the burst window
    ledger,     \* whatsapp_quota_outbound_reservations, by logical key
    notice,     \* whatsapp_quota_limit_notices, by episode
    lane,       \* the turn each worker is processing
    taken,      \* how many lanes have taken up each MessageSid
    attempted,  \* history: keys whose provider call was started under ENFORCE
    sent,       \* history: keys whose message left under ENFORCE
    told        \* history: how many notices of each episode were answered

vars == <<today, policy, period, admission, recent, ledger, notice, lane,
          taken, attempted, sent, told>>

rows == <<period, admission, recent, ledger, notice>>
history == <<taken, attempted, sent, told>>
settings == <<today, policy>>

-----------------------------------------------------------------------------
(* Periods, keys and rows *)

Day == 1 .. MaxDay
WeekOf(d) == (d - 1) \div DaysPerWeek + 1

TurnPeriods(s, d) ==
    {[kind |-> "DAY", owner |-> EmployeeOf[s], index |-> d],
     [kind |-> "WEEK", owner |-> EmployeeOf[s], index |-> WeekOf(d)]}

OutboundPeriods(s, d) ==
    TurnPeriods(s, d) \cup {[kind |-> "COMPANY", owner |-> Company, index |-> d]}

\* The periods a behaviour can touch.
Periods == UNION {OutboundPeriods(s, d) : s \in Sid, d \in Day}

\* Units of one turn: its TwiML, its documents and its limit notice.
Twiml == 0
Doc == 1 .. NDocs
Notice == NDocs + 1
Key == Sid \X (0 .. NDocs + 1)

PeriodRow == [open: BOOLEAN, turnLimit: Nat, turns: Nat,
              limit: Nat, reserved: Nat, consumed: Nat]

Held == {"RESERVED", "ATTEMPT_STARTED", "AMBIGUOUS"}
Spent == {"RESPONSE_BUILT", "ACCEPTED"}
Reservation == [status: Held \cup Spent \cup {"NONE", "RELEASED", "SHADOW"}, day: Day]

Reason == {"DAY", "WEEK", "BURST", "FAILURE"}
Decision == {"ADMITTED", "REJECTED", "WOULD_ADMIT", "WOULD_REJECT"}
Admission == [decision: Decision \cup {"NONE"}, mode: Mode,
              reason: Reason \cup {"NONE"}, day: Day]

Episode == [employee: Employee, reason: Reason, day: Day]

Step == {"idle", "lookup", "admit", "again", "refuse", "notice", "dispatch",
         "read", "take", "release", "send", "attempt", "effect", "settle",
         "ambiguous", "suppress", "complete", "return"}
Phase == {"notice", "pre", "send", "reply"}
Lane == [step: Step, sid: Sid, day: Day, policy: Policy, scope: Mode,
         reason: Reason \cup {"NONE"}, phase: Phase, unit: 0 .. NDocs + 1,
         pre: SUBSET Doc]

TypeOK ==
    /\ today \in Day
    /\ policy \in Policy
    /\ period \in [Periods -> PeriodRow]
    /\ admission \in [Sid -> Admission]
    /\ recent \in SUBSET Sid
    /\ ledger \in [Key -> Reservation]
    /\ notice \in [Episode -> {"NONE", "RESERVED", "SENT", "SUPPRESSED"}]
    /\ lane \in [Worker -> Lane]
    /\ taken \in [Sid -> 0 .. MaxTakes]
    /\ attempted \in SUBSET Key
    /\ sent \in SUBSET Key
    /\ told \in [Episode -> Nat]

Idle == [step |-> "idle", sid |-> CHOOSE s \in Sid : TRUE, day |-> 1,
         policy |-> CHOOSE p \in Policy : TRUE, scope |-> "ENFORCE",
         reason |-> "NONE", phase |-> "reply", unit |-> Twiml, pre |-> {}]

Init ==
    /\ today = 1
    /\ policy \in Policy
    /\ period = [p \in Periods |-> [open |-> FALSE, turnLimit |-> 0, turns |-> 0,
                                    limit |-> 0, reserved |-> 0, consumed |-> 0]]
    /\ admission = [s \in Sid |-> [decision |-> "NONE", mode |-> "ENFORCE",
                                   reason |-> "NONE", day |-> 1]]
    /\ recent = {}
    /\ ledger = [k \in Key |-> [status |-> "NONE", day |-> 1]]
    /\ notice = [e \in Episode |-> "NONE"]
    /\ lane = [w \in Worker |-> Idle]
    /\ taken = [s \in Sid |-> 0]
    /\ attempted = {}
    /\ sent = {}
    /\ told = [e \in Episode |-> 0]

-----------------------------------------------------------------------------
(* Helpers *)

At(w, step) == lane[w].step = step

Goto(w, step) == lane' = [lane EXCEPT ![w].step = step]

Finish(w) == lane' = [lane EXCEPT ![w] = Idle]

\* The key the lane is working on, and the episode of its refusal.
KeyOf(w) == <<lane[w].sid, lane[w].unit>>
EpisodeOf(w) == [employee |-> EmployeeOf[lane[w].sid], reason |-> lane[w].reason,
                 day |-> lane[w].day]

\* The MERGE of a period row: it keeps the limits it was opened with.
Ensured(p, pol) ==
    IF period[p].open THEN period[p]
    ELSE [open |-> TRUE, turnLimit |-> pol.turns[p.kind], turns |-> 0,
          limit |-> pol.outbounds[p.kind], reserved |-> 0, consumed |-> 0]

\* The limits as ENFORCE and SHADOW evaluate them.
TurnFits(p, pol) == Ensured(p, pol).turns + 1 <= Ensured(p, pol).turnLimit

DayFits(w) ==
    \A p \in TurnPeriods(lane[w].sid, lane[w].day) :
        p.kind = "DAY" => TurnFits(p, lane[w].policy)

WeekFits(w) ==
    \A p \in TurnPeriods(lane[w].sid, lane[w].day) :
        p.kind = "WEEK" => TurnFits(p, lane[w].policy)

BurstFits(w) ==
    Cardinality({s \in recent : EmployeeOf[s] = EmployeeOf[lane[w].sid]}) + 1
        <= lane[w].policy.burst

TurnAllowed(w) == DayFits(w) /\ WeekFits(w) /\ BurstFits(w)

\* MUTANT of OutboundFits: units that are reserved do not count yet.
OutboundFitsUnreserved(w) ==
    \A p \in OutboundPeriods(lane[w].sid, lane[w].day) :
        LET row == Ensured(p, lane[w].policy)
        IN  row.consumed + 1 <= row.limit

OutboundFits(w) ==
    \A p \in OutboundPeriods(lane[w].sid, lane[w].day) :
        LET row == Ensured(p, lane[w].policy)
        IN  row.consumed + row.reserved + 1 <= row.limit

-----------------------------------------------------------------------------
(* Admission of a turn: admitNonCriticalTurn *)

\* The policy and the clock are read once, before anything is locked.
Begin(w, s) ==
    /\ At(w, "idle")
    /\ taken[s] < MaxTakes
    /\ taken' = [taken EXCEPT ![s] = @ + 1]
    /\ lane' = [lane EXCEPT ![w] = [Idle EXCEPT !.step = "lookup", !.sid = s,
                                                !.day = today, !.policy = policy,
                                                !.scope = policy.mode]]
    /\ UNCHANGED <<settings, rows, attempted, sent, told>>

\* MUTANT of Adopt: a second lane of a known MessageSid is let through.
AdoptAny(w, scope) ==
    lane' = [lane EXCEPT ![w].step = "dispatch", ![w].scope = scope,
                         ![w].reason = admission[lane[w].sid].reason]

\* A decision that is on record is taken over; only REJECTED stops the turn.
Adopt(w, scope) ==
    LET a == admission[lane[w].sid] IN
    lane' = [lane EXCEPT ![w].step = IF a.decision = "REJECTED" THEN "notice" ELSE "dispatch",
                         ![w].scope = scope,
                         ![w].reason = a.reason]

Lookup(w) ==
    LET a == admission[lane[w].sid] IN
    /\ At(w, "lookup")
    /\ IF a.decision = "NONE" THEN Goto(w, "admit") ELSE Adopt(w, a.mode)
    /\ UNCHANGED <<settings, rows, history>>

\* insertTurnDecision: a MessageSid that has a decision keeps it.
Decide(s, decision, mode, reason, day) ==
    admission' = [admission EXCEPT ![s] =
                    IF @.decision = "NONE"
                    THEN [decision |-> decision, mode |-> mode, reason |-> reason, day |-> day]
                    ELSE @]

AdmitTurn(w) ==
    LET s == lane[w].sid
        charge == TurnPeriods(s, lane[w].day) IN
    /\ At(w, "admit")
    /\ lane[w].policy.mode = "ENFORCE"
    /\ TurnAllowed(w)
    /\ admission[s].decision = "NONE"
    /\ period' = [p \in Periods |->
                    IF p \in charge
                    THEN [Ensured(p, lane[w].policy) EXCEPT !.turns = @ + 1]
                    ELSE period[p]]
    /\ Decide(s, "ADMITTED", "ENFORCE", "NONE", lane[w].day)
    /\ recent' = recent \cup {s}
    /\ Goto(w, "dispatch")
    /\ UNCHANGED <<settings, ledger, notice, history>>

\* The unique index on message_sid refuses the second row of a MessageSid,
\* and the transaction that had counted the turn is rolled back.
AdmitDuplicate(w) ==
    /\ At(w, "admit")
    /\ lane[w].policy.mode = "ENFORCE"
    /\ TurnAllowed(w)
    /\ admission[lane[w].sid].decision # "NONE"
    /\ Goto(w, "again")
    /\ UNCHANGED <<settings, rows, history>>

Again(w) ==
    /\ At(w, "again")
    /\ Adopt(w, lane[w].policy.mode)
    /\ UNCHANGED <<settings, rows, history>>

AdmitBlocked(w) ==
    /\ At(w, "admit")
    /\ lane[w].policy.mode = "ENFORCE"
    /\ ~TurnAllowed(w)
    /\ lane' = [lane EXCEPT ![w].step = "refuse",
                            ![w].reason = IF ~DayFits(w) THEN "DAY"
                                          ELSE IF ~WeekFits(w) THEN "WEEK" ELSE "BURST"]
    /\ UNCHANGED <<settings, rows, history>>

Refuse(w) ==
    /\ At(w, "refuse")
    /\ Decide(lane[w].sid, "REJECTED", "ENFORCE", lane[w].reason, lane[w].day)
    /\ Goto(w, "notice")
    /\ UNCHANGED <<settings, period, recent, ledger, notice, history>>

\* SHADOW records what ENFORCE would have decided and lets the turn pass.
ShadowTurn(w) ==
    /\ At(w, "admit")
    /\ lane[w].policy.mode = "SHADOW"
    /\ Decide(lane[w].sid, IF TurnAllowed(w) THEN "WOULD_ADMIT" ELSE "WOULD_REJECT",
              "SHADOW", "NONE", lane[w].day)
    /\ Goto(w, "dispatch")
    /\ UNCHANGED <<settings, period, recent, ledger, notice, history>>

\* Any error of the above is a QUOTA_FAILURE: the turn is refused.
AdmissionThrows(w) ==
    /\ lane[w].step \in {"lookup", "admit", "again", "refuse"}
    /\ lane' = [lane EXCEPT ![w].step = "notice", ![w].reason = "FAILURE"]
    /\ UNCHANGED <<settings, rows, history>>

-----------------------------------------------------------------------------
(* The limit notice of a refused turn: one per employee, reason and day *)

\* MUTANT of ClaimNotice: the row of the episode does not stop a second notice.
ClaimNoticeAgain(w) ==
    /\ At(w, "notice")
    /\ notice' = [notice EXCEPT ![EpisodeOf(w)] = "RESERVED"]
    /\ lane' = [lane EXCEPT ![w].step = "read", ![w].phase = "notice", ![w].unit = Notice]
    /\ UNCHANGED <<settings, period, admission, recent, ledger, history>>

ClaimNotice(w) ==
    /\ At(w, "notice")
    /\ notice[EpisodeOf(w)] = "NONE"
    /\ notice' = [notice EXCEPT ![EpisodeOf(w)] = "RESERVED"]
    /\ lane' = [lane EXCEPT ![w].step = "read", ![w].phase = "notice", ![w].unit = Notice]
    /\ UNCHANGED <<settings, period, admission, recent, ledger, history>>

\* The episode has its notice, or notices are disabled: an empty answer.
StaySilent(w) ==
    /\ At(w, "notice")
    /\ Finish(w)
    /\ UNCHANGED <<settings, rows, history>>

\* completeLimitNotice moves a RESERVED notice only.
Conclude(w, status) ==
    notice' = [notice EXCEPT ![EpisodeOf(w)] = IF @ = "RESERVED" THEN status ELSE @]

SuppressNotice(w) ==
    /\ At(w, "suppress")
    /\ Conclude(w, "SUPPRESSED")
    /\ Finish(w)
    /\ UNCHANGED <<settings, period, admission, recent, ledger, history>>

CompleteNotice(w) ==
    /\ At(w, "complete")
    /\ Conclude(w, "SENT")
    /\ told' = [told EXCEPT ![EpisodeOf(w)] = @ + 1]
    /\ sent' = sent \cup {KeyOf(w)}
    /\ Finish(w)
    /\ UNCHANGED <<settings, period, admission, recent, ledger, taken, attempted>>

-----------------------------------------------------------------------------
(* What an admitted turn sends: one TwiML, or the documents of a payroll    *)
(* query and then a text or nothing.                                        *)

ChooseReply(w) ==
    /\ At(w, "dispatch")
    /\ lane' = [lane EXCEPT ![w].step = "read", ![w].phase = "reply", ![w].unit = Twiml]
    /\ UNCHANGED <<settings, rows, history>>

ChooseDocuments(w) ==
    /\ At(w, "dispatch")
    /\ NDocs > 0
    /\ lane' = [lane EXCEPT ![w].step = "read", ![w].phase = "pre", ![w].unit = 1]
    /\ UNCHANGED <<settings, rows, history>>

-----------------------------------------------------------------------------
(* reserveOutbound, and where its caller goes with the answer *)

\* The lane's scope counts, and so does the policy it reserves with: only then
\* does it hold a reservation id whose status it moves on.
Counts(w) == lane[w].scope = "ENFORCE" /\ lane[w].policy.mode = "ENFORCE"

\* The documents are all reserved before the first is sent.
Granted(w) ==
    \/ /\ lane[w].phase = "pre"
       /\ lane' = [lane EXCEPT ![w].step = IF lane[w].unit < NDocs THEN "read" ELSE "send",
                               ![w].phase = IF lane[w].unit < NDocs THEN "pre" ELSE "send",
                               ![w].unit = IF lane[w].unit < NDocs THEN @ + 1 ELSE 1,
                               ![w].pre = IF Counts(w) THEN @ \cup {lane[w].unit} ELSE @]
    \/ /\ lane[w].phase # "pre"
       /\ Counts(w)
       /\ Goto(w, "attempt")
    \/ /\ lane[w].phase = "send"
       /\ ~Counts(w)
       /\ Goto(w, "effect")
    \/ /\ lane[w].phase = "reply"
       /\ ~Counts(w)
       /\ Goto(w, "return")
    \* A notice without a reservation id: the mark on it throws.
    \/ /\ lane[w].phase = "notice"
       /\ ~Counts(w)
       /\ Finish(w)

\* The next document, or the end of the query: a text or an empty answer.
NextDocument(w) ==
    IF lane[w].unit < NDocs
    THEN lane' = [lane EXCEPT ![w].step = "send", ![w].unit = @ + 1]
    ELSE \/ lane' = [lane EXCEPT ![w].step = "read", ![w].phase = "reply", ![w].unit = Twiml]
         \/ Finish(w)

\* Outside ENFORCE a refusal is ignored and the caller goes on.
Denied(w) ==
    \/ /\ lane[w].scope = "SHADOW"
       /\ Granted(w)
    \/ /\ lane[w].scope = "ENFORCE"
       /\ \/ lane[w].phase = "notice" /\ Goto(w, "suppress")
          \/ lane[w].phase = "pre" /\ Goto(w, "release")
          \/ lane[w].phase = "send" /\ NextDocument(w)
          \/ lane[w].phase = "reply" /\ Finish(w)

\* The read by logical key, outside any transaction.  A notice is reserved
\* with the clock of its turn, everything else with a new one.
ReadKey(w) ==
    /\ At(w, "read")
    /\ lane[w].policy.mode = "ENFORCE"
    /\ IF ledger[KeyOf(w)].status \in {"NONE", "RELEASED"}
       THEN lane' = [lane EXCEPT ![w].step = "take",
                                 ![w].day = IF lane[w].phase = "notice" THEN @ ELSE today]
       ELSE Granted(w)
    /\ UNCHANGED <<settings, rows, history>>

\* SHADOW leaves a row with the evaluation, unless the key has one already.
ShadowReserve(w) ==
    /\ At(w, "read")
    /\ lane[w].policy.mode = "SHADOW"
    /\ ledger' = [ledger EXCEPT ![KeyOf(w)].status = IF @ = "NONE" THEN "SHADOW" ELSE @]
    /\ Granted(w)
    /\ UNCHANGED <<settings, period, admission, recent, notice, history>>

TakeUnit(w) ==
    LET charge == OutboundPeriods(lane[w].sid, lane[w].day) IN
    /\ At(w, "take")
    /\ OutboundFits(w)
    /\ ledger[KeyOf(w)].status = "NONE"
    /\ period' = [p \in Periods |->
                    IF p \in charge
                    THEN [Ensured(p, lane[w].policy) EXCEPT !.reserved = @ + 1]
                    ELSE period[p]]
    /\ ledger' = [ledger EXCEPT ![KeyOf(w)] = [status |-> "RESERVED", day |-> lane[w].day]]
    /\ Granted(w)
    /\ UNCHANGED <<settings, admission, recent, notice, history>>

\* The unique index refuses the key: rollback, and the row there is reused,
\* whatever its status.
TakeDuplicate(w) ==
    /\ At(w, "take")
    /\ OutboundFits(w)
    /\ ledger[KeyOf(w)].status # "NONE"
    /\ Granted(w)
    /\ UNCHANGED <<settings, rows, history>>

TakeBlocked(w) ==
    /\ At(w, "take")
    /\ ~OutboundFits(w)
    /\ Denied(w)
    /\ UNCHANGED <<settings, rows, history>>

\* Errors are caught: no unit in ENFORCE, no row in SHADOW.
ReserveThrows(w) ==
    /\ lane[w].step \in {"read", "take"}
    /\ IF lane[w].policy.mode = "ENFORCE" THEN Denied(w) ELSE Granted(w)
    /\ UNCHANGED <<settings, rows, history>>

-----------------------------------------------------------------------------
(* The life of a reservation *)

\* Counters move on the periods the unit was taken from, floored at zero.
Returned(row) == [row EXCEPT !.reserved = IF @ > 0 THEN @ - 1 ELSE 0]
Converted(row) == [Returned(row) EXCEPT !.consumed = @ + 1]

Charged(k) == OutboundPeriods(k[1], ledger[k].day)

ReleaseRow(k) ==
    /\ ledger' = [ledger EXCEPT ![k].status = "RELEASED"]
    /\ period' = [p \in Periods |-> IF p \in Charged(k) THEN Returned(period[p]) ELSE period[p]]

\* MUTANT of ReleaseNext: a unit whose attempt was started is released too.
ReleaseNextHeld(w) ==
    /\ At(w, "release")
    /\ \E i \in lane[w].pre :
         /\ \A j \in lane[w].pre : i <= j
         /\ IF ledger[<<lane[w].sid, i>>].status \in Held
            THEN ReleaseRow(<<lane[w].sid, i>>)
            ELSE UNCHANGED <<ledger, period>>
         /\ lane' = [lane EXCEPT ![w].pre = @ \ {i}]
    /\ UNCHANGED <<settings, admission, recent, notice, history>>

\* releaseOutboundIfReserved, over the pre-reserved documents in their order;
\* then the turn answers that the quota does not suffice.
ReleaseNext(w) ==
    /\ At(w, "release")
    /\ \E i \in lane[w].pre :
         /\ \A j \in lane[w].pre : i <= j
         /\ IF ledger[<<lane[w].sid, i>>].status = "RESERVED"
            THEN ReleaseRow(<<lane[w].sid, i>>)
            ELSE UNCHANGED <<ledger, period>>
         /\ lane' = [lane EXCEPT ![w].pre = @ \ {i}]
    /\ UNCHANGED <<settings, admission, recent, notice, history>>

Released(w) ==
    /\ At(w, "release")
    /\ lane[w].pre = {}
    /\ lane' = [lane EXCEPT ![w].step = "read", ![w].phase = "reply", ![w].unit = Twiml]
    /\ UNCHANGED <<settings, rows, history>>

\* The delivery's own claim, authorisation or storage stops a document.
SkipDocument(w) ==
    /\ At(w, "send")
    /\ NextDocument(w)
    /\ UNCHANGED <<settings, rows, history>>

\* deliverReceipt reserves again with the same key.
StartDocument(w) ==
    /\ At(w, "send")
    /\ Goto(w, "read")
    /\ UNCHANGED <<settings, rows, history>>

\* markOutboundAttemptStarted: nobody looks at whether it moved the row.
StartAttempt(w) ==
    /\ At(w, "attempt")
    /\ ledger' = [ledger EXCEPT ![KeyOf(w)].status =
                    IF @ = "RESERVED" THEN "ATTEMPT_STARTED" ELSE @]
    /\ Goto(w, IF lane[w].phase = "send" THEN "effect" ELSE "settle")
    /\ UNCHANGED <<settings, period, admission, recent, notice, history>>

\* The provider takes the document.
SendDocument(w) ==
    /\ At(w, "effect")
    /\ attempted' = IF Counts(w) THEN attempted \cup {KeyOf(w)} ELSE attempted
    /\ sent' = IF Counts(w) THEN sent \cup {KeyOf(w)} ELSE sent
    /\ IF Counts(w) THEN Goto(w, "settle") ELSE NextDocument(w)
    /\ UNCHANGED <<settings, rows, taken, told>>

\* The call fails, or something after it does: the document may have gone out.
SendThrows(w) ==
    /\ At(w, "effect")
    /\ attempted' = IF Counts(w) THEN attempted \cup {KeyOf(w)} ELSE attempted
    /\ \/ Counts(w) /\ sent' = sent \cup {KeyOf(w)}
       \/ UNCHANGED sent
    /\ IF Counts(w) THEN Goto(w, "ambiguous") ELSE NextDocument(w)
    /\ UNCHANGED <<settings, rows, taken, told>>

\* MUTANT of Finalize: the status read under the lock is not looked at.
FinalizeAlways(k, status) ==
    /\ ledger' = [ledger EXCEPT ![k].status = status]
    /\ period' = [p \in Periods |->
                    IF p \in Charged(k) THEN Converted(period[p]) ELSE period[p]]

\* finalizeOutboundReservation: only a unit still held is converted.
Finalize(k, status) ==
    IF ledger[k].status \in {"RESERVED", "ATTEMPT_STARTED"}
    THEN /\ ledger' = [ledger EXCEPT ![k].status = status]
         /\ period' = [p \in Periods |->
                         IF p \in Charged(k) THEN Converted(period[p]) ELSE period[p]]
    ELSE /\ ledger' = [ledger EXCEPT ![k].status =
                         IF @ = "RESPONSE_BUILT" THEN status ELSE @]
         /\ UNCHANGED period

SettleDocument(w) ==
    /\ At(w, "settle")
    /\ lane[w].phase = "send"
    /\ Finalize(KeyOf(w), "ACCEPTED")
    /\ NextDocument(w)
    /\ UNCHANGED <<settings, admission, recent, notice, history>>

SettleDocumentThrows(w) ==
    /\ At(w, "settle")
    /\ lane[w].phase = "send"
    /\ Goto(w, "ambiguous")
    /\ UNCHANGED <<settings, rows, history>>

SettleTwiml(w) ==
    /\ At(w, "settle")
    /\ lane[w].phase # "send"
    /\ Finalize(KeyOf(w), "RESPONSE_BUILT")
    /\ Goto(w, IF lane[w].phase = "notice" THEN "complete" ELSE "return")
    /\ UNCHANGED <<settings, admission, recent, notice, history>>

\* markOutboundAmbiguous: the unit stays reserved for good.
MarkAmbiguous(w) ==
    /\ At(w, "ambiguous")
    /\ ledger' = [ledger EXCEPT ![KeyOf(w)].status =
                    IF @ \in {"RESERVED", "ATTEMPT_STARTED"} THEN "AMBIGUOUS" ELSE @]
    /\ NextDocument(w)
    /\ UNCHANGED <<settings, period, admission, recent, notice, history>>

ReturnTwiml(w) ==
    /\ At(w, "return")
    /\ sent' = IF Counts(w) THEN sent \cup {KeyOf(w)} ELSE sent
    /\ Finish(w)
    /\ UNCHANGED <<settings, rows, taken, attempted, told>>

-----------------------------------------------------------------------------
(* The environment *)

\* The process dies, or an error leaves the turn through the webhook's catch.
Crash(w) ==
    /\ ~At(w, "idle")
    /\ Finish(w)
    /\ UNCHANGED <<settings, rows, history>>

NextDay ==
    /\ today < MaxDay
    /\ today' = today + 1
    /\ UNCHANGED <<policy, rows, lane, history>>

BurstPasses(s) ==
    /\ s \in recent
    /\ recent' = recent \ {s}
    /\ UNCHANGED <<settings, period, admission, ledger, notice, lane, history>>

ChangePolicy(p) ==
    /\ p # policy
    /\ policy' = p
    /\ UNCHANGED <<today, rows, lane, history>>

-----------------------------------------------------------------------------
Admit(w) ==
    \/ Lookup(w) \/ AdmitTurn(w) \/ AdmitDuplicate(w) \/ Again(w)
    \/ AdmitBlocked(w) \/ Refuse(w) \/ ShadowTurn(w) \/ AdmissionThrows(w)

Notify(w) == ClaimNotice(w) \/ StaySilent(w) \/ SuppressNotice(w) \/ CompleteNotice(w)

Reserve(w) ==
    \/ ReadKey(w) \/ ShadowReserve(w) \/ TakeUnit(w) \/ TakeDuplicate(w)
    \/ TakeBlocked(w) \/ ReserveThrows(w) \/ ReleaseNext(w) \/ Released(w)

Send(w) ==
    \/ ChooseReply(w) \/ ChooseDocuments(w) \/ SkipDocument(w) \/ StartDocument(w)
    \/ StartAttempt(w) \/ SendDocument(w) \/ SendThrows(w) \/ SettleDocument(w)
    \/ SettleDocumentThrows(w) \/ SettleTwiml(w) \/ MarkAmbiguous(w) \/ ReturnTwiml(w)

Next ==
    \/ \E w \in Worker, s \in Sid : Begin(w, s)
    \/ \E w \in Worker : Admit(w) \/ Notify(w) \/ Reserve(w) \/ Send(w) \/ Crash(w)
    \/ NextDay
    \/ \E s \in Sid : BurstPasses(s)
    \/ \E p \in Policy : ChangePolicy(p)

Spec == Init /\ [][Next]_vars

-----------------------------------------------------------------------------
(* Properties *)

\* The units a period owes, from the rows of the ledger.
HeldIn(p) == {k \in Key : ledger[k].status \in Held /\ p \in Charged(k)}
SpentIn(p) == {k \in Key : ledger[k].status \in Spent /\ p \in Charged(k)}
AdmittedIn(p) == {s \in Sid : /\ admission[s].decision = "ADMITTED"
                              /\ p \in TurnPeriods(s, admission[s].day)}

\* The counters of every period row are the rows of the ledger that charge it,
\* through every race, rollback, release and crash: no unit is counted twice,
\* lost or given back twice, and the floors of the UPDATEs never bite
\* (admitTurnAtomic, reserveOutboundAtomic, finalizeOutboundReservation,
\* releaseOutboundIfReserved, markOutboundAmbiguous).
CountersMatchLedger ==
    \A p \in Periods :
        /\ period[p].reserved = Cardinality(HeldIn(p))
        /\ period[p].consumed = Cardinality(SpentIn(p))
        /\ period[p].turns = Cardinality(AdmittedIn(p))

\* No period ever holds more turns or units than the limit it was opened with,
\* whatever lanes compete for the last one (the CHECK constraints CK_wqep_turns_cap,
\* CK_wqep_outbounds_cap and CK_wqcp_outbounds_cap never have to stop an UPDATE).
WithinLimits ==
    \A p \in Periods :
        /\ period[p].turns <= period[p].turnLimit
        /\ period[p].reserved + period[p].consumed <= period[p].limit

\* A turn that sends under ENFORCE is on record and not as refused: neither a
\* second lane of its MessageSid nor a change of the settings lets a refused
\* turn through (findTurnAdmission, the DUPLICATE branch, insertTurnDecision).
SendersAreAdmitted ==
    \A w \in Worker :
        /\ Counts(w)
        /\ lane[w].step \notin {"idle", "lookup", "admit", "again", "refuse", "notice"}
        /\ lane[w].phase # "notice"
        => admission[lane[w].sid].decision \notin {"NONE", "REJECTED"}

\* An episode's notice is told once at most, and then it is on record as SENT:
\* of all the turns refused for one reason on one day, one hears of it.
OneNoticePerEpisode ==
    \A e \in Episode : told[e] = IF notice[e] = "SENT" THEN 1 ELSE 0

\* A unit is given back only before any provider call was made for its key
\* ("Release only when no provider effect was attempted").
RefundOnlyBeforeEffect ==
    [][\A k \in attempted :
         ledger'[k].status = "RELEASED" => ledger[k].status = "RELEASED"]_vars

\* What the quota documentation says of a unit: each non-empty TwiML and each
\* document sent under ENFORCE is one.  The code does not keep it: a RELEASED
\* key is handed out again as a reused reservation, and nothing is counted.
SentIsCounted ==
    \A k \in sent : ledger[k].status \in Held \cup Spent
=============================================================================
