# Verification of Dinamic Localizador

Dinamic Localizador is a multi-company back office for field staff: operations
with shifts, assignments and workdays, attendance taken over WhatsApp with a
location, absences and their balances, payroll receipts, alerts and reports. The
backend is a Node/TypeScript service over SQL Server; several processes may run
at once, and every process runs the background jobs. This directory holds TLA+
models of the parts whose correctness depends on the order of things: what
happens between two statements of two requests, after a crash, after a lease ran
out, or after Twilio did not answer.

Paths below are relative to `src/backend/src` unless they start with `docs/` or
`database/`. `PROJECT.json` lists every component with its files, the lines each
definition stands for, the hazards at their lines, the runs, the mutants and the
theorems.

## 1. Inventory

### 1.1 Components

| component | state it keeps | operations | model |
|---|---|---|---|
| WhatsApp webhook intake | `whatsapp_webhook_events`, `whatsapp_messages` | claim, replay, reclaim, close, fail | `WebhookInbox` |
| WhatsApp usage quotas | period rows, turn admissions, outbound reservations, limit notices | admit, reserve, start, settle, release, notify | `UsageQuota` |
| Payroll query deliveries | `whatsapp_payroll_receipt_query_deliveries` | claim, start, send, settle, reconcile | `DocumentDelivery`; its quota side in `UsageQuota` |
| Absence requests and balances | `absence_requests`, balances, movements | create, correct, review, reserve, consume, adjust, reverse, switch the ledger on | `AbsenceBalance` |
| Absence workday sync | sync jobs, `employee_workdays`, conflicts | enqueue, claim, reconcile, settle, recover | `AbsenceSync` |
| Workdays and their materialization | `operation_workdays`, `employee_workdays` | passes, edits, exceptions, cancellation, reactivation | `WorkdayPlan` |
| Attendance confirmation | reminder rows, durable contexts, sessions, assignment | claim, gate, send, record, recover, reply, reschedule | `AttendanceConfirmation` |
| Check-in and check-out, bot sessions, router | `bot_sessions`, attendance records | one handler per state, corrections, reviews | `AttendanceDay` |
| Coverage and replacement | replacement requests, coverage events, seats | report, offer, answer, cover, cancel | `VacancyCoverage` |
| Administrator alerts | notification outbox, threshold state and queue | enqueue, claim, send, sweep, cut over; mark dirty, evaluate, recover | `AlertDelivery`, `ThresholdAlert` |
| Company deletion | company status, lease, stage | deactivate, reactivate, claim, purge | `CompanyDeletion` |
| Daily report | runs, deliveries | tick, generate, mail, command by hand | `ReportRun` |
| Operations, shifts, assignments | schedules, exceptions, assignments | their effects on workdays and reminders | in `WorkdayPlan`, `AttendanceConfirmation`, `VacancyCoverage` |

Not modelled: the operation lifecycle job, upload and storage of receipts and
attachments, retention, the message cost ledger, outbound contexts of other
message kinds, companies and settings, identity, employees, work teams, services
and locations, imports, recommendations, statistics, audit, logs, rate limits,
front end, public site, scripts and migrations. The reason is the same nearly
everywhere: one aggregate edited in one transaction, a read, a pure computation
over text, dates or real numbers, or tooling. `PROJECT.json` says it for each.
No component is called *modelled* without qualification: each leaves out some
operation, which its note names. The mapped lines are about a tenth of the
implementation; the rest is queries, validation, wording and screens.

### 1.2 How they interact

Twilio calls the webhook. The intake claims the MessageSid, resolves company and
employee and hands the turn to the router, which asks the quota for admission
and dispatches on text and session to a handler; the handler commits a domain row
that carries the MessageSid, and the answer goes back through the quota's
outbound reservation. Three other flows write the same rows: requests of the
panel, which run what they can inline after their transaction; jobs, started at
fixed intervals under an application lock and an `isRunning` flag; and the
provider's own retries. Nothing is held across a call to Twilio or to the mail
server: every protocol is a row with a status, an owner and a version, moved by
conditional UPDATEs.

### 1.3 What is hard here

* **Overlap.** Leases run out while their holder is only slow; an application
  lock is lost with its connection; Twilio delivers a message again while the
  first request runs; two processes run one job. The code relies on versions,
  tokens and unique indexes, and in places on nothing.
* **Partial failure.** A handler commits and closing its claim fails; the
  message is sent and recording it fails; one of three concurrent batches fails
  and the others go on after the error was handled.
* **Stale reads.** Candidates, sessions, schedules and logical keys are read
  before the transaction that uses them; a materialization pass writes row by
  row on what it read at its beginning.
* **Undecided effects.** Twilio may time out after taking the message.
* **Settings that move.** Quotas, schedules, absences, calendars and recipients
  change while work started under the old ones is in flight.

## 2. Modules

In every module a *lane* is one activity of the backend, a request, a run of a
job, a message in handling, with its program position and local variables. One
action is one statement or one transaction; between two actions of a lane any
other may run, fail or die. Transactions that lock what they read first are one
action; reads outside a transaction are actions of their own. Time is abstract: a
lease, a retry date or a stale limit may run out at any moment after it was set.
Operators whose comment begins with *MUTANT* are plausible bugs of the definition
they name; no specification uses them.

| module | what it is |
|---|---|
| `WebhookInbox` | `event` (status, version, response), `message`, `recorded`; a lane walks `claim → find → create → handle → messageDone → close → reply`, or the duplicate path. `ClaimFirst`, `ClaimOtherPayload`, `ClaimReplay`, `ClaimAnomalous`, `ClaimRefused`, `Reclaim` are the branches of `claimInboundMessage`; `CloseClaim` is `markProcessed` with its version guard. The handler is reduced to what the claim can tell apart. |
| `UsageQuota` | `period` rows with the limits they were opened with, `ledger` of reservations by logical key, `admission`, `notice`. `AdmitTurn`, `AdmitDuplicate`, `AdmitBlocked`, `Refuse`, `ShadowTurn` are `admitNonCriticalTurn`; `ReadKey` and `Take…` are `reserveOutbound`, read and transaction apart. A lane answers with one TwiML or runs a payroll query. |
| `AbsenceBalance` | the requests of one employee, `balance` and `moves` by type and year, a `desk` per request being handled. What is read before the row's lock is a step of its own (`Prepare`, `BeginEdit`, `BeginReversal`). |
| `AbsenceSync` | review and job in one action, then `List`, the two concurrent reads of `Context`, the three batches of `Write` in any order, the conflicts, and the closing of the job, inline or fenced by a worker's lease. `Throws` loses one batch of a rejected `Promise.all` while the others continue as strays. |
| `WorkdayPlan` | the row of one day and its seats; a `pass` reads the schedule, the day, the rows and the seats and writes them one by one. `Multi` chooses between an operation with one shift (numbered schedules, compare-and-set) and with several (numbered days, date exceptions). |
| `AttendanceConfirmation` | `note`, `context`, `session`, `assignment` and the numbered starts of the operation; a sender walks `claim → (insert → again) → begin → gate → session → final → prepare → send → record → markSent` with the exits of `sendReminderForCandidate`; a reply starts from the session or from a sent reminder. |
| `AttendanceDay` | the sessions of one phone, the handlers of its messages, the attendance rows, a `clerk` who corrects and reviews. `located` says whether a location is required. |
| `VacancyCoverage` | reports of unavailability, candidates, buttons, coverage from the panel, materialization and approved absences over one day. |
| `AlertDelivery` | outbox rows, batches of workers, the start mark, the provider, sweeps, the cutover to the daily e-mail. |
| `ThresholdAlert` | attendance, dirty mark, evaluation queue, stored band, crossing and its alert. |
| `DocumentDelivery` | the delivery rows of one payroll query with token and version, their requests and reconciliation. |
| `CompanyDeletion` | deactivation, grace, lease, the stages of a purge, reactivation. |
| `ReportRun` | run and deliveries with leases, attempts and backoffs of their own, ticks, commands by hand. |
| `OneEffect` | what a delivery queue promises of an effect outside the database; `AlertDelivery` and `DocumentDelivery` implement it. |
| `<module>_proofs` | the theorems, see section 6; `Alerts_proofs` holds those of `AlertDelivery` and `ThresholdAlert`, `Days_proofs` those of `WorkdayPlan` and `AbsenceSync`, `Operations_proofs` those of `DocumentDelivery`, `CompanyDeletion`, `VacancyCoverage` and `ReportRun` |

The MC modules give the instances. Components that share no row are checked in
one run, one at a time: `part` is chosen at the beginning, the chosen component
takes its steps and the others rest at their initial state, so the states of the
run are the sum of the components' and not their product. The parts of a
component differ in constants, so that two questions that need different bounds
do not pay for each other. A component whose theorem states a
property of the run is EXTENDed by the MC module, the others are INSTANCEd. Where a
liveness property is asked of one part, its fairness is conditional on the part (`WF(part = … /\ …)`).

## 3. Runs

Every run is exhaustive within its bounds.

| run | states | parts and what they ask |
|---|---|---|
| `inbox` | ≈ 1.14 M | *inbox*: three requests for one MessageSid with two payloads, every error, crash and lapse between any two calls. At most one outcome is told (`OneOutcomeTold`), a confirmation has its row (`ConfirmedIsRecorded`), a closed event stays closed (`ClosedStaysClosed`). *limits*: three turns of two employees at the last turn and the last unit while limits rise (`TurnsCompeteWithinLimits`). |
| `ledgers` | ≈ 2.10 M | *pilot*, *closed*: two lanes of one MessageSid, two documents and a text, over midnight, settings moving between ENFORCE, SHADOW and a hard block (`CountersMatchLedger`, `SendersAreAdmitted`, `WithinLimits`, `RefundOnlyBeforeEffect`). Two requests of one employee: *desks*, created, edited and reviewed at once, of a type that deducts and one that does not; *switch*, one at a time while the ledger is switched on and the calendar changes; *chat*, brought and edited by messages. *office*: one request, of a type that needs no approval but a file too, beside manual movements and their reversal (`DaysAreHeld`, `AbsencesAreDisjoint`). What a part leaves out (`Only`, `NoManual`, `NoneSentBack`, `OneDesk`) is said in the next-state relation, so that all parts check one module with one set of constants. |
| `absence_leases` | 2,923,351 | *queue*: one job disputed by an inline run and two workers, a late edit, two faults (`ClosedMeansReconciled`, `SyncIsRetried`). *single*, *several*, *terms*: overlapping passes, two editors, status changes, date exceptions, a second assignment of one employee (`VersionsRise`). |
| `settles` | 349,050 | Mostly liveness. *queue*: `JobsLeave`, `AbsencesReachDays`. *days*: two absences of one day that is rescheduled, an inline run and a materialization with snapshots of both (`JustifiedIsBacked`, `AbsencesSettle`). *shift*, *arrival*: `ReminderSettles`. *edits*, *status*, *shifts*: `PlansSettle`. |
| `reminders` | 6,779,392 | *senders*: two senders, two faults, an undecided Twilio, a check-in, the start and the end of the operation (`EveryMessageIsCounted`, `OverlapOnlyWhenStale`, `OpenQuestionWasAsked`, `AcceptedOnce`). *replies*: two replies, a sender, two schedule versions, a cancelled assignment (`AnswersAreFinal`). The combination of both, replies beside starts and reschedules of a started operation, is covered by the theorems. |
| `queues` | 344,735 | *alerts*: two batches, expired leases, crashes, a cutover (`AcceptedIsNotDenied`, `AlertsAreOneEffect`, `NoSendAfterCutover`, `AlertsDrain`). *thresholds*: `QuietMeansCurrent`, `CrossingsAreAlerted`. *deletions*: `DeletionsEnd`. *reports*: `RecipientsAreAnswered`. |
| `operations` | ≈ 2.10 M | *day*: three messages of one employee over two days and a clerk (`OneMarkPerMessage`, `MarksEndTheirSession`, `FirstExitStands`). *documents*: two requests, a replaced receipt, a reconciliation (`DocumentsAreOneEffect`). *vacancy*: `RepliesKeepTheHeadcount`, `ButtonsKeepTheirMeaning`. *deletions*: two administrators, two purges, two companies (`TombstoneMeansEmpty`). *reports*: two administrators and a tick (`SentMeansMailed`). |
| `inbox_retry`, `quota_reused`, `one_cover`, `report_retry`, `balance_reversal` | violation | section 7 |

Deadlock is not checked where the system may stop: all deliveries were made, all
lanes are idle, nothing is left to answer.

### 3.1 Bounds and why they are enough

* Lanes: two or three of each kind, which is the one that works, the one that
  overtakes it and the one that finds what they left. More lanes repeat these
  roles; for the properties of section 6 the theorems hold for any number.
* Attempts (`MaxAttempts = 2`, in the code 3 to 8): first, last. Versions
  (`MaxVersion` 2 or 3): the one a lane read and the one that overtook it.
* Faults (`MaxFaults` 1 or 2): one error or crash at any point; lanes are tied by
  rows only, and one fault reaches every state of the rows. `reminders` has two,
  because a fault of the send and one of its recording are needed together.
* Quotas: limits 1 to 3 put the last unit within reach of every lane; two
  documents and two days let a unit be released between two documents and a
  reservation of yesterday be settled today.
* Balances: days 1 and 2 lie in different years; one day is assigned per type and
  year, so two requests compete for it; one correction per request (two versions).
* `Ceiling` stops reminder rows from being reclaimed for ever: the code has no cap
  on stale pending rows. It cuts behaviours, so liveness is stated of leaving
  PENDING and checked with a ceiling above what the faults can consume.
* Symmetry is used on lanes, repliers and hashes, never in runs with liveness.

### 3.2 Fairness

A call in progress goes on unless it dies (the event loop runs it); a job ticks at
fixed intervals in every process, so a due row is claimed and an expired lease
recovered; time passes, so a lease whose holder is dead runs out, a retry falls
due and a grace period ends. All of it is weak fairness: each step stays enabled
until it is taken. Messages, edits, administrators, Twilio and errors owe
nothing. In `WorkdayPlan` a pass begins again and again (the daily job); in
`CompanyDeletion` a lease runs out only when its holder is gone. A command by hand
in `ReportRun` is a request in progress and as fair as a tick.

## 4. Properties by hazard

`PROJECT.json` maps every hazard to its properties. The ones that took most to
get right, and what they say of the code:

* `OneOutcomeTold`: the generic error and the duplicate text may be told at any
  time, but of the real outcomes at most one, and that is the stored one. It rests
  on the version in `markProcessed`: a lane that was overtaken cannot answer.
* `CountersMatchLedger`: counters and ledger rows move in one transaction each;
  crashes leave units reserved, never miscounted, and the `CASE WHEN > 0` floors
  never bite.
* `DaysAreHeld`: reserved and consumed days are those of the open and approved
  requests, although days are counted again under another calendar, moved to another
  type or year, and the ledger may be switched on while requests are open. It rests
  on a movement being keyed by the version of its request.
* `SyncIsRetried`, `ClosedMeansReconciled`: who was told that synchronization will
  be retried has a row that will be; and a job closed by whichever of the inline run
  and the workers came first leaves no covered workday expected.
* `VersionsRise`, `PlansSettle`: passes that overlap never take the number of a day
  back, and once edits stop a workday ends up as schedule, exceptions and assignments
  have it. Every exception to the second is one of the divergences of section 7.
* `AcceptedOnce`: its exceptions are the cases in which the code does send twice.
* `OpenQuestionWasAsked`: without errors no session waits for the answer to a
  question that was not sent, although the reminder is superseded between the
  creation of the session and the send.
* `OneMarkPerMessage`, `MarksEndTheirSession`: sessions are updated by state and not
  by version, and two messages of one phone run at once; the state is enough where a
  location is required, and only there.
* `AlertsAreOneEffect`, `DocumentsAreOneEffect`: both queues implement `OneEffect`:
  what the provider performs is performed once, nothing is asked again while its
  outcome is in doubt, "done" is never said of what did not happen.
* `NoSendAfterCutover`: its exception, a row inserted while the transaction of the
  cutover is open, is real.
* `RepliesKeepTheHeadcount`, `ButtonsKeepTheirMeaning`: buttons and reports never seat
  more than the day has places, and a button that a manager holds still means the
  candidate it was sent for.

## 5. Refinement

`OneEffect` has four phases per item (open, asked, done, doubt) and a count of
effects. The mapping of `AlertDelivery` is by row (`Phase`): a row is asked while a
worker is between the start mark and the outcome, done once an accepted message is
recorded, in doubt when the sweep or a lost answer left it. `DocumentDelivery` maps a
row of the session likewise, with the fence of token and version in the place of the
owner. TLC checks both mappings, and both are proved.

## 6. Proofs

All theorems are checked by TLAPS for every value of the constants that satisfies
the named assumption of the module.

**WebhookInbox_proofs.** `TypeCorrect`, `OneOutcome`, `ConfirmedRecorded`,
`VersionFences`, `FirstAttemptAlone`, `ClosedForGood`. `IInv` adds what a lane knows
of the row it claimed: its version was reached, attempts and versions move together,
a response is stored exactly when the event closes, a reply about to be written is
canned or the stored one, and a confirmation in a lane or row has its domain row.
`OneOutcome` follows because `CloseClaim` stores and announces in one step under the
version guard, and only an open claim has one.

**UsageQuota_proofs.** `TypeCorrect`, `CountersAreLedger`, `LimitsHold`;
`SendersHaveDecision`, `RefundsAreEarly`, `NoticesAreSingle`, `UnitsGoForward`,
`DecisionsAreFinal`. The first three follow from `TypeOK /\ PhaseUnits /\ Books`. Their
heart are four lemmas on how the set of ledger rows that charge a period changes when
one row changes class (`SameClass`, `TakenClass`, `FreedClass`, `SpentClass`), with the
cardinality theorems of the library. The others need to know what a lane carries from
an earlier row: that units and decisions only go forward (`StatusesForward`,
`DecisionsStand`, both also theorems) makes what a lane read stay true, and `TInv`
says what that is: the decision it stands on (`Course`), the units whose attempt was
started (`AttemptsMoved`), the reason it was refused for (`Reasons`) and the notice it
is about to tell (`NoticesHeld`).

**AttendanceConfirmation_proofs.** `TypeCorrect`, `MessagesCounted`,
`SendersOverlapWhenStale`, `SentIsAccepted`, `QuestionAsked`, `AnswersFinal`,
`MessagesAcceptedOnce`. Every step is first reduced to one of three kinds: a claim,
which counts an attempt and hands its number to the sender; a move of one sender,
which keeps its row and number or gives both up; or a step that leaves senders and
messages alone. The invariant adds that a stale row is recorded as aged and a failed
one that never aged has no sender left, that a sender past the acceptance has its
message, and that an open question has its message, a blocked context or a sender
still asking. For `AcceptedOnce` it adds `OneContext`: while nothing failed and the
start of a version is not past, a sender that may send has its context prepared and
nothing sent, and a message without a blocking context has a sender about to block it.
The attempt to prove it showed that an earlier form of the model, in which a
reschedule made a start that had passed future again for the row of the old version,
did not have the property outside the bounds of the run; starts are numbered since.

**AttendanceDay_proofs.** `Invariance`, `TypeCorrect`, `MessagesMarkOnce`,
`MarksNeedTheirSession`, `ExitsStand`. The session is compared by state only, so the
invariant has to say what a handler may rely on while others run: which message
created the session it holds, that a location it carries is the one the session keeps,
that a handler which opens a session is the only one to work under its name
(`Conversation`), and that a message whose SID is on a record is done or its session
has ended (`MarksUsedUp`). Every step is a turn of one message with one effect on
the rows, a step of the clerk, or one of the world beside them.

**Alerts_proofs.** Of `AlertDelivery`: `TypeCorrect`, `AttemptsAreOrdered`, `ImplementsOneEffect`,
`LeasesHold`, `AcceptedStands`, `CutoverStops`. `Typed` says a worker past its claims
has a row; `Attempts` ties the status of a row and of its attempt to what was delivered
and to the step of the one worker that sends it; from both, every step is a step of
`OneEffect` or a stutter. `Leases` says of a row whose lease was never swept under its
worker that it is in one place of one queue and belongs to it; `CutOff` says of the
time during and after the cutover that what it suppressed is closed.
Of `ThresholdAlert`: `ThresholdTypeCorrect`, `QuietThresholds`. The state row is not fenced,
so the invariant follows the queue's lease instead. `Measured` says what the owner of the row
has measured is so still, unless a change still waits for its mark, since the mark takes the
lease away. `Alone` says that without overlap one evaluator at most is between its claim and its
write, nobody but the owner when the row has one, and nobody when the row is gone; then
nothing stale is written after the owner, and the row it deletes leaves a current band.

**AbsenceBalance_proofs.** `Invariance`, `TypeCorrect`, `BalancesAreRequests`,
`AbsencesNeverMeet`, for any number of requests, types, days, years and desks, with the
ledger on or switched on meanwhile. `DaysAreHeld` compares a column of the balance with a
sum over the requests that entered the ledger, so every step has to move both by the same
days, in each type and year. Three facts carry it. `Numbered`: movements of a request come
with the ledger on and with a version the request has reached, and while it is open nothing
but its reservation bears its present version, so what an edit or a review posts meets
no earlier key and is posted in full. `Counting`: a request has a day that counts, so one
that is ledgered does enter. `Editing`: who corrects a request holds its row, alone, and it
stays open meanwhile, so no review comes in between. The guard of
`HoldsAll` is needed for one thing: only a request that entered is settled, so one opened
before the ledger was switched on cannot take days it never reserved.
The sums are the fold of the community modules; that a sum changes by what one element
changes (`TotalRemove`, `TotalSame`, `TotalDiffers`) is proved by taking a smallest finite
set that fails, since strict inclusion of finite sets is well-founded, and so needs no
induction theorem with an operator parameter.

**Operations_proofs.** Four of the components of `MCOperations`. `DocumentsTyped`,
`ClaimsAreFenced`, `ImplementsOneEffect` are about `DocumentDelivery`. The invariant
`Fenced` says what token and version are worth: claims of one row bear different versions,
the row has reached each of them, and a request between its start mark and its outcome
holds the row's own, so it is alone; the row's status and its sid say how often the
provider took the document. Every step is then a step of `OneEffect` on one receipt (a
sender's start, the provider's answer, an outcome, the death of a sender, what a
reconciliation or a callback found out) or a stutter. `DeletionInvariance` and
`TombstonesAreLast` are about `CompanyDeletion`. `TombstoneMeansEmpty` is not inductive:
the check before a tombstone and the tombstone are two steps. `StagesFit` says what a
number of a stage is worth (`Done`): the stages before it have left no object queued, no
rows, no settings. It is claimed for the stage in the row of every company under deletion
and for the stage of the purge that owns one. A purge that was overtaken goes on with its
work, but work only removes (`WorkKeepsDone`), and data comes back only while the company
is active, when no stage is claimed and nobody owns it.
`VacancyTypeCorrect`, `RepliesSwapPlaces` and `ButtonsStay` are about `VacancyCoverage`.
With the types `RepliesKeepTheHeadcount` is inductive, since a button that assigns takes one
seat for the one it released in the same transaction (`OneForOne`, on cardinalities) and an
approved absence only takes seats away; everything else either leaves who is expected alone
or counts as a change of the office. The types cost more than the theorem: the
parent of a request is a CHOOSE of a largest number, which is a request only because finitely
many numbers have a largest one (`LargestOf`, once more by a smallest finite set that fails).
`ReportTypeCorrect` and `ReportsAreMailed` are about `ReportRun`. A lease that was lost is
no reason to stop, so the invariant speaks of whoever still owns what it writes: the holder
of a delivery holds one of the last snapshot or one whose recipient was mailed, and who
is about to mark has mailed (`Counted`); the last audience has its deliveries or a command
has deleted all of them (`Provided`); and the holder of the run that counted everything as
sent is right (`Complete`), which is where a regeneration between its count and its mark
has to take the run away from it.

**Days_proofs.** Of `WorkdayPlan`: `TypeCorrect`, `VersionsNeverFall`. A pass that is about to
write has read a row whose number was no higher than the row's is now (`Grounded`),
and every write is a compare-and-set or adds one.
Of `AbsenceSync`: `SyncTypeCorrect`, `AbsencesBackDays`, `ClosedJobsAreDone`,
`RetriesAreKept`, for any number of requests, days, callers, workers and materializations.
None of the three safety properties is inductive, since a reconciliation reads in three
statements and writes in three, and every one of them may meet a table that others have
changed. `SyncInv` joins what the tables say of each other (`StoresFit`) with what a
call may rely on (`CallFits`). Half of it is that what was read stays usable: reviews are
never undone, so an absence read as approved is one (`Listed`, `KnownFit`), and a one-time
day read as excused still is; therefore a change that was decided on is one the table may take
at any time, late, alone or as a stray (`TodoFits`), and a one-time day is never restored. The
other half follows the days an approval has to excuse from statement to statement (`Need`,
`Advances`): each was loaded, each is excused, attended or about to be justified once the
reads are in, and each is excused or attended when the last batch of a run that did not fail
is written. Only then may the run close a row, and the same is said of the conflicts
(`Announces`). `RetriesAreKept` needs that every reviewed request keeps a row nobody has given
up (`Pursued`): an `enqueue` that gives up the rows of an older version inserts the one
that replaces them; a manual reconciliation sweeps and inserts in two statements, but what it
gives up is behind the request, or, when the version it read was overtaken, the row that was
there when it read it is. What all steps leave standing is stated once (`Grows`), so that a call which does
not move keeps what it relies on by one lemma (`CallStands`). TLC checked `SyncInv` on
small instances before it was proved.

**What stays with TLC.** Liveness and whatever needs ENABLED. Of the safety
properties of the runs one has no theorem that names it: `TurnsCompeteWithinLimits` is
`WithinLimits` of a second instance of `UsageQuota`, with its two notices; its theorems are `LimitsHold` and
`NoticesAreSingle`. The properties of the five violations are not proved, since the code
does not keep them. Some theorems state what no run checks by itself, among them
`FirstAttemptAlone`, `VersionFences`, `SentIsAccepted`, `LeasesHold`, `AttemptsAreOrdered`
and `ClaimsAreFenced`.

## 7. Where code and documentation disagree

Five are shown by runs and are in `PROJECT.json` "findings":

* A retried message is not handled (`inbox_retry`). The claim of a failed event is
  granted again, but the message row of the first attempt makes the second take it
  for a duplicate.
* A released outbound key is used without being counted (`quota_reused`). The insert
  that fails on the unique key hands out the released row.
* A vacancy is covered twice (`one_cover`): a manager's button writes no coverage
  event, so the panel does not see it.
* A report whose generation failed once is never generated (`report_retry`): it gets
  a next attempt that no tick claims.
* A manual movement is reversed twice (`balance_reversal`): the second reversal meets
  the duplicate key after it has moved the balance, and commits.

Others were met while modelling; the models do what the code does.

**Intake and quotas.**
* After a quota failure in SHADOW the notice carries a reservation id that the guard
  does not recognise as empty, and the turn ends in an error
  (`services/whatsapp/whatsapp-bot.service.ts:683`).

**Reminders and replies.**
* After an outage of SQL Server that lasts from the send to the recovery mark a
  reminder is sent again, though the context is meant to prevent it
  (`services/whatsapp/whatsapp-system-interaction.service.ts:80`).
* A reminder prepared when its start has passed gets no durable context, so an
  undecided send of it may be repeated; a later reschedule does not undo that. This is
  an exception of `AcceptedOnce`.
* `applyConfirmationReply` (`attendance-confirmation-response.handler.ts:166`) does not
  look at the message of the service and confirms to an employee whose assignment is
  UNAVAILABLE.
* For a materialized workday a "no" sets `unavailable_at` only; a later "yes" still
  confirms, against `employee-workday.service.ts:241` ("opposite reply does not flip").
  `unavailable_at` also survives a reschedule.
* A session opened for an old schedule confirms the new one, although the durable
  lookup insists on "current schedule only" (`attendance-notification.repository.ts:1184`).

**Workdays.** Passes of one operation are not kept apart: only the daily job has a
lock. The fairness of `PlansSettle` therefore comes with these exceptions, each of
which leaves a day or a seat as it should not be until somebody edits it:
* a cancellation's reconciliation that runs after or across a reactivation, or a crash
  between a reactivation's commit and its own, leaves the day or a seat cancelled; a
  pass begun before a cancellation leaves active days on a cancelled operation;
* `updateRecurring` reads the version before its transaction
  (`operation.service.ts:811`, used at `:906`), so an overtaken edit takes the
  schedule's number back and days with the newer number are never updated;
* a RESTORE exception bumps the day's version on every pass
  (`operation-shift-workday-reconcile.service.ts:301`), against "Materialization is
  idempotent" (`operation-assignment.service.ts:131`), and each bump re-opens reminders;
* with several shifts a day cancelled by the schedule with a number above 1 is never
  reactivated; a stale pass with a CANCEL exception after a TIME_OVERRIDE leaves the
  day cancelled, a stale update undoes a CANCEL for the day and not for its seats, and
  RESTORE revives seats whose assignment was cancelled meanwhile; deactivating the only
  shift leaves its days active (`recurring-workday-materialization.service.ts:534`);
* after an assignment ended, a new one of the same employee over later dates is never
  expected (`isRecoverableCancelledExpectation` looks at `cancelledAt` only); a seat
  inserted by a stale pass for a cancelled assignment makes every later pass of the
  operation throw `EMPLOYEE_WORKDAY_ASSIGNMENT_MISMATCH` once the employee is reassigned;
* attendance between a pass's read and its cancellation leaves an attended seat
  cancelled; a seat inserted on a day cancelled meanwhile stays expected.

**Absences.**
* The version bump of an edit runs after its transaction
  (`absence-request.service.ts:805`). When an approval comes in between, the worker
  supersedes the only job and the promised retry never happens.
* A check-in decides on the absence conflict from a candidate read before its
  transaction (`employee-workday-attendance.command.ts:171`), so one that races an
  approval leaves an arrival on a justified day without conflict, against
  `docs/commercial-audit/07-incidents-and-replacements.md:30`.
* Enabling the ledger checks only the projections: requests opened before hold no
  reservation and can afterwards be neither approved, rejected, cancelled nor edited
  (`ABSENCE_RESERVATION_NOT_FOUND`), and days approved before are not consumed.
* The legacy upsert changes granted days without a movement, and the granted sum of the
  ledger ignores reversals. Legacy approval counts all days in the year of the start. An
  edit locks row then employee, a creation the other way round: one becomes the victim.

**Check-in and check-out.** Where no location is required two racing replies can both
act. An exit without arrival raced by an arrival is answered "Tu salida ya había sido
registrada" (`employee-workday-checkout.command.ts:303`). A second bare location closes
the session of an exit without arrival. A review decision is overwritten by an edit of
the arrival begun before it. Manual marks record neither conflict nor dirty mark.

**Coverage.** The horizon materialization brings back the covered titular's seat
(`employee-workday-recovery.ts:34`). Cancelling a cover made by a button does not reopen
its request; reopening while another is pending breaks the unique index; an employee
whose cover was cancelled cannot cover that day again; a reopened request whose other
candidates were rejected cannot be answered; `getAvailability` ignores `unavailable_at`.

**Alerts.** Dirty marks do not reset `attempt_count`; overlapping evaluators write stale
state; a crash on the last attempt of an alert leaves PENDING; manual corrections mark
nothing. A row inserted while the cutover's transaction is open escapes it
(`admin-alert-cutover.service.ts:77`).

**Payroll documents.** "Completed" compares counts
(`payroll-receipt-period-query.service.ts:56`) and can count receipts removed or replaced
during the session.

**Company deletion.** Reactivation from DELETION_FAILED is allowed, though
`docs/company-lifecycle-deletion.md:35` shows PENDING_DELETION only. The delete of an
overtaken purge can commit on a company brought back meanwhile
(`company-lifecycle.service.ts:398`). Deactivation reads the status before its
transaction. A purge that fails at the check for emptiness resumes there and never
deletes again.

**Reports.** A lane that holds an old snapshot after losing its lease goes on claiming
deliveries of the regenerated one; the delete of a second command that read SKIPPED makes
a mailed run end FAILED without deliveries (`daily-attendance-report.service.ts:744`); a
crash between the last mark and the finalization leaves PARTIAL for ever; recovering
expired deliveries ignores their attempts; a disabled report burns attempts. Mail is at
least once, as the service says (`:27`).

## 8. What is left out of the models

* Resolution of company and employee, texts, media, geofences, punctuality, ranking of
  candidates and calendar arithmetic are choices of the environment.
* `UsageQuota`: mode OFF, critical turns, exempt and held turns; the delivery rows of
  documents (they are `DocumentDelivery`).
* `AbsenceBalance`: half days and counting modes are reduced to which days count.
  `AbsenceSync`: a workday has one assignment; chunks of 200 rows are one statement.
* `WorkdayPlan`: one date; justified seats (they are `AbsenceSync`'s).
* `AttendanceConfirmation`: the arrival, exit and no-check-in reminders, which share the
  claim; the menu path, which calls the same service functions.
* `ReportRun`: what the report says, the choice of dates, the monthly report; the two
  summaries at the end are one read.
* `AttendanceDay`: one-time operations without a workday. `VacancyCoverage`: one day.

## 9. Plan

1. Attachments: reservation, upload, finalization and cleanup race with each other.
2. The operation lifecycle and the monthly report.
