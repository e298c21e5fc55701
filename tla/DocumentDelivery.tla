--------------------------- MODULE DocumentDelivery ---------------------------
(***************************************************************************)
(* The payroll receipts an employee asks for over WhatsApp: the delivery   *)
(* rows of one query (session, employee and period), the requests that     *)
(* claim and send them, the reconciliation of the doubtful ones by an      *)
(* administrator or by the provider's status callback, and the receipts    *)
(* that are replaced meanwhile.                                            *)
(*                                                                         *)
(* A request is one message of the employee; two of them, or one that      *)
(* Twilio delivers again, may be in progress at once.  A claim is a lease  *)
(* fenced by token and version until the send starts, and no lease at all  *)
(* after it.  Every database call and the provider's call is one action.   *)
(***************************************************************************)
EXTENDS Naturals, FiniteSets

CONSTANTS
    Receipt,        \* payroll receipts of one employee and period
    Request,        \* messages of the employee
    Operator,       \* reconciliation commands of administrators
    MaxVersion,     \* bound: claims and reconciliations of one row
    MaxChanges,     \* bound: receipts associated or removed later
    MaxFaults       \* bound: crashes, failed database calls

ASSUME DocumentAssumption ==
    IsFiniteSet(Receipt) /\ {MaxVersion, MaxChanges, MaxFaults} \subseteq Nat

VARIABLES
    associated, \* receipts ASSOCIATED and not deleted
    docRow,     \* whatsapp_payroll_receipt_query_deliveries of the session
    open,       \* the session still waits for a period
    lane,       \* the request each message has become
    order,      \* an administrator's command, by operator
    delivered,  \* history: documents the provider accepted, by receipt
    changes,
    faults

docVars == <<associated, docRow, open, lane, order, delivered, changes, faults>>

-----------------------------------------------------------------------------
Status == {"ABSENT", "PENDING", "PROCESSING", "SEND_STARTED", "ACCEPTED", "FAILED",
           "RECONCILIATION_REQUIRED"}
SendingStep == {"call", "taken", "accept", "doubt", "doubtKnown"}
DocStep == {"idle", "ensure", "list", "next", "authorize", "fail", "begin", "done",
            "dead"} \cup SendingStep

Row == [status: Status, version: 0 .. MaxVersion, live: BOOLEAN, sid: BOOLEAN]
Lane == [step: DocStep, listed: SUBSET Receipt, todo: SUBSET Receipt,
         at: Receipt, version: 0 .. MaxVersion]
Order == [step: {"none", "read", "done"}, at: Receipt, version: 0 .. MaxVersion]

DocTypeOK ==
    /\ associated \in SUBSET Receipt
    /\ docRow \in [Receipt -> Row]
    /\ open \in BOOLEAN
    /\ lane \in [Request -> Lane]
    /\ order \in [Operator -> Order]
    /\ delivered \in [Receipt -> Nat]
    /\ changes \in 0 .. MaxChanges
    /\ faults \in 0 .. MaxFaults

DocInit ==
    /\ associated \in (SUBSET Receipt) \ {{}}
    /\ docRow = [r \in Receipt |-> [status |-> "ABSENT", version |-> 0, live |-> FALSE,
                                    sid |-> FALSE]]
    /\ open = TRUE
    /\ \E r \in Receipt :
         /\ lane = [q \in Request |->
                      [step |-> "idle", listed |-> {}, todo |-> {}, at |-> r,
                       version |-> 0]]
         /\ order = [o \in Operator |-> [step |-> "none", at |-> r, version |-> 0]]
    /\ delivered = [r \in Receipt |-> 0]
    /\ changes = 0
    /\ faults = 0

-----------------------------------------------------------------------------
(* Helpers *)

LaneAt(q, step) == lane[q].step = step
LaneTo(q, step) == lane' = [lane EXCEPT ![q].step = step]
Mine(q) == lane[q].at
Sending(q, r) == lane[q].step \in SendingStep /\ Mine(q) = r

\* What a request knows ends with it.
LaneEnds(q, step) ==
    lane' = [lane EXCEPT ![q] = [@ EXCEPT !.step = step, !.listed = {}, !.todo = {},
                                          !.version = 0]]

\* The loop over the receipts goes on; what it saw only words the answer.
GoOn(q) == lane' = [lane EXCEPT ![q].step = "next", ![q].version = 0]

\* The row as the fenced UPDATEs of a claim see it.
Holds(q, status) ==
    docRow[Mine(q)].status = status /\ docRow[Mine(q)].version = lane[q].version

\* A fenced mark: nothing happens when the claim is lost.
Marked(q, from, to) ==
    IF Holds(q, from) THEN [docRow EXCEPT ![Mine(q)].status = to, ![Mine(q)].live = FALSE]
    ELSE docRow

-----------------------------------------------------------------------------
(* The receipts of the period *)

ReceiptsChange ==
    /\ changes < MaxChanges
    /\ changes' = changes + 1
    /\ \E r \in Receipt :
         associated' = IF r \in associated THEN associated \ {r} ELSE associated \cup {r}
    /\ UNCHANGED <<docRow, open, lane, order, delivered, faults>>

-----------------------------------------------------------------------------
(* deliverForPeriod *)

\* A message with a period, through an open session: listActiveAssociated.
AskForPeriod(q) ==
    /\ LaneAt(q, "idle")
    /\ open
    /\ lane' = [lane EXCEPT ![q].listed = associated, ![q].todo = associated,
                            ![q].step = IF associated = {} THEN "done" ELSE "ensure"]
    /\ open' = (associated # {})
    /\ UNCHANGED <<associated, docRow, order, delivered, changes, faults>>

\* INSERT ... WHERE EXISTS under the unique key, receipt by receipt.
EnsurePendingDeliveries(q) ==
    /\ LaneAt(q, "ensure")
    /\ docRow' = [r \in Receipt |->
                 IF r \in lane[q].listed \cap associated /\ docRow[r].status = "ABSENT"
                 THEN [docRow[r] EXCEPT !.status = "PENDING"] ELSE docRow[r]]
    /\ LaneTo(q, "list")
    /\ UNCHANGED <<associated, open, order, delivered, changes, faults>>

ListForQuery(q) ==
    /\ LaneAt(q, "list")
    /\ lane' = [lane EXCEPT ![q].step = "next",
                            ![q].todo = {r \in @ : docRow[r].status # "ACCEPTED"}]
    /\ UNCHANGED <<associated, docRow, open, order, delivered, changes, faults>>

\* MUTANT of MayClaim: a send that has started can be claimed again.
MayClaimStarted(r) ==
    \/ docRow[r].status \in {"PENDING", "FAILED", "SEND_STARTED"}
    \/ docRow[r].status = "PROCESSING" /\ ~docRow[r].live

MayClaim(r) ==
    \/ docRow[r].status \in {"PENDING", "FAILED"}
    \/ docRow[r].status = "PROCESSING" /\ ~docRow[r].live

\* The receipts are taken in the order of their creation.
NextReceipt(q) == CHOOSE r \in lane[q].todo : TRUE

ClaimForSend(q) ==
    /\ LaneAt(q, "next") /\ lane[q].todo # {}
    /\ LET r == NextReceipt(q) IN
       /\ MayClaim(r)
       /\ docRow[r].version < MaxVersion
       /\ docRow' = [docRow EXCEPT ![r].status = "PROCESSING", ![r].live = TRUE,
                             ![r].version = @ + 1]
       /\ lane' = [lane EXCEPT ![q].step = "authorize", ![q].at = r, ![q].todo = @ \ {r},
                               ![q].version = docRow[r].version + 1]
    /\ UNCHANGED <<associated, open, order, delivered, changes, faults>>

ClaimNotAcquired(q) ==
    /\ LaneAt(q, "next") /\ lane[q].todo # {}
    /\ ~MayClaim(NextReceipt(q))
    /\ lane' = [lane EXCEPT ![q].todo = @ \ {NextReceipt(q)}]
    /\ UNCHANGED <<associated, docRow, open, order, delivered, changes, faults>>

\* findAuthorizedActiveAssociatedForSend: the receipt and the session again.
Authorize(q) ==
    /\ LaneAt(q, "authorize")
    /\ LaneTo(q, IF open /\ Mine(q) \in associated THEN "begin" ELSE "fail")
    /\ UNCHANGED <<associated, docRow, open, order, delivered, changes, faults>>

\* No object, no signed URL or no quota: the send never starts.
CannotPrepare(q) ==
    /\ LaneAt(q, "begin")
    /\ LaneTo(q, "fail")
    /\ UNCHANGED <<associated, docRow, open, order, delivered, changes, faults>>

MarkFailedBeforeSend(q) ==
    /\ LaneAt(q, "fail")
    /\ docRow' = Marked(q, "PROCESSING", "FAILED")
    /\ GoOn(q)
    /\ UNCHANGED <<associated, open, order, delivered, changes, faults>>

\* onSendStarted: a lost claim stops the send.
MarkSendStarted(q) ==
    /\ LaneAt(q, "begin")
    /\ docRow' = Marked(q, "PROCESSING", "SEND_STARTED")
    /\ LaneTo(q, IF Holds(q, "PROCESSING") THEN "call" ELSE "fail")
    /\ UNCHANGED <<associated, open, order, delivered, changes, faults>>

ProviderAccepts(q) ==
    /\ LaneAt(q, "call")
    /\ delivered' = [delivered EXCEPT ![Mine(q)] = @ + 1]
    /\ LaneTo(q, "taken")
    /\ UNCHANGED <<associated, docRow, open, order, changes, faults>>

AnswerArrives(q) ==
    /\ LaneAt(q, "taken")
    /\ LaneTo(q, "accept")
    /\ UNCHANGED <<associated, docRow, open, order, delivered, changes, faults>>

\* An error after the send began is never told from a refusal, not even one of
\* the bookkeeping that follows the provider's answer.
SendFails(q) ==
    /\ lane[q].step \in {"call", "taken"}
    /\ LaneTo(q, "doubt")
    /\ UNCHANGED <<associated, docRow, open, order, delivered, changes, faults>>

MarkAccepted(q) ==
    /\ LaneAt(q, "accept")
    /\ docRow' = IF Holds(q, "SEND_STARTED")
              THEN [docRow EXCEPT ![Mine(q)].status = "ACCEPTED", ![Mine(q)].sid = TRUE]
              ELSE docRow
    /\ IF Holds(q, "SEND_STARTED") THEN GoOn(q) ELSE LaneTo(q, "doubtKnown")
    /\ UNCHANGED <<associated, open, order, delivered, changes, faults>>

\* The ledger could not be written: the sid is kept for the callback.
MarkAcceptedFails(q) ==
    /\ LaneAt(q, "accept")
    /\ faults < MaxFaults
    /\ faults' = faults + 1
    /\ LaneTo(q, "doubtKnown")
    /\ UNCHANGED <<associated, docRow, open, order, delivered, changes>>

MarkReconciliationRequired(q) ==
    /\ lane[q].step \in {"doubt", "doubtKnown"}
    /\ docRow' = IF Holds(q, "SEND_STARTED")
              THEN [docRow EXCEPT ![Mine(q)].status = "RECONCILIATION_REQUIRED",
                               ![Mine(q)].sid = @ \/ LaneAt(q, "doubtKnown")]
              ELSE docRow
    /\ GoOn(q)
    /\ UNCHANGED <<associated, open, order, delivered, changes, faults>>

\* The deliveries of the query that count, of receipts removed since as well.
Accepted == {r \in Receipt : docRow[r].status = "ACCEPTED"}

\* The second listForQuery: a full delivery ends the session.
Answer(q) ==
    /\ LaneAt(q, "next") /\ lane[q].todo = {}
    /\ LaneEnds(q, "done")
    /\ open' = (open /\ Cardinality(Accepted) # Cardinality(lane[q].listed))
    /\ UNCHANGED <<associated, docRow, order, delivered, changes, faults>>

\* The employee cancels the query, or its session expires.
CancelQuery ==
    /\ open
    /\ open' = FALSE
    /\ UNCHANGED <<associated, docRow, lane, order, delivered, changes, faults>>

-----------------------------------------------------------------------------
(* Reconciliation *)

\* The administrator looks at a doubtful delivery and asks the provider.
Inspect(o) ==
    /\ order[o].step = "none"
    /\ \E r \in Receipt :
         /\ docRow[r].status = "RECONCILIATION_REQUIRED"
         /\ order' = [order EXCEPT ![o] = [step |-> "read", at |-> r,
                                           version |-> docRow[r].version]]
    /\ UNCHANGED <<associated, docRow, open, lane, delivered, changes, faults>>

MayReconcile(o) ==
    /\ docRow[order[o].at].status = "RECONCILIATION_REQUIRED"
    /\ docRow[order[o].at].version = order[o].version

\* applyReconciliation: the version is the one the administrator saw.
Reconcile(o) ==
    LET r == order[o].at
        resolved == IF delivered[r] > 0 THEN "ACCEPTED" ELSE "PENDING" IN
    /\ order[o].step = "read"
    /\ order' = [order EXCEPT ![o].step = "done"]
    /\ docRow' = IF MayReconcile(o)
              THEN [docRow EXCEPT ![r].status = resolved, ![r].sid = resolved = "ACCEPTED",
                               ![r].version = @ + 1]
              ELSE docRow
    /\ docRow'[r].version <= MaxVersion
    /\ UNCHANGED <<associated, open, lane, delivered, changes, faults>>

\* A status callback with the sid of a doubtful delivery confirms it.
StatusCallback(r) ==
    /\ docRow[r].status = "RECONCILIATION_REQUIRED"
    /\ docRow[r].sid
    /\ docRow[r].version < MaxVersion
    /\ docRow' = [docRow EXCEPT ![r].status = "ACCEPTED", ![r].version = @ + 1]
    /\ UNCHANGED <<associated, open, lane, order, delivered, changes, faults>>

-----------------------------------------------------------------------------
(* Time and faults *)

ClaimLapses(r) ==
    /\ docRow[r].live
    /\ docRow' = [docRow EXCEPT ![r].live = FALSE]
    /\ UNCHANGED <<associated, open, lane, order, delivered, changes, faults>>

\* The process dies, or a call throws and the message's handler fails.
RequestDies(q) ==
    /\ lane[q].step \notin {"idle", "done", "dead"}
    /\ faults < MaxFaults
    /\ faults' = faults + 1
    /\ LaneEnds(q, "dead")
    /\ UNCHANGED <<associated, docRow, open, order, delivered, changes>>

-----------------------------------------------------------------------------
Deliver(q) ==
    \/ EnsurePendingDeliveries(q) \/ ListForQuery(q)
    \/ ClaimForSend(q) \/ ClaimNotAcquired(q) \/ Authorize(q) \/ CannotPrepare(q)
    \/ MarkFailedBeforeSend(q) \/ MarkSendStarted(q)
    \/ ProviderAccepts(q) \/ AnswerArrives(q) \/ SendFails(q)
    \/ MarkAccepted(q) \/ MarkReconciliationRequired(q) \/ Answer(q)

DocNext ==
    \/ \E q \in Request : AskForPeriod(q) \/ Deliver(q) \/ MarkAcceptedFails(q) \/ RequestDies(q)
    \/ \E o \in Operator : Inspect(o) \/ Reconcile(o)
    \/ \E r \in Receipt : StatusCallback(r) \/ ClaimLapses(r)
    \/ ReceiptsChange \/ CancelQuery

DocSpec == DocInit /\ [][DocNext]_docVars

-----------------------------------------------------------------------------
(* What the deliveries promise *)

\* As OneEffect sees it: asked for while the request that began is at it.
Phase(r) ==
    IF docRow[r].status = "ACCEPTED" THEN "done"
    ELSE IF \E q \in Request : Sending(q, r) THEN "asked"
    ELSE IF docRow[r].status \in {"SEND_STARTED", "RECONCILIATION_REQUIRED"} THEN "doubt"
    ELSE "open"

Effect == INSTANCE OneEffect WITH
    Item <- Receipt, phase <- [r \in Receipt |-> Phase(r)], effects <- delivered

\* Within one query a document is accepted by the provider at most once, and
\* one in doubt is sent again only after somebody found that it was not.
DocumentsAreOneEffect == Effect!Spec
=============================================================================
