---------------------------- MODULE WebhookInbox ----------------------------
(***************************************************************************)
(* The inbound WhatsApp webhook: the durable claim of a MessageSid, the    *)
(* message row, the handler and the closing of the claim.                  *)
(*                                                                         *)
(* Twilio may deliver one MessageSid several times, and several requests   *)
(* may be in flight for it at once.  A request is a "lane": it claims the  *)
(* row of whatsapp_webhook_events (one transaction, UPDLOCK + HOLDLOCK),   *)
(* looks for the row of whatsapp_messages, creates it, lets the bot handle *)
(* the message and closes the claim.  The claim is a lease of 120 seconds  *)
(* fenced by processing_version; every database call of a lane is one      *)
(* action, so that lanes interleave, fail and crash between any two calls. *)
(*                                                                         *)
(* Time is abstract: "live" says that processing_expires_at is in the      *)
(* future, "due" that next_attempt_at is NULL or past; LeaseLapses and     *)
(* RetryFallsDue move them.                                                *)
(***************************************************************************)
EXTENDS Naturals

CONSTANTS
    Sid,            \* MessageSids of one company
    Hash,           \* payload hashes
    Worker,         \* requests the backend can have in flight
    MaxAttempts,    \* max_attempts of an event row (8 in the schema)
    MaxDeliveries   \* bound: deliveries of one MessageSid by Twilio

ASSUME BoundsAssumption ==
    /\ MaxAttempts \in Nat \ {0}
    /\ MaxDeliveries \in Nat \ {0}

VARIABLES
    event,      \* whatsapp_webhook_events, by MessageSid
    message,    \* processing status of the whatsapp_messages row, by MessageSid
    recorded,   \* MessageSids with a committed domain row (source_message_sid)
    lane,       \* the request each worker is serving
    delivered,  \* how many deliveries of a MessageSid have started
    answered,   \* history: the replies Twilio has received, by MessageSid
    handled     \* history: MessageSids whose handler has returned a reply

vars == <<event, message, recorded, lane, delivered, answered, handled>>

-----------------------------------------------------------------------------
(* Replies.  A canned reply says nothing of the message's own outcome.      *)

Canned == {"DUPLICATE", "ERROR", "ANOMALY"}
Outcome == {"REGISTERED", "ALREADY_REGISTERED", "INFORMED"}
Reply == Canned \cup Outcome

(* Steps of a lane that holds (or held) a claim. *)
ClaimedStep == {"find", "dupMessage", "dupClose", "create", "handle",
                "messageDone", "close", "failEvent"}
Step == ClaimedStep \cup {"idle", "claim", "failMessage", "reply"}

EventStatus == {"ABSENT", "PROCESSING", "PROCESSED", "FAILED", "ANOMALY"}
MessageStatus == {"ABSENT", "RECEIVED", "PROCESSED", "FAILED", "DUPLICATE"}

Event == [status: EventStatus, hash: Hash, version: Nat, attempts: Nat,
          live: BOOLEAN, due: BOOLEAN, response: Reply \cup {"NONE"}]
Lane == [step: Step, sid: Sid, hash: Hash, version: Nat,
         reply: Reply \cup {"NONE"}]

TypeOK ==
    /\ event \in [Sid -> Event]
    /\ message \in [Sid -> MessageStatus]
    /\ recorded \in SUBSET Sid
    /\ lane \in [Worker -> Lane]
    /\ delivered \in [Sid -> 0 .. MaxDeliveries]
    /\ answered \in [Sid -> SUBSET Reply]
    /\ handled \in SUBSET Sid

Init ==
    /\ \E h \in Hash :
         event = [s \in Sid |-> [status |-> "ABSENT", hash |-> h, version |-> 0,
                                 attempts |-> 0, live |-> FALSE, due |-> TRUE,
                                 response |-> "NONE"]]
    /\ message = [s \in Sid |-> "ABSENT"]
    /\ recorded = {}
    /\ \E s \in Sid, h \in Hash :
         lane = [w \in Worker |-> [step |-> "idle", sid |-> s, hash |-> h,
                                   version |-> 0, reply |-> "NONE"]]
    /\ delivered = [s \in Sid |-> 0]
    /\ answered = [s \in Sid |-> {}]
    /\ handled = {}

-----------------------------------------------------------------------------
(* Helpers *)

At(w, step) == lane[w].step = step

Goto(w, step) == lane' = [lane EXCEPT ![w].step = step]

\* The lane has its reply; the HTTP response is still to be written.
ReplyWith(w, r) == lane' = [lane EXCEPT ![w].step = "reply", ![w].reply = r]

\* The row as the UPDATE of markProcessed and markFailed sees it.
OwnsClaim(w) ==
    /\ event[lane[w].sid].status = "PROCESSING"
    /\ event[lane[w].sid].version = lane[w].version

-----------------------------------------------------------------------------
(* Deliveries and the claim: claimInboundMessage is one transaction that    *)
(* locks the row, so each of its outcomes is one action.                    *)

Deliver(w, s, h) ==
    /\ At(w, "idle")
    /\ delivered[s] < MaxDeliveries
    /\ delivered' = [delivered EXCEPT ![s] = @ + 1]
    /\ lane' = [lane EXCEPT ![w] = [step |-> "claim", sid |-> s, hash |-> h,
                                    version |-> 0, reply |-> "NONE"]]
    /\ UNCHANGED <<event, message, recorded, answered, handled>>

ClaimFirst(w) ==
    LET s == lane[w].sid IN
    /\ At(w, "claim")
    /\ event[s].status = "ABSENT"
    /\ event' = [event EXCEPT ![s] =
                   [status |-> "PROCESSING", hash |-> lane[w].hash, version |-> 1,
                    attempts |-> 1, live |-> TRUE, due |-> TRUE, response |-> "NONE"]]
    /\ lane' = [lane EXCEPT ![w].step = "find", ![w].version = 1]
    /\ UNCHANGED <<message, recorded, delivered, answered, handled>>

\* Whatever the row's status, another payload turns it into an anomaly.
ClaimOtherPayload(w) ==
    LET s == lane[w].sid IN
    /\ At(w, "claim")
    /\ event[s].status # "ABSENT"
    /\ event[s].hash # lane[w].hash
    /\ event' = [event EXCEPT ![s].status = "ANOMALY", ![s].live = FALSE]
    /\ ReplyWith(w, "ANOMALY")
    /\ UNCHANGED <<message, recorded, delivered, answered, handled>>

SamePayload(w) ==
    /\ At(w, "claim")
    /\ event[lane[w].sid].status # "ABSENT"
    /\ event[lane[w].sid].hash = lane[w].hash

\* IDEMPOTENT_REPLAY: the stored response is sent again.
ClaimReplay(w) ==
    LET s == lane[w].sid IN
    /\ SamePayload(w)
    /\ event[s].status = "PROCESSED"
    /\ ReplyWith(w, event[s].response)
    /\ UNCHANGED <<event, message, recorded, delivered, answered, handled>>

ClaimAnomalous(w) ==
    /\ SamePayload(w)
    /\ event[lane[w].sid].status = "ANOMALY"
    /\ ReplyWith(w, "ANOMALY")
    /\ UNCHANGED <<event, message, recorded, delivered, answered, handled>>

\* A live claim, or a failed one that is not due yet, is somebody else's.
InProgress(s) ==
    \/ event[s].status = "PROCESSING" /\ event[s].live
    \/ event[s].status = "FAILED" /\ event[s].attempts < MaxAttempts /\ ~event[s].due

Exhausted(s) == event[s].status = "FAILED" /\ event[s].attempts >= MaxAttempts

ClaimRefused(w) ==
    /\ SamePayload(w)
    /\ InProgress(lane[w].sid) \/ Exhausted(lane[w].sid)
    /\ ReplyWith(w, "DUPLICATE")
    /\ UNCHANGED <<event, message, recorded, delivered, answered, handled>>

\* MUTANT of Reclaimable: any row without a live lease may be claimed again.
ReclaimableUnleased(s) == ~event[s].live

\* An expired PROCESSING claim has no attempt cap; a FAILED one has.
Reclaimable(s) ==
    \/ event[s].status = "PROCESSING" /\ ~event[s].live
    \/ event[s].status = "FAILED" /\ event[s].attempts < MaxAttempts /\ event[s].due

Reclaim(w) ==
    LET s == lane[w].sid IN
    /\ SamePayload(w)
    /\ Reclaimable(s)
    /\ event' = [event EXCEPT ![s].status = "PROCESSING", ![s].live = TRUE,
                              ![s].version = @ + 1, ![s].attempts = @ + 1,
                              ![s].due = TRUE]
    /\ lane' = [lane EXCEPT ![w].step = "find", ![w].version = event[s].version + 1]
    /\ UNCHANGED <<message, recorded, delivered, answered, handled>>

-----------------------------------------------------------------------------
(* The duplicate path: a message row that exists already, from whatever     *)
(* attempt, is never handled again.                                         *)

FindMessage(w) ==
    /\ At(w, "find")
    /\ Goto(w, IF message[lane[w].sid] = "ABSENT" THEN "create" ELSE "dupMessage")
    /\ UNCHANGED <<event, message, recorded, delivered, answered, handled>>

MarkMessageDuplicate(w) ==
    /\ At(w, "dupMessage")
    /\ message' = [message EXCEPT ![lane[w].sid] = "DUPLICATE"]
    /\ Goto(w, "dupClose")
    /\ UNCHANGED <<event, recorded, delivered, answered, handled>>

-----------------------------------------------------------------------------
(* markProcessed: UPDATE ... WHERE status = PROCESSING AND version = mine,  *)
(* and WEBHOOK_CLAIM_LOST when it matched no row.                           *)

\* MUTANT of CloseClaim: the UPDATE filters by id alone.
CloseClaimUnfenced(w, r) ==
    /\ event' = [event EXCEPT ![lane[w].sid].status = "PROCESSED",
                              ![lane[w].sid].response = r,
                              ![lane[w].sid].live = FALSE]
    /\ ReplyWith(w, r)

CloseClaim(w, r) ==
    IF OwnsClaim(w)
    THEN /\ event' = [event EXCEPT ![lane[w].sid].status = "PROCESSED",
                                   ![lane[w].sid].response = r,
                                   ![lane[w].sid].live = FALSE]
         /\ ReplyWith(w, r)
    ELSE /\ Goto(w, "failEvent")
         /\ UNCHANGED event

CloseDuplicate(w) ==
    /\ At(w, "dupClose")
    /\ CloseClaim(w, "DUPLICATE")
    /\ UNCHANGED <<message, recorded, delivered, answered, handled>>

Close(w) ==
    /\ At(w, "close")
    /\ CloseClaim(w, lane[w].reply)
    /\ UNCHANGED <<message, recorded, delivered, answered, handled>>

-----------------------------------------------------------------------------
(* The normal path *)

\* The unique index on message_sid turns a second INSERT into a read: both
\* lanes go on, neither knows of the other.
CreateMessage(w) ==
    LET s == lane[w].sid IN
    /\ At(w, "create")
    /\ message' = [message EXCEPT ![s] = IF @ = "ABSENT" THEN "RECEIVED" ELSE @]
    /\ Goto(w, "handle")
    /\ UNCHANGED <<event, recorded, delivered, answered, handled>>

HandlerReturns(w, r) ==
    /\ At(w, "handle")
    /\ lane' = [lane EXCEPT ![w].step = "messageDone", ![w].reply = r]
    /\ handled' = handled \cup {lane[w].sid}

\* The handler commits a domain row that carries the MessageSid.
HandleRegisters(w) ==
    /\ HandlerReturns(w, "REGISTERED")
    /\ lane[w].sid \notin recorded
    /\ recorded' = recorded \cup {lane[w].sid}
    /\ UNCHANGED <<event, message, delivered, answered>>

\* MUTANT of HandleFindsRegistered: any refused insert is taken for the second.
HandleFindsRegisteredUnchecked(w) ==
    /\ HandlerReturns(w, "ALREADY_REGISTERED")
    /\ UNCHANGED <<event, message, recorded, delivered, answered>>

\* The unique index on source_message_sid refuses the second row.
HandleFindsRegistered(w) ==
    /\ HandlerReturns(w, "ALREADY_REGISTERED")
    /\ lane[w].sid \in recorded
    /\ UNCHANGED <<event, message, recorded, delivered, answered>>

\* Menus, queries, refusals, and errors the handler answers itself.
HandleInforms(w) ==
    /\ HandlerReturns(w, "INFORMED")
    /\ UNCHANGED <<event, message, recorded, delivered, answered>>

MarkMessageProcessed(w) ==
    /\ At(w, "messageDone")
    /\ message' = [message EXCEPT ![lane[w].sid] = "PROCESSED"]
    /\ Goto(w, "close")
    /\ UNCHANGED <<event, recorded, delivered, answered, handled>>

WriteReply(w) ==
    /\ At(w, "reply")
    /\ answered' = [answered EXCEPT ![lane[w].sid] = @ \cup {lane[w].reply}]
    /\ Goto(w, "idle")
    /\ UNCHANGED <<event, message, recorded, delivered, handled>>

-----------------------------------------------------------------------------
(* Errors.  Any database call may throw; the catch block marks the event,   *)
(* then the message, and answers the generic error with HTTP 200.           *)

\* The transaction of the claim throws: there is no event id to mark.
ClaimThrows(w) ==
    /\ At(w, "claim")
    /\ Goto(w, "failMessage")
    /\ UNCHANGED <<event, message, recorded, delivered, answered, handled>>

CallThrows(w) ==
    /\ lane[w].step \in ClaimedStep \ {"failEvent"}
    /\ Goto(w, "failEvent")
    /\ UNCHANGED <<event, message, recorded, delivered, answered, handled>>

\* The UPDATE of markFailed throws and the error is only logged.
MarkFailedThrows(w) ==
    /\ At(w, "failEvent")
    /\ Goto(w, "failMessage")
    /\ UNCHANGED <<event, message, recorded, delivered, answered, handled>>

MarkFailed(w) ==
    LET s == lane[w].sid IN
    /\ At(w, "failEvent")
    /\ IF OwnsClaim(w)
       THEN event' = [event EXCEPT ![s].status = "FAILED", ![s].live = FALSE,
                                   ![s].due = (event[s].attempts >= MaxAttempts)]
       ELSE UNCHANGED event
    /\ Goto(w, "failMessage")
    /\ UNCHANGED <<message, recorded, delivered, answered, handled>>

MarkMessageFailed(w) ==
    LET s == lane[w].sid IN
    /\ At(w, "failMessage")
    /\ \/ message' = [message EXCEPT ![s] = IF @ = "ABSENT" THEN @ ELSE "FAILED"]
       \/ UNCHANGED message
    /\ ReplyWith(w, "ERROR")
    /\ UNCHANGED <<event, recorded, delivered, answered, handled>>

-----------------------------------------------------------------------------
(* The environment: crashes and the clock. *)

\* The process of the request dies; its claim stays until the lease lapses.
Crash(w) ==
    /\ ~At(w, "idle")
    /\ Goto(w, "idle")
    /\ UNCHANGED <<event, message, recorded, delivered, answered, handled>>

LeaseLapses(s) ==
    /\ event[s].status = "PROCESSING"
    /\ event[s].live
    /\ event' = [event EXCEPT ![s].live = FALSE]
    /\ UNCHANGED <<message, recorded, lane, delivered, answered, handled>>

RetryFallsDue(s) ==
    /\ event[s].status = "FAILED"
    /\ ~event[s].due
    /\ event' = [event EXCEPT ![s].due = TRUE]
    /\ UNCHANGED <<message, recorded, lane, delivered, answered, handled>>

-----------------------------------------------------------------------------
Claim(w) ==
    \/ ClaimFirst(w) \/ ClaimOtherPayload(w) \/ ClaimReplay(w)
    \/ ClaimAnomalous(w) \/ ClaimRefused(w) \/ Reclaim(w) \/ ClaimThrows(w)

Process(w) ==
    \/ FindMessage(w) \/ MarkMessageDuplicate(w) \/ CloseDuplicate(w)
    \/ CreateMessage(w) \/ HandleRegisters(w) \/ HandleFindsRegistered(w)
    \/ HandleInforms(w) \/ MarkMessageProcessed(w) \/ Close(w) \/ WriteReply(w)

Recover(w) ==
    CallThrows(w) \/ MarkFailed(w) \/ MarkFailedThrows(w) \/ MarkMessageFailed(w)

Next ==
    \/ \E w \in Worker, s \in Sid, h \in Hash : Deliver(w, s, h)
    \/ \E w \in Worker : Claim(w) \/ Process(w) \/ Recover(w) \/ Crash(w)
    \/ \E s \in Sid : LeaseLapses(s) \/ RetryFallsDue(s)

Spec == Init /\ [][Next]_vars

-----------------------------------------------------------------------------
(* Properties *)

\* Every reply Twilio has received for a MessageSid, other than a canned one,
\* is the stored response: however many lanes ran, and whichever of them were
\* overtaken, one outcome at most was ever told (markProcessed's version guard,
\* WEBHOOK_CLAIM_LOST and the IDEMPOTENT_REPLAY branch).
OneOutcomeTold ==
    \A s \in Sid : answered[s] \ Canned \subseteq {event[s].response}

\* An outcome that confirms a registration is told only when the domain row
\* is there: no replay, retry or overtaken lane confirms what was not saved.
ConfirmedIsRecorded ==
    \A s \in Sid :
        answered[s] \cap {"REGISTERED", "ALREADY_REGISTERED"} # {} => s \in recorded

\* Two lanes never hold the same version of one MessageSid's claim, whatever
\* the order of lapses, failures and reclaims (processing_version fences).
DistinctVersions ==
    \A v, w \in Worker :
        /\ v # w
        /\ lane[v].step \in ClaimedStep
        /\ lane[w].step \in ClaimedStep
        /\ lane[v].sid = lane[w].sid
        => lane[v].version # lane[w].version

\* Two lanes are past the claim of one MessageSid only after a lease lapsed or
\* an attempt failed: a first attempt that is still live runs alone.
AloneOnFirstAttempt ==
    \A v, w \in Worker :
        /\ v # w
        /\ lane[v].step \in ClaimedStep
        /\ lane[w].step \in ClaimedStep
        /\ lane[v].sid = lane[w].sid
        => event[lane[v].sid].attempts > 1

\* A closed event keeps its response for ever; only a delivery with another
\* payload may still turn it into an anomaly, and nothing reopens it.
ClosedStaysClosed ==
    [][\A s \in Sid :
         event[s].status = "PROCESSED" =>
            /\ event'[s].status \in {"PROCESSED", "ANOMALY"}
            /\ event'[s].response = event[s].response]_vars

\* What the comment "Reclaim expired PROCESSING or retryable FAILED" and the
\* reply "Ya procesamos tu mensaje anterior." promise: an event is PROCESSED
\* only when some attempt's handler has returned.  The code does not keep it:
\* after a failure or crash that left the message row, the reclaiming lane
\* takes the row for a duplicate and closes the event.
ProcessedMeansHandled ==
    \A s \in Sid : event[s].status = "PROCESSED" => s \in handled
=============================================================================
