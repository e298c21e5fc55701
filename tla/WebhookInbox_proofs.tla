------------------------- MODULE WebhookInbox_proofs -------------------------
(***************************************************************************)
(* Theorems about WebhookInbox, for every set of MessageSids, hashes and   *)
(* workers and every bound.  None of the invariants is inductive alone:    *)
(* IInv adds what the lanes in flight know of the row they claimed.        *)
(***************************************************************************)
EXTENDS WebhookInbox, TLAPS

Confirmation == {"REGISTERED", "ALREADY_REGISTERED"}

\* A lane past the claim holds a version the row has reached.
VersionsReached ==
    \A w \in Worker :
        lane[w].step \in ClaimedStep =>
            /\ event[lane[w].sid].status # "ABSENT"
            /\ 1 <= lane[w].version
            /\ lane[w].version <= event[lane[w].sid].version

\* Every claim counts one attempt.
AttemptPerVersion == \A s \in Sid : event[s].attempts = event[s].version

\* A response is stored exactly when the event closes.
ResponseOnClose ==
    \A s \in Sid :
        /\ event[s].status \in {"ABSENT", "PROCESSING", "FAILED"}
              => event[s].response = "NONE"
        /\ event[s].status = "PROCESSED" => event[s].response # "NONE"

\* What a lane has ready to say.
ReadyReply ==
    \A w \in Worker :
        /\ lane[w].step \in {"messageDone", "close"} => lane[w].reply \in Outcome
        /\ lane[w].step = "reply" =>
              /\ lane[w].reply \in Reply
              /\ lane[w].reply \notin Canned =>
                    lane[w].reply = event[lane[w].sid].response

\* A confirmation in a lane or in a row has its domain row.
ConfirmationBacked ==
    /\ \A w \in Worker :
          lane[w].step \in {"messageDone", "close", "reply"}
          /\ lane[w].reply \in Confirmation => lane[w].sid \in recorded
    /\ \A s \in Sid : event[s].response \in Confirmation => s \in recorded

Claims == VersionsReached /\ AttemptPerVersion /\ DistinctVersions
Answers == ResponseOnClose /\ ReadyReply /\ OneOutcomeTold

IInv == TypeOK /\ Claims /\ Answers /\ ConfirmationBacked /\ ConfirmedIsRecorded

-----------------------------------------------------------------------------
(* Effects of the steps several actions share, record field by record field *)

\* Goto moves one lane and leaves what it carries.
LEMMA GotoEffect ==
  ASSUME TypeOK, NEW w \in Worker, NEW step \in Step, Goto(w, step)
  PROVE  /\ lane' \in [Worker -> Lane]
         /\ lane'[w].step = step
         /\ lane'[w].sid = lane[w].sid
         /\ lane'[w].version = lane[w].version
         /\ lane'[w].reply = lane[w].reply
         /\ \A v \in Worker \ {w} : lane'[v] = lane[v]
BY DEF TypeOK, Goto, Lane

\* ReplyWith gives one lane its reply and leaves the rest of it.
LEMMA ReplyEffect ==
  ASSUME TypeOK, NEW w \in Worker, NEW r \in Reply \cup {"NONE"}, ReplyWith(w, r)
  PROVE  /\ lane' \in [Worker -> Lane]
         /\ lane'[w].step = "reply"
         /\ lane'[w].sid = lane[w].sid
         /\ lane'[w].reply = r
         /\ \A v \in Worker \ {w} : lane'[v] = lane[v]
BY DEF TypeOK, ReplyWith, Lane, Step

\* CloseClaim either closes the lane's own claim or sends the lane to the
\* catch block; no other row and no other lane changes.
LEMMA CloseEffect ==
  ASSUME TypeOK, NEW w \in Worker, NEW r \in Reply \cup {"NONE"}, CloseClaim(w, r)
  PROVE  /\ OwnsClaim(w) =>
              /\ event' \in [Sid -> Event]
              /\ event'[lane[w].sid].status = "PROCESSED"
              /\ event'[lane[w].sid].response = r
              /\ event'[lane[w].sid].version = event[lane[w].sid].version
              /\ event'[lane[w].sid].attempts = event[lane[w].sid].attempts
              /\ \A s \in Sid \ {lane[w].sid} : event'[s] = event[s]
              /\ ReplyWith(w, r)
         /\ ~OwnsClaim(w) => Goto(w, "failEvent") /\ event' = event
<1>1. event \in [Sid -> Event] /\ lane[w].sid \in Sid
  BY DEF TypeOK, Lane
<1>2. CASE OwnsClaim(w)
  <2>1. event' = [event EXCEPT ![lane[w].sid].status = "PROCESSED",
                               ![lane[w].sid].response = r,
                               ![lane[w].sid].live = FALSE]
    BY <1>2 DEF CloseClaim
  <2>2. event' \in [Sid -> Event]
    BY <1>1, <2>1 DEF Event, EventStatus
  <2>3. /\ event'[lane[w].sid].status = "PROCESSED"
        /\ event'[lane[w].sid].response = r
        /\ event'[lane[w].sid].version = event[lane[w].sid].version
        /\ event'[lane[w].sid].attempts = event[lane[w].sid].attempts
    BY <1>1, <2>1 DEF Event
  <2>4. \A s \in Sid \ {lane[w].sid} : event'[s] = event[s]
    BY <1>1, <2>1
  <2> QED
    BY <1>2, <2>2, <2>3, <2>4 DEF CloseClaim
<1>3. CASE ~OwnsClaim(w)
  BY <1>3 DEF CloseClaim
<1> QED
  BY <1>2, <1>3

\* Reclaim raises the version and the attempts of one row by one.
LEMMA ReclaimEffect ==
  ASSUME TypeOK, NEW w \in Worker, Reclaim(w), NEW s \in Sid, s = lane[w].sid
  PROVE  /\ event' \in [Sid -> Event]
         /\ lane' \in [Worker -> Lane]
         /\ event'[s].status = "PROCESSING"
         /\ event'[s].version = event[s].version + 1
         /\ event'[s].attempts = event[s].attempts + 1
         /\ event'[s].response = event[s].response
         /\ \A q \in Sid \ {s} : event'[q] = event[q]
         /\ lane'[w].step = "find"
         /\ lane'[w].sid = s
         /\ lane'[w].version = event[s].version + 1
         /\ \A v \in Worker \ {w} : lane'[v] = lane[v]
BY DEF TypeOK, Reclaim, Lane, Event, EventStatus, Step, ClaimedStep

-----------------------------------------------------------------------------
(* Type correctness *)

LEMMA TypeStep == TypeOK /\ ReadyReply /\ [Next]_vars => TypeOK'
<1> SUFFICES ASSUME TypeOK, ReadyReply, [Next]_vars PROVE TypeOK'
  OBVIOUS
<1> USE DEF TypeOK
<1>1. ASSUME NEW w \in Worker, NEW s \in Sid, NEW h \in Hash, Deliver(w, s, h)
      PROVE  TypeOK'
  <2>1. lane' \in [Worker -> Lane]
    BY <1>1 DEF Deliver, Lane, Step
  <2>2. delivered' \in [Sid -> 0 .. MaxDeliveries]
    BY <1>1, BoundsAssumption DEF Deliver
  <2> QED
    BY <1>1, <2>1, <2>2 DEF Deliver
<1>2. ASSUME NEW w \in Worker, ClaimFirst(w) PROVE TypeOK'
  <2>1. event' \in [Sid -> Event]
    <3>1. lane[w].hash \in Hash
      BY DEF Lane
    <3> QED
      BY <1>2, <3>1 DEF ClaimFirst, Event, EventStatus
  <2>2. lane' \in [Worker -> Lane]
    BY <1>2 DEF ClaimFirst, Lane, Step, ClaimedStep
  <2> QED
    BY <1>2, <2>1, <2>2 DEF ClaimFirst
<1>3. ASSUME NEW w \in Worker, ClaimOtherPayload(w) PROVE TypeOK'
  <2>1. event' \in [Sid -> Event]
    BY <1>3 DEF ClaimOtherPayload, Event, EventStatus
  <2>2. lane' \in [Worker -> Lane]
    BY <1>3, ReplyEffect DEF ClaimOtherPayload, Reply, Canned
  <2> QED
    BY <1>3, <2>1, <2>2 DEF ClaimOtherPayload
<1>4. ASSUME NEW w \in Worker,
             ClaimReplay(w) \/ ClaimAnomalous(w) \/ ClaimRefused(w)
      PROVE  TypeOK'
  <2>1. PICK r \in Reply \cup {"NONE"} : ReplyWith(w, r)
    BY <1>4 DEF ClaimReplay, ClaimAnomalous, ClaimRefused, Reply, Canned, Event, Lane
  <2> QED
    BY <1>4, <2>1, ReplyEffect DEF ClaimReplay, ClaimAnomalous, ClaimRefused
<1>5. ASSUME NEW w \in Worker, Reclaim(w) PROVE TypeOK'
  <2>1. lane[w].sid \in Sid
    BY DEF Lane
  <2> QED
    BY <1>5, <2>1, ReclaimEffect DEF Reclaim
<1>6. ASSUME NEW w \in Worker,
             \/ ClaimThrows(w) \/ FindMessage(w) \/ CallThrows(w)
             \/ MarkFailedThrows(w) \/ Crash(w)
      PROVE  TypeOK'
  <2>1. PICK step \in Step : Goto(w, step)
    BY <1>6 DEF ClaimThrows, FindMessage, CallThrows, MarkFailedThrows, Crash,
                Step, ClaimedStep
  <2> QED
    BY <1>6, <2>1, GotoEffect
       DEF ClaimThrows, FindMessage, CallThrows, MarkFailedThrows, Crash
<1>7. ASSUME NEW w \in Worker,
             MarkMessageDuplicate(w) \/ CreateMessage(w) \/ MarkMessageProcessed(w)
      PROVE  TypeOK'
  <2>1. PICK step \in Step : Goto(w, step)
    BY <1>7 DEF MarkMessageDuplicate, CreateMessage, MarkMessageProcessed,
                Step, ClaimedStep
  <2>2. message' \in [Sid -> MessageStatus]
    BY <1>7 DEF MarkMessageDuplicate, CreateMessage, MarkMessageProcessed, MessageStatus
  <2> QED
    BY <1>7, <2>1, <2>2, GotoEffect
       DEF MarkMessageDuplicate, CreateMessage, MarkMessageProcessed
<1>8. ASSUME NEW w \in Worker,
             HandleRegisters(w) \/ HandleFindsRegistered(w) \/ HandleInforms(w)
      PROVE  TypeOK'
  <2>1. PICK r \in Reply :
          lane' = [lane EXCEPT ![w].step = "messageDone", ![w].reply = r]
    BY <1>8 DEF HandleRegisters, HandleFindsRegistered, HandleInforms,
                HandlerReturns, Reply, Outcome
  <2>2. lane' \in [Worker -> Lane]
    BY <2>1 DEF Lane, Step, ClaimedStep
  <2> QED
    BY <1>8, <2>2 DEF HandleRegisters, HandleFindsRegistered, HandleInforms,
                      HandlerReturns, Lane
<1>9. ASSUME NEW w \in Worker, CloseDuplicate(w) \/ Close(w) PROVE TypeOK'
  <2>1. PICK r \in Reply \cup {"NONE"} : CloseClaim(w, r)
    BY <1>9 DEF CloseDuplicate, Close, Lane, Reply, Canned
  <2>2. lane' \in [Worker -> Lane] /\ event' \in [Sid -> Event]
    BY <2>1, CloseEffect, ReplyEffect, GotoEffect DEF Step, ClaimedStep
  <2> QED
    BY <1>9, <2>2 DEF CloseDuplicate, Close
<1>10. ASSUME NEW w \in Worker, WriteReply(w) PROVE TypeOK'
  <2>1. lane[w].sid \in Sid /\ lane[w].reply \in Reply
    BY <1>10 DEF WriteReply, At, ReadyReply, Lane
  <2>2. answered' \in [Sid -> SUBSET Reply]
    BY <1>10, <2>1 DEF WriteReply
  <2> QED
    BY <1>10, <2>2, GotoEffect DEF WriteReply, Step
<1>11. ASSUME NEW w \in Worker, MarkFailed(w) PROVE TypeOK'
  <2>1. event' \in [Sid -> Event]
    BY <1>11 DEF MarkFailed, Event, EventStatus
  <2> QED
    BY <1>11, <2>1, GotoEffect DEF MarkFailed, Step
<1>12. ASSUME NEW w \in Worker, MarkMessageFailed(w) PROVE TypeOK'
  <2>1. message' \in [Sid -> MessageStatus]
    BY <1>12 DEF MarkMessageFailed, MessageStatus
  <2> QED
    BY <1>12, <2>1, ReplyEffect DEF MarkMessageFailed, Reply, Canned
<1>13. ASSUME NEW s \in Sid, LeaseLapses(s) \/ RetryFallsDue(s) PROVE TypeOK'
  <2>1. event' \in [Sid -> Event]
    <3>1. CASE LeaseLapses(s)
      BY <3>1 DEF LeaseLapses, Event
    <3>2. CASE RetryFallsDue(s)
      BY <3>2 DEF RetryFallsDue, Event
    <3> QED
      BY <1>13, <3>1, <3>2
  <2> QED
    BY <1>13, <2>1 DEF LeaseLapses, RetryFallsDue
<1>14. CASE UNCHANGED vars
  BY <1>14 DEF vars
<1> QED
  BY <1>1, <1>2, <1>3, <1>4, <1>5, <1>6, <1>7, <1>8, <1>9, <1>10, <1>11, <1>12,
     <1>13, <1>14 DEF Next, Claim, Process, Recover

-----------------------------------------------------------------------------
(* The claim is a fence *)

LEMMA ClaimsStep ==
  ASSUME TypeOK, TypeOK', Claims, [Next]_vars
  PROVE  Claims'
<1>t. /\ event \in [Sid -> Event] /\ lane \in [Worker -> Lane]
      /\ event' \in [Sid -> Event] /\ lane' \in [Worker -> Lane]
  BY DEF TypeOK
<1> USE DEF Claims, VersionsReached, AttemptPerVersion, DistinctVersions
<1>1. ASSUME NEW w \in Worker, NEW s \in Sid, NEW h \in Hash, Deliver(w, s, h)
      PROVE  Claims'
  BY <1>1, <1>t DEF Deliver, ClaimedStep
<1>2. ASSUME NEW w \in Worker, ClaimFirst(w) PROVE Claims'
  BY <1>2, <1>t DEF ClaimFirst, ClaimedStep, Event, Lane
<1>3. ASSUME NEW w \in Worker, ClaimOtherPayload(w) PROVE Claims'
  BY <1>3, <1>t DEF ClaimOtherPayload, ReplyWith, ClaimedStep, Event, Lane
<1>4. ASSUME NEW w \in Worker,
             ClaimReplay(w) \/ ClaimAnomalous(w) \/ ClaimRefused(w)
      PROVE  Claims'
  <2>1. PICK r \in Reply \cup {"NONE"} : ReplyWith(w, r)
    BY <1>4, <1>t DEF ClaimReplay, ClaimAnomalous, ClaimRefused, Reply, Canned,
         Event, Lane
  <2>2. event' = event
    BY <1>4 DEF ClaimReplay, ClaimAnomalous, ClaimRefused
  <2>3. lane'[w].step \notin ClaimedStep /\ \A v \in Worker \ {w} : lane'[v] = lane[v]
    BY <2>1, ReplyEffect DEF ClaimedStep
  <2> QED
    BY <2>2, <2>3, <1>t
<1>5. ASSUME NEW w \in Worker, Reclaim(w) PROVE Claims'
  <2>1. PICK s \in Sid : s = lane[w].sid
    BY <1>t DEF Lane
  <2>2. /\ \A q \in Sid : event[q].version \in Nat /\ event[q].attempts \in Nat
        /\ \A v \in Worker : lane[v].sid \in Sid /\ lane[v].version \in Nat
    BY <1>t DEF Event, Lane
  <2>3. \A q \in Sid : event[q].version <= event'[q].version
    BY <1>5, <2>1, <2>2, ReclaimEffect
  <2>4. lane'[w].version = event[s].version + 1 /\ lane'[w].sid = s
    BY <1>5, <2>1, ReclaimEffect
  <2>5. \A v \in Worker \ {w} : lane'[v] = lane[v]
    BY <1>5, <2>1, ReclaimEffect
  <2>6. VersionsReached'
    <3>1. \A q \in Sid : event[q].status # "ABSENT" => event'[q].status # "ABSENT"
      BY <1>5, <2>1, ReclaimEffect
    <3>2. event'[s].status # "ABSENT" /\ event'[s].version = event[s].version + 1
      BY <1>5, <2>1, ReclaimEffect
    <3> SUFFICES ASSUME NEW v \in Worker, lane'[v].step \in ClaimedStep
                 PROVE  /\ event'[lane'[v].sid].status # "ABSENT"
                        /\ 1 <= lane'[v].version
                        /\ lane'[v].version <= event'[lane'[v].sid].version
      OBVIOUS
    <3>3. CASE v = w
      BY <2>1, <2>2, <2>4, <3>2, <3>3
    <3>4. CASE v # w
      <4>1. lane'[v] = lane[v] /\ lane[v].sid \in Sid
        BY <2>2, <2>5, <3>4
      <4>2. event[lane[v].sid].version <= event'[lane[v].sid].version
        BY <2>3, <4>1
      <4>3. event'[lane[v].sid].version \in Nat
        BY <1>t, <4>1 DEF Event
      <4> QED
        BY <2>2, <3>1, <4>1, <4>2, <4>3
    <3> QED
      BY <3>3, <3>4
  <2>7. AttemptPerVersion'
    BY <1>5, <2>1, <2>2, ReclaimEffect
  <2>8. DistinctVersions'
    BY <2>1, <2>2, <2>4, <2>5
  <2> QED
    BY <2>6, <2>7, <2>8
<1>6. ASSUME NEW w \in Worker,
             \/ ClaimThrows(w) \/ CallThrows(w) \/ FindMessage(w)
             \/ MarkMessageDuplicate(w) \/ CreateMessage(w)
             \/ MarkMessageProcessed(w) \/ WriteReply(w)
             \/ MarkFailedThrows(w) \/ Crash(w)
      PROVE  Claims'
  <2>1. PICK step \in Step : Goto(w, step)
    BY <1>6 DEF ClaimThrows, CallThrows, FindMessage, MarkMessageDuplicate,
         CreateMessage, MarkMessageProcessed, WriteReply, MarkFailedThrows, Crash,
         Step, ClaimedStep
  <2>2. step \in ClaimedStep => lane[w].step \in ClaimedStep
    BY <1>6, <2>1, <1>t DEF ClaimThrows, CallThrows, FindMessage,
         MarkMessageDuplicate, CreateMessage, MarkMessageProcessed, WriteReply,
         MarkFailedThrows, Crash, Goto, At, ClaimedStep, Lane
  <2>3. event' = event
    BY <1>6 DEF ClaimThrows, CallThrows, FindMessage, MarkMessageDuplicate,
         CreateMessage, MarkMessageProcessed, WriteReply, MarkFailedThrows, Crash
  <2> QED
    BY <2>1, <2>2, <2>3, <1>t, GotoEffect DEF Lane
<1>7. ASSUME NEW w \in Worker,
             HandleRegisters(w) \/ HandleFindsRegistered(w) \/ HandleInforms(w)
      PROVE  Claims'
  BY <1>7, <1>t DEF HandleRegisters, HandleFindsRegistered, HandleInforms,
       HandlerReturns, At, ClaimedStep, Lane
<1>8. ASSUME NEW w \in Worker, CloseDuplicate(w) \/ Close(w) PROVE Claims'
  <2>1. PICK r \in Reply \cup {"NONE"} : CloseClaim(w, r)
    BY <1>8, <1>t DEF CloseDuplicate, Close, Lane, Reply, Canned
  <2>2. lane[w].step \in ClaimedStep /\ lane[w] \in Lane /\ lane[w].sid \in Sid
    BY <1>8, <1>t DEF CloseDuplicate, Close, At, ClaimedStep, Lane
  <2>3. CASE ~OwnsClaim(w)
    BY <2>1, <2>2, <2>3, <1>t, CloseEffect, GotoEffect DEF Lane, Step, ClaimedStep
  <2>4. CASE OwnsClaim(w)
    <3>1. lane'[w].step \notin ClaimedStep
      BY <2>1, <2>4, CloseEffect, ReplyEffect DEF ClaimedStep
    <3>2. \A v \in Worker \ {w} : lane'[v] = lane[v]
      BY <2>1, <2>4, CloseEffect, ReplyEffect
    <3>3. \A s \in Sid : /\ event'[s].version = event[s].version
                         /\ event'[s].attempts = event[s].attempts
                         /\ event[s].status # "ABSENT" => event'[s].status # "ABSENT"
      BY <2>1, <2>2, <2>4, <1>t, CloseEffect DEF Event
    <3> QED
      BY <3>1, <3>2, <3>3, <1>t DEF Lane
  <2> QED
    BY <2>3, <2>4
<1>9. ASSUME NEW w \in Worker, MarkFailed(w) PROVE Claims'
  <2>1. lane'[w].step \notin ClaimedStep
    BY <1>9, <1>t, GotoEffect DEF MarkFailed, Lane, Step, ClaimedStep
  <2>2. \A v \in Worker \ {w} : lane'[v] = lane[v]
    BY <1>9, GotoEffect DEF MarkFailed, Step
  <2>3. \A s \in Sid : /\ event'[s].version = event[s].version
                       /\ event'[s].attempts = event[s].attempts
                       /\ event[s].status # "ABSENT" => event'[s].status # "ABSENT"
    BY <1>9, <1>t DEF MarkFailed, Event
  <2>4. \A v \in Worker : lane[v].sid \in Sid
    BY <1>t DEF Lane
  <2> QED
    BY <2>1, <2>2, <2>3, <2>4
<1>10. ASSUME NEW w \in Worker, MarkMessageFailed(w) PROVE Claims'
  BY <1>10, <1>t DEF MarkMessageFailed, ReplyWith, ClaimedStep, Lane
<1>11. ASSUME NEW s \in Sid, LeaseLapses(s) \/ RetryFallsDue(s) PROVE Claims'
  BY <1>11, <1>t DEF LeaseLapses, RetryFallsDue, Event, Lane
<1>12. CASE UNCHANGED vars
  BY <1>12 DEF vars
<1> QED
  BY <1>1, <1>2, <1>3, <1>4, <1>5, <1>6, <1>7, <1>8, <1>9, <1>10, <1>11, <1>12
     DEF Next, Claim, Process, Recover

-----------------------------------------------------------------------------
(* One outcome at most is ever told *)

\* The steps that leave every row's status and response alone.
SilentOnRows(w) ==
    \/ ClaimThrows(w) \/ CallThrows(w) \/ FindMessage(w)
    \/ MarkMessageDuplicate(w) \/ CreateMessage(w) \/ MarkMessageProcessed(w)
    \/ MarkFailedThrows(w) \/ Crash(w)

LEMMA SilentEffect ==
  ASSUME TypeOK, NEW w \in Worker, SilentOnRows(w)
  PROVE  /\ event' = event /\ answered' = answered /\ recorded' = recorded
         /\ lane'[w].step # "reply"
         /\ lane'[w].step \in {"messageDone", "close"} => lane[w].step = "messageDone"
         /\ lane'[w].reply = lane[w].reply /\ lane'[w].sid = lane[w].sid
         /\ \A v \in Worker \ {w} : lane'[v] = lane[v]
<1>1. PICK step \in Step : Goto(w, step)
  BY DEF SilentOnRows, ClaimThrows, CallThrows, FindMessage, MarkMessageDuplicate,
     CreateMessage, MarkMessageProcessed, MarkFailedThrows, Crash, Step, ClaimedStep
<1>2. lane'[w].step = step
  BY <1>1, GotoEffect
<1>3. /\ lane'[w].step # "reply"
      /\ lane'[w].step \in {"messageDone", "close"} => lane[w].step = "messageDone"
  BY <1>1, <1>2 DEF SilentOnRows, ClaimThrows, CallThrows, FindMessage,
     MarkMessageDuplicate, CreateMessage, MarkMessageProcessed, MarkFailedThrows,
     Crash, Goto, At, TypeOK, Lane
<1> QED
  BY <1>1, <1>3, GotoEffect DEF SilentOnRows, ClaimThrows, CallThrows, FindMessage,
     MarkMessageDuplicate, CreateMessage, MarkMessageProcessed, MarkFailedThrows, Crash

LEMMA AnswersStep ==
  ASSUME TypeOK, TypeOK', Answers, [Next]_vars
  PROVE  Answers'
<1>t. /\ event \in [Sid -> Event] /\ lane \in [Worker -> Lane]
      /\ event' \in [Sid -> Event] /\ lane' \in [Worker -> Lane]
      /\ answered \in [Sid -> SUBSET Reply]
  BY DEF TypeOK
<1>s. \A v \in Worker : lane[v].sid \in Sid
  BY <1>t DEF Lane
<1>n. "NONE" \notin Reply
  BY DEF Reply, Canned, Outcome
<1> USE DEF Answers, ResponseOnClose, ReadyReply, OneOutcomeTold
<1>1. ASSUME NEW w \in Worker, NEW s \in Sid, NEW h \in Hash, Deliver(w, s, h)
      PROVE  Answers'
  BY <1>1, <1>t DEF Deliver
<1>2. ASSUME NEW w \in Worker, ClaimFirst(w) PROVE Answers'
  <2>1. /\ event'[lane[w].sid].status = "PROCESSING"
        /\ event'[lane[w].sid].response = "NONE"
        /\ \A s \in Sid \ {lane[w].sid} : event'[s] = event[s]
    BY <1>2, <1>t, <1>s DEF ClaimFirst
  <2>2. lane'[w].step = "find" /\ \A v \in Worker \ {w} : lane'[v] = lane[v]
    BY <1>2, <1>t DEF ClaimFirst, Lane
  <2>3. event[lane[w].sid].response = "NONE"
    BY <1>2, <1>s DEF ClaimFirst
  <2> QED
    BY <1>2, <1>t, <1>s, <2>1, <2>2, <2>3 DEF ClaimFirst
<1>3. ASSUME NEW w \in Worker, ClaimOtherPayload(w) PROVE Answers'
  <2>1. /\ event'[lane[w].sid].status = "ANOMALY"
        /\ \A s \in Sid : event'[s].response = event[s].response
        /\ \A s \in Sid \ {lane[w].sid} : event'[s] = event[s]
    BY <1>3, <1>t, <1>s DEF ClaimOtherPayload, Event
  <2>2. /\ lane'[w].reply = "ANOMALY" /\ lane'[w].step = "reply"
        /\ \A v \in Worker \ {w} : lane'[v] = lane[v]
    BY <1>3, ReplyEffect DEF ClaimOtherPayload, Reply, Canned
  <2>3. answered' = answered
    BY <1>3 DEF ClaimOtherPayload
  <2>4. ResponseOnClose'
    BY <2>1
  <2>5. ReadyReply'
    BY <1>s, <2>1, <2>2 DEF Reply, Canned
  <2> QED
    BY <2>1, <2>3, <2>4, <2>5
<1>4. ASSUME NEW w \in Worker,
             ClaimReplay(w) \/ ClaimAnomalous(w) \/ ClaimRefused(w)
      PROVE  Answers'
  <2>1. PICK r \in Reply : /\ ReplyWith(w, r)
                           /\ r \notin Canned => r = event[lane[w].sid].response
    BY <1>4, <1>t, <1>s DEF ClaimReplay, ClaimAnomalous, ClaimRefused, Reply, Canned,
         Event
  <2>2. event' = event /\ answered' = answered
    BY <1>4 DEF ClaimReplay, ClaimAnomalous, ClaimRefused
  <2>3. /\ lane'[w].step = "reply" /\ lane'[w].reply = r /\ lane'[w].sid = lane[w].sid
        /\ \A v \in Worker \ {w} : lane'[v] = lane[v]
    BY <2>1, ReplyEffect
  <2> QED
    BY <2>1, <2>2, <2>3
<1>5. ASSUME NEW w \in Worker, Reclaim(w) PROVE Answers'
  <2>1. PICK s \in Sid : s = lane[w].sid
    BY <1>s
  <2>2. event[s].status \in {"PROCESSING", "FAILED"} /\ answered' = answered
    BY <1>5, <2>1 DEF Reclaim, Reclaimable
  <2>3. /\ event'[s].status = "PROCESSING" /\ event'[s].response = event[s].response
        /\ \A q \in Sid \ {s} : event'[q] = event[q]
        /\ lane'[w].step = "find" /\ \A v \in Worker \ {w} : lane'[v] = lane[v]
    BY <1>5, <2>1, ReclaimEffect
  <2> QED
    BY <1>s, <2>2, <2>3
<1>6. ASSUME NEW w \in Worker, SilentOnRows(w) PROVE Answers'
  BY <1>6, SilentEffect
<1>7. ASSUME NEW w \in Worker,
             HandleRegisters(w) \/ HandleFindsRegistered(w) \/ HandleInforms(w)
      PROVE  Answers'
  <2>1. PICK r \in Outcome : HandlerReturns(w, r)
    BY <1>7 DEF HandleRegisters, HandleFindsRegistered, HandleInforms, Outcome
  <2>2. /\ lane'[w].step = "messageDone" /\ lane'[w].reply = r
        /\ \A v \in Worker \ {w} : lane'[v] = lane[v]
    BY <2>1, <1>t DEF HandlerReturns, Lane
  <2>3. event' = event /\ answered' = answered
    BY <1>7 DEF HandleRegisters, HandleFindsRegistered, HandleInforms
  <2> QED
    BY <2>2, <2>3
<1>8. ASSUME NEW w \in Worker, CloseDuplicate(w) \/ Close(w) PROVE Answers'
  <2>1. PICK r \in Reply : CloseClaim(w, r)
    BY <1>8 DEF CloseDuplicate, Close, At, Reply, Canned
  <2>2. answered' = answered
    BY <1>8 DEF CloseDuplicate, Close
  <2>3. CASE ~OwnsClaim(w)
    BY <2>1, <2>2, <2>3, CloseEffect, GotoEffect DEF Step, ClaimedStep
  <2>4. CASE OwnsClaim(w)
    <3>1. event[lane[w].sid].response = "NONE"
      BY <2>4, <1>s DEF OwnsClaim
    <3>2. /\ event'[lane[w].sid].status = "PROCESSED"
          /\ event'[lane[w].sid].response = r
          /\ \A s \in Sid \ {lane[w].sid} : event'[s] = event[s]
      BY <2>1, <2>4, CloseEffect
    <3>3. /\ lane'[w].step = "reply" /\ lane'[w].reply = r
          /\ lane'[w].sid = lane[w].sid
          /\ \A v \in Worker \ {w} : lane'[v] = lane[v]
      BY <2>1, <2>4, CloseEffect, ReplyEffect
    <3> QED
      BY <1>t, <1>s, <1>n, <2>2, <3>1, <3>2, <3>3
  <2> QED
    BY <2>3, <2>4
<1>9. ASSUME NEW w \in Worker, WriteReply(w) PROVE Answers'
  <2>1. /\ event' = event
        /\ answered'[lane[w].sid] = answered[lane[w].sid] \cup {lane[w].reply}
        /\ \A s \in Sid \ {lane[w].sid} : answered'[s] = answered[s]
    BY <1>9, <1>t, <1>s DEF WriteReply
  <2>2. lane'[w].step = "idle" /\ \A v \in Worker \ {w} : lane'[v] = lane[v]
    BY <1>9, GotoEffect DEF WriteReply, Step
  <2> QED
    BY <1>9, <1>s, <2>1, <2>2 DEF WriteReply, At
<1>10. ASSUME NEW w \in Worker, MarkFailed(w) PROVE Answers'
  <2>1. /\ \A s \in Sid : event'[s].response = event[s].response
        /\ \A s \in Sid : \/ event'[s].status = event[s].status
                          \/ event[s].status = "PROCESSING" /\ event'[s].status = "FAILED"
    BY <1>10, <1>t, <1>s DEF MarkFailed, OwnsClaim, Event
  <2>2. lane'[w].step = "failMessage" /\ \A v \in Worker \ {w} : lane'[v] = lane[v]
    BY <1>10, GotoEffect DEF MarkFailed, Step
  <2> QED
    BY <1>10, <1>s, <2>1, <2>2 DEF MarkFailed
<1>11. ASSUME NEW w \in Worker, MarkMessageFailed(w) PROVE Answers'
  <2>1. /\ lane'[w].step = "reply" /\ lane'[w].reply = "ERROR"
        /\ \A v \in Worker \ {w} : lane'[v] = lane[v]
    BY <1>11, ReplyEffect DEF MarkMessageFailed, Reply, Canned
  <2> QED
    BY <1>11, <2>1 DEF MarkMessageFailed, Reply, Canned
<1>12. ASSUME NEW s \in Sid, LeaseLapses(s) \/ RetryFallsDue(s) PROVE Answers'
  <2>1. \A q \in Sid : /\ event'[q].response = event[q].response
                       /\ event'[q].status = event[q].status
    <3>1. CASE LeaseLapses(s)
      BY <3>1, <1>t DEF LeaseLapses, Event
    <3>2. CASE RetryFallsDue(s)
      BY <3>2, <1>t DEF RetryFallsDue, Event
    <3> QED
      BY <1>12, <3>1, <3>2
  <2> QED
    BY <1>12, <1>s, <2>1 DEF LeaseLapses, RetryFallsDue
<1>13. CASE UNCHANGED vars
  BY <1>13 DEF vars
<1> QED
  BY <1>1, <1>2, <1>3, <1>4, <1>5, <1>6, <1>7, <1>8, <1>9, <1>10, <1>11, <1>12,
     <1>13 DEF Next, Claim, Process, Recover, SilentOnRows

-----------------------------------------------------------------------------
(* What is confirmed is recorded *)

LEMMA ConfirmationStep ==
  ASSUME TypeOK, TypeOK', Answers, ConfirmationBacked, ConfirmedIsRecorded, [Next]_vars
  PROVE  ConfirmationBacked' /\ ConfirmedIsRecorded'
<1>t. /\ event \in [Sid -> Event] /\ lane \in [Worker -> Lane]
      /\ answered \in [Sid -> SUBSET Reply]
  BY DEF TypeOK
<1>s. \A v \in Worker : lane[v].sid \in Sid
  BY <1>t DEF Lane
<1>c. Confirmation \cap Canned = {} /\ "NONE" \notin Confirmation
  BY DEF Confirmation, Canned
<1> USE DEF ConfirmationBacked, ConfirmedIsRecorded
<1> DEFINE P == ConfirmationBacked' /\ ConfirmedIsRecorded'
<1>1. ASSUME NEW w \in Worker, NEW s \in Sid, NEW h \in Hash, Deliver(w, s, h) PROVE P
  BY <1>1, <1>t DEF Deliver
<1>2. ASSUME NEW w \in Worker, ClaimFirst(w) PROVE P
  <2>1. /\ event'[lane[w].sid].response = "NONE"
        /\ \A s \in Sid \ {lane[w].sid} : event'[s] = event[s]
    BY <1>2, <1>t, <1>s DEF ClaimFirst
  <2>2. lane'[w].step = "find" /\ \A v \in Worker \ {w} : lane'[v] = lane[v]
    BY <1>2, <1>t DEF ClaimFirst, Lane
  <2>3. answered' = answered /\ recorded' = recorded
    BY <1>2 DEF ClaimFirst
  <2>4. ConfirmationBacked'
    BY <1>s, <1>c, <2>1, <2>2, <2>3
  <2> QED
    BY <2>3, <2>4
<1>3. ASSUME NEW w \in Worker, ClaimOtherPayload(w) PROVE P
  <2>1. \A s \in Sid : event'[s].response = event[s].response
    BY <1>3, <1>t DEF ClaimOtherPayload, Event
  <2>2. lane'[w].reply = "ANOMALY" /\ \A v \in Worker \ {w} : lane'[v] = lane[v]
    BY <1>3, ReplyEffect DEF ClaimOtherPayload, Reply, Canned
  <2> QED
    BY <1>3, <2>1, <2>2 DEF ClaimOtherPayload, Confirmation
<1>4. ASSUME NEW w \in Worker,
             ClaimReplay(w) \/ ClaimAnomalous(w) \/ ClaimRefused(w)
      PROVE  P
  <2>1. PICK r \in Reply \cup {"NONE"} :
          /\ ReplyWith(w, r)
          /\ r \in Confirmation => r = event[lane[w].sid].response
    <3>1. CASE ClaimReplay(w)
      BY <3>1, <1>t, <1>s DEF ClaimReplay, Event
    <3>2. CASE ClaimAnomalous(w) \/ ClaimRefused(w)
      BY <3>2, <1>c DEF ClaimAnomalous, ClaimRefused, Reply, Canned
    <3> QED
      BY <1>4, <3>1, <3>2
  <2>2. event' = event /\ answered' = answered /\ recorded' = recorded
    BY <1>4 DEF ClaimReplay, ClaimAnomalous, ClaimRefused
  <2>3. /\ lane'[w].reply = r /\ lane'[w].sid = lane[w].sid
        /\ \A v \in Worker \ {w} : lane'[v] = lane[v]
    BY <2>1, ReplyEffect
  <2> QED
    BY <1>s, <2>1, <2>2, <2>3
<1>5. ASSUME NEW w \in Worker, Reclaim(w) PROVE P
  <2>1. PICK s \in Sid : s = lane[w].sid
    BY <1>s
  <2>2. /\ event'[s].response = event[s].response
        /\ \A q \in Sid \ {s} : event'[q] = event[q]
        /\ lane'[w].step = "find" /\ \A v \in Worker \ {w} : lane'[v] = lane[v]
    BY <1>5, <2>1, ReclaimEffect
  <2>3. answered' = answered /\ recorded' = recorded
    BY <1>5 DEF Reclaim
  <2> QED
    BY <1>s, <2>2, <2>3
<1>6. ASSUME NEW w \in Worker, SilentOnRows(w) PROVE P
  BY <1>6, SilentEffect
<1>7. ASSUME NEW w \in Worker,
             HandleRegisters(w) \/ HandleFindsRegistered(w) \/ HandleInforms(w)
      PROVE  P
  <2>1. /\ lane'[w].sid = lane[w].sid
        /\ lane'[w].reply \in Confirmation => lane[w].sid \in recorded'
        /\ \A v \in Worker \ {w} : lane'[v] = lane[v]
    BY <1>7, <1>t DEF HandleRegisters, HandleFindsRegistered, HandleInforms,
         HandlerReturns, Lane, Confirmation
  <2>2. event' = event /\ answered' = answered /\ recorded \subseteq recorded'
    BY <1>7 DEF HandleRegisters, HandleFindsRegistered, HandleInforms
  <2> QED
    BY <2>1, <2>2
<1>8. ASSUME NEW w \in Worker, CloseDuplicate(w) \/ Close(w) PROVE P
  <2>1. PICK r \in Reply :
          CloseClaim(w, r) /\ (r \in Confirmation => lane[w].sid \in recorded)
    <3>1. CASE CloseDuplicate(w)
      BY <3>1, <1>c DEF CloseDuplicate, Reply, Canned
    <3>2. CASE Close(w)
      BY <3>2 DEF Close, At, Answers, ReadyReply, Reply
    <3> QED
      BY <1>8, <3>1, <3>2
  <2>2. answered' = answered /\ recorded' = recorded
    BY <1>8 DEF CloseDuplicate, Close
  <2>3. CASE ~OwnsClaim(w)
    BY <2>1, <2>2, <2>3, CloseEffect, GotoEffect DEF Step, ClaimedStep
  <2>4. CASE OwnsClaim(w)
    <3>1. /\ event'[lane[w].sid].response = r
          /\ \A s \in Sid \ {lane[w].sid} : event'[s] = event[s]
      BY <2>1, <2>4, CloseEffect
    <3>2. /\ lane'[w].reply = r /\ lane'[w].sid = lane[w].sid
          /\ \A v \in Worker \ {w} : lane'[v] = lane[v]
      BY <2>1, <2>4, CloseEffect, ReplyEffect
    <3> QED
      BY <1>s, <2>1, <2>2, <3>1, <3>2
  <2> QED
    BY <2>3, <2>4
<1>9. ASSUME NEW w \in Worker, WriteReply(w) PROVE P
  <2>1. /\ event' = event /\ recorded' = recorded
        /\ answered'[lane[w].sid] = answered[lane[w].sid] \cup {lane[w].reply}
        /\ \A s \in Sid \ {lane[w].sid} : answered'[s] = answered[s]
    BY <1>9, <1>t, <1>s DEF WriteReply
  <2>2. lane'[w].step = "idle" /\ \A v \in Worker \ {w} : lane'[v] = lane[v]
    BY <1>9, GotoEffect DEF WriteReply, Step
  <2> QED
    BY <1>9, <1>s, <2>1, <2>2 DEF WriteReply, At, Confirmation
<1>10. ASSUME NEW w \in Worker, MarkFailed(w) PROVE P
  <2>1. \A s \in Sid : event'[s].response = event[s].response
    BY <1>10, <1>t DEF MarkFailed, Event
  <2>2. lane'[w].step = "failMessage" /\ \A v \in Worker \ {w} : lane'[v] = lane[v]
    BY <1>10, GotoEffect DEF MarkFailed, Step
  <2> QED
    BY <1>10, <2>1, <2>2 DEF MarkFailed
<1>11. ASSUME NEW w \in Worker, MarkMessageFailed(w) PROVE P
  <2>1. lane'[w].reply = "ERROR" /\ \A v \in Worker \ {w} : lane'[v] = lane[v]
    BY <1>11, ReplyEffect DEF MarkMessageFailed, Reply, Canned
  <2> QED
    BY <1>11, <2>1 DEF MarkMessageFailed, Confirmation
<1>12. ASSUME NEW s \in Sid, LeaseLapses(s) \/ RetryFallsDue(s) PROVE P
  <2>1. \A q \in Sid : event'[q].response = event[q].response
    <3>1. CASE LeaseLapses(s)
      BY <3>1, <1>t DEF LeaseLapses, Event
    <3>2. CASE RetryFallsDue(s)
      BY <3>2, <1>t DEF RetryFallsDue, Event
    <3> QED
      BY <1>12, <3>1, <3>2
  <2> QED
    BY <1>12, <2>1 DEF LeaseLapses, RetryFallsDue
<1>13. CASE UNCHANGED vars
  BY <1>13 DEF vars
<1> QED
  BY <1>1, <1>2, <1>3, <1>4, <1>5, <1>6, <1>7, <1>8, <1>9, <1>10, <1>11, <1>12,
     <1>13 DEF Next, Claim, Process, Recover, SilentOnRows

-----------------------------------------------------------------------------
(* The theorems *)

LEMMA InitIInv == Init => IInv
<1> SUFFICES ASSUME Init PROVE IInv
  OBVIOUS
<1>1. PICK h \in Hash :
        event = [s \in Sid |-> [status |-> "ABSENT", hash |-> h, version |-> 0,
                                attempts |-> 0, live |-> FALSE, due |-> TRUE,
                                response |-> "NONE"]]
  BY DEF Init
<1>2. PICK s \in Sid, g \in Hash :
        lane = [w \in Worker |-> [step |-> "idle", sid |-> s, hash |-> g,
                                  version |-> 0, reply |-> "NONE"]]
  BY DEF Init
<1>3. TypeOK
  BY <1>1, <1>2, BoundsAssumption
     DEF Init, TypeOK, Event, Lane, EventStatus, MessageStatus, Step
<1>4. Claims
  BY <1>1, <1>2 DEF Claims, VersionsReached, AttemptPerVersion, DistinctVersions,
     ClaimedStep
<1>5. Answers
  BY <1>1, <1>2 DEF Init, Answers, ResponseOnClose, ReadyReply, OneOutcomeTold
<1>6. ConfirmationBacked /\ ConfirmedIsRecorded
  BY <1>1, <1>2 DEF Init, ConfirmationBacked, ConfirmedIsRecorded, Confirmation
<1> QED
  BY <1>3, <1>4, <1>5, <1>6 DEF IInv

LEMMA StepIInv == IInv /\ [Next]_vars => IInv'
<1> SUFFICES ASSUME IInv, [Next]_vars PROVE IInv'
  OBVIOUS
<1>1. TypeOK'
  BY TypeStep DEF IInv, Answers
<1>2. Claims'
  BY <1>1, ClaimsStep DEF IInv
<1>3. Answers'
  BY <1>1, AnswersStep DEF IInv
<1>4. ConfirmationBacked' /\ ConfirmedIsRecorded'
  BY <1>1, ConfirmationStep DEF IInv
<1> QED
  BY <1>1, <1>2, <1>3, <1>4 DEF IInv

LEMMA Invariance == Spec => []IInv
BY InitIInv, StepIInv, PTL DEF Spec

\* The rows, lanes and histories keep their types.
THEOREM TypeCorrect == Spec => []TypeOK
<1>1. IInv => TypeOK
  BY DEF IInv
<1> QED
  BY <1>1, Invariance, PTL

\* However many lanes run for a MessageSid, and whichever of them lose their
\* claim, one outcome at most is told, and it is the stored response.
THEOREM OneOutcome == Spec => []OneOutcomeTold
<1>1. IInv => OneOutcomeTold
  BY DEF IInv, Answers
<1> QED
  BY <1>1, Invariance, PTL

\* No reply confirms a registration that was not committed.
THEOREM ConfirmedRecorded == Spec => []ConfirmedIsRecorded
<1>1. IInv => ConfirmedIsRecorded
  BY DEF IInv
<1> QED
  BY <1>1, Invariance, PTL

\* processing_version is a fence: no two lanes of a MessageSid share it.
THEOREM VersionFences == Spec => []DistinctVersions
<1>1. IInv => DistinctVersions
  BY DEF IInv, Claims
<1> QED
  BY <1>1, Invariance, PTL

\* A first attempt has no company: two lanes past the claim of one MessageSid
\* mean that the event was claimed again.
THEOREM FirstAttemptAlone == Spec => []AloneOnFirstAttempt
<1>1. IInv => AloneOnFirstAttempt
  <2> SUFFICES ASSUME IInv, NEW v \in Worker, NEW w \in Worker, v # w,
                      lane[v].step \in ClaimedStep, lane[w].step \in ClaimedStep,
                      lane[v].sid = lane[w].sid
               PROVE  event[lane[v].sid].attempts > 1
    BY DEF AloneOnFirstAttempt
  <2>1. lane[v].version # lane[w].version
    BY DEF IInv, Claims, DistinctVersions
  <2>2. /\ 1 <= lane[v].version /\ lane[v].version <= event[lane[v].sid].version
        /\ 1 <= lane[w].version /\ lane[w].version <= event[lane[v].sid].version
    BY DEF IInv, Claims, VersionsReached
  <2>3. /\ lane[v].version \in Nat /\ lane[w].version \in Nat
        /\ lane[v].sid \in Sid /\ event[lane[v].sid].version \in Nat
    BY DEF IInv, TypeOK, Lane, Event
  <2>4. event[lane[v].sid].attempts = event[lane[v].sid].version
    BY <2>3 DEF IInv, Claims, AttemptPerVersion
  <2> QED
    BY <2>1, <2>2, <2>3, <2>4
<1> QED
  BY <1>1, Invariance, PTL

\* What a step may do to a closed event.
KeptClosed ==
    \A s \in Sid :
        event[s].status = "PROCESSED" =>
            /\ event'[s].status \in {"PROCESSED", "ANOMALY"}
            /\ event'[s].response = event[s].response

LEMMA ClosedStep == TypeOK /\ [Next]_vars => KeptClosed
<1> SUFFICES ASSUME TypeOK, [Next]_vars, NEW s \in Sid, event[s].status = "PROCESSED"
             PROVE  /\ event'[s].status \in {"PROCESSED", "ANOMALY"}
                    /\ event'[s].response = event[s].response
  BY DEF KeptClosed
<1> DEFINE Kept == /\ event'[s].status \in {"PROCESSED", "ANOMALY"}
                   /\ event'[s].response = event[s].response
<1>t. event \in [Sid -> Event] /\ \A v \in Worker : lane[v].sid \in Sid
  BY DEF TypeOK, Lane
<1>1. ASSUME NEW w \in Worker, ClaimFirst(w) PROVE Kept
  BY <1>1, <1>t DEF ClaimFirst
<1>2. ASSUME NEW w \in Worker, ClaimOtherPayload(w) PROVE Kept
  BY <1>2, <1>t DEF ClaimOtherPayload, Event
<1>3. ASSUME NEW w \in Worker, Reclaim(w) PROVE Kept
  <2>1. event[lane[w].sid].status # "PROCESSED" /\ lane[w].sid # s
    BY <1>3 DEF Reclaim, Reclaimable
  <2> QED
    BY <1>3, <1>t, <2>1 DEF Reclaim
<1>4. ASSUME NEW w \in Worker, CloseDuplicate(w) \/ Close(w) PROVE Kept
  <2>1. PICK r \in Reply \cup {"NONE"} : CloseClaim(w, r)
    BY <1>4 DEF CloseDuplicate, Close, TypeOK, Lane, Reply, Canned
  <2>2. CASE OwnsClaim(w)
    BY <1>t, <2>1, <2>2, CloseEffect DEF OwnsClaim
  <2>3. CASE ~OwnsClaim(w)
    BY <2>1, <2>3, CloseEffect
  <2> QED
    BY <2>2, <2>3
<1>5. ASSUME NEW w \in Worker, MarkFailed(w) PROVE Kept
  BY <1>5, <1>t DEF MarkFailed, OwnsClaim
<1>6. ASSUME NEW q \in Sid, LeaseLapses(q) \/ RetryFallsDue(q) PROVE Kept
  BY <1>6, <1>t DEF LeaseLapses, RetryFallsDue
<1>7. CASE UNCHANGED event
  BY <1>7
<1>8. ASSUME NEW w \in Worker,
             \/ Claim(w) \/ Process(w) \/ Recover(w) \/ Crash(w)
             \/ \E q \in Sid, h \in Hash : Deliver(w, q, h)
      PROVE  Kept
  BY <1>1, <1>2, <1>3, <1>4, <1>5, <1>7, <1>8
     DEF Claim, Process, Recover, Crash, Deliver, ClaimReplay, ClaimAnomalous,
         ClaimRefused, ClaimThrows, FindMessage, MarkMessageDuplicate, CreateMessage,
         HandleRegisters, HandleFindsRegistered, HandleInforms, MarkMessageProcessed,
         WriteReply, CallThrows, MarkFailedThrows, MarkMessageFailed
<1> QED
  BY <1>6, <1>7, <1>8 DEF Next, vars

\* A closed event is never reopened and its stored response never changes.
THEOREM ClosedForGood == Spec => ClosedStaysClosed
<1>1. TypeOK /\ [Next]_vars => [KeptClosed]_vars
  BY ClosedStep
<1> QED
  BY <1>1, TypeCorrect, PTL DEF Spec, ClosedStaysClosed, KeptClosed
=============================================================================
