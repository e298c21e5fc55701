---------------------------- MODULE MCWebhookInbox ----------------------------
(***************************************************************************)
(* The intake of a message on small instances: WebhookInbox, and the turns *)
(* it lets through as they compete for the limits of UsageQuota.  The two  *)
(* share no row, so part says which one runs while the other rests.        *)
(*                                                                         *)
(* Lanes of different MessageSids share no row of the inbox, so one        *)
(* MessageSid with several lanes is where they interfere.  The limits are  *)
(* chosen so that each is reached: the last turn of a day, of a week and   *)
(* of a burst, and the last unit of an employee and of the company.        *)
(***************************************************************************)
EXTENDS WebhookInbox, TLC

CONSTANTS w1, w2, w3, h1, h2, s1, s2, s3, e1, e2, l1, l2, company

VARIABLES
    part,
    today, policy, period, admission, recent, ledger, notice, turn, taken,
    attempted, sent, told

Limits(day, week, all) == ("DAY" :> day) @@ ("WEEK" :> week) @@ ("COMPANY" :> all)
Tight == [mode |-> "ENFORCE", turns |-> Limits(1, 2, 0),
          outbounds |-> Limits(1, 2, 2), burst |-> 1]
Raised == [mode |-> "ENFORCE", turns |-> Limits(2, 2, 0),
           outbounds |-> Limits(2, 2, 3), burst |-> 1]

\* Two turns of one employee and one of another, no documents.
Quota == INSTANCE UsageQuota WITH
    Company <- company, Sid <- {s1, s2, s3}, Employee <- {e1, e2},
    EmployeeOf <- (s1 :> e1) @@ (s2 :> e1) @@ (s3 :> e2), Worker <- {l1, l2},
    NDocs <- 0, Policy <- {Tight, Raised}, MaxDay <- 1, MaxTakes <- 1,
    DaysPerWeek <- 2, lane <- turn

quotaVars == <<today, policy, period, admission, recent, ledger, notice, turn, taken,
               attempted, sent, told>>

IntakeInit ==
    /\ part \in {"inbox", "limits"}
    /\ Init /\ (part # "inbox" => \A s \in Sid, w \in Worker : lane[w].hash = event[s].hash)
    /\ Quota!Init /\ (part # "limits" => policy = Tight)

IntakeNext ==
    /\ part' = part
    /\ \/ part = "inbox" /\ Next /\ UNCHANGED quotaVars
       \/ part = "limits" /\ Quota!Next /\ UNCHANGED vars

IntakeSpec == IntakeInit /\ [][IntakeNext]_<<part, vars, quotaVars>>

Interchangeable == Permutations(Worker) \cup Permutations(Hash) \cup Permutations({l1, l2})

-----------------------------------------------------------------------------
\* Turns in competition keep to the limits their periods were opened with, and
\* of those refused for one reason on one day one hears of it (admitTurnAtomic,
\* ensureAndLockEmployeePeriods, claimBlockNotice).
TurnsCompeteWithinLimits == Quota!WithinLimits /\ Quota!OneNoticePerEpisode
=============================================================================
