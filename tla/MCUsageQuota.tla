---------------------------- MODULE MCUsageQuota ----------------------------
(***************************************************************************)
(* UsageQuota for one MessageSid that several lanes take up, with its      *)
(* documents, and settings that change mode.  MCWebhookInbox has the turns *)
(* that compete for the limits.                                            *)
(***************************************************************************)
EXTENDS UsageQuota, TLC

CONSTANTS s1, e1

OneTurn == (s1 :> e1)

Limits(day, week, company) == ("DAY" :> day) @@ ("WEEK" :> week) @@ ("COMPANY" :> company)

\* Settings an administrator may switch between.
Strict == [mode |-> "ENFORCE", turns |-> Limits(1, 2, 0),
           outbounds |-> Limits(2, 3, 2), burst |-> 1]
Pilot == [Strict EXCEPT !.mode = "SHADOW"]
Closed == [Strict EXCEPT !.burst = 0]   \* zero is a hard block

StrictOnly == {Strict}
Changing == {Strict, Pilot, Closed}

Interchangeable == Permutations(Worker)
=============================================================================
