-------------------------------- MODULE MCDays --------------------------------
(***************************************************************************)
(* The days of employees, on small instances for the safety properties.    *)
(* part says which one runs while the others rest:                         *)
(*   "single"    the workday of an operation with one shift: two passes,   *)
(*               two editors, status changes (WorkdayPlan)                 *)
(*   "several"   the same with several shifts and date exceptions          *)
(*   "terms"     two assignments of one employee, one pass, every event    *)
(*   "queue"     the queue of one absence request under every fault        *)
(*               (AbsenceSync)                                             *)
(***************************************************************************)
EXTENDS WorkdayPlan, AbsenceSync, TLC

CONSTANTS l1, l2, d1, d2, t1, t2, e1, r1, fixed, c1, c2, w1, w2

VARIABLE part

OneSeat == t1 :> e1
TwoTerms == (t1 :> e1) @@ (t2 :> e1)

Several == INSTANCE WorkdayPlan WITH
    Multi <- TRUE, Editor <- {}, Event <- {"edit", "except", "crash"}

Terms == INSTANCE WorkdayPlan WITH
    Assignment <- {t1, t2}, EmployeeOf <- TwoTerms, Lane <- {l1}, Editor <- {d1},
    Event <- {"edit", "status", "assign", "attend", "start", "crash"}

\* One request and its one-time workday.
OneDated == {<<r1, fixed>>}
OneCovers == {<<r1, fixed, 0>>}

DaysInit ==
    /\ part \in {"single", "several", "terms", "queue"}
    /\ IF part = "terms" THEN Terms!Init ELSE Init
    /\ SyncInit

DaysNext ==
    /\ part' = part
    /\ \/ /\ \/ part = "single" /\ Next
             \/ part = "several" /\ Several!Next
             \/ part = "terms" /\ Terms!Next
          /\ UNCHANGED syncVars
       \/ part = "queue" /\ SyncNext /\ UNCHANGED vars

DaysSpec == DaysInit /\ [][DaysNext]_<<part, vars, syncVars>>

Symmetry == Permutations({c1, c2}) \cup Permutations({w1, w2})
=============================================================================
