------------------------------ MODULE MCLedgers ------------------------------
(***************************************************************************)
(* The two ledgers with counters beside them, on small instances: the      *)
(* units of a WhatsApp turn (UsageQuota) and the days of an employee's     *)
(* absences (AbsenceBalance).  They share no row, so part says which one   *)
(* runs:                                                                   *)
(*   "pilot"   units, with settings that only record at times              *)
(*   "closed"  units, with settings that block everything at times         *)
(*   "desks"   two requests at once, with the ledger on                    *)
(*   "switch"  the ledger is switched on while requests are open           *)
(*   "chat"    the messages of two requests and their edits                *)
(*   "office"  manual movements beside one request                         *)
(***************************************************************************)
EXTENDS MCUsageQuota, AbsenceBalance

CONSTANTS r1, r2, m1, c1, annual, study, medical

VARIABLE part

\* Days 1 and 2 are in different years.
Yearly == [d \in {1, 2} |-> d]

LedgersInit ==
    /\ part \in {"pilot", "closed", "desks", "switch", "chat", "office"}
    /\ Init /\ (policy = Pilot => part = "pilot")
    /\ (policy = Closed => part = "closed")
    /\ BalanceInit /\ enabled = (part # "switch")

\* What a part leaves out: requests beyond one, types, messages, manual
\* movements, edits of the calendar, a second desk.
Only(requests, types, messages) ==
    /\ \A r \in Request \ requests : request'[r].status = "NONE"
    /\ \A k \in Desk : desk'[k].step \in {"create", "edit"} =>
           desk'[k].type \in types /\ desk'[k].via \in messages \cup {NoMessage}
    /\ \A a \in (Type \ types) \X Year : balance'[a] = balance[a]
NoManual == Manual' = {}
NoneSentBack == \A r \in Request : request'[r].status # "NEEDS_INFO"
OneDesk == Cardinality({k \in Desk : desk'[k] # AtRest}) <= 1

LedgersNext ==
    /\ part' = part
    /\ \/ part = "pilot" /\ Next /\ policy' # Closed /\ UNCHANGED balanceVars
       \/ part = "closed" /\ Next /\ policy' # Pilot /\ UNCHANGED balanceVars
       \/ /\ part = "desks"
          /\ BalanceNext /\ Only(Request, {annual, study}, {})
          /\ NoManual /\ calendarEdits' = 0
          /\ UNCHANGED vars
       \/ /\ part = "switch"
          /\ BalanceNext /\ Only(Request, {annual}, {}) /\ OneDesk
          /\ NoManual
          /\ UNCHANGED vars
       \/ /\ part = "chat"
          /\ BalanceNext /\ Only(Request, {annual}, Message) /\ NoneSentBack
          /\ NoManual /\ calendarEdits' = 0
          /\ UNCHANGED vars
       \/ /\ part = "office"
          /\ BalanceNext /\ Only({r1}, {annual, medical}, {})
          /\ calendarEdits' = 0
          /\ UNCHANGED vars

LedgersSpec == LedgersInit /\ [][LedgersNext]_<<part, vars, balanceVars>>

-----------------------------------------------------------------------------
\* The granted days are those of the manual movements; two reversals of one
\* movement at once break it.
OfficeIsBooked == part = "office" => GrantedIsBooked
=============================================================================
