----------------------------- MODULE MCOperations -----------------------------
(***************************************************************************)
(* What employees, managers and administrators do at the same time, each   *)
(* on a small instance: the marks of a working day, the payroll documents  *)
(* an employee asks for, the vacancies of a day, the daily report and the  *)
(* end of a company.  They share no row, so each is checked with the       *)
(* others at rest: part says which one runs.                               *)
(***************************************************************************)
EXTENDS AttendanceDay, DocumentDelivery, CompanyDeletion, VacancyCoverage, ReportRun, TLC

CONSTANTS m1, m2, m3, d1, o1

VARIABLE part

allVars == <<part, vars, docVars, vacancyVars, deletionVars, reportVars>>

OperationsInit ==
    /\ part \in {"day", "documents", "vacancy", "deletions", "reports"}
    /\ Init
    /\ part # "day" => /\ phase = [x \in Day |-> "open"]
                       /\ row = [x \in Day |-> NoRow] /\ located
    /\ DocInit /\ (part # "documents" => associated = {d1} /\ order[o1].at = d1)
    /\ VacancyInit
    /\ DeletionInit
    \* Nobody receives the report at first, so that it can be asked for again.
    /\ ReportInit /\ settings.recipients = {} /\ settings.activity

OperationsNext ==
    /\ part' = part
    /\ \/ /\ part = "day" /\ Next
          /\ UNCHANGED <<docVars, vacancyVars, deletionVars, reportVars>>
       \/ /\ part = "documents" /\ DocNext
          /\ UNCHANGED <<vars, vacancyVars, deletionVars, reportVars>>
       \/ /\ part = "vacancy" /\ VacancyNext
          /\ UNCHANGED <<vars, docVars, deletionVars, reportVars>>
       \/ /\ part = "deletions" /\ DeletionNext
          /\ UNCHANGED <<vars, docVars, vacancyVars, reportVars>>
       \/ /\ part = "reports" /\ ReportNext
          /\ UNCHANGED <<vars, docVars, vacancyVars, deletionVars>>

OperationsSpec == OperationsInit /\ [][OperationsNext]_allVars

Interchangeable == Permutations(Message)
=============================================================================
