------------------------------- MODULE MCQueues -------------------------------
(***************************************************************************)
(* The queues whose rows are claimed under a lease and retried, each on a  *)
(* small instance with its fairness: administrators' alerts, threshold     *)
(* evaluations, company deletions and the daily report.  They share no     *)
(* row, so each is checked with the others at rest: part says which one    *)
(* runs.                                                                   *)
(***************************************************************************)
EXTENDS AlertDelivery, ThresholdAlert, TLC

CONSTANTS n1, w1, w2, c1, p1, p2, a1, r1

VARIABLES
    part,
    status, due, stage, deletions, lease, files, rows, settings, purge, request,
    purgeFaults, moves,
    run, delivery, reporter, audience, unsent, commands, reportChanges, reportFaults,
    reportLapses

\* One company, created and not activated yet, so that it may be deleted.
Deletions == INSTANCE CompanyDeletion WITH
    Company <- {c1}, Dormant <- {c1}, Protected <- {}, Purger <- {p1, p2},
    Admin <- {a1}, MaxAttempts <- 3, MaxPurgeFaults <- 2, MaxMoves <- 3,
    Null <- NoOne, attempts <- deletions, config <- settings

Reports == INSTANCE ReportRun WITH
    Recipient <- {r1}, Ticker <- {w1}, ReportAdmin <- {a1}, MaxReportAttempts <- 2,
    MaxCommands <- 1, MaxSettings <- 1, MaxReportFaults <- 1, MaxLapses <- 1,
    NoSender <- NoOne, settings <- audience, lapses <- reportLapses

deletionVars == <<status, due, stage, deletions, lease, files, rows, settings, purge,
                  request, purgeFaults, moves>>
reportVars == <<run, delivery, reporter, audience, unsent, commands, reportChanges,
                reportFaults, reportLapses>>
allVars == <<part, vars, thresholdVars, deletionVars, reportVars>>

QueuesInit ==
    /\ part \in {"alerts", "thresholds", "deletions", "reports"}
    /\ Init /\ (part # "alerts" => blocked = [n \in Note |-> "no"])
    /\ ThresholdInit /\ (part # "thresholds" => actual = "BELOW" /\ state.known)
    /\ Deletions!DeletionInit
    /\ Reports!ReportInit /\ (part # "reports" => audience.recipients = {} /\ audience.activity)

QueuesNext ==
    /\ part' = part
    /\ \/ /\ part = "alerts" /\ Next
          /\ UNCHANGED <<thresholdVars, deletionVars, reportVars>>
       \/ /\ part = "thresholds" /\ ThresholdNext
          /\ UNCHANGED <<vars, deletionVars, reportVars>>
       \/ /\ part = "deletions" /\ Deletions!DeletionNext
          /\ UNCHANGED <<vars, thresholdVars, reportVars>>
       \/ /\ part = "reports" /\ Reports!ReportNext
          /\ UNCHANGED <<vars, thresholdVars, deletionVars>>

\* A tick of the report is never at rest, so its part is fair while it runs; of
\* the other parts none of the fair actions is enabled at rest.
ReportFairness ==
    /\ WF_reportVars(part = "reports" /\ Reports!Tick(w1))
    /\ WF_reportVars(part = "reports" /\ Reports!Command(a1))
    /\ WF_reportVars(part = "reports" /\ Reports!RunLapse)
    /\ WF_reportVars(part = "reports" /\ Reports!RunDue)
    /\ WF_reportVars(part = "reports" /\ Reports!DeliveryLapse(r1))
    /\ WF_reportVars(part = "reports" /\ Reports!DeliveryDue(r1))

QueuesSpec ==
    /\ QueuesInit /\ [][QueuesNext]_allVars
    /\ Fairness /\ ThresholdFairness /\ Deletions!Fairness /\ ReportFairness

-----------------------------------------------------------------------------
\* The properties of the parts, stated in their modules.

\* CompanyDeletion: what is due ends or uses up its attempts.
DeletionsEnd == Deletions!DeletionsEnd

\* ReportRun: nobody who is owed a report is forgotten by the queue.
RecipientsAreAnswered == Reports!RecipientsAreAnswered
=============================================================================
