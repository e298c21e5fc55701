----------------------------- MODULE MCReminders -----------------------------
(***************************************************************************)
(* AttendanceConfirmation on two instances for its safety properties: two  *)
(* senders of one reminder with errors and crashes, and two replies while  *)
(* the operation is rescheduled.  part says which one runs; the constants  *)
(* of the run are those of the two together.                               *)
(***************************************************************************)
EXTENDS AttendanceConfirmation, TLC

CONSTANTS l1, l2, l3, r1, r2

VARIABLE part

Senders == INSTANCE AttendanceConfirmation WITH
    Lane <- {l1, l2}, Replier <- {},
    Event <- {"attend", "start", "end", "lapse", "crash"}, MaxVersion <- 1

Replies == INSTANCE AttendanceConfirmation WITH
    Lane <- {l3}, ContextEnabled <- FALSE,
    Event <- {"reschedule", "unassign"},
    MaxAttempts <- 1, Ceiling <- 1, MaxFaults <- 1

RemindersInit == part \in {"senders", "replies"} /\ Init

RemindersNext ==
    /\ part' = part
    /\ \/ part = "senders" /\ Senders!Next
       \/ part = "replies" /\ Replies!Next

RemindersSpec == RemindersInit /\ [][RemindersNext]_<<part, vars>>

Symmetry == Permutations({l1, l2}) \cup Permutations({r1, r2})
=============================================================================
