---------------------------- MODULE CompanyDeletion ----------------------------
(***************************************************************************)
(* The end of a company (company-lifecycle.service.ts, company-deletion-   *)
(* purge.service.ts).  An administrator deactivates it, a grace period     *)
(* goes by, and a job in every process claims what is due under a lease    *)
(* and purges it stage by stage: the stored objects, the operational rows, *)
(* the identity and configuration rows, a check that nothing is left, and  *)
(* a tombstone.  The stage is kept in the company's row, so that the next  *)
(* claim goes on where the last one stopped.                               *)
(*                                                                         *)
(* A purge looks at its lease when it enters a stage and not while it      *)
(* works on it: one that was overtaken finishes the stage it is in.        *)
(***************************************************************************)
EXTENDS Naturals, FiniteSets

CONSTANTS
    Company,
    Dormant,       \* companies created INACTIVE or SUSPENDED
    Protected,     \* COMPANY_PROTECTED_IDS or COMPANY_PROTECTED_NAMES
    Purger,        \* processes that run the deletion job
    Admin,         \* platform administrators' requests in flight
    MaxAttempts,   \* COMPANY_DELETION_MAX_ATTEMPTS
    MaxPurgeFaults, \* errors, crashes and leases a living purge outlives
    MaxMoves,      \* deactivations, reactivations and new data
    Null

ASSUME DeletionAssumption ==
    Null \notin Company \cup Purger /\ {MaxAttempts, MaxPurgeFaults, MaxMoves} \subseteq Nat

VARIABLES
    status,     \* companies.status
    due,        \* scheduled_deletion_at lies in the past
    stage,      \* deletion_purge_stage
    attempts,   \* deletion_attempts
    lease,      \* deletion_lease_owner, and whether the lease has expired
    files,      \* the objects in the bucket, and their pending deletion
    rows,       \* the operational rows exist
    config,     \* the identity and configuration rows exist
    purge,      \* what a process is doing
    request,    \* a deactivation between its read and its transaction
    purgeFaults, moves

CompanyRow == <<status, due, stage, attempts, lease>>
Data == <<files, rows, config>>
deletionVars == <<CompanyRow, Data, purge, request, purgeFaults, moves>>

Stages == <<"STORAGE_DISCOVERY", "STORAGE_DELETE", "OPERATIONAL_DATA_DELETE",
            "IDENTITY_CONFIG_DELETE", "VERIFY_EMPTY", "TOMBSTONE">>
Resting == [pc |-> "idle", company |-> Null, at |-> 1]
NoRequest == [company |-> Null, seen |-> "ACTIVE"]
FreeLease == [owner |-> Null, expired |-> FALSE]

DeletionTypeOK ==
    /\ status \in [Company -> {"ACTIVE", "INACTIVE", "PENDING_DELETION", "DELETING",
                               "DELETION_FAILED", "DELETED"}]
    /\ due \in [Company -> BOOLEAN]
    /\ stage \in [Company -> 1..6]
    /\ attempts \in [Company -> 0..MaxAttempts + 1]
    /\ lease \in [Company -> [owner : Purger \cup {Null}, expired : BOOLEAN]]
    /\ files \in [Company -> {"kept", "queued", "gone"}]
    /\ rows \in [Company -> BOOLEAN]
    /\ config \in [Company -> BOOLEAN]
    /\ purge \in [Purger -> [pc : {"idle", "enter", "work", "fail"},
                             company : Company \cup {Null}, at : 1..7]]
    /\ request \in [Admin -> [company : Company \cup {Null},
                              seen : {"ACTIVE", "INACTIVE"}]]
    /\ purgeFaults \in 0..MaxPurgeFaults
    /\ moves \in 0..MaxMoves

DeletionInit ==
    /\ status = [c \in Company |-> IF c \in Dormant THEN "INACTIVE" ELSE "ACTIVE"]
    /\ due = [c \in Company |-> FALSE]
    /\ stage = [c \in Company |-> 1]
    /\ attempts = [c \in Company |-> 0]
    /\ lease = [c \in Company |-> FreeLease]
    /\ files = [c \in Company |-> "kept"]
    /\ rows = [c \in Company |-> TRUE]
    /\ config = [c \in Company |-> TRUE]
    /\ purge = [p \in Purger |-> Resting]
    /\ request = [a \in Admin |-> NoRequest]
    /\ purgeFaults = 0
    /\ moves = 0

ActiveCompanies == {c \in Company : status[c] = "ACTIVE"}

-----------------------------------------------------------------------------
\* Administrators

\* deactivate: the company is read before the transaction.  A protected one,
\* and one whose deletion is under way, is answered at once.
DeactivateRead(a, c) ==
    /\ request[a] = NoRequest /\ moves < MaxMoves
    /\ c \notin Protected /\ status[c] \in {"ACTIVE", "INACTIVE"}
    /\ request' = [request EXCEPT ![a] = [company |-> c, seen |-> status[c]]]
    /\ moves' = moves + 1
    /\ UNCHANGED <<CompanyRow, Data, purge, purgeFaults>>

\* Under the application lock, which serialises deactivations: the active
\* companies are counted if the company was active when it was read, and
\* scheduleDeletion takes it from any status that is not being deleted.
MayDeactivate(a) ==
    /\ request[a].seen = "ACTIVE" => Cardinality(ActiveCompanies) > 1
    /\ status[request[a].company] \in {"ACTIVE", "INACTIVE"}

DeactivateCommit(a) ==
    LET c == request[a].company IN
    /\ request[a] # NoRequest
    /\ IF MayDeactivate(a)
       THEN /\ status' = [status EXCEPT ![c] = "PENDING_DELETION"]
            /\ due' = [due EXCEPT ![c] = FALSE]
            /\ stage' = [stage EXCEPT ![c] = 1]
            /\ attempts' = [attempts EXCEPT ![c] = 0]
            /\ lease' = [lease EXCEPT ![c] = FreeLease]
       ELSE UNCHANGED CompanyRow
    /\ request' = [request EXCEPT ![a] = NoRequest]
    /\ UNCHANGED <<Data, purge, purgeFaults, moves>>

\* reactivate: its UPDATE names the statuses it leaves, a failed deletion
\* among them, however far that had come.
Reactivate(c) ==
    /\ moves < MaxMoves
    /\ status[c] \in {"PENDING_DELETION", "DELETION_FAILED", "INACTIVE"}
    /\ status' = [status EXCEPT ![c] = "ACTIVE"]
    /\ due' = [due EXCEPT ![c] = FALSE]
    /\ stage' = [stage EXCEPT ![c] = 1]
    /\ attempts' = [attempts EXCEPT ![c] = 0]
    /\ lease' = [lease EXCEPT ![c] = FreeLease]
    /\ moves' = moves + 1
    /\ UNCHANGED <<Data, purge, request, purgeFaults>>

\* An active company is used: rows and objects appear.  No other status lets
\* anybody in (companyContextService, listActive).
Use(c) ==
    /\ status[c] = "ACTIVE" /\ moves < MaxMoves
    /\ files' = [files EXCEPT ![c] = "kept"]
    /\ rows' = [rows EXCEPT ![c] = TRUE]
    /\ config' = [config EXCEPT ![c] = TRUE]
    /\ moves' = moves + 1
    /\ UNCHANGED <<CompanyRow, purge, request, purgeFaults>>

GraceEnds(c) ==
    /\ status[c] = "PENDING_DELETION" /\ ~ due[c]
    /\ due' = [due EXCEPT ![c] = TRUE]
    /\ UNCHANGED <<status, stage, attempts, lease, Data, purge, request, purgeFaults, moves>>

-----------------------------------------------------------------------------
\* The deletion job

\* MUTANT of MayPurge: a deletion nobody works on is left to its first owner.
MayPurgeWaiting(c) ==
    status[c] \in {"PENDING_DELETION", "DELETION_FAILED"} /\ due[c]
\* claimNextDueForDeletion: what waits and is due, and what a process left.
MayPurge(c) ==
    \/ status[c] \in {"PENDING_DELETION", "DELETION_FAILED"} /\ due[c]
    \/ status[c] = "DELETING" /\ lease[c].expired

\* Abandoned deletions come first, then failed ones.  After the last attempt
\* the next one is a year away: the model does not wait for it.
Before(c, d) ==
    LET rank(x) == CASE status[x] = "DELETING" -> 0
                     [] status[x] = "DELETION_FAILED" -> 1 [] OTHER -> 2
    IN  rank(c) <= rank(d)

Claim(p, c) ==
    /\ purge[p] = Resting
    /\ MayPurge(c) /\ attempts[c] <= MaxAttempts
    /\ \A d \in Company : (MayPurge(d) /\ attempts[d] <= MaxAttempts) => Before(c, d)
    /\ status' = [status EXCEPT ![c] = "DELETING"]
    /\ attempts' = [attempts EXCEPT ![c] = @ + 1]
    /\ lease' = [lease EXCEPT ![c] = [owner |-> p, expired |-> FALSE]]
    /\ purge' = [purge EXCEPT ![p] =
          [pc |-> IF attempts[c] + 1 > MaxAttempts THEN "fail" ELSE "enter",
           company |-> c, at |-> stage[c]]]
    /\ UNCHANGED <<due, stage, Data, request, purgeFaults, moves>>

\* What every write to the row of a company under deletion asks for: the
\* owner, and not whether the lease has expired.
Owns(p) == LET c == purge[p].company
           IN  status[c] = "DELETING" /\ lease[c].owner = p

\* renewDeletionLease and setDeletionPurgeStage; a lease that was lost ends
\* the purge without a mark.
Enter(p) ==
    LET c == purge[p].company IN
    /\ purge[p].pc = "enter"
    /\ IF Owns(p)
       THEN /\ lease' = [lease EXCEPT ![c].expired = FALSE]
            /\ stage' = [stage EXCEPT ![c] = purge[p].at]
            /\ purge' = [purge EXCEPT ![p].pc = "work"]
       ELSE /\ purge' = [purge EXCEPT ![p] = Resting]
            /\ UNCHANGED <<lease, stage>>
    /\ UNCHANGED <<status, due, attempts, Data, request, purgeFaults, moves>>

Residue(c) == rows[c] \/ config[c] \/ files[c] = "queued"

\* The work of a stage, whoever holds the lease by now.  Keys are found
\* through the rows that name them.
Work(p) ==
    LET c == purge[p].company  s == Stages[purge[p].at] IN
    /\ purge[p].pc = "work" /\ s # "TOMBSTONE"
    /\ files' = [files EXCEPT ![c] =
          IF s = "STORAGE_DISCOVERY" /\ @ = "kept" /\ rows[c] THEN "queued"
          ELSE IF s = "STORAGE_DELETE" /\ @ = "queued" THEN "gone" ELSE @]
    /\ rows' = [rows EXCEPT ![c] = @ /\ s # "OPERATIONAL_DATA_DELETE"]
    /\ config' = [config EXCEPT ![c] = @ /\ s # "IDENTITY_CONFIG_DELETE"]
    /\ purge' = [purge EXCEPT ![p] =
          IF s = "VERIFY_EMPTY" /\ Residue(c) THEN [@ EXCEPT !.pc = "fail"]
          ELSE [@ EXCEPT !.pc = "enter", !.at = purge[p].at + 1]]
    /\ UNCHANGED <<CompanyRow, request, purgeFaults, moves>>

\* MUTANT of MayBury: the owner is not asked for.
MayBuryAny(p) == status[purge[p].company] = "DELETING"
MayBury(p) == Owns(p)

\* markDeleted
Tombstone(p) ==
    LET c == purge[p].company IN
    /\ purge[p].pc = "work" /\ Stages[purge[p].at] = "TOMBSTONE"
    /\ IF MayBury(p)
       THEN /\ status' = [status EXCEPT ![c] = "DELETED"]
            /\ due' = [due EXCEPT ![c] = FALSE]
            /\ lease' = [lease EXCEPT ![c] = FreeLease]
       ELSE UNCHANGED <<status, due, lease>>
    /\ purge' = [purge EXCEPT ![p] = Resting]
    /\ UNCHANGED <<stage, attempts, Data, request, purgeFaults, moves>>

\* An object that cannot be deleted, a transaction that rolls back, a read
\* that fails.
Error(p) ==
    /\ purge[p].pc \in {"enter", "work"} /\ purgeFaults < MaxPurgeFaults
    /\ purge' = [purge EXCEPT ![p].pc = "fail"]
    /\ purgeFaults' = purgeFaults + 1
    /\ UNCHANGED <<CompanyRow, Data, request, moves>>

\* markDeletionFailed, by the owner only.
MarkFailed(p) ==
    LET c == purge[p].company IN
    /\ purge[p].pc = "fail"
    /\ IF Owns(p)
       THEN /\ status' = [status EXCEPT ![c] = "DELETION_FAILED"]
            /\ lease' = [lease EXCEPT ![c] = FreeLease]
       ELSE UNCHANGED <<status, lease>>
    /\ purge' = [purge EXCEPT ![p] = Resting]
    /\ UNCHANGED <<due, stage, attempts, Data, request, purgeFaults, moves>>

Crash(p) ==
    /\ purge[p] # Resting /\ purgeFaults < MaxPurgeFaults
    /\ purge' = [purge EXCEPT ![p] = Resting]
    /\ purgeFaults' = purgeFaults + 1
    /\ UNCHANGED <<CompanyRow, Data, request, moves>>

Held(c) == \E p \in Purger : purge[p].company = c /\ lease[c].owner = p

\* Time runs out on a lease: that of a dead process always does, that of a
\* slow one while MaxPurgeFaults allows.
LeaseExpires(c) ==
    /\ status[c] = "DELETING" /\ ~ lease[c].expired
    /\ Held(c) => purgeFaults < MaxPurgeFaults
    /\ lease' = [lease EXCEPT ![c].expired = TRUE]
    /\ purgeFaults' = IF Held(c) THEN purgeFaults + 1 ELSE purgeFaults
    /\ UNCHANGED <<status, due, stage, attempts, Data, purge, request, moves>>

-----------------------------------------------------------------------------
Proceed(p) == (\E c \in Company : Claim(p, c)) \/ Enter(p) \/ Work(p)
                 \/ Tombstone(p) \/ MarkFailed(p)

DeletionNext ==
    \/ \E a \in Admin : DeactivateCommit(a) \/ \E c \in Company : DeactivateRead(a, c)
    \/ \E c \in Company : Reactivate(c) \/ Use(c) \/ GraceEnds(c) \/ LeaseExpires(c)
    \/ \E p \in Purger : Proceed(p) \/ Error(p) \/ Crash(p)

DeletionSpec == DeletionInit /\ [][DeletionNext]_deletionVars

\* The job's interval, the event loop and the clock: a process that is idle
\* claims what is due, one that works goes on, time passes.
Fairness ==
    /\ \A p \in Purger : WF_deletionVars(Proceed(p))
    /\ \A c \in Company : /\ WF_deletionVars(GraceEnds(c))
                         /\ WF_deletionVars(LeaseExpires(c) /\ ~ Held(c))

FairSpec == DeletionSpec /\ Fairness

-----------------------------------------------------------------------------
\* Properties

\* A tombstone is never put on a company with rows, memberships or settings
\* left, or with an object whose deletion is still pending: neither by a
\* purge that was overtaken, nor by one that resumes where another stopped,
\* nor after the company was brought back and used in between.
TombstoneMeansEmpty ==
    [][\A c \in Company :
           (status'[c] = "DELETED" /\ status[c] # "DELETED") => ~ Residue(c)]_deletionVars

\* A deletion that is due ends, in a tombstone or because the company was
\* brought back, or uses up its attempts; a process that dies over it does
\* not leave it where it is.
DeletionsEnd ==
    \A c \in Company :
        (status[c] = "PENDING_DELETION" \/ status[c] = "DELETING") ~>
            (status[c] \in {"DELETED", "ACTIVE"} \/ attempts[c] > MaxAttempts)
=============================================================================
