--------------------------- MODULE HealthDatabase ---------------------------
(***************************************************************************)
(* Who may have the history database: health_history/leadership.py takes   *)
(* the kernel lock of its directory, store.py creates or opens the file    *)
(* under that lock, and database_lifecycle.py owns both until close(),     *)
(* which gives up the store before the lock.  Several processes may try;   *)
(* any of them may die at any step, and the kernel then takes back its     *)
(* descriptors but leaves its files.                                       *)
(*                                                                         *)
(* The checks of paths, owners and modes either pass or fail here: what    *)
(* they look at belongs to the operator.  The kernel is external.          *)
(***************************************************************************)
EXTENDS Integers, FiniteSets

CONSTANTS Process,
          Creators,      \* those configured with create_if_missing
          Nobody,
          MaxAttempts,   \* bound: bootstraps of one process
          MaxTroubles    \* bound: failures and crashes

ASSUME DatabaseAssumption ==
    /\ Creators \subseteq Process /\ Nobody \notin Process
    /\ MaxAttempts \in Nat /\ MaxTroubles \in Nat

VARIABLES
    entry,       \* the lock file exists
    holder,      \* external: whose descriptor has the kernel lock
    file,        \* the database file: "absent", "partial" or "complete"
    stage,       \* where each process is
    connection,  \* it has a connection to the database
    answer,      \* what its last bootstrap or close said
    attempts,    \* bound
    troubles     \* bound

databaseVars == <<entry, holder, file, stage, connection, answer, attempts, troubles>>

Stages == {"out", "open_lock", "create_lock", "lock", "verify", "bootstrap", "create",
           "check", "release", "owned", "store_stuck", "unlock", "closed", "uncertain"}
Answers == {"none", "busy", "failed", "cleanup_failed", "owned"}

DatabaseTypeOK ==
    /\ entry \in BOOLEAN /\ holder \in Process \union {Nobody}
    /\ file \in {"absent", "partial", "complete"}
    /\ stage \in [Process -> Stages] /\ connection \in [Process -> BOOLEAN]
    /\ answer \in [Process -> Answers]

DatabaseInit ==
    /\ entry = FALSE /\ holder = Nobody /\ file = "absent"
    /\ stage = [p \in Process |-> "out"] /\ connection = [p \in Process |-> FALSE]
    /\ answer = [p \in Process |-> "none"]
    /\ attempts = [p \in Process |-> 0] /\ troubles = 0

At(p, where) == stage[p] = where
Moves(p, to) == stage' = [stage EXCEPT ![p] = to]
Says(p, what) == answer' = [answer EXCEPT ![p] = what]
Trouble == troubles < MaxTroubles /\ troubles' = troubles + 1
Keeps == UNCHANGED <<file, connection, attempts>>

-----------------------------------------------------------------------------
(* HealthHistoryLeadership.acquire().  The lock file is made once and      *)
(* never removed; two processes that both miss it may both try to make it. *)

Begin(p) ==
    /\ At(p, "out") /\ attempts[p] < MaxAttempts
    /\ attempts' = [attempts EXCEPT ![p] = @ + 1]
    /\ Moves(p, IF entry THEN "open_lock" ELSE "create_lock") /\ Says(p, "none")
    /\ UNCHANGED <<entry, holder, file, connection, troubles>>

CreateLock(p) ==
    /\ At(p, "create_lock") /\ entry' = TRUE
    /\ Moves(p, IF entry THEN "open_lock" ELSE "lock")
    /\ UNCHANGED <<holder, answer, troubles>> /\ Keeps

(* The entry, or what was opened, is not what it should be.                *)
OpenLock(p) ==
    /\ At(p, "open_lock")
    /\ \/ Moves(p, "lock") /\ UNCHANGED <<answer, troubles>>
       \/ Trouble /\ Moves(p, "out") /\ Says(p, "failed")
    /\ UNCHANGED <<entry, holder>> /\ Keeps

(* Bug: a shared lock is asked for, which another process does not prevent.*)
LockShared(p) ==
    /\ At(p, "lock") /\ holder' = p /\ Moves(p, "verify") /\ UNCHANGED <<answer, troubles>>
    /\ UNCHANGED entry /\ Keeps

(* Without waiting: a lock that is taken is an answer.                     *)
Lock(p) ==
    /\ At(p, "lock")
    /\ \/ holder = Nobody /\ holder' = p /\ Moves(p, "verify") /\ UNCHANGED <<answer, troubles>>
       \/ holder # Nobody /\ Moves(p, "out") /\ Says(p, "busy") /\ UNCHANGED <<holder, troubles>>
       \/ Trouble /\ Moves(p, "out") /\ Says(p, "failed") /\ UNCHANGED holder
    /\ UNCHANGED entry /\ Keeps

(* The lock file and the directory are looked at once more; if they have   *)
(* changed the lock is given back.                                         *)
Verify(p) ==
    /\ At(p, "verify")
    /\ \/ Moves(p, "bootstrap") /\ UNCHANGED <<holder, answer, troubles>>
       \/ Trouble /\ holder' = Nobody /\ Moves(p, "out") /\ Says(p, "failed")
    /\ UNCHANGED entry /\ Keeps

-----------------------------------------------------------------------------
(* HealthHistoryStore.create() and open_existing().                        *)

Connects(p) == connection' = [connection EXCEPT ![p] = TRUE]
Disconnects(p) == connection' = [connection EXCEPT ![p] = FALSE]
FailsTo(p, to) == Trouble /\ Moves(p, to) /\ UNCHANGED answer

(* Only a complete database opens; anything else is refused and left.      *)
OpenExisting(p) ==
    /\ At(p, "bootstrap") /\ (p \notin Creators \/ file # "absent")
    /\ \/ file = "complete" /\ Connects(p) /\ Moves(p, "owned") /\ Says(p, "owned")
          /\ UNCHANGED troubles
       \/ file # "complete" /\ Moves(p, "release") /\ UNCHANGED <<connection, answer, troubles>>
       \/ FailsTo(p, "release") /\ UNCHANGED connection
    /\ UNCHANGED <<entry, holder, file, attempts>>

Create(p) ==
    /\ At(p, "bootstrap") /\ p \in Creators /\ file = "absent"
    /\ file' = "partial" /\ Connects(p) /\ Moves(p, "create")
    /\ UNCHANGED <<entry, holder, answer, attempts, troubles>>

(* What was made is removed again, if it still can be.                     *)
Undo(p) == Disconnects(p) /\ file' \in {"absent", file} /\ FailsTo(p, "release")

(* The schema is committed in one transaction.                             *)
Populate(p) ==
    /\ At(p, "create")
    /\ \/ file' = "complete" /\ Moves(p, "check") /\ UNCHANGED <<connection, answer, troubles>>
       \/ Undo(p)
    /\ UNCHANGED <<entry, holder, attempts>>

Created(p) ==
    /\ At(p, "check")
    /\ \/ Moves(p, "owned") /\ Says(p, "owned") /\ UNCHANGED <<file, connection, troubles>>
       \/ Undo(p)
    /\ UNCHANGED <<entry, holder, attempts>>

(* The lock is given up after a failed bootstrap.  Its descriptor is       *)
(* forgotten first: if that fails the process has it until it ends.        *)
ReleaseAfterFailure(p) ==
    /\ At(p, "release") /\ Moves(p, "out")
    /\ \/ holder' = Nobody /\ Says(p, "failed") /\ UNCHANGED troubles
       \/ Trouble /\ holder' \in {p, Nobody} /\ Says(p, "cleanup_failed")
    /\ UNCHANGED entry /\ Keeps

-----------------------------------------------------------------------------
(* HealthHistoryDatabaseLifecycle.                                         *)

(* The store finds fault with its files and closes itself.                 *)
Distrust(p) ==
    /\ At(p, "owned") /\ connection[p] /\ Disconnects(p)
    /\ UNCHANGED <<entry, holder, file, stage, answer, attempts, troubles>>

(* Bug: a store that cannot be closed does not keep the lock.              *)
CloseStoreRegardless(p) ==
    /\ At(p, "owned") \/ At(p, "store_stuck")
    /\ \/ Disconnects(p) /\ Moves(p, "unlock") /\ UNCHANGED <<answer, troubles>>
       \/ Trouble /\ Moves(p, "unlock") /\ UNCHANGED <<connection, answer>>
    /\ UNCHANGED <<entry, holder, file, attempts>>

(* close() begins with the store and may be called again if that fails.    *)
CloseStore(p) ==
    /\ At(p, "owned") \/ At(p, "store_stuck")
    /\ \/ Disconnects(p) /\ Moves(p, "unlock") /\ UNCHANGED <<answer, troubles>>
       \/ connection[p] /\ Trouble /\ Moves(p, "store_stuck") /\ Says(p, "cleanup_failed")
          /\ UNCHANGED connection
    /\ UNCHANGED <<entry, holder, file, attempts>>

(* What became of a lock whose release failed is not known, and close()    *)
(* says so from then on.                                                   *)
Unlock(p) ==
    /\ At(p, "unlock")
    /\ \/ holder' = Nobody /\ Moves(p, "closed") /\ Says(p, "none") /\ UNCHANGED troubles
       \/ Trouble /\ holder' \in {p, Nobody} /\ Moves(p, "uncertain") /\ Says(p, "cleanup_failed")
    /\ UNCHANGED entry /\ Keeps

(* The process ends, or is ended, and may be started again.                *)
Die(p) ==
    /\ stage[p] # "out" \/ holder = p
    /\ Moves(p, "out") /\ Says(p, "none") /\ Disconnects(p)
    /\ holder' = (IF holder = p THEN Nobody ELSE holder)
    /\ IF stage[p] \in {"closed", "uncertain", "out"} THEN UNCHANGED troubles ELSE Trouble
    /\ UNCHANGED <<entry, file, attempts>>

Bootstraps(p) ==
    \/ Begin(p) \/ CreateLock(p) \/ OpenLock(p) \/ Lock(p) \/ Verify(p) \/ OpenExisting(p)
    \/ Create(p) \/ Populate(p) \/ Created(p) \/ ReleaseAfterFailure(p)

DatabaseNext ==
    \E p \in Process : Bootstraps(p) \/ Distrust(p) \/ CloseStore(p) \/ Unlock(p) \/ Die(p)
DatabaseSpec == DatabaseInit /\ [][DatabaseNext]_databaseVars

-----------------------------------------------------------------------------
(* Properties                                                              *)

(* A connection to the database is only ever had under the lock, so two    *)
(* processes never write it: not while one creates or gives it up, after a *)
(* close that failed half way, nor after a crash.                          *)
StoreUnderLock == \A p \in Process : connection[p] => holder = p

(* A lifecycle that says it is closed has given back both the store and    *)
(* the lock; one that cannot know it does not say so.                      *)
ClosedMeansReleased ==
    \A p \in Process : At(p, "closed") => ~connection[p] /\ holder # p

(* The database a process was given is there while it has it: a creation   *)
(* that fails takes back its own file and nobody else's.                   *)
DatabaseKept ==
    \A p \in Process : At(p, "owned") => file = "complete"
=============================================================================
