------------------------ MODULE HealthServiceProofs ------------------------
(***************************************************************************)
(* Proofs about the history service for any number of processes and any    *)
(* interval, log and store: one process at a time is past the lock, and    *)
(* the account of what a scheduler has missed balances at every step.      *)
(***************************************************************************)
EXTENDS HealthService, TLAPS

(* From the lock to its release a process holds the lock.                  *)
Locked == {"verify", "bootstrap", "create", "check", "release", "owned", "store_stuck", "unlock"}
Connected == {"create", "check", "owned", "store_stuck"}

LockHeld == \A p \in Process : stage[p] \in Locked => holder = p
ConnectedFits == \A p \in Process : connection[p] => stage[p] \in Connected
FileFits == \A p \in Process : stage[p] \in {"check", "owned"} => file = "complete"

DatabaseInvariant ==
  /\ DatabaseTypeOK
  /\ LockHeld
  /\ ConnectedFits
  /\ FileFits
  /\ ClosedMeansReleased

DatabaseAct(p) == Bootstraps(p) \/ Distrust(p) \/ CloseStore(p) \/ Unlock(p) \/ Die(p)

-----------------------------------------------------------------------------
LEMMA InitDatabase == DatabaseInit => DatabaseInvariant
  <1> SUFFICES ASSUME DatabaseInit PROVE DatabaseInvariant
    OBVIOUS
  <1>1. DatabaseTypeOK
    BY DEF DatabaseInit, DatabaseTypeOK, Stages, Answers
  <1>2. LockHeld /\ ConnectedFits /\ FileFits /\ ClosedMeansReleased
    BY DEF DatabaseInit, LockHeld, Locked, ConnectedFits, FileFits, ClosedMeansReleased, At
  <1> QED
    BY <1>1, <1>2 DEF DatabaseInvariant

LEMMA DatabaseStutter ==
  ASSUME DatabaseInvariant, UNCHANGED databaseVars
  PROVE  DatabaseInvariant'
  BY DEF databaseVars, DatabaseInvariant, DatabaseTypeOK, LockHeld, ConnectedFits, FileFits,
         ClosedMeansReleased, At

(* What a step of one process does to the variables of the others.         *)
Local(p) ==
  /\ \A q \in Process \ {p} : stage'[q] = stage[q] /\ connection'[q] = connection[q]
  /\ \A q \in Process \ {p} : holder = q => holder' = q
  /\ \A q \in Process \ {p} : holder' = q => holder = q

(* What it does to its own and to the file.                                *)
Own(p) ==
  /\ stage'[p] \in Locked => holder' = p
  /\ connection'[p] => stage'[p] \in Connected
  /\ stage'[p] \in {"check", "owned"} => file' = "complete"
  /\ stage'[p] = "closed" => ~connection'[p] /\ holder' # p
  /\ file' = file \/ holder = p

LEMMA StepTypes ==
  ASSUME DatabaseInvariant, NEW p \in Process, DatabaseAct(p)
  PROVE  DatabaseTypeOK'
  <1> USE DEF DatabaseInvariant, DatabaseTypeOK, Stages, Answers, At, Moves, Says, Keeps
  <1>1. CASE Begin(p) \/ CreateLock(p) \/ OpenLock(p) \/ Lock(p) \/ Verify(p)
    BY <1>1 DEF Begin, CreateLock, OpenLock, Lock, Verify
  <1>2. CASE OpenExisting(p) \/ Create(p)
    BY <1>2 DEF OpenExisting, Create, Connects, FailsTo
  <1>3. CASE Populate(p) \/ Created(p) \/ ReleaseAfterFailure(p)
    BY <1>3 DEF Populate, Created, ReleaseAfterFailure, Undo, Disconnects, FailsTo
  <1>4. CASE Distrust(p) \/ CloseStore(p) \/ Unlock(p) \/ Die(p)
    BY <1>4 DEF Distrust, CloseStore, Unlock, Die, Disconnects
  <1> QED
    BY <1>1, <1>2, <1>3, <1>4 DEF DatabaseAct, Bootstraps

LEMMA StepLocal ==
  ASSUME DatabaseInvariant, NEW p \in Process, DatabaseAct(p)
  PROVE  Local(p) /\ Own(p)
  <1> DatabaseTypeOK /\ LockHeld /\ ConnectedFits /\ FileFits /\ ClosedMeansReleased
    BY DEF DatabaseInvariant
  <1> USE DatabaseAssumption DEF DatabaseTypeOK, LockHeld, Locked, ConnectedFits, Connected,
       FileFits, ClosedMeansReleased, Local, Own, At, Moves, Says, Keeps
  <1>1. CASE Begin(p)
    BY <1>1 DEF Begin
  <1>2. CASE CreateLock(p)
    BY <1>2 DEF CreateLock
  <1>3. CASE OpenLock(p)
    BY <1>3 DEF OpenLock
  <1>4. CASE Lock(p)
    BY <1>4 DEF Lock
  <1>5. CASE Verify(p)
    BY <1>5 DEF Verify
  <1>6. CASE OpenExisting(p)
    BY <1>6 DEF OpenExisting, Connects, FailsTo
  <1>7. CASE Create(p)
    BY <1>7 DEF Create, Connects
  <1>8. CASE Populate(p)
    BY <1>8 DEF Populate, Undo, Disconnects, FailsTo
  <1>9. CASE Created(p)
    BY <1>9 DEF Created, Undo, Disconnects, FailsTo
  <1>10. CASE ReleaseAfterFailure(p)
    BY <1>10 DEF ReleaseAfterFailure
  <1>11. CASE Distrust(p)
    BY <1>11 DEF Distrust, Disconnects
  <1>12. CASE CloseStore(p)
    BY <1>12 DEF CloseStore, Disconnects
  <1>13. CASE Unlock(p)
    BY <1>13 DEF Unlock
  <1>14. CASE Die(p)
    BY <1>14 DEF Die, Disconnects
  <1> QED
    BY <1>1, <1>2, <1>3, <1>4, <1>5, <1>6, <1>7, <1>8, <1>9, <1>10, <1>11, <1>12, <1>13, <1>14
       DEF DatabaseAct, Bootstraps

LEMMA DatabaseStep ==
  ASSUME DatabaseInvariant, NEW p \in Process, DatabaseAct(p)
  PROVE  DatabaseInvariant'
  <1>1. DatabaseTypeOK'
    BY StepTypes
  <1>2. Local(p) /\ Own(p)
    BY StepLocal
  <1>3. LockHeld'
    BY <1>2 DEF DatabaseInvariant, LockHeld, Local, Own
  <1>4. ConnectedFits'
    BY <1>2 DEF DatabaseInvariant, ConnectedFits, Local, Own
  (* Whoever changes the file holds the lock, so no other has it open.     *)
  <1>5. FileFits'
    <2> SUFFICES ASSUME NEW q \in Process, stage'[q] \in {"check", "owned"}
                 PROVE  file' = "complete"
      BY DEF FileFits
    <2>1. CASE q = p
      BY <1>2, <2>1 DEF Own
    <2>2. CASE q # p
      <3>1. stage[q] \in {"check", "owned"}
        BY <1>2, <2>2 DEF Local
      <3>2. file = "complete" /\ holder = q
        BY <3>1 DEF DatabaseInvariant, FileFits, LockHeld, Locked
      <3> QED
        BY <1>2, <2>2, <3>2 DEF Own
    <2> QED
      BY <2>1, <2>2
  <1>6. ClosedMeansReleased'
    BY <1>2 DEF DatabaseInvariant, ClosedMeansReleased, Local, Own, At
  <1> QED
    BY <1>1, <1>3, <1>4, <1>5, <1>6 DEF DatabaseInvariant

(* Every step of the service is a step of the database or leaves it alone. *)
LEMMA ServiceStepsDatabase ==
  [ServiceNext]_serviceVars => UNCHANGED databaseVars \/ \E p \in Process : DatabaseAct(p)
  <1> SUFFICES ASSUME [ServiceNext]_serviceVars
               PROVE  UNCHANGED databaseVars \/ \E p \in Process : DatabaseAct(p)
    OBVIOUS
  <1>1. CASE UNCHANGED serviceVars
    BY <1>1 DEF serviceVars
  <1>2. ASSUME NEW p \in Process, Bootstrap(p) \/ Preflight(p) \/ StartupCheckpoint(p)
                 \/ Construct(p) \/ Sample(p) \/ Close(p) \/ Release(p) \/ Kill(p)
        PROVE  UNCHANGED databaseVars \/ DatabaseAct(p)
    BY <1>2 DEF Bootstrap, Preflight, StartupCheckpoint, Construct, Sample, Close, Release, Kill,
                DatabaseAct
  <1>3. CASE Tick /\ UNCHANGED <<databaseVars, ready>>
    BY <1>3
  <1> QED
    BY <1>1, <1>2, <1>3 DEF ServiceNext

LEMMA DatabaseInvariantHolds == ServiceSpec => []DatabaseInvariant
  <1>1. ServiceInit => DatabaseInvariant
    BY InitDatabase DEF ServiceInit
  <1>2. DatabaseInvariant /\ [ServiceNext]_serviceVars => DatabaseInvariant'
    BY ServiceStepsDatabase, DatabaseStep, DatabaseStutter
  <1> QED
    BY <1>1, <1>2, PTL DEF ServiceSpec

-----------------------------------------------------------------------------
(* With its sampling, its startup check and its kills the service does     *)
(* nothing to the database that leadership and lifecycle alone do not.     *)
THEOREM ServiceImplementsDatabase == ServiceSpec => DatabaseSpec
  <1>1. ServiceInit => DatabaseInit
    BY DEF ServiceInit
  <1>2. [ServiceNext]_serviceVars => [DatabaseNext]_databaseVars
    BY ServiceStepsDatabase DEF DatabaseAct, DatabaseNext
  <1> QED
    BY <1>1, <1>2, PTL DEF ServiceSpec, DatabaseSpec

(* Every variable of leadership and database lifecycle keeps its type.     *)
THEOREM DatabaseTypeCorrect == ServiceSpec => []DatabaseTypeOK
  <1>1. DatabaseInvariant => DatabaseTypeOK
    BY DEF DatabaseInvariant
  <1> QED
    BY <1>1, DatabaseInvariantHolds, PTL

(* Whatever fails and whoever dies, a connection is only had under the     *)
(* kernel lock: two processes never write one database.                    *)
THEOREM StoreUnderLockHolds == ServiceSpec => []StoreUnderLock
  <1>1. DatabaseInvariant => StoreUnderLock
    BY DEF DatabaseInvariant, LockHeld, Locked, ConnectedFits, Connected, StoreUnderLock
  <1> QED
    BY <1>1, DatabaseInvariantHolds, PTL

(* A close() that reports success has given back the store and the lock.   *)
THEOREM ClosedMeansReleasedHolds == ServiceSpec => []ClosedMeansReleased
  <1>1. DatabaseInvariant => ClosedMeansReleased
    BY DEF DatabaseInvariant
  <1> QED
    BY <1>1, DatabaseInvariantHolds, PTL

(* No other process takes away or replaces the database of its owner.      *)
THEOREM DatabaseKeptHolds == ServiceSpec => []DatabaseKept
  <1>1. DatabaseInvariant => DatabaseKept
    BY DEF DatabaseInvariant, FileFits, DatabaseKept, At
  <1> QED
    BY <1>1, DatabaseInvariantHolds, PTL

-----------------------------------------------------------------------------
(* The scheduler.                                                          *)

Marks == {"none", "startup_gap", "heartbeat", "clock_discontinuity"}
Results == {"none", "accepted", "failed", "trust_failed", "invalid_clock", "collection_failed",
            "wal_oversize_blocked", "capacity_blocked", "checkpoint_busy", "checkpoint_incomplete"}
CallTypeOK ==
  call \in [missed : Nat, kind : Marks, attempted : BOOLEAN, cleanups : Nat,
            checkpoints : Nat, result : Results]
WalTypeOK == wal \in [frames : Nat, copied : BOOLEAN, slots : Nat]
LifeTypeOK ==
  life \in [base : Nat, markers : Nat, first : Marks, startups : Nat, said : Nat, owed : Int]

SchedulerTypeOK ==
  /\ clock \in Nat /\ planned \in Nat /\ pending \in Nat /\ startup \in BOOLEAN
  /\ CallTypeOK
  /\ WalTypeOK
  /\ LifeTypeOK

(* An observation is at the store's door only while the log is short.      *)
LogShort == place = "ingest" => wal.frames < DueFrames

Judging == {"inspect", "capacity", "reinspect", "checkpoint", "recheck", "ingest"}

(* The mark of the start is pending until the first acceptance.            *)
MarkFits ==
  /\ startup <=> life.first = "none"
  /\ startup => life.startups = 0
  /\ place \in Judging => \/ call.kind = "clock_discontinuity"
                          \/ startup /\ call.kind = "startup_gap"
                          \/ ~startup /\ call.kind = "heartbeat"
  /\ FirstIsMarked

(* k intervals after the last acceptance that was no marker, those that no *)
(* marker took are pending; the one being sampled is not among them.       *)
Account(k) ==
  /\ planned = life.base + k * Interval
  /\ place \notin Sampling => k >= life.markers /\ pending = Capped(k - life.markers)
  /\ place \in Sampling => k > life.markers /\ pending = Capped(k - life.markers - 1)

Balanced ==
  /\ \E k \in Nat : Account(k)
  /\ life.said = life.owed
  /\ place \in {"resume", "collect"} => call.missed = pending
  /\ place \in Judging => call.kind = "clock_discontinuity" \/ call.missed = pending

(* What the observation did, maintenance does not do again.                *)
AttemptsFit ==
  /\ ~call.attempted => call.cleanups = 0 /\ call.checkpoints = 0
  /\ place \in {"resume", "collect", "inspect", "capacity", "trigger", "maintain"} =>
       ~call.attempted
  /\ place \in {"reinspect", "checkpoint", "maintain_wal"} => call.checkpoints = 0
  /\ OncePerCall

SchedulerInvariant ==
  /\ SchedulerTypeOK
  /\ LogShort
  /\ MarkFits
  /\ Balanced
  /\ AttemptsFit

LEMMA Quotient ==
  ASSUME NEW k \in Nat, NEW b \in Nat \ {0}
  PROVE  (k * b) \div b = k
  OBVIOUS

LEMMA QuotientIsNat ==
  ASSUME NEW a \in Nat, NEW b \in Nat \ {0}
  PROVE  a \div b \in Nat
  OBVIOUS

LEMMA Adds ==
  ASSUME NEW k \in Nat, NEW m \in Nat, NEW b \in Nat
  PROVE  (k + m) * b = k * b + m * b /\ k * b \in Nat
  OBVIOUS

(* The cap of the counter may be applied along the way.                    *)
LEMMA CappedOnce ==
  ASSUME NEW m \in Nat, NEW n \in Nat
  PROVE  Capped(m) \in Nat /\ Capped(Capped(m) + n) = Capped(m + n)
  BY SchedulerAssumption DEF Capped, Smaller

LEMMA InitScheduler == SchedulerInit => SchedulerInvariant
  <1> SUFFICES ASSUME SchedulerInit PROVE SchedulerInvariant
    OBVIOUS
  <1> USE SchedulerAssumption DEF SchedulerInit, NoCall, NewLife, EmptyLog
  <1>1. SchedulerTypeOK
    BY DEF SchedulerTypeOK, CallTypeOK, Marks, Results, WalTypeOK, LifeTypeOK
  <1>2. LogShort /\ AttemptsFit
    BY DEF LogShort, AttemptsFit, OncePerCall
  <1>3. MarkFits
    BY DEF MarkFits, FirstIsMarked, Judging
  <1>4. Account(0)
    BY DEF Account, Sampling, Capped, Smaller
  <1>5. Balanced
    BY <1>4 DEF Balanced, Judging
  <1> QED
    BY <1>1, <1>2, <1>5, <1>3 DEF SchedulerInvariant

(* What a step of a call does to the account and to the mark.              *)
Failed ==
  /\ place \in Sampling /\ place' \in {"idle", "trigger"} /\ pending' = Capped(pending + 1)
  /\ UNCHANGED <<planned, startup, life>>
GoesOn ==
  /\ UNCHANGED <<planned, pending, startup, life>>
  /\ \/ place \notin Sampling /\ place' \notin Sampling
     \/ place = "resume" /\ place' = "collect" /\ call' = call
     \/ /\ place \in Judging /\ place' \in Judging
        /\ call'.kind = call.kind /\ call'.missed = call.missed
Collected ==
  /\ place = "collect" /\ place' = "inspect" /\ UNCHANGED <<planned, pending, startup, life>>
  /\ call'.kind \in Kinds /\ call'.missed = Reports(call'.kind)
Taken == place = "ingest" /\ \E stored \in BOOLEAN : Accepted(stored)

LEMMA DecisionCases ==
  ASSUME NEW pressed \in BOOLEAN
  PROVE  /\ Decision(pressed) \in {"wal_oversize_blocked", "capacity_blocked",
                                   "checkpoint_due", "proceed"}
         /\ Decision(pressed) = "proceed" => ~Oversize /\ ~CheckpointDue
  BY DEF Decision

LEMMA Effects ==
  ASSUME SchedulerTypeOK, Advance
  PROVE  Check \/ Failed \/ GoesOn \/ Collected \/ Taken
  <1> USE DEF SchedulerTypeOK, CallTypeOK, Failed, GoesOn, Sampling, Judging,
              Goes, Ends, Unaccepted, Lost, MissOne, memory, cadence
  <1>1. CASE Refresh
    BY <1>1 DEF Refresh
  <1>2. CASE Collect
    BY <1>2 DEF Collect, Collected
  <1>3. CASE Inspect
    <2>1. place = "inspect"
          /\ (Unaccepted("wal_oversize_blocked") \/ Unaccepted("failed")
                \/ (UNCHANGED memory /\ (Goes("capacity") \/ Goes("checkpoint") \/ Goes("ingest"))))
          /\ UNCHANGED life
      BY <1>3, DecisionCases DEF Inspect
    <2> QED
      BY <2>1
  <1>4. CASE Reinspect
    <2>1. place = "reinspect"
          /\ (Unaccepted("wal_oversize_blocked") \/ Unaccepted("capacity_blocked")
                \/ Unaccepted("failed")
                \/ (UNCHANGED memory /\ (Goes("checkpoint") \/ Goes("ingest"))))
          /\ UNCHANGED life
      BY <1>4, DecisionCases DEF Reinspect
    <2> QED
      BY <2>1
  <1>5. CASE MakeRoom
    BY <1>5 DEF MakeRoom, Cleans
  <1>6. CASE Checkpoint
    BY <1>6 DEF Checkpoint, Checkpoints, CheckpointFails
  <1>7. CASE Recheck
    BY <1>7 DEF Recheck
  <1>8. CASE Ingest
    BY <1>8 DEF Ingest, Taken
  <1>9. CASE Trigger
    BY <1>9 DEF Trigger
  <1>10. CASE Maintain
    BY <1>10 DEF Maintain, Cleans, Abandons
  <1>11. CASE MaintainWal
    BY <1>11 DEF MaintainWal, Checkpoints, CheckpointFails, Abandons
  <1>12. CASE Maintained
    BY <1>12 DEF Maintained
  <1> QED
    BY <1>1, <1>2, <1>3, <1>4, <1>5, <1>6, <1>7, <1>8, <1>9, <1>10, <1>11, <1>12 DEF Advance

LEMMA MarkStep ==
  ASSUME SchedulerTypeOK, MarkFits, Advance
  PROVE  MarkFits'
  <1> USE DEF MarkFits, FirstIsMarked, Judging
  <1>1. CASE Check
    BY <1>1 DEF Check
  <1>2. CASE Failed
    BY <1>2 DEF Failed
  <1>3. CASE GoesOn
    BY <1>3 DEF GoesOn, Sampling
  <1>4. CASE Collected
    BY <1>4 DEF Collected, Kinds
  <1>5. CASE Taken
    <2>1. PICK stored \in BOOLEAN : Accepted(stored)
      BY <1>5 DEF Taken
    <2>2. ~startup' /\ place' \notin Judging
      BY <2>1 DEF Accepted
    <2>3. life'.first = (IF life.first = "none" THEN call.kind ELSE life.first)
          /\ life'.startups = life.startups + (IF call.kind = "startup_gap" THEN 1 ELSE 0)
      BY <2>1 DEF Accepted, Lives
    <2> QED
      BY <1>5, <2>2, <2>3 DEF Taken, SchedulerTypeOK, LifeTypeOK
  <1> QED
    BY <1>1, <1>2, <1>3, <1>4, <1>5, Effects

(* k intervals from the last acceptance to the deadline.                   *)
LEMMA OwedIs ==
  ASSUME SchedulerTypeOK, NEW k \in Nat, planned = life.base + k * Interval
  PROVE  Owed = k - life.markers
  <1>1. Interval \in Nat \ {0} /\ life.base \in Nat /\ k * Interval \in Nat
    BY SchedulerAssumption, Adds DEF SchedulerTypeOK, LifeTypeOK
  <1>2. planned - life.base = k * Interval
    BY <1>1
  <1> QED
    BY <1>1, <1>2, Quotient DEF Owed

LEMMA BalanceStep ==
  ASSUME SchedulerTypeOK, Balanced, Advance
  PROVE  Balanced'
  <1>1. PICK k \in Nat : Account(k)
    BY DEF Balanced
  <1>2. life.markers \in Nat /\ life.base \in Nat /\ pending \in Nat /\ planned \in Nat
    BY DEF SchedulerTypeOK, LifeTypeOK
  <1>3. CASE Check
    <2>1. Elapsed \in Nat
      <3>1. Interval \in Nat \ {0} /\ clock - planned \in Nat
        BY <1>2, <1>3, SchedulerAssumption DEF Check, SchedulerTypeOK
      <3> QED
        BY <3>1, QuotientIsNat DEF Elapsed
    <2>2. place \notin Sampling /\ place' = "resume" /\ UNCHANGED life
          /\ planned' = planned + (Elapsed + 1) * Interval
          /\ pending' = Capped(pending + Elapsed) /\ call'.missed = pending'
      BY <1>3 DEF Check, Sampling, NoCall
    <2>3. k >= life.markers /\ pending = Capped(k - life.markers)
      BY <1>1, <2>2 DEF Account
    <2>4. PICK l \in Nat : l = k + (Elapsed + 1)
      BY <2>1
    <2>5. l > life.markers /\ l - life.markers - 1 = (k - life.markers) + Elapsed
          /\ k - life.markers \in Nat
      BY <1>2, <2>1, <2>3, <2>4
    <2>6. pending' = Capped(l - life.markers - 1)
      <3>1. Capped(Capped(k - life.markers) + Elapsed) = Capped((k - life.markers) + Elapsed)
        BY <2>1, <2>5, CappedOnce
      <3> QED
        BY <2>2, <2>3, <2>5, <3>1
    <2>7. planned' = life.base + l * Interval
      <3>1. Interval \in Nat /\ Elapsed + 1 \in Nat
        BY <2>1, SchedulerAssumption
      <3>2. l * Interval = k * Interval + (Elapsed + 1) * Interval
            /\ k * Interval \in Nat /\ (Elapsed + 1) * Interval \in Nat
        BY <2>4, <3>1, Adds
      <3>3. planned = life.base + k * Interval
        BY <1>1 DEF Account
      <3> QED
        BY <1>2, <2>2, <3>2, <3>3
    <2>8. Account(l)'
      BY <2>2, <2>5, <2>6, <2>7 DEF Account, Sampling
    <2>9. life'.said = life'.owed
      BY <2>2 DEF Balanced
    <2> QED
      BY <2>2, <2>8, <2>9 DEF Balanced, Judging
  <1>4. CASE Failed
    <2>1. k > life.markers /\ pending = Capped(k - life.markers - 1)
      BY <1>1, <1>4 DEF Failed, Account
    <2>2. k - life.markers - 1 \in Nat /\ (k - life.markers - 1) + 1 = k - life.markers
      BY <1>2, <2>1
    <2>3. pending' = Capped(k - life.markers)
      <3>1. Capped(Capped(k - life.markers - 1) + 1) = Capped((k - life.markers - 1) + 1)
        BY <2>2, CappedOnce
      <3> QED
        BY <1>4, <2>1, <2>2, <3>1 DEF Failed
    <2>4. Account(k)'
      BY <1>1, <1>2, <1>4, <2>1, <2>3 DEF Failed, Account, Sampling
    <2> QED
      BY <1>4, <2>4 DEF Failed, Balanced, Judging
  <1>5. CASE GoesOn
    <2>1. Account(k)'
      BY <1>1, <1>5 DEF GoesOn, Account, Sampling, Judging
    <2> QED
      BY <1>5, <2>1 DEF GoesOn, Balanced, Sampling, Judging
  <1>6. CASE Collected
    <2>1. Account(k)'
      BY <1>1, <1>6 DEF Collected, Account, Sampling
    <2>2. call'.kind = "clock_discontinuity" \/ call'.missed = pending'
      BY <1>6 DEF Collected, Reports, Balanced
    <2> QED
      BY <1>6, <2>1, <2>2 DEF Collected, Balanced
  <1>7. CASE Taken
    <2>1. PICK stored \in BOOLEAN : Accepted(stored)
      BY <1>7 DEF Taken
    <2>2. place = "ingest" /\ k > life.markers /\ pending = Capped(k - life.markers - 1)
      BY <1>1, <1>7 DEF Taken, Account, Sampling
    <2>3. Owed - 1 = k - life.markers - 1
      BY <1>1, OwedIs DEF Account
    <2>4. planned' = planned /\ life' = Lives /\ place' \in {"idle", "trigger"}
          /\ pending' = IF IsMarker(call.kind) THEN pending ELSE 0
      BY <2>1 DEF Accepted
    <2>5. CASE IsMarker(call.kind)
      <3>1. life'.base = life.base /\ life'.markers = life.markers + 1
            /\ life'.said = life.said /\ life'.owed = life.owed
        BY <2>4, <2>5 DEF Lives
      <3>2. k >= life.markers + 1 /\ k - (life.markers + 1) = k - life.markers - 1
        BY <1>2, <2>2
      <3>3. Account(k)'
        BY <1>1, <2>2, <2>4, <2>5, <3>1, <3>2 DEF Account, Sampling
      <3> QED
        BY <2>4, <3>1, <3>3 DEF Balanced, Judging
    <2>6. CASE ~IsMarker(call.kind)
      <3>1. life'.base = planned /\ life'.markers = 0
            /\ life'.said = call.missed /\ life'.owed = Capped(Owed - 1)
        BY <2>4, <2>6 DEF Lives
      <3>2. call.missed = pending
        BY <2>2, <2>6 DEF Balanced, Judging, IsMarker
      <3>3. Capped(0) = 0 /\ 0 * Interval = 0
        BY SchedulerAssumption DEF Capped, Smaller
      <3>4. Account(0)'
        BY <1>2, <2>4, <2>6, <3>1, <3>3 DEF Account, Sampling
      <3> QED
        BY <2>2, <2>3, <2>4, <3>1, <3>2, <3>4 DEF Balanced, Judging
    <2> QED
      BY <2>5, <2>6
  <1> QED
    BY <1>3, <1>4, <1>5, <1>6, <1>7, Effects

(* What is written to the log or copied from it.                           *)
LEMMA LogSteps ==
  ASSUME WalTypeOK
  PROVE  /\ \A n \in Nat : Written(n) \subseteq [frames : Nat, copied : BOOLEAN, slots : Nat]
         /\ \A log \in Copied : /\ log \in [frames : Nat, copied : BOOLEAN, slots : Nat]
                               /\ log.frames = wal.frames
         /\ \A log \in SomeFrames : log \in [frames : Nat, copied : BOOLEAN, slots : Nat]
  <1>1. ASSUME NEW n \in Nat
        PROVE  Written(n) \subseteq [frames : Nat, copied : BOOLEAN, slots : Nat]
    <2>1. \A used \in Nat : Appended(used, n) \in [frames : Nat, copied : BOOLEAN, slots : Nat]
      BY <1>1 DEF Appended, WalTypeOK, Bigger
    <2>2. wal \in [frames : Nat, copied : BOOLEAN, slots : Nat] /\ wal.frames \in Nat
      BY DEF WalTypeOK
    <2> QED
      BY <2>1, <2>2 DEF Written
  <1>2. \A log \in Copied : /\ log \in [frames : Nat, copied : BOOLEAN, slots : Nat]
                           /\ log.frames = wal.frames
    BY DEF Copied, WalTypeOK
  <1> QED
    BY <1>1, <1>2, SchedulerAssumption DEF SomeFrames

(* What a clean-up and a checkpoint note in the call.                      *)
LEMMA AttemptNoted ==
  ASSUME CallTypeOK, NEW c
  PROVE  /\ c = [call EXCEPT !.cleanups = @ + 1, !.attempted = TRUE] =>
              /\ c \in [missed : Nat, kind : Marks, attempted : BOOLEAN, cleanups : Nat,
                        checkpoints : Nat, result : Results]
              /\ c.attempted /\ c.cleanups = call.cleanups + 1
              /\ c.checkpoints = call.checkpoints
         /\ c = [call EXCEPT !.checkpoints = @ + 1, !.attempted = TRUE] =>
              /\ c \in [missed : Nat, kind : Marks, attempted : BOOLEAN, cleanups : Nat,
                        checkpoints : Nat, result : Results]
              /\ c.attempted /\ c.checkpoints = call.checkpoints + 1
              /\ c.cleanups = call.cleanups
  <1> DEFINE Call == [missed : Nat, kind : Marks, attempted : BOOLEAN, cleanups : Nat,
                      checkpoints : Nat, result : Results]
  <1> SUFFICES ASSUME call \in Call
               PROVE  /\ c = [call EXCEPT !.cleanups = @ + 1, !.attempted = TRUE] =>
                           c \in Call /\ c.attempted /\ c.cleanups = call.cleanups + 1
                             /\ c.checkpoints = call.checkpoints
                      /\ c = [call EXCEPT !.checkpoints = @ + 1, !.attempted = TRUE] =>
                           c \in Call /\ c.attempted /\ c.checkpoints = call.checkpoints + 1
                             /\ c.cleanups = call.cleanups
    BY DEF CallTypeOK
  <1>1. ASSUME c = [call EXCEPT !.cleanups = @ + 1, !.attempted = TRUE]
        PROVE  c \in Call /\ c.attempted /\ c.cleanups = call.cleanups + 1
                 /\ c.checkpoints = call.checkpoints
    <2>1. c = [[call EXCEPT !.cleanups = call.cleanups + 1] EXCEPT !.attempted = TRUE]
      BY <1>1, Zenon
    <2>2. c.cleanups = call.cleanups + 1 /\ c.attempted = TRUE /\ c.checkpoints = call.checkpoints
      BY <2>1
    <2>3. PICK d : d = [call EXCEPT !.cleanups = call.cleanups + 1]
      OBVIOUS
    <2>4. d \in Call
      BY <2>3
    <2>5. [d EXCEPT !.attempted = TRUE] \in Call
      BY <2>4
    <2> QED
      BY <2>1, <2>2, <2>3, <2>5
  <1>2. ASSUME c = [call EXCEPT !.checkpoints = @ + 1, !.attempted = TRUE]
        PROVE  c \in Call /\ c.attempted /\ c.checkpoints = call.checkpoints + 1
                 /\ c.cleanups = call.cleanups
    <2>1. c = [[call EXCEPT !.checkpoints = call.checkpoints + 1] EXCEPT !.attempted = TRUE]
      BY <1>2, Zenon
    <2>2. c.checkpoints = call.checkpoints + 1 /\ c.attempted = TRUE /\ c.cleanups = call.cleanups
      BY <2>1
    <2>3. PICK d : d = [call EXCEPT !.checkpoints = call.checkpoints + 1]
      OBVIOUS
    <2>4. d \in Call
      BY <2>3
    <2>5. [d EXCEPT !.attempted = TRUE] \in Call
      BY <2>4
    <2> QED
      BY <2>1, <2>2, <2>3, <2>5
  <1> QED
    BY <1>1, <1>2

LEMMA AttemptsStep ==
  ASSUME SchedulerTypeOK, AttemptsFit, Advance
  PROVE  AttemptsFit'
  <1> USE DEF SchedulerTypeOK, CallTypeOK, AttemptsFit, OncePerCall, Goes, Ends, Unaccepted
  <1>1. CASE Check
    BY <1>1 DEF Check, NoCall
  <1>2. CASE Refresh
    BY <1>2 DEF Refresh
  <1>3. CASE Collect
    BY <1>3 DEF Collect
  <1>4. CASE Inspect
    <2>1. place = "inspect"
          /\ (Unaccepted("wal_oversize_blocked") \/ Unaccepted("failed")
                \/ Goes("capacity") \/ Goes("checkpoint") \/ Goes("ingest"))
      BY <1>4, DecisionCases DEF Inspect
    <2> QED
      BY <2>1
  <1>5. CASE MakeRoom
    <2>1. place = "capacity"
          /\ \/ \E result \in Results : Unaccepted(result)
             \/ /\ place' = "reinspect"
                /\ call' = [call EXCEPT !.cleanups = @ + 1, !.attempted = TRUE]
      BY <1>5 DEF MakeRoom, Cleans, Results
    <2>2. CASE \E result \in Results : Unaccepted(result)
      BY <2>1, <2>2
    <2>3. CASE place' = "reinspect" /\ call' = [call EXCEPT !.cleanups = @ + 1, !.attempted = TRUE]
      <3>1. call'.attempted /\ call'.cleanups = call.cleanups + 1
            /\ call'.checkpoints = call.checkpoints
        BY <2>3, AttemptNoted
      <3> QED
        BY <2>1, <2>3, <3>1
    <2> QED
      BY <2>1, <2>2, <2>3
  <1>6. CASE Reinspect
    <2>1. place = "reinspect"
          /\ (Unaccepted("wal_oversize_blocked") \/ Unaccepted("capacity_blocked")
                \/ Unaccepted("failed") \/ Goes("checkpoint") \/ Goes("ingest"))
      BY <1>6, DecisionCases DEF Reinspect
    <2> QED
      BY <2>1
  <1>7. CASE Checkpoint
    <2>1. place = "checkpoint"
          /\ \/ \E result \in Results : Unaccepted(result)
             \/ /\ place' = "recheck"
                /\ call' = [call EXCEPT !.checkpoints = @ + 1, !.attempted = TRUE]
      BY <1>7 DEF Checkpoint, Checkpoints, CheckpointFails, Results
    <2>2. CASE \E result \in Results : Unaccepted(result)
      BY <2>1, <2>2
    <2>3. CASE place' = "recheck" /\ call' = [call EXCEPT !.checkpoints = @ + 1, !.attempted = TRUE]
      <3>1. call'.attempted /\ call'.checkpoints = call.checkpoints + 1
            /\ call'.cleanups = call.cleanups
        BY <2>3, AttemptNoted
      <3> QED
        BY <2>1, <2>3, <3>1
    <2> QED
      BY <2>1, <2>2, <2>3
  <1>8. CASE Recheck
    <2>1. place = "recheck"
          /\ (Goes("ingest") \/ \E result \in Results : Unaccepted(result))
      BY <1>8, DecisionCases DEF Recheck, Results
    <2> QED
      BY <2>1
  <1>9. CASE Ingest
    BY <1>9 DEF Ingest, Accepted
  <1>10. CASE Trigger
    BY <1>10 DEF Trigger
  <1>11. CASE Maintain
    <2>1. place = "maintain"
          /\ \/ \E result \in Results : Ends(result)
             \/ /\ place' = "maintain_wal"
                /\ call' = [call EXCEPT !.cleanups = @ + 1, !.attempted = TRUE]
      BY <1>11 DEF Maintain, Cleans, Abandons, Results
    <2>2. CASE \E result \in Results : Ends(result)
      BY <2>1, <2>2
    <2>3. CASE place' = "maintain_wal" /\ call' = [call EXCEPT !.cleanups = @ + 1, !.attempted = TRUE]
      <3>1. call'.attempted /\ call'.cleanups = call.cleanups + 1
            /\ call'.checkpoints = call.checkpoints
        BY <2>3, AttemptNoted
      <3> QED
        BY <2>1, <2>3, <3>1
    <2> QED
      BY <2>1, <2>2, <2>3
  <1>12. CASE MaintainWal
    <2>1. place = "maintain_wal"
          /\ \/ \E result \in Results : Ends(result)
             \/ Goes("maintained")
             \/ /\ place' = "maintained"
                /\ call' = [call EXCEPT !.checkpoints = @ + 1, !.attempted = TRUE]
      BY <1>12 DEF MaintainWal, Checkpoints, CheckpointFails, Abandons, Results
    <2>2. CASE Goes("maintained") \/ \E result \in Results : Ends(result)
      BY <2>1, <2>2
    <2>3. CASE place' = "maintained" /\ call' = [call EXCEPT !.checkpoints = @ + 1, !.attempted = TRUE]
      <3>1. call'.attempted /\ call'.checkpoints = call.checkpoints + 1
            /\ call'.cleanups = call.cleanups
        BY <2>3, AttemptNoted
      <3> QED
        BY <2>1, <2>3, <3>1
    <2> QED
      BY <2>1, <2>2, <2>3
  <1>13. CASE Maintained
    BY <1>13 DEF Maintained
  <1> QED
    BY <1>1, <1>2, <1>3, <1>4, <1>5, <1>6, <1>7, <1>8, <1>9, <1>10, <1>11, <1>12, <1>13
       DEF Advance

(* Only an inspection that lets the observation pass opens the door, and   *)
(* it leaves the log as it is.                                             *)
LEMMA LogStep ==
  ASSUME SchedulerTypeOK, Advance
  PROVE  LogShort'
  <1>1. ASSUME ~CheckpointDue, ~Oversize, wal' = wal PROVE LogShort'
    BY <1>1, SchedulerAssumption DEF CheckpointDue, LogShort, SchedulerTypeOK, WalTypeOK
  <1>2. ASSUME place' # "ingest" PROVE LogShort'
    BY <1>2 DEF LogShort
  <1>3. CASE Inspect
    BY <1>1, <1>2, <1>3, DecisionCases DEF Inspect, Goes, Ends, Unaccepted
  <1>4. CASE Reinspect
    BY <1>1, <1>2, <1>4, DecisionCases DEF Reinspect, Goes, Ends, Unaccepted
  <1>5. CASE Recheck
    BY <1>1, <1>2, <1>5, DecisionCases DEF Recheck, Goes, Ends, Unaccepted
  <1>6. CASE Check \/ Refresh \/ Collect \/ Trigger
    BY <1>2, <1>6 DEF Check, Refresh, Collect, Trigger, Goes, Ends, Unaccepted
  <1>7. CASE MakeRoom \/ Maintain
    BY <1>2, <1>7 DEF MakeRoom, Maintain, Cleans, Abandons, Ends, Unaccepted
  <1>8. CASE Checkpoint \/ MaintainWal
    BY <1>2, <1>8 DEF Checkpoint, MaintainWal, Checkpoints, CheckpointFails, Abandons, Goes,
                      Ends, Unaccepted
  <1>9. CASE Ingest \/ Maintained
    BY <1>2, <1>9 DEF Ingest, Accepted, Maintained, Ends, Unaccepted
  <1> QED
    BY <1>3, <1>4, <1>5, <1>6, <1>7, <1>8, <1>9 DEF Advance

LEMMA WalStep ==
  ASSUME SchedulerTypeOK, Advance
  PROVE  WalTypeOK'
  <1>1. UNCHANGED wal \/ wal' \in Copied \/ wal' \in SomeFrames \/ \E n \in Nat : wal' \in Written(n)
    <2>1. CASE Check \/ Refresh \/ Collect \/ Inspect \/ Reinspect \/ Recheck \/ Trigger \/ Maintained
      BY <2>1 DEF Check, Refresh, Collect, Inspect, Reinspect, Recheck, Trigger, Maintained
    <2>2. CASE MakeRoom \/ Maintain
      BY <2>2 DEF MakeRoom, Maintain, Cleans
    <2>3. CASE Checkpoint \/ MaintainWal
      BY <2>3 DEF Checkpoint, MaintainWal, Checkpoints, CheckpointFails
    <2>4. CASE Ingest
      <3>1. wal' = wal \/ Commit
        BY <2>4 DEF Ingest
      <3>2. ASSUME Commit PROVE \E n \in Nat : wal' \in Written(n)
        <4>1. PICK n \in 1 .. MaxWrite : wal' \in Written(n)
          BY <3>2 DEF Commit
        <4> QED
          BY <4>1, SchedulerAssumption
      <3> QED
        BY <3>1, <3>2
    <2> QED
      BY <2>1, <2>2, <2>3, <2>4 DEF Advance
  <1> QED
    BY <1>1, LogSteps DEF SchedulerTypeOK, WalTypeOK

LEMMA ResultNoted ==
  ASSUME CallTypeOK, NEW result \in Results
  PROVE  [call EXCEPT !.result = result] \in
           [missed : Nat, kind : Marks, attempted : BOOLEAN, cleanups : Nat, checkpoints : Nat,
            result : Results]
  BY DEF CallTypeOK

LEMMA CallStep ==
  ASSUME SchedulerTypeOK, Balanced, Advance
  PROVE  CallTypeOK'
  <1> CallTypeOK /\ pending \in Nat
    BY DEF SchedulerTypeOK
  <1>1. ASSUME NEW result \in Results, Ends(result) PROVE CallTypeOK'
    BY <1>1, ResultNoted DEF Ends, CallTypeOK
  <1>2. ASSUME call' = call PROVE CallTypeOK'
    BY <1>2 DEF CallTypeOK
  <1>3. ASSUME call' = [call EXCEPT !.cleanups = @ + 1, !.attempted = TRUE] PROVE CallTypeOK'
    BY <1>3, AttemptNoted DEF CallTypeOK
  <1>4. ASSUME call' = [call EXCEPT !.checkpoints = @ + 1, !.attempted = TRUE] PROVE CallTypeOK'
    BY <1>4, AttemptNoted DEF CallTypeOK
  <1>5. CASE Check
    <2>1. pending' \in Nat
      <3>1. PICK k \in Nat : Account(k)
        BY DEF Balanced
      <3>2. Elapsed \in Nat
        <4>1. Interval \in Nat \ {0} /\ clock - planned \in Nat
          BY <1>5, SchedulerAssumption DEF Check, SchedulerTypeOK
        <4> QED
          BY <4>1, QuotientIsNat DEF Elapsed
      <3>3. Capped(pending + Elapsed) \in Nat
        BY <3>2, CappedOnce
      <3> QED
        BY <1>5, <3>3 DEF Check
    <2>2. call' = [missed |-> pending', kind |-> "none", attempted |-> FALSE,
                   cleanups |-> 0, checkpoints |-> 0, result |-> "none"]
      BY <1>5 DEF Check, NoCall
    <2> QED
      BY <2>1, <2>2 DEF CallTypeOK, Marks, Results
  <1>6. CASE Refresh
    <2>1. call' = call \/ \E result \in Results : Ends(result)
      BY <1>6 DEF Refresh, Goes, Unaccepted, Results
    <2> QED
      BY <1>1, <1>2, <2>1
  <1>7. CASE Collect
    <2>1. CASE Unaccepted("invalid_clock")
      BY <1>1, <2>1 DEF Unaccepted, Results
    <2>2. CASE call' = [call EXCEPT !.result = "collection_failed"]
      BY <2>2, ResultNoted DEF CallTypeOK, Results
    <2>3. ASSUME NEW kind \in Kinds, call' = [call EXCEPT !.kind = kind, !.missed = Reports(kind)]
          PROVE  CallTypeOK'
      <3>1. kind \in Marks
        BY DEF Kinds, Marks
      <3>2. Reports(kind) \in Nat
        BY DEF Reports, CallTypeOK
      <3> QED
        BY <2>3, <3>1, <3>2 DEF CallTypeOK
    <2> QED
      BY <1>7, <2>1, <2>2, <2>3 DEF Collect
  <1>8. CASE Inspect \/ Reinspect \/ Recheck
    <2>1. call' = call \/ \E result \in Results : Ends(result)
      <3>1. CASE Inspect
        BY <3>1, DecisionCases DEF Inspect, Goes, Unaccepted, Results
      <3>2. CASE Reinspect
        BY <3>2, DecisionCases DEF Reinspect, Goes, Unaccepted, Results
      <3>3. CASE Recheck
        BY <3>3, DecisionCases DEF Recheck, Goes, Unaccepted, Results
      <3> QED
        BY <1>8, <3>1, <3>2, <3>3
    <2> QED
      BY <1>1, <1>2, <2>1
  <1>9. CASE MakeRoom \/ Maintain
    <2>1. call' = [call EXCEPT !.cleanups = @ + 1, !.attempted = TRUE]
          \/ \E result \in Results : Ends(result)
      BY <1>9 DEF MakeRoom, Maintain, Cleans, Abandons, Unaccepted, Results
    <2> QED
      BY <1>1, <1>3, <2>1
  <1>10. CASE Checkpoint \/ MaintainWal
    <2>1. call' = call \/ call' = [call EXCEPT !.checkpoints = @ + 1, !.attempted = TRUE]
          \/ \E result \in Results : Ends(result)
      BY <1>10 DEF Checkpoint, MaintainWal, Checkpoints, CheckpointFails, Abandons, Goes,
                   Unaccepted, Results
    <2> QED
      BY <1>1, <1>2, <1>4, <2>1
  <1>11. CASE Ingest
    <2>1. call' = [call EXCEPT !.result = "accepted"] \/ \E result \in Results : Ends(result)
      BY <1>11 DEF Ingest, Accepted, Unaccepted, Results
    <2> QED
      BY <1>1, <2>1, ResultNoted DEF CallTypeOK, Results
  <1>12. CASE Trigger
    <2>1. call' = call \/ \E result \in Results : Ends(result)
      BY <1>12 DEF Trigger, Goes, Results
    <2> QED
      BY <1>1, <1>2, <2>1
  <1>13. CASE Maintained
    <2>1. call' = call \/ call' = [call EXCEPT !.result = "invalid_clock"]
      BY <1>13 DEF Maintained
    <2> QED
      BY <1>2, <2>1, ResultNoted DEF CallTypeOK, Results
  <1> QED
    BY <1>5, <1>6, <1>7, <1>8, <1>9, <1>10, <1>11, <1>12, <1>13 DEF Advance

LEMMA CountersStep ==
  ASSUME SchedulerTypeOK, Balanced, Advance
  PROVE  clock' \in Nat /\ planned' \in Nat /\ pending' \in Nat /\ startup' \in BOOLEAN /\ LifeTypeOK'
  <1> SchedulerTypeOK /\ LifeTypeOK /\ CallTypeOK
    BY DEF SchedulerTypeOK
  <1>1. clock' = clock
    BY DEF Advance, Check, Refresh, Collect, Inspect, MakeRoom, Reinspect, Checkpoint, Recheck,
           Ingest, Trigger, Maintain, MaintainWal, Maintained
  <1>2. CASE Check
    <2>1. Elapsed \in Nat
      <3>1. Interval \in Nat \ {0} /\ clock - planned \in Nat
        BY <1>2, SchedulerAssumption DEF Check, SchedulerTypeOK
      <3> QED
        BY <3>1, QuotientIsNat DEF Elapsed
    <2>2. (Elapsed + 1) * Interval \in Nat /\ Capped(pending + Elapsed) \in Nat
      <3>1. Elapsed + 1 \in Nat /\ Interval \in Nat /\ pending + Elapsed \in Nat
        BY <2>1, SchedulerAssumption DEF SchedulerTypeOK
      <3>2. (Elapsed + 1) * Interval \in Nat
        BY <3>1
      <3> QED
        BY <3>1, <3>2, CappedOnce
    <2>3. planned' = planned + (Elapsed + 1) * Interval /\ pending' = Capped(pending + Elapsed)
          /\ UNCHANGED <<startup, life>>
      BY <1>2 DEF Check
    <2> QED
      BY <1>1, <2>2, <2>3 DEF SchedulerTypeOK, LifeTypeOK
  <1>3. CASE Failed
    <2>1. Capped(pending + 1) \in Nat
      BY CappedOnce DEF SchedulerTypeOK
    <2> QED
      BY <1>1, <1>3, <2>1 DEF Failed, SchedulerTypeOK, LifeTypeOK
  <1>4. CASE GoesOn \/ Collected
    BY <1>1, <1>4 DEF GoesOn, Collected, SchedulerTypeOK, LifeTypeOK
  <1>5. CASE Taken
    <2>1. PICK stored \in BOOLEAN : Accepted(stored)
      BY <1>5 DEF Taken
    <2>2. PICK k \in Nat : Account(k)
      BY DEF Balanced
    <2>3. k > life.markers /\ Owed = k - life.markers
      BY <1>5, <2>2, OwedIs DEF Taken, Account, Sampling
    <2>4. Capped(Owed - 1) \in Int
      BY <2>3, SchedulerAssumption DEF Capped, Smaller, LifeTypeOK
    <2>5. Lives \in [base : Nat, markers : Nat, first : Marks, startups : Nat, said : Nat, owed : Int]
      BY <2>4 DEF Lives, LifeTypeOK, CallTypeOK, SchedulerTypeOK
    <2>6. life' = Lives /\ planned' = planned /\ startup' = FALSE
          /\ pending' \in {pending, 0}
      BY <2>1 DEF Accepted
    <2>7. LifeTypeOK'
      BY <2>5, <2>6 DEF LifeTypeOK
    <2>8. clock' \in Nat /\ planned' \in Nat /\ pending' \in Nat
      BY <1>1, <2>6 DEF SchedulerTypeOK
    <2>9. startup' \in BOOLEAN
      BY <2>6
    <2> QED
      BY <2>7, <2>8, <2>9
  <1> QED
    BY <1>2, <1>3, <1>4, <1>5, Effects

LEMMA AdvanceStep ==
  ASSUME SchedulerInvariant, Advance
  PROVE  SchedulerInvariant'
  <1>1. SchedulerTypeOK'
    BY CallStep, WalStep, CountersStep DEF SchedulerInvariant, SchedulerTypeOK
  <1> QED
    BY <1>1, LogStep, MarkStep, BalanceStep, AttemptsStep DEF SchedulerInvariant

(* Nothing but the log may change between the calls.                       *)
LEMMA OnlyLog ==
  ASSUME SchedulerInvariant, UNCHANGED <<planned, pending, startup, life, call, place>>,
         clock' \in Nat, WalTypeOK', wal'.frames = wal.frames
  PROVE  SchedulerInvariant'
  <1>1. SchedulerTypeOK' /\ LogShort'
    BY DEF SchedulerInvariant, SchedulerTypeOK, CallTypeOK, LifeTypeOK, LogShort
  <1>2. MarkFits' /\ AttemptsFit'
    BY DEF SchedulerInvariant, MarkFits, FirstIsMarked, AttemptsFit, OncePerCall
  <1>3. Balanced'
    <2>1. PICK k \in Nat : Account(k)
      BY DEF SchedulerInvariant, Balanced
    <2>2. Account(k)'
      BY <2>1 DEF Account
    <2> QED
      BY <2>2 DEF SchedulerInvariant, Balanced
  <1> QED
    BY <1>1, <1>2, <1>3 DEF SchedulerInvariant

(* A scheduler begins with an empty account, and leaves none behind.       *)
LEMMA Fresh ==
  ASSUME clock' \in Nat, WalTypeOK', place' = "idle", call' = NoCall, startup' = TRUE,
         pending' = 0, planned' \in Nat, life' = [NewLife EXCEPT !.base = planned']
  PROVE  SchedulerInvariant'
  <1>1. life' = [base |-> planned', markers |-> 0, first |-> "none", startups |-> 0,
                 said |-> 0, owed |-> 0]
    BY DEF NewLife
  <1>2. SchedulerTypeOK'
    <2>1. CallTypeOK'
      BY DEF CallTypeOK, NoCall, Marks, Results
    <2>2. LifeTypeOK'
      <3>1. \A n \in Nat :
              [base |-> n, markers |-> 0, first |-> "none", startups |-> 0, said |-> 0, owed |-> 0]
                \in [base : Nat, markers : Nat, first : Marks, startups : Nat, said : Nat, owed : Int]
        BY DEF Marks
      <3> QED
        BY <1>1, <3>1 DEF LifeTypeOK
    <2> QED
      BY <2>1, <2>2 DEF SchedulerTypeOK
  <1>3. LogShort' /\ AttemptsFit'
    BY DEF LogShort, AttemptsFit, OncePerCall, NoCall
  <1>4. MarkFits'
    BY <1>1 DEF MarkFits, FirstIsMarked, Judging
  <1>5. Account(0)'
    <2>1. 0 * Interval = 0 /\ Capped(0) = 0
      BY SchedulerAssumption DEF Capped, Smaller
    <2> QED
      BY <1>1, <2>1 DEF Account, Sampling
  <1>6. Balanced'
    BY <1>1, <1>5 DEF Balanced, Judging
  <1> QED
    BY <1>2, <1>3, <1>4, <1>6 DEF SchedulerInvariant

LEMMA GoneStep ==
  ASSUME SchedulerInvariant, Gone, WalTypeOK'
  PROVE  SchedulerInvariant'
  <1>1. [NewLife EXCEPT !.base = 0] = NewLife
    BY DEF NewLife
  <1>2. clock' = clock /\ clock \in Nat
    BY DEF SchedulerInvariant, SchedulerTypeOK, Gone
  <1> QED
    BY <1>1, <1>2, Fresh DEF Gone

LEMMA ServiceStep ==
  ASSUME SchedulerInvariant, [ServiceNext]_serviceVars
  PROVE  SchedulerInvariant'
  <1> WalTypeOK /\ clock \in Nat
    BY DEF SchedulerInvariant, SchedulerTypeOK
  <1>1. ASSUME UNCHANGED schedulerVars PROVE SchedulerInvariant'
    BY <1>1, OnlyLog DEF schedulerVars, memory, WalTypeOK
  <1>2. ASSUME NEW p \in Process, StartupCheckpoint(p) PROVE SchedulerInvariant'
    <2>1. wal' \in Copied \/ wal' = wal
      BY <1>2 DEF StartupCheckpoint
    <2>2. WalTypeOK' /\ wal'.frames = wal.frames
      BY <2>1, LogSteps DEF WalTypeOK
    <2> QED
      BY <1>2, <2>2, OnlyLog DEF StartupCheckpoint, memory
  <1>3. ASSUME NEW p \in Process, Construct(p) PROVE SchedulerInvariant'
    BY <1>3, Fresh DEF Construct, Start, WalTypeOK
  <1>4. ASSUME NEW p \in Process, Close(p) \/ Kill(p) PROVE SchedulerInvariant'
    <2>1. UNCHANGED schedulerVars
          \/ (Gone /\ wal' \in {wal, [wal EXCEPT !.copied = FALSE]} \union Left)
      BY <1>4 DEF Close, Kill
    <2>2. ASSUME wal' \in {wal, [wal EXCEPT !.copied = FALSE]} \union Left PROVE WalTypeOK'
      <3>1. [wal EXCEPT !.copied = FALSE] \in [frames : Nat, copied : BOOLEAN, slots : Nat]
        BY DEF WalTypeOK
      <3>2. EmptyLog \in [frames : Nat, copied : BOOLEAN, slots : Nat]
        BY DEF EmptyLog
      <3> QED
        BY <2>2, <3>1, <3>2 DEF WalTypeOK, Left
    <2> QED
      BY <1>1, <2>1, <2>2, GoneStep
  <1>5. CASE Tick
    BY <1>5, OnlyLog DEF Tick, memory, WalTypeOK
  <1>6. ASSUME NEW p \in Process, Bootstrap(p) \/ Preflight(p) \/ Release(p)
        PROVE  SchedulerInvariant'
    BY <1>1, <1>6 DEF Bootstrap, Preflight, Release
  <1>7. ASSUME NEW p \in Process, Sample(p) PROVE SchedulerInvariant'
    BY <1>7, AdvanceStep DEF Sample
  <1>8. CASE UNCHANGED serviceVars
    BY <1>1, <1>8 DEF serviceVars
  <1> QED
    BY <1>2, <1>3, <1>4, <1>5, <1>6, <1>7, <1>8 DEF ServiceNext

LEMMA SchedulerInvariantHolds == ServiceSpec => []SchedulerInvariant
  <1>1. ServiceInit => SchedulerInvariant
    BY InitScheduler DEF ServiceInit
  <1>2. SchedulerInvariant /\ [ServiceNext]_serviceVars => SchedulerInvariant'
    BY ServiceStep
  <1> QED
    BY <1>1, <1>2, PTL DEF ServiceSpec

-----------------------------------------------------------------------------
(* For every interval, cap and log, each interval of a scheduler's life is *)
(* sampled, reported by one accepted observation, or pending.              *)
THEOREM MissesAccountedHolds == ServiceSpec => []MissesAccounted
  <1>1. SchedulerInvariant => MissesAccounted
    <2> SUFFICES ASSUME SchedulerInvariant
                 PROVE  life.said = life.owed /\ (place \notin Sampling => pending = Capped(Owed))
      BY DEF MissesAccounted
    <2>1. PICK k \in Nat : Account(k)
      BY DEF SchedulerInvariant, Balanced
    <2>2. Owed = k - life.markers
      BY <2>1, OwedIs DEF SchedulerInvariant, Account
    <2> QED
      BY <2>1, <2>2 DEF SchedulerInvariant, Balanced, Account
  <1> QED
    BY <1>1, SchedulerInvariantHolds, PTL

(* The first accepted observation of a process marks its start, or the     *)
(* clock that went back, and no later one marks the start.                 *)
THEOREM FirstIsMarkedHolds == ServiceSpec => []FirstIsMarked
  <1>1. SchedulerInvariant => FirstIsMarked
    BY DEF SchedulerInvariant, MarkFits
  <1> QED
    BY <1>1, SchedulerInvariantHolds, PTL

(* A call cleans up at most once and tries at most one checkpoint, its     *)
(* observation and its maintenance taken together.                         *)
THEOREM OncePerCallHolds == ServiceSpec => []OncePerCall
  <1>1. SchedulerInvariant => OncePerCall
    BY DEF SchedulerInvariant, AttemptsFit
  <1> QED
    BY <1>1, SchedulerInvariantHolds, PTL

(* No observation is committed to a log that is due for a checkpoint,      *)
(* whatever the thresholds and the sizes of the writes.                    *)
THEOREM WritesWithinEnvelopeHolds == ServiceSpec => WritesWithinEnvelope
  <1>1. SchedulerInvariant /\ [ServiceNext]_serviceVars
          => [committed' # committed => wal.frames < DueFrames]_schedulerVars
    <2> SUFFICES ASSUME SchedulerInvariant, [ServiceNext]_serviceVars, committed' # committed
                 PROVE  wal.frames < DueFrames
      OBVIOUS
    <2>1. ASSUME NEW p \in Process, Sample(p) PROVE place = "ingest"
      BY <2>1 DEF Sample, Advance, Check, Refresh, Collect, Inspect, MakeRoom, Reinspect,
         Checkpoint, Recheck, Ingest, Trigger, Maintain, MaintainWal, Maintained
    <2>2. \E p \in Process : Sample(p)
      BY DEF ServiceNext, serviceVars, schedulerVars, Bootstrap, Preflight, StartupCheckpoint,
         Construct, Start, Close, Release, Kill, Gone, Tick
    <2> QED
      BY <2>1, <2>2 DEF SchedulerInvariant, LogShort
  <1> QED
    BY <1>1, SchedulerInvariantHolds, PTL DEF ServiceSpec, WritesWithinEnvelope
=============================================================================
