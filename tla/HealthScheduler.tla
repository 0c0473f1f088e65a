-------------------------- MODULE HealthScheduler --------------------------
(***************************************************************************)
(* The sampling of health into the store: health_history/scheduler.py over *)
(* orchestration.py and storage_envelope.py.  A caller polls               *)
(* run_due_opportunity(); when an interval is due the call reads where the *)
(* store stands, collects one report, asks whether the store may be        *)
(* written, ingests one observation, and runs maintenance when its trigger *)
(* says so.  Nothing is retried within a call.  The scheduler's memory     *)
(* dies with its process; the sequence, in the store, does not.            *)
(*                                                                         *)
(* One tick of the clock is a fraction of an interval; UTC is only         *)
(* compared with the last accepted one, so a step back is a choice.  The   *)
(* write-ahead log is counted in frames.  Ingestion is one step here, and  *)
(* HealthHistory says what it does to the tables.                          *)
(***************************************************************************)
EXTENDS Integers

CONSTANTS Interval,        \* sample_interval_seconds, in ticks
          MaxPending,      \* MAX_BOUNDED_COUNTER
          DueFrames,       \* WAL_CHECKPOINT_THRESHOLD_FRAMES
          HardFrames,      \* WAL_HARD_LIMIT_FRAMES
          HardSlots,       \* WAL_HARD_LIMIT_BYTES and MAX_WAL_BYTES, in frames
          MaintenanceEvery, \* MAINTENANCE_INTERVAL_SECONDS, in ticks
          MaintenanceRows, \* STORED_ROWS_MAINTENANCE_TRIGGER
          MaxWrite,        \* bound: frames one transaction writes
          MaxClock,        \* bound: ticks
          MaxFaults,       \* bound: calls of something that fails
          MaxStarts        \* bound: schedulers constructed

ASSUME SchedulerAssumption ==
    /\ {Interval, MaxPending, DueFrames, MaintenanceEvery, MaintenanceRows} \subseteq Nat \ {0}
    /\ {HardFrames, HardSlots, MaxWrite, MaxClock, MaxFaults, MaxStarts} \subseteq Nat
    /\ DueFrames <= HardFrames /\ HardFrames <= HardSlots

VARIABLES
    clock,      \* the monotonic clock
    running,    \* a scheduler has been constructed over an open store
    trusted,    \* its store is open
    place,      \* of the call, "idle" between two
    planned,    \* SchedulerCadenceState.planned_due_monotonic
    pending,    \* .pending_missed_intervals
    startup,    \* _startup_marker_pending
    resume,     \* _resume_state.last_committed_sequence, 0 for none
    trigger,    \* MaintenanceTriggerState
    call,       \* the locals of the call, and its result
    committed,  \* ingestion_checkpoint, in the store
    wal,        \* the log: frames, whether all are copied back, slots of the file
    faults,     \* bound
    starts,     \* bound
    life        \* ghost: what was accepted since the scheduler was constructed

cadence == <<planned, pending>>
memory == <<planned, pending, startup, resume, trigger>>
schedulerVars == <<clock, running, trusted, place, memory, call, committed, wal,
                   faults, starts, life>>

Smaller(a, b) == IF a < b THEN a ELSE b
Bigger(a, b) == IF a > b THEN a ELSE b
Capped(n) == Smaller(n, MaxPending)

NoTrigger == [completed |-> FALSE, marker |-> 0, rows |-> 0]
EmptyLog == [frames |-> 0, copied |-> FALSE, slots |-> 0]
NewLife == [base |-> 0, markers |-> 0, first |-> "none", startups |-> 0, said |-> 0, owed |-> 0]
NoCall == [missed |-> 0, kind |-> "none", attempted |-> FALSE,
           cleanups |-> 0, checkpoints |-> 0, result |-> "none"]

SchedulerInit ==
    /\ clock = 0 /\ running = FALSE /\ trusted = FALSE /\ place = "idle"
    /\ planned = 0 /\ pending = 0 /\ startup = TRUE /\ resume = 0
    /\ trigger = NoTrigger /\ call = NoCall /\ committed = 0
    /\ wal = EmptyLog /\ faults = 0 /\ starts = 0 /\ life = NewLife

-----------------------------------------------------------------------------
(* The write-ahead log.  SQLite appends the frames of a transaction to it; *)
(* a PASSIVE checkpoint copies them to the database and leaves the log as  *)
(* it is.  Only the next writer starts it over, if all of it is copied and *)
(* no reader still uses it.  The file keeps its size.                      *)

Appended(used, n) ==
    [frames |-> used + n, copied |-> FALSE, slots |-> Bigger(wal.slots, used + n)]

(* The log after a transaction of n frames. *)
Written(n) ==
    IF n = 0 THEN {wal}
    ELSE {Appended(used, n) : used \in {wal.frames} \union (IF wal.copied THEN {0} ELSE {})}

(* A transaction that has pages to write, or none.                         *)
SomeFrames == UNION {Written(n) : n \in 0 .. MaxWrite}

Oversize == wal.frames > HardFrames \/ wal.slots > HardSlots
CheckpointDue == DueFrames <= wal.frames /\ ~Oversize

(* Every operation but an inspection checks the file's size first and last.*)
Distrusted(log) == log.slots > HardSlots

(* A reader of an older snapshot may keep frames from being copied.        *)
Copied == {wal, [wal EXCEPT !.copied = TRUE]}

-----------------------------------------------------------------------------
(* How a call ends, and what a failed sampling leaves behind.              *)

Ends(result) == place' = "idle" /\ call' = [call EXCEPT !.result = result]
Goes(next) == place' = next /\ UNCHANGED call
(* Bug: a call that failed is not counted.                                 *)
MissNone == UNCHANGED <<pending, planned>>
MissOne == pending' = Capped(pending + 1) /\ UNCHANGED planned
(* Bug: the first call of a process leaves its marker, accepted or not.    *)
LostMarker == MissOne /\ startup' = FALSE /\ UNCHANGED <<resume, trigger>>
Lost == MissOne /\ UNCHANGED <<startup, resume, trigger>>
Unaccepted(result) == Ends(result) /\ Lost
Fault == faults < MaxFaults /\ faults' = faults + 1

(* An operation of the store that fails: busy, timed out or refused, and   *)
(* the store stays open, or it no longer trusts its files and closes.      *)
OperationFails ==
    \/ Fault /\ trusted' \in {trusted, FALSE}
    \/ ~trusted /\ UNCHANGED <<trusted, faults>>
ChecksOut == trusted /\ UNCHANGED <<trusted, faults>>

-----------------------------------------------------------------------------
(* The caller polls; time passes at any moment.                            *)

Tick ==
    /\ running /\ clock < MaxClock /\ clock' = clock + 1
    /\ UNCHANGED <<running, trusted, place, memory, call, committed, wal, faults, starts, life>>

(* One due call covers every interval that has passed: it makes up for one *)
(* and has missed the others.  A clock that goes back changes nothing.     *)
Elapsed == (clock - planned) \div Interval

Check ==
    /\ running /\ place = "idle" /\ clock >= planned
    /\ planned' = planned + (Elapsed + 1) * Interval
    /\ pending' = Capped(pending + Elapsed)
    /\ call' = [NoCall EXCEPT !.missed = pending'] /\ place' = "resume"
    /\ UNCHANGED <<clock, running, trusted, startup, resume, trigger, committed, wal,
                   faults, starts, life>>

(* The committed sequence may not have gone back.                          *)
Refresh ==
    /\ place = "resume"
    /\ \/ ~Distrusted(wal) /\ resume <= committed /\ ChecksOut /\ resume' = committed
          /\ Goes("collect") /\ UNCHANGED <<cadence, startup, trigger>>
       \/ trusted /\ (Distrusted(wal) \/ resume > committed) /\ trusted' = FALSE
          /\ UNCHANGED faults /\ Unaccepted("trust_failed")
       \/ OperationFails /\ Unaccepted("failed")
    /\ UNCHANGED <<clock, running, committed, wal, starts, life>>

Kinds ==
    IF startup THEN {"startup_gap"} \union (IF resume = 0 THEN {} ELSE {"clock_discontinuity"})
    ELSE {"heartbeat"} \union (IF resume = 0 THEN {} ELSE {"clock_discontinuity"})
Reports(kind) == IF kind = "clock_discontinuity" THEN 0 ELSE call.missed

(* UTC is read, then one report collected and projected.  A report that    *)
(* cannot be had still leaves room for maintenance.                        *)
Collect ==
    /\ place = "collect"
    /\ \/ \E kind \in Kinds :
             /\ call' = [call EXCEPT !.kind = kind, !.missed = Reports(kind)]
             /\ place' = "inspect" /\ UNCHANGED <<memory, faults>>
       \/ Fault /\ Unaccepted("invalid_clock")
       \/ Fault /\ Lost /\ place' = "trigger"
          /\ call' = [call EXCEPT !.result = "collection_failed"]
    /\ UNCHANGED <<clock, running, trusted, committed, wal, starts, life>>

-----------------------------------------------------------------------------
(* One observation.  The log decides before the room, the room before a    *)
(* checkpoint that is due; each inspection asks all three again.           *)

Decision(pressed) ==
    IF Oversize THEN "wal_oversize_blocked"
    ELSE IF pressed THEN "capacity_blocked"
    ELSE IF CheckpointDue THEN "checkpoint_due" ELSE "proceed"

Inspect ==
    /\ place = "inspect"
    /\ \/ \E pressed \in BOOLEAN :
             /\ ChecksOut
             /\ CASE Decision(pressed) = "wal_oversize_blocked" ->
                        Unaccepted("wal_oversize_blocked")
                  [] Decision(pressed) = "capacity_blocked" -> Goes("capacity") /\ UNCHANGED memory
                  [] Decision(pressed) = "checkpoint_due" -> Goes("checkpoint") /\ UNCHANGED memory
                  [] Decision(pressed) = "proceed" -> Goes("ingest") /\ UNCHANGED memory
       \/ OperationFails /\ Unaccepted("failed")
    /\ UNCHANGED <<clock, running, committed, wal, starts, life>>

(* cleanup_retention() and incremental_vacuum(), together, and what their  *)
(* last check finds.  A failure may come after the rows are gone.          *)
Cleans(next, Fails(_)) ==
    /\ wal' \in SomeFrames
    /\ \/ ~Distrusted(wal) /\ ~Distrusted(wal') /\ ChecksOut /\ place' = next
          /\ call' = [call EXCEPT !.cleanups = @ + 1, !.attempted = TRUE] /\ UNCHANGED memory
       \/ trusted /\ (Distrusted(wal) \/ Distrusted(wal')) /\ trusted' = FALSE
          /\ UNCHANGED faults /\ Fails("trust_failed")
       \/ OperationFails /\ Fails("failed")

MakeRoom ==
    /\ place = "capacity"
    /\ \/ Cleans("reinspect", Unaccepted)
       \/ Fault /\ Unaccepted("invalid_clock") /\ UNCHANGED <<trusted, wal>>
    /\ UNCHANGED <<clock, running, committed, starts, life>>

Reinspect ==
    /\ place = "reinspect"
    /\ \/ \E pressed \in BOOLEAN :
             /\ ChecksOut
             /\ CASE Decision(pressed) \in {"wal_oversize_blocked", "capacity_blocked"} ->
                        Unaccepted(Decision(pressed))
                  [] Decision(pressed) = "checkpoint_due" -> Goes("checkpoint") /\ UNCHANGED memory
                  [] Decision(pressed) = "proceed" -> Goes("ingest") /\ UNCHANGED memory
       \/ OperationFails /\ Unaccepted("failed")
    /\ UNCHANGED <<clock, running, committed, wal, starts, life>>

(* One PASSIVE attempt.  It may find the checkpoint lock taken.            *)
Checkpoints(next) ==
    /\ ChecksOut /\ wal' \in Copied /\ place' = next
    /\ call' = [call EXCEPT !.checkpoints = @ + 1, !.attempted = TRUE]
CheckpointFails(Fails(_)) ==
    \/ Fault /\ Fails("checkpoint_busy") /\ UNCHANGED <<trusted, wal>>
    \/ OperationFails /\ wal' \in Copied /\ Fails("failed")

Checkpoint ==
    /\ place = "checkpoint"
    /\ \/ Checkpoints("recheck") /\ UNCHANGED memory
       \/ CheckpointFails(Unaccepted)
    /\ UNCHANGED <<clock, running, committed, starts, life>>

(* Bug: a checkpoint that was made is trusted to have helped.              *)
RecheckNothing ==
    /\ place = "recheck" /\ ChecksOut /\ Goes("ingest") /\ UNCHANGED memory
    /\ UNCHANGED <<clock, running, committed, wal, starts, life>>

(* Whatever still stands in the way after the checkpoint ends the call.    *)
Recheck ==
    /\ place = "recheck"
    /\ \/ \E pressed \in BOOLEAN :
             /\ ChecksOut
             /\ CASE Decision(pressed) = "proceed" -> Goes("ingest") /\ UNCHANGED memory
                  [] Decision(pressed) = "checkpoint_due" -> Unaccepted("checkpoint_incomplete")
                  [] OTHER -> Unaccepted(Decision(pressed))
       \/ OperationFails /\ Unaccepted("failed")
    /\ UNCHANGED <<clock, running, committed, wal, starts, life>>

-----------------------------------------------------------------------------
(* Ingestion, and what an accepted observation changes: the misses it      *)
(* reported are no longer pending, but a clock marker reports none.        *)

IsMarker(kind) == kind = "clock_discontinuity"

(* The intervals that went by without an accepted observation since the    *)
(* last one that reported them.                                            *)
Owed == (planned - life.base) \div Interval - life.markers
Lives ==
    [first    |-> IF life.first = "none" THEN call.kind ELSE life.first,
     startups |-> life.startups + (IF call.kind = "startup_gap" THEN 1 ELSE 0),
     base     |-> IF IsMarker(call.kind) THEN life.base ELSE planned,
     markers  |-> IF IsMarker(call.kind) THEN life.markers + 1 ELSE 0,
     said     |-> IF IsMarker(call.kind) THEN life.said ELSE call.missed,
     owed     |-> IF IsMarker(call.kind) THEN life.owed ELSE Capped(Owed - 1)]

Accepted(stored) ==
    /\ resume' = committed' /\ startup' = FALSE
    /\ pending' = IF IsMarker(call.kind) THEN pending ELSE 0
    /\ trigger' = IF stored THEN [trigger EXCEPT !.rows = @ + 1] ELSE trigger
    /\ life' = Lives /\ call' = [call EXCEPT !.result = "accepted"]
    /\ place' = (IF call.attempted THEN "idle" ELSE "trigger") /\ UNCHANGED planned

(* The store takes a sequence it has not seen.                             *)
Commit ==
    /\ resume + 1 > committed /\ committed' = resume + 1
    /\ \E n \in 1 .. MaxWrite : wal' \in Written(n)

(* A marker is always stored, a heartbeat when something has changed.      *)
Ingest ==
    /\ place = "ingest"
    /\ \/ \E stored \in (IF call.kind = "heartbeat" THEN BOOLEAN ELSE {TRUE}) :
             Commit /\ ~Distrusted(wal) /\ ~Distrusted(wal') /\ ChecksOut /\ Accepted(stored)
       \/ OperationFails /\ UNCHANGED <<committed, wal, life>> /\ Unaccepted("failed")
       \/ trusted /\ Distrusted(wal) /\ trusted' = FALSE
          /\ UNCHANGED <<faults, committed, wal, life>> /\ Unaccepted("trust_failed")
       \/ trusted /\ trusted' = FALSE /\ ~Distrusted(wal) /\ Commit
          /\ (IF Distrusted(wal') THEN UNCHANGED faults ELSE Fault)
          /\ UNCHANGED life /\ Unaccepted("trust_failed")
    /\ UNCHANGED <<clock, running, starts>>

-----------------------------------------------------------------------------
(* Maintenance, after an accepted observation or a failed collection.      *)

MaintenanceDue ==
    \/ ~trigger.completed \/ trigger.rows >= MaintenanceRows
    \/ clock - trigger.marker >= MaintenanceEvery

Trigger ==
    /\ place = "trigger"
    /\ \/ MaintenanceDue /\ Goes("maintain") /\ UNCHANGED faults
       \/ ~MaintenanceDue /\ Goes("idle") /\ UNCHANGED faults
       \/ Fault /\ Ends("invalid_clock")
    /\ UNCHANGED <<clock, running, trusted, memory, committed, wal, starts, life>>

Abandons(result) == Ends(result) /\ UNCHANGED memory

Maintain ==
    /\ place = "maintain"
    /\ \/ Cleans("maintain_wal", Abandons)
       \/ Fault /\ Abandons("invalid_clock") /\ UNCHANGED <<trusted, wal>>
    /\ UNCHANGED <<clock, running, committed, starts, life>>

MaintainWal ==
    /\ place = "maintain_wal"
    /\ \/ ChecksOut /\ Oversize /\ Abandons("wal_oversize_blocked") /\ UNCHANGED wal
       \/ ~Oversize /\ CheckpointDue /\ Checkpoints("maintained") /\ UNCHANGED memory
       \/ CheckpointDue /\ CheckpointFails(Abandons)
       \/ ChecksOut /\ ~Oversize /\ ~CheckpointDue /\ Goes("maintained") /\ UNCHANGED <<memory, wal>>
       \/ OperationFails /\ Abandons("failed") /\ UNCHANGED wal
    /\ UNCHANGED <<clock, running, committed, starts, life>>

Maintained ==
    /\ place = "maintained" /\ place' = "idle"
    /\ \/ trigger' = [completed |-> TRUE, marker |-> clock, rows |-> 0]
          /\ UNCHANGED <<call, faults>>
       \/ Fault /\ call' = [call EXCEPT !.result = "invalid_clock"] /\ UNCHANGED trigger
    /\ UNCHANGED <<clock, running, trusted, cadence, startup, resume, committed, wal, starts, life>>

-----------------------------------------------------------------------------
(* Its life.  A scheduler begins at the sequence the store has, with a     *)
(* deadline that is due at once.  A connection that is closed, by its      *)
(* owner or for lost trust, takes the log with it if it was the last; a    *)
(* crash leaves the log, and none of it counts as copied after that.       *)

Start ==
    /\ ~running /\ starts < MaxStarts /\ starts' = starts + 1
    /\ ~Distrusted(wal)
    /\ running' = TRUE /\ trusted' = TRUE /\ place' = "idle"
    /\ planned' = clock /\ pending' = 0 /\ startup' = TRUE /\ resume' = committed
    /\ trigger' = NoTrigger /\ call' = NoCall
    /\ life' = [NewLife EXCEPT !.base = clock]
    /\ UNCHANGED <<clock, committed, wal, faults>>

Gone ==
    /\ running' = FALSE /\ trusted' = FALSE /\ place' = "idle" /\ call' = NoCall
    /\ planned' = 0 /\ pending' = 0 /\ startup' = TRUE /\ resume' = 0
    /\ trigger' = NoTrigger /\ life' = NewLife
    /\ UNCHANGED <<clock, committed, faults, starts>>

Left == {EmptyLog, [wal EXCEPT !.copied = FALSE]}

Advance ==
    \/ Check \/ Refresh \/ Collect \/ Inspect \/ MakeRoom \/ Reinspect \/ Checkpoint
    \/ Recheck \/ Ingest \/ Trigger \/ Maintain \/ MaintainWal \/ Maintained

-----------------------------------------------------------------------------
(* Properties                                                              *)

Sampling == {"resume", "collect", "inspect", "capacity", "reinspect", "checkpoint",
             "recheck", "ingest"}

(* Every interval of a scheduler's life is sampled, or reported as missed  *)
(* by exactly one accepted observation, or pending, up to the cap of the   *)
(* counter, whatever failed and however late the calls came.               *)
MissesAccounted ==
    running => /\ life.said = life.owed
               /\ place \notin Sampling => pending = Capped(Owed)

(* The first observation a process gets accepted marks the start, or the   *)
(* clock that went back; failures before it do not use the mark up, and no *)
(* later one leaves a second.                                              *)
FirstIsMarked ==
    /\ life.first # "heartbeat" /\ life.startups <= 1
    /\ life.startups = 1 => life.first = "startup_gap"

(* However a call goes, it cleans up at most once and tries at most one    *)
(* checkpoint: what the observation did, maintenance does not do again.    *)
OncePerCall == call.cleanups <= 1 /\ call.checkpoints <= 1

(* No observation is added to a log that is due for a checkpoint or too    *)
(* long, whatever was written or copied between the inspections.           *)
WritesWithinEnvelope == [][committed' # committed => wal.frames < DueFrames]_schedulerVars

(* A checkpoint that copied the whole log clears the way for the           *)
(* observation (tests/test_health_history_orchestration.py:431).           *)
CheckpointRecovers == call.result = "checkpoint_incomplete" => ~wal.copied
=============================================================================
