--------------------------- MODULE HealthService ---------------------------
(***************************************************************************)
(* The health history of one directory: processes compete for the          *)
(* database (HealthDatabase), the one that owns it checks the log at       *)
(* startup (startup_preflight.py, startup_checkpoint.py), constructs a     *)
(* scheduler over its store and polls it (HealthScheduler) until it        *)
(* closes or dies.  Nothing in src/ starts these parts yet: they are       *)
(* composed as their docstrings and tests do.                              *)
(***************************************************************************)
EXTENDS HealthDatabase, HealthScheduler

VARIABLE ready      \* startup readiness, as decided for the owner: StorageDecisionOutcome

serviceVars == <<databaseVars, schedulerVars, ready>>

ServiceInit == DatabaseInit /\ SchedulerInit /\ ready = "none"

Owns(p) == At(p, "owned") /\ connection[p]

(* A log that has outgrown its bound keeps the store from being opened.    *)
Bootstrap(p) ==
    /\ Bootstraps(p)
    /\ (Distrusted(wal) /\ At(p, "bootstrap")) => ~connection'[p]
    /\ UNCHANGED <<schedulerVars, ready>>

(* checkpoint_health_history_startup_wal(): the preflight, and one PASSIVE *)
(* attempt where it asks for one.                                          *)
Preflight(p) ==
    /\ Owns(p) /\ ~running /\ ready = "none"
    /\ \E pressed \in BOOLEAN : ready' = Decision(pressed)
    /\ UNCHANGED <<databaseVars, schedulerVars>>

(* A checkpoint that is made has the decision taken afresh; a busy one     *)
(* leaves it; one that fails leaves the owner without a decision.          *)
StartupCheckpoint(p) ==
    /\ Owns(p) /\ ~running /\ ready = "checkpoint_due"
    /\ \/ wal' \in Copied /\ (\E pressed \in BOOLEAN : ready' = Decision(pressed)')
          /\ UNCHANGED <<databaseVars, faults>>
       \/ Fault /\ UNCHANGED <<databaseVars, wal, ready>>
       \/ Fault /\ wal' \in Copied /\ ready' = "none" /\ Distrust(p)
    /\ UNCHANGED <<clock, running, trusted, place, memory, call, committed, starts, life>>

(* The scheduler is the owner's.  When an operation loses trust in the     *)
(* files the store closes, but the lock stays until the owner closes.      *)
Construct(p) == Owns(p) /\ Start /\ UNCHANGED <<databaseVars, ready>>

Sample(p) ==
    /\ At(p, "owned") /\ Advance /\ UNCHANGED ready
    /\ IF trusted /\ ~trusted' THEN Distrust(p) ELSE UNCHANGED databaseVars

Close(p) ==
    /\ CloseStore(p) /\ (running => place = "idle") /\ Gone /\ ready' = "none"
    /\ wal' \in (IF connection'[p] THEN {wal} ELSE Left)

Release(p) == Unlock(p) /\ UNCHANGED <<schedulerVars, ready>>

Kill(p) ==
    /\ Die(p)
    /\ IF connection[p] \/ running
       THEN Gone /\ wal' \in (IF connection[p] THEN {[wal EXCEPT !.copied = FALSE]} ELSE Left)
            /\ ready' = "none"
       ELSE UNCHANGED <<schedulerVars, ready>>

ServiceNext ==
    \/ \E p \in Process :
          \/ Bootstrap(p) \/ Preflight(p) \/ StartupCheckpoint(p) \/ Construct(p)
          \/ Sample(p) \/ Close(p) \/ Release(p) \/ Kill(p)
    \/ Tick /\ UNCHANGED <<databaseVars, ready>>

ServiceSpec == ServiceInit /\ [][ServiceNext]_serviceVars
=============================================================================
