------------------------- MODULE RuntimeController -------------------------
(***************************************************************************)
(* The runtime controller (aurora_core/runtime/{controller,health}.py): it *)
(* starts the enabled components of a plan in plan order, rolls a failed   *)
(* start back, stops in reverse order and derives the overall health.      *)
(*                                                                         *)
(* The components are injected and only their contract is known: start and *)
(* stop may raise, and a call that raises may leave the component running  *)
(* or not.  One caller owns the controller and calls start and stop in any *)
(* order, also after a failure.                                            *)
(***************************************************************************)
EXTENDS Naturals, Sequences

CONSTANTS N,         \* components of the plan; c is the c-th in plan order
          MaxCalls   \* bound: calls of start and stop

ASSUME RuntimeAssumption == N \in Nat /\ MaxCalls \in Nat

Component == 1 .. N
Lifecycle == {"created", "starting", "running", "stopping", "stopped", "failed"}

\* Healths from best to worst.
Rank == [healthy |-> 0, unknown |-> 1, degraded |-> 2, unhealthy |-> 3]
Health == DOMAIN Rank

VARIABLES enabled, injected,  \* the plan and the registry, fixed at construction
          lifecycle, started, \* RuntimeController._lifecycle, _started
          call,               \* "idle", or the loop the caller is in
          item,               \* start's place in the plan
          blamed,             \* stop's first failure; 0 for none
          outcome,            \* how the last call ended
          up,                 \* external: components that run
          failing,            \* history: components whose stop raised in this call
          calls

plan == <<enabled, injected>>
runtimeVars == <<plan, lifecycle, started, call, item, blamed, outcome, up, failing, calls>>

RuntimeTypeOK ==
  /\ enabled \subseteq Component /\ injected \subseteq Component
  /\ lifecycle \in [Component -> Lifecycle]
  /\ started \in Seq(Component)
  /\ call \in {"idle", "start", "rollback", "stop"}
  /\ item \in 1 .. N + 1 /\ blamed \in 0 .. N
  /\ outcome \in {"none", "started", "start_failed", "stopped", "stop_failed"}
  /\ up \subseteq Component /\ failing \subseteq Component
  /\ calls \in 0 .. MaxCalls

RuntimeInit ==
  /\ enabled \in SUBSET Component /\ injected \in SUBSET Component
  /\ lifecycle = [c \in Component |-> "created"]
  /\ started = <<>>
  /\ call = "idle" /\ item = 1 /\ blamed = 0 /\ outcome = "none"
  /\ up = {} /\ failing = {} /\ calls = 0

Become(c, state) == lifecycle' = [lifecycle EXCEPT ![c] = state]

-----------------------------------------------------------------------------
(* start.                                                                  *)

\* start returns at once when something is started.
CallStart ==
  /\ call = "idle" /\ calls < MaxCalls
  /\ calls' = calls + 1
  /\ \/ /\ started # <<>>
        /\ outcome' = "started"
        /\ UNCHANGED <<call, item>>
     \/ /\ started = <<>>
        /\ call' = "start" /\ item' = 1
        /\ UNCHANGED outcome
  /\ UNCHANGED <<plan, lifecycle, started, blamed, up, failing>>

Skip ==
  /\ call = "start" /\ item <= N /\ item \notin enabled
  /\ item' = item + 1
  /\ UNCHANGED <<plan, lifecycle, started, call, blamed, outcome, up, failing, calls>>

\* Bug: a missing component leaves what was started before it running.
MissingNoRollback ==
  /\ call = "start" /\ item <= N /\ item \in enabled \ injected
  /\ Become(item, "failed")
  /\ call' = "idle" /\ outcome' = "start_failed"
  /\ UNCHANGED <<plan, started, item, blamed, up, failing, calls>>

\* An enabled component that nobody injected.
Missing ==
  /\ call = "start" /\ item <= N /\ item \in enabled \ injected
  /\ Become(item, "failed")
  /\ call' = "rollback"
  /\ failing' = {} /\ blamed' = 0
  /\ UNCHANGED <<plan, started, item, outcome, up, calls>>

EnterComponent ==
  /\ call = "start" /\ item <= N /\ item \in enabled \cap injected
  /\ lifecycle[item] # "starting"
  /\ Become(item, "starting")
  /\ UNCHANGED <<plan, started, call, item, blamed, outcome, up, failing, calls>>

StartSucceeds ==
  /\ call = "start" /\ item <= N /\ lifecycle[item] = "starting"
  /\ up' = up \cup {item}
  /\ Become(item, "running")
  /\ started' = Append(started, item)
  /\ item' = item + 1
  /\ UNCHANGED <<plan, call, blamed, outcome, failing, calls>>

StartRaises ==
  /\ call = "start" /\ item <= N /\ lifecycle[item] = "starting"
  /\ up' \in {up, up \cup {item}}
  /\ Become(item, "failed")
  /\ call' = "rollback"
  /\ failing' = {} /\ blamed' = 0
  /\ UNCHANGED <<plan, started, item, outcome, calls>>

Started ==
  /\ call = "start" /\ item > N
  /\ call' = "idle" /\ outcome' = "started"
  /\ UNCHANGED <<plan, lifecycle, started, item, blamed, up, failing, calls>>

-----------------------------------------------------------------------------
(* stop, and the rollback of a start: the same loop.                       *)

CallStop ==
  /\ call = "idle" /\ calls < MaxCalls
  /\ calls' = calls + 1
  /\ call' = "stop" /\ failing' = {} /\ blamed' = 0
  /\ UNCHANGED <<plan, lifecycle, started, item, outcome, up>>

Stopping == call \in {"stop", "rollback"}

Last == started[Len(started)]

Pop ==
  /\ Stopping /\ started # <<>> /\ \A c \in Component : lifecycle[c] # "stopping"
  /\ Become(Last, "stopping")
  /\ started' = SubSeq(started, 1, Len(started) - 1)
  /\ UNCHANGED <<plan, call, item, blamed, outcome, up, failing, calls>>

StopSucceeds ==
  /\ Stopping
  /\ \E c \in Component :
       /\ lifecycle[c] = "stopping"
       /\ up' = up \ {c}
       /\ Become(c, "stopped")
  /\ UNCHANGED <<plan, started, call, item, blamed, outcome, failing, calls>>

\* Bug: a component that could not be stopped is listed as stopped.
StopRaisesUnmarked ==
  /\ Stopping
  /\ \E c \in Component :
       /\ lifecycle[c] = "stopping"
       /\ up' \in {up, up \ {c}}
       /\ Become(c, "stopped")
       /\ failing' = failing \cup {c}
       /\ blamed' = IF blamed = 0 THEN c ELSE blamed
  /\ UNCHANGED <<plan, started, call, item, outcome, calls>>

\* Bug: the last failure is the one that is raised.
StopRaisesLast ==
  /\ Stopping
  /\ \E c \in Component :
       /\ lifecycle[c] = "stopping"
       /\ up' \in {up, up \ {c}}
       /\ Become(c, "failed")
       /\ failing' = failing \cup {c}
       /\ blamed' = c
  /\ UNCHANGED <<plan, started, call, item, outcome, calls>>

\* A failing stop does not keep the others from being stopped.
StopRaises ==
  /\ Stopping
  /\ \E c \in Component :
       /\ lifecycle[c] = "stopping"
       /\ up' \in {up, up \ {c}}
       /\ Become(c, "failed")
       /\ failing' = failing \cup {c}
       /\ blamed' = IF blamed = 0 THEN c ELSE blamed
  /\ UNCHANGED <<plan, started, call, item, outcome, calls>>

\* A rollback's own failures are swallowed; the start raises its own.
Stopped ==
  /\ Stopping /\ started = <<>> /\ \A c \in Component : lifecycle[c] # "stopping"
  /\ call' = "idle"
  /\ outcome' = IF call = "rollback" THEN "start_failed"
                ELSE IF blamed = 0 THEN "stopped" ELSE "stop_failed"
  /\ UNCHANGED <<plan, lifecycle, started, item, blamed, up, failing, calls>>

RuntimeNext ==
  \/ CallStart \/ Skip \/ Missing \/ EnterComponent \/ StartSucceeds \/ StartRaises \/ Started
  \/ CallStop \/ Pop \/ StopSucceeds \/ StopRaises \/ Stopped

RuntimeSpec == RuntimeInit /\ [][RuntimeNext]_runtimeVars

-----------------------------------------------------------------------------
(* derive_overall_health, for the reports of the enabled components.       *)

Overall(reports) ==
  IF enabled = {} THEN "disabled"
  ELSE IF \E c \in enabled : lifecycle[c] = "failed" \/ reports[c] = "unhealthy" THEN "unhealthy"
  ELSE IF \E c \in enabled : reports[c] = "degraded" THEN "degraded"
  ELSE IF \E c \in enabled : reports[c] = "unknown" THEN "unknown"
  ELSE "healthy"

-----------------------------------------------------------------------------
(* Properties.                                                             *)

\* A component is starting, running or being stopped only while every
\* enabled component before it in the plan runs: the order of start, of its
\* rollback and of stop.
PlanOrder ==
  \A c, d \in enabled :
    d < c /\ lifecycle[c] \in {"starting", "running", "stopping"} => lifecycle[d] = "running"

\* Between calls the controller runs all that is enabled or nothing, through
\* failed starts, failed stops and restarts.
AllOrNothing ==
  call = "idle" => {c \in Component : lifecycle[c] = "running"} \in {{}, enabled}

\* A component that may still run is never listed as created or stopped.
NoSilentLeak ==
  \A c \in up : lifecycle[c] \notin {"created", "stopped"}

\* stop raises exactly when a component failed to stop in that call, and
\* names the first one it tried: the last of them in plan order.
StopTellsTruth ==
  call = "idle" =>
    /\ outcome = "stopped" => failing = {} /\ up \subseteq {c \in enabled : lifecycle[c] = "failed"}
    /\ outcome = "stop_failed" => blamed \in failing /\ \A c \in failing : c <= blamed

\* A report that gets worse never makes the overall health better.
Conservative ==
  enabled # {} =>
    \A reports \in [enabled -> Health] : \A c \in enabled : \A worse \in Health :
      Rank[reports[c]] <= Rank[worse] =>
        Rank[Overall(reports)] <= Rank[Overall([reports EXCEPT ![c] = worse])]

=============================================================================
