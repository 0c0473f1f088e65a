---------------------------- MODULE HealthRules ----------------------------
(***************************************************************************)
(* The three pure evaluators that the ingestion of a health observation    *)
(* calls: health_history/evaluation.py (when is a condition confirmed),    *)
(* sampling_gap.py (when is sampling interrupted) and lifecycle.py (what   *)
(* becomes of an alert).  They read no clock and keep no state: what they  *)
(* are given is read from the store, what they return is written to it.    *)
(***************************************************************************)
EXTENDS Integers

CONSTANTS Cooldown,     \* ALERT_COOLDOWN_US, in ticks
          MaxCounter    \* MAX_BOUNDED_COUNTER

ASSUME RulesAssumption == Cooldown \in Nat \ {0} /\ MaxCounter \in Nat \ {0, 1, 2}

Larger(a, b) == IF a > b THEN a ELSE b
Saturated(n) == IF n > MaxCounter THEN MaxCounter ELSE n

-----------------------------------------------------------------------------
(* A condition is confirmed by consecutive observations of one status, a   *)
(* recovery by consecutive healthy ones while an alert is active.          *)

NoStatus == "none"
DegradedOpenThreshold == 3
UnavailableOpenThreshold == 2
HealthyRecoveryThreshold == 2
OpenThreshold(status) ==
    IF status = "degraded" THEN DegradedOpenThreshold ELSE UnavailableOpenThreshold

Settled(status) == [current |-> status, candidate |-> NoStatus, count |-> 0]
Counting(status, n) == [current |-> status, candidate |-> status, count |-> n]
Consecutive(state, status) ==
    IF state.candidate = status THEN Saturated(state.count + 1) ELSE 1

EvaluateHealthy(state, active) ==
    LET count == Consecutive(state, "healthy") IN
    IF ~active THEN [state |-> Settled("healthy"), event |-> "none"]
    ELSE IF count >= HealthyRecoveryThreshold
    THEN [state |-> Settled("healthy"), event |-> "recovery_confirmed"]
    ELSE [state |-> Counting("healthy", count), event |-> "none"]

EvaluateHealth(state, status, disabled, active) ==
    LET count == Consecutive(state, status) IN
    IF disabled THEN [state |-> Settled(status), event |-> "none"]
    ELSE IF status = "healthy" THEN EvaluateHealthy(state, active)
    ELSE [state |-> Counting(status, count),
          event |-> IF count >= OpenThreshold(status) THEN "condition_confirmed" ELSE "none"]

-----------------------------------------------------------------------------
(* Sampling is interrupted by an observation that reports two missed       *)
(* intervals or more, and goes on after two that report none.              *)

ApplyMisses(phase, missed) ==
    CASE phase = "active"       -> [phase |-> "active", event |-> "miss_recorded"]
      [] phase = "recovery_one" -> [phase |-> "active", event |-> "recovery_reset"]
      [] phase \in {"clear", "candidate_one"} /\ missed >= 2
                                -> [phase |-> "active", event |-> "opened"]
      [] phase = "candidate_one" /\ missed < 2
                                -> [phase |-> "candidate_one", event |-> "miss_recorded"]
      [] phase = "clear" /\ missed < 2
                                -> [phase |-> "candidate_one", event |-> "candidate_started"]

OnTime(phase) ==
    CASE phase = "candidate_one" -> [phase |-> "clear", event |-> "candidate_cleared"]
      [] phase = "active"        -> [phase |-> "recovery_one", event |-> "recovery_started"]
      [] phase = "recovery_one"  -> [phase |-> "clear", event |-> "recovered"]
      [] phase = "clear"         -> [phase |-> "clear", event |-> "none"]

(* A clock marker says nothing about the cadence, whatever it reports, and *)
(* interrupts a recovery; a startup marker without misses says nothing.    *)
EvaluateGap(phase, kind, missed) ==
    IF kind = "clock_discontinuity"
    THEN IF phase = "recovery_one"
         THEN [phase |-> "active", event |-> "recovery_reset"]
         ELSE [phase |-> phase, event |-> "marker_recorded"]
    ELSE IF kind = "startup_gap" /\ missed = 0
    THEN [phase |-> phase, event |-> "marker_recorded"]
    ELSE IF missed > 0 THEN ApplyMisses(phase, missed) ELSE OnTime(phase)

-----------------------------------------------------------------------------
(* What happens to the current alert of a scope and kind: the event, the   *)
(* lifecycle part of the row after it, or "rejected".  `open` makes a new  *)
(* row of the next generation once a recovered one has cooled down.        *)

NoTime == -1
NoAlert == [lifecycle |-> "none", generation |-> 0, occurrences |-> 0,
            cooldown |-> 0, recovered |-> NoTime]
Deadline(now) == now + Cooldown
Active(alert) == alert.lifecycle \in {"open", "acknowledged"}

NewAlert(now, generation) ==
    [lifecycle |-> "open", generation |-> generation, occurrences |-> 1,
     cooldown |-> Deadline(now), recovered |-> NoTime]

Rejected(alert) == [event |-> "rejected", alert |-> alert]
Idempotent(alert) == [event |-> "none", alert |-> alert]

Occurrence(alert, now) ==
    LET updated == [alert EXCEPT !.occurrences = Saturated(@ + 1),
                                 !.cooldown = Larger(@, Deadline(now))]
    IN IF updated = alert THEN Idempotent(alert)
       ELSE [event |-> "occurrence_updated", alert |-> updated]

OpenOrUpdate(alert, now) ==
    IF alert = NoAlert THEN [event |-> "opened", alert |-> NewAlert(now, 1)]
    ELSE IF Active(alert) \/ (alert.lifecycle = "recovered" /\ now < alert.cooldown)
    THEN Occurrence(alert, now)
    ELSE IF alert.generation = MaxCounter THEN Rejected(alert)
    ELSE [event |-> "opened", alert |-> NewAlert(now, alert.generation + 1)]

Recover(alert, now) ==
    IF Active(alert)
    THEN [event |-> "recovered",
          alert |-> [alert EXCEPT !.lifecycle = "recovered", !.recovered = now,
                                  !.cooldown = Larger(@, Deadline(now))]]
    ELSE Idempotent(alert)

Archive(alert, now) ==
    IF alert.lifecycle = "archived" THEN Idempotent(alert)
    ELSE IF alert.lifecycle # "recovered" \/ now < alert.cooldown THEN Rejected(alert)
    ELSE [event |-> "archived", alert |-> [alert EXCEPT !.lifecycle = "archived"]]

(* A degraded alert that is active gives rise to an unavailable one.       *)
Escalate(degraded, now) ==
    IF ~Active(degraded) \/ degraded.generation = MaxCounter THEN Rejected(degraded)
    ELSE [event |-> "opened", alert |-> NewAlert(now, degraded.generation + 1)]
=============================================================================
