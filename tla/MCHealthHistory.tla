-------------------------- MODULE MCHealthHistory --------------------------
EXTENDS HealthHistory, TLC

MCPlace == "wled" :> 1 @@ "capture" :> 2

Says(wled, capture, kind, missed, after) ==
    [of |-> ("wled" :> wled @@ "capture" :> capture),
     kind |-> kind, missed |-> missed, after |-> after]

(* One tick is one sampling interval.  A restart takes WLED out of the     *)
(* configuration and leaves a marker, which reports the missed intervals.  *)
MCOffered ==
    {Says("healthy", "healthy", "heartbeat", 0, 1),
     Says("degraded", "healthy", "heartbeat", 0, 1),
     Says("unavailable", "degraded", "heartbeat", 0, 1),
     Says("disabled", "healthy", "startup_gap", 2, 4)}
MCFailing == {Says("degraded", "healthy", "heartbeat", 0, 1)}

(* The clock is set back, and the observation marks it.                    *)
MCBackwards ==
    {Says("healthy", "healthy", "heartbeat", 0, 1),
     Says("degraded", "healthy", "heartbeat", 0, 1),
     Says("degraded", "healthy", "heartbeat", 0, 4),
     Says("healthy", "healthy", "clock_discontinuity", 0, -3)}
=============================================================================
