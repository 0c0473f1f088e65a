--------------------------- MODULE AlertReference ---------------------------
(***************************************************************************)
(* The reviewed alert lifecycle, m18_validation/alert_lifecycle.py: a pure *)
(* model with no store, written before the store and never imported by it. *)
(* Here it is the specification of one current alert for every pair of a   *)
(* scope and a kind; an observation may move several of them at once.      *)
(* HealthHistory, with its rows, generations, archival and retention,      *)
(* implements it.  The store may also forget an archived alert, after      *)
(* which its pair starts afresh.  No automatic operation acknowledges.     *)
(***************************************************************************)
EXTENDS Integers

CONSTANTS Pair,          \* <<scope, kind>>
          AlertCooldown, \* ALERT_COOLDOWN_SECONDS, in ticks
          MaxGeneration  \* MAX_ALERT_GENERATION, MAX_ALERT_OCCURRENCES

VARIABLES time, current

referenceVars == <<time, current>>

Nothing == [lifecycle |-> "none", generation |-> 0, occurrences |-> 0,
            cooldown |-> 0, recovered |-> -1]
Latest(a, b) == IF a > b THEN a ELSE b
Extended(alert) == Latest(alert.cooldown, time' + AlertCooldown)
IsActive(alert) == alert.lifecycle \in {"open", "acknowledged"}
Fresh(generation) ==
    [lifecycle |-> "open", generation |-> generation, occurrences |-> 1,
     cooldown |-> time' + AlertCooldown, recovered |-> -1]

ReferenceInit == time = 0 /\ current = [pair \in Pair |-> Nothing]

Becomes(pair, alert) == current'[pair] = alert

DegradedOf(pair) ==
    IF pair[2] = "unavailable" /\ <<pair[1], "degraded">> \in Pair
    THEN current[<<pair[1], "degraded">>] ELSE Nothing
Escalates(pair) == current[pair] = Nothing /\ IsActive(DegradedOf(pair))

ReferenceEscalate(pair) ==
    /\ Escalates(pair) /\ DegradedOf(pair).generation < MaxGeneration
    /\ Becomes(pair, Fresh(DegradedOf(pair).generation + 1))

ReferenceOpen(pair) ==
    LET alert == current[pair] IN
    /\ ~Escalates(pair) /\ alert.generation < MaxGeneration
    /\ \/ alert.lifecycle \in {"none", "archived"}
       \/ alert.lifecycle = "recovered" /\ time' >= alert.cooldown
    /\ Becomes(pair, Fresh(alert.generation + 1))

ReferenceUpdate(pair) ==
    LET alert == current[pair] IN
    /\ \/ IsActive(alert)
       \/ alert.lifecycle = "recovered" /\ time' < alert.cooldown
    /\ Becomes(pair, [alert EXCEPT
          !.occurrences = IF @ < MaxGeneration THEN @ + 1 ELSE @,
          !.cooldown = Extended(alert)])

ReferenceRecover(pair) ==
    LET alert == current[pair] IN
    /\ IsActive(alert)
    /\ Becomes(pair, [alert EXCEPT !.lifecycle = "recovered", !.recovered = time',
                                   !.cooldown = Extended(alert)])

ReferenceArchive(pair) ==
    LET alert == current[pair] IN
    /\ alert.lifecycle = "recovered" /\ time' >= alert.cooldown
    /\ Becomes(pair, [alert EXCEPT !.lifecycle = "archived"])

Forget(pair) == current[pair].lifecycle = "archived" /\ Becomes(pair, Nothing)

Evolves(pair) ==
    \/ ReferenceEscalate(pair) \/ ReferenceOpen(pair) \/ ReferenceUpdate(pair)
    \/ ReferenceRecover(pair) \/ ReferenceArchive(pair) \/ Forget(pair)
    \/ Becomes(pair, current[pair])

ReferenceNext == \A pair \in Pair : Evolves(pair)

ReferenceSpec == ReferenceInit /\ [][ReferenceNext]_referenceVars
=============================================================================
