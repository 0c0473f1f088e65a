---------------------------- MODULE ControlPlane ----------------------------
(***************************************************************************)
(* The dashboard process: DeviceControls and HealthCache together, as      *)
(* dashboard/server.py wires them.  A component is a controlled service;   *)
(* its version counts the changes of its devices.  The control services    *)
(* call the health service's invalidate() when a command has verified,     *)
(* after they have released the locks and before they return; the health   *)
(* service never takes a lock of the controls, nor the controls one of     *)
(* its collection lock.                                                    *)
(***************************************************************************)
EXTENDS DeviceControls

CONSTANTS Reader, NoReader, NoReport,   \* see HealthCache
          MaxVersion,       \* bound: changes of the devices of a service
          MaxInvalidation,  \* bound: calls of invalidate()
          MaxRequest        \* bound: forms posted

(* A form invalidates at most once per child: that bound is never met. *)
ASSUME RequestBoundAssumption ==
    /\ MaxRequest \in Nat
    /\ MaxInvalidation \in Nat /\ MaxInvalidation >= 3 * MaxRequest

VARIABLES
    version, confirmed, phase, need, collection_lock, sweep_generation, polled, draft,
    answer, cached_report, cache_aged, invalidation_generation, last_successes, latest,
    requests,        \* forms posted so far
    seen,            \* seen[t]: version of the state that t's verification saw
    told,            \* ghost: told[s]: newest version a verified result was about
    expected         \* ghost: expected[r]: `told` when r asked for health

Health == INSTANCE HealthCache WITH Component <- Service

healthState == <<version, confirmed, phase, need, collection_lock, sweep_generation,
                 polled, draft, answer, cached_report, cache_aged,
                 invalidation_generation, last_successes, latest>>
linkVars == <<requests, seen, told, expected>>
planeVars == <<controlVars, healthState, linkVars>>

PlaneInit ==
    /\ Init
    /\ Health!HealthInit
    /\ requests = 0
    /\ seen = [t \in Thread |-> 0]
    /\ told = [s \in Service |-> 0]
    /\ expected = [r \in Reader |-> [s \in Service |-> 0]]

-----------------------------------------------------------------------------
(* The controls: a step that changes the device of a service is a new      *)
(* version of it.                                                          *)

ChangesVersion(service) ==
    IF device' = device THEN UNCHANGED healthState ELSE Health!Change(service)

PlaneSubmit(t) ==
    /\ requests < MaxRequest
    /\ requests' = requests + 1
    /\ Submit(t)
    /\ UNCHANGED <<healthState, seen, told, expected>>

(* WLED's answer to the POST is read from the state it is in now. *)
PlaneDeviceHandles(t) ==
    /\ DeviceHandles(t)
    /\ ChangesVersion(ServiceOf(command[t].target))
    /\ seen' = [seen EXCEPT ![t] = version'[ServiceOf(command[t].target)]]
    /\ UNCHANGED <<requests, told, expected>>

(* HyperHDR's verification reads the state anew. *)
PlaneVerify(t) ==
    /\ VerifyComponent(t)
    /\ seen' = [seen EXCEPT ![t] = version[ServiceOf(command[t].target)]]
    /\ UNCHANGED <<healthState, requests, told, expected>>

(* Bug: the children of an ambient sequence do not invalidate. *)
InvalidatesForComponents(t) == outcome[t] = "verified" /\ ~IsAmbient(t)

(* The cache invalidator a control service was constructed with is called  *)
(* for a verified result, and for no other.                                *)
InvalidatesCache(t) == outcome[t] = "verified"

PlaneConclude(t) ==
    LET service == ServiceOf(command[t].target) IN
    /\ Conclude(t)
    /\ IF InvalidatesCache(t) THEN Health!Invalidate(service, seen[t])
                              ELSE UNCHANGED healthState
    /\ told' = IF outcome[t] = "verified" /\ seen[t] > told[service]
               THEN [told EXCEPT ![service] = seen[t]] ELSE told
    /\ seen' = [seen EXCEPT ![t] = 0]
    /\ UNCHANGED <<requests, expected>>

(* The steps of a control thread that concern neither the devices nor the  *)
(* health service.                                                         *)
PlaneControlStep(t) ==
    /\ \/ ParentAdmit(t) \/ ParentTakeGate(t) \/ ParentNextChild(t) \/ ParentFinish(t)
       \/ ParentRelease(t) \/ Admit(t) \/ TakeGate(t) \/ StartMutation(t)
       \/ TransportFails(t) \/ WLEDAnswers(t) \/ HyperHDRAnswers(t) \/ Release(t)
    /\ UNCHANGED <<healthState, linkVars>>

(* Somebody else, or the network, changes a device. *)
PlaneOthers ==
    /\ \/ \E c \in late : LateDelivery(c) /\ ChangesVersion(ServiceOf(c.target))
       \/ \E c \in Outside : OutsideChange(c) /\ ChangesVersion(ServiceOf(c.target))
    /\ UNCHANGED linkVars

PlaneWindow ==
    /\ \E l \in Limiter : WindowSlides(l)
    /\ UNCHANGED <<healthState, linkVars>>

-----------------------------------------------------------------------------
(* The health pages.                                                       *)

PlaneCall(r) ==
    /\ Health!Call(r)
    /\ expected' = [expected EXCEPT ![r] = told]
    /\ UNCHANGED <<controlVars, requests, seen, told>>

PlaneGetHealth(r) ==
    /\ Health!GetHealth(r)
    /\ expected' = IF phase'[r] = "idle"
                   THEN [expected EXCEPT ![r] = [s \in Service |-> 0]] ELSE expected
    /\ UNCHANGED <<controlVars, requests, seen, told>>

PlaneCacheAges == Health!CacheAges /\ UNCHANGED <<controlVars, linkVars>>

PlaneNext ==
    \/ \E t \in Thread : PlaneSubmit(t) \/ PlaneDeviceHandles(t) \/ PlaneVerify(t)
                         \/ PlaneConclude(t) \/ PlaneControlStep(t)
    \/ PlaneOthers \/ PlaneWindow
    \/ \E r \in Reader : PlaneCall(r) \/ PlaneGetHealth(r)
    \/ PlaneCacheAges

PlaneSpec == PlaneInit /\ [][PlaneNext]_planeVars

-----------------------------------------------------------------------------
(* Properties                                                              *)

(* A page requested after a verified result never shows an older state of  *)
(* the component the result was about, though the result is about a state  *)
(* that was read before the locks were released and the cache invalidated, *)
(* and though a sweep may have polled the component before the command and *)
(* still be under way (_cache_invalidator, get_health).                    *)
PageShowsMutation ==
    [][\A r \in Reader : phase[r] # "idle" /\ phase'[r] = "idle" =>
           \A s \in Service : \/ answer'[r][s] = Health!Unavailable
                              \/ answer'[r][s] >= expected[r][s]]_planeVars
=============================================================================
