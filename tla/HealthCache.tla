---------------------------- MODULE HealthCache ----------------------------
(***************************************************************************)
(* HealthService (src/aurora_core/dashboard/service.py): one cached health *)
(* snapshot shared by the request threads of the dashboard.  get_health    *)
(* runs under a collection lock, so that one sweep of the collectors is    *)
(* under way at a time; invalidate() takes only the short state lock, so a *)
(* control operation may invalidate while a sweep is polling.  The sweep   *)
(* keeps the generation it started in and caches its report only if the    *)
(* generation is still the same.                                           *)
(*                                                                         *)
(* An observation of a component is the version it had when it was polled. *)
(* The devices and the control services that confirm a mutation are the    *)
(* environment (Change, Invalidate).  The ghosts `confirmed`, `need` and   *)
(* `latest` only record what a caller may rely on.                         *)
(***************************************************************************)
EXTENDS Integers

CONSTANTS Reader,           \* request threads that call get_health
          NoReader,         \* "nobody holds the collection lock"
          Component,        \* components the collectors poll
          NoReport,         \* "nothing is cached" (None in the code)
          MaxVersion,       \* bound: changes per component
          MaxInvalidation   \* bound: calls of invalidate()

Unavailable == -1
Observation == Int
Report == [Component -> Observation]

ASSUME NoReaderAssumption == NoReader \notin Reader
ASSUME NoReportAssumption == NoReport \notin Report
ASSUME BoundAssumption == MaxVersion \in Nat /\ MaxInvalidation \in Nat

VARIABLES
    version,                  \* the devices: version[c]
    confirmed,                \* ghost: newest version a verified mutation saw
    phase,                    \* phase[r]: where r is in get_health
    need,                     \* ghost: `confirmed` when r called get_health
    collection_lock,          \* owner of _collection_lock
    sweep_generation,         \* collection_generation of r's sweep
    polled,                   \* components r's sweep has polled
    draft,                    \* the report r's sweep is assembling
    answer,                   \* the report r received last
    cached_report,
    cache_aged,               \* refresh_seconds have passed since cached_at
    invalidation_generation,
    last_successes,           \* newest successful observation per component
    latest                    \* ghost: newest observation handed out

healthVars == <<version, confirmed, phase, need, collection_lock, sweep_generation,
                polled, draft, answer, cached_report, cache_aged,
                invalidation_generation, last_successes, latest>>
cacheVars == <<cached_report, cache_aged, invalidation_generation>>
sweepVars == <<sweep_generation, polled, draft, last_successes>>
askVars == <<phase, need, collection_lock, answer, latest>>

NoObservation == [c \in Component |-> Unavailable]

HealthInit ==
    /\ version = [c \in Component |-> 0]
    /\ confirmed = [c \in Component |-> 0]
    /\ phase = [r \in Reader |-> "idle"]
    /\ need = [r \in Reader |-> [c \in Component |-> 0]]
    /\ collection_lock = NoReader
    /\ sweep_generation = [r \in Reader |-> 0]
    /\ polled = [r \in Reader |-> {}]
    /\ draft = [r \in Reader |-> NoObservation]
    /\ answer = [r \in Reader |-> NoObservation]
    /\ cached_report = NoReport
    /\ cache_aged = FALSE
    /\ invalidation_generation = 0
    /\ last_successes = NoObservation
    /\ latest = [c \in Component |-> 0]

-----------------------------------------------------------------------------
(* The environment: the devices, the clock, and the control services.      *)

Change(c) ==
    /\ version[c] < MaxVersion
    /\ version' = [version EXCEPT ![c] = @ + 1]
    /\ UNCHANGED <<confirmed, cacheVars, sweepVars, askVars>>

CacheAges ==
    /\ cached_report # NoReport
    /\ ~cache_aged
    /\ cache_aged' = TRUE
    /\ UNCHANGED <<version, confirmed, cached_report, invalidation_generation,
                   sweepVars, askVars>>

(* invalidate(): called once a mutation of c has been verified at version  *)
(* `seen`; from here on the caller of the control may rely on it.          *)
Invalidate(c, seen) ==
    /\ invalidation_generation < MaxInvalidation
    /\ invalidation_generation' = invalidation_generation + 1
    /\ cached_report' = NoReport
    /\ cache_aged' = FALSE
    /\ confirmed' = [confirmed EXCEPT ![c] = IF seen > @ THEN seen ELSE @]
    /\ UNCHANGED <<version, sweepVars, askVars>>

-----------------------------------------------------------------------------
(* get_health                                                              *)

Call(r) ==
    /\ phase[r] = "idle"
    /\ phase' = [phase EXCEPT ![r] = "waiting"]
    /\ need' = [need EXCEPT ![r] = confirmed]
    /\ UNCHANGED <<version, confirmed, cacheVars, sweepVars, collection_lock,
                   answer, latest>>

CollectionLockFree == collection_lock = NoReader

CacheUsable == cached_report # NoReport /\ ~cache_aged

(* r receives `report`: the return statement. *)
Return(r, report) ==
    /\ phase' = [phase EXCEPT ![r] = "idle"]
    /\ answer' = [answer EXCEPT ![r] = report]
    /\ latest' = [c \in Component |->
                      IF report[c] = Unavailable THEN latest[c] ELSE report[c]]

(* The lock is free and the cached report is recent: it is returned, and   *)
(* the lock is given back by leaving the with-block.                       *)
ServeCached(r) ==
    /\ phase[r] = "waiting"
    /\ CollectionLockFree
    /\ CacheUsable
    /\ Return(r, cached_report)
    /\ UNCHANGED <<version, confirmed, need, collection_lock, cacheVars, sweepVars>>

(* The lock is free and there is nothing recent: remember the generation   *)
(* under the state lock and start the collectors.                          *)
StartSweep(r) ==
    /\ phase[r] = "waiting"
    /\ CollectionLockFree
    /\ ~CacheUsable
    /\ collection_lock' = r
    /\ phase' = [phase EXCEPT ![r] = "sweeping"]
    /\ sweep_generation' = [sweep_generation EXCEPT ![r] = invalidation_generation]
    /\ UNCHANGED <<version, confirmed, need, answer, latest, cacheVars, polled, draft,
                   last_successes>>

(* Bug: an invalidation cancels the collectors that are still waiting. *)
PollUnlessInvalidated(r, c) ==
    /\ phase[r] = "sweeping"
    /\ c \notin polled[r]
    /\ sweep_generation[r] = invalidation_generation
    /\ polled' = [polled EXCEPT ![r] = @ \union {c}]
    /\ draft' = [draft EXCEPT ![r][c] = version[c]]
    /\ UNCHANGED <<version, confirmed, sweep_generation, last_successes, cacheVars,
                   askVars>>

(* One collector reads component c, or fails to; the collectors run        *)
(* concurrently, so in any order.                                          *)
Poll(r, c) ==
    /\ phase[r] = "sweeping"
    /\ c \notin polled[r]
    /\ polled' = [polled EXCEPT ![r] = @ \union {c}]
    /\ \E observation \in {version[c], Unavailable} :
           draft' = [draft EXCEPT ![r][c] = observation]
    /\ UNCHANGED <<version, confirmed, sweep_generation, last_successes, cacheVars,
                   askVars>>

(* Bug: the generation check is left out. *)
AlwaysCurrent(r) == TRUE

(* The generation check under the second state lock. *)
StillCurrent(r) == sweep_generation[r] = invalidation_generation

(* The sweep's locals are gone once get_health returns. *)
ForgetSweep(r) ==
    /\ sweep_generation' = [sweep_generation EXCEPT ![r] = 0]
    /\ polled' = [polled EXCEPT ![r] = {}]
    /\ draft' = [draft EXCEPT ![r] = NoObservation]

(* All collectors are back: last successes are carried over, the report is *)
(* cached if no mutation was confirmed since StartSweep, and returned.     *)
Publish(r) ==
    /\ phase[r] = "sweeping"
    /\ polled[r] = Component
    /\ last_successes' = [c \in Component |->
                              IF draft[r][c] = Unavailable THEN last_successes[c]
                                                           ELSE draft[r][c]]
    /\ IF StillCurrent(r)
       THEN cached_report' = draft[r] /\ cache_aged' = FALSE
       ELSE UNCHANGED <<cached_report, cache_aged>>
    /\ Return(r, draft[r])
    /\ collection_lock' = NoReader
    /\ ForgetSweep(r)
    /\ UNCHANGED <<version, confirmed, need, invalidation_generation>>

GetHealth(r) ==
    \/ ServeCached(r)
    \/ StartSweep(r)
    \/ \E c \in Component : Poll(r, c)
    \/ Publish(r)

HealthNext ==
    \/ \E c \in Component : Change(c)
    \/ CacheAges
    \/ \E c \in Component : \E seen \in 0 .. version[c] : Invalidate(c, seen)
    \/ \E r \in Reader : Call(r) \/ GetHealth(r)

HealthSpec == HealthInit /\ [][HealthNext]_healthVars

(* A thread inside get_health keeps running: the collectors are bounded by *)
(* their timeouts and the state lock is held for a few assignments only.   *)
HealthFairness == \A r \in Reader : WF_healthVars(GetHealth(r))
FairHealthSpec == HealthSpec /\ HealthFairness

-----------------------------------------------------------------------------
(* Properties                                                              *)

(* Types of the variables. *)
HealthTypeOK ==
    /\ version \in [Component -> Nat]
    /\ confirmed \in [Component -> Nat]
    /\ phase \in [Reader -> {"idle", "waiting", "sweeping"}]
    /\ need \in [Reader -> [Component -> Nat]]
    /\ collection_lock \in Reader \union {NoReader}
    /\ sweep_generation \in [Reader -> Nat]
    /\ polled \in [Reader -> SUBSET Component]
    /\ draft \in [Reader -> Report]
    /\ answer \in [Reader -> Report]
    /\ cached_report \in Report \union {NoReport}
    /\ cache_aged \in BOOLEAN
    /\ invalidation_generation \in Nat
    /\ last_successes \in Report
    /\ latest \in [Component -> Nat]

(* Whatever is cached was observed after every mutation confirmed so far:  *)
(* an active sweep is not cached across a verified state change            *)
(* (get_health's generation check against invalidate).                     *)
CacheNeverStale ==
    cached_report # NoReport =>
        \A c \in Component :
            cached_report[c] # Unavailable => cached_report[c] >= confirmed[c]

(* At most one collector sweep is under way, whoever asks and however the  *)
(* cache is invalidated meanwhile (the collection lock of get_health).     *)
SingleFlight ==
    \A r1, r2 \in Reader :
        phase[r1] = "sweeping" /\ phase[r2] = "sweeping" => r1 = r2

(* The last successful observation shown for a component never moves back, *)
(* although _last_successes is updated outside the state lock and also by  *)
(* sweeps whose report is not cached (_with_last_success).                 *)
LastSuccessMonotone ==
    [][\A c \in Component : last_successes'[c] >= last_successes[c]]_last_successes

(* get_health keeps the promise of HealthPromise: no observation older     *)
(* than a mutation confirmed before the call, none older than one already  *)
(* handed out to any caller.                                               *)
Promise == INSTANCE HealthPromise WITH asked <- {r \in Reader : phase[r] # "idle"}
KeepsPromise == Promise!PromiseSpec

(* A sweep always ends, so the collection lock comes back to the callers   *)
(* that wait for it: no collector order and no invalidation keeps a thread *)
(* inside get_health's critical section.                                   *)
SweepEnds == \A r \in Reader : phase[r] = "sweeping" ~> phase[r] = "idle"
=============================================================================
