------------------------- MODULE HealthReaderProofs -------------------------
(***************************************************************************)
(* Proofs about what a reader of health is given.  HealthCache, for every  *)
(* set of threads and components and every bound: type correctness, single *)
(* flight, freshness of the cache, monotone last successes, and that it    *)
(* implements HealthPromise.  HealthPages, for pages and tables of any     *)
(* size and any number of writes between two pages.                        *)
(***************************************************************************)
EXTENDS HealthCache, HealthPages, FiniteSetTheorems, TLAPS

-----------------------------------------------------------------------------
(* The cached snapshot                                                     *)


(* The collection lock is held by exactly the thread that sweeps. *)
LockHeldBySweeper ==
    \A r \in Reader : phase[r] = "sweeping" <=> collection_lock = r

(* The ghosts and the last successes are about versions that exist. *)
NothingFromTheFuture ==
    /\ \A c \in Component : /\ confirmed[c] <= version[c]
                            /\ latest[c] <= version[c]
                            /\ last_successes[c] <= version[c]
    /\ \A r \in Reader, c \in Component : need[r][c] <= confirmed[c]

(* A cached observation satisfies every caller, past and present. *)
CachedIsAcceptable ==
    cached_report # NoReport =>
        \A c \in Component : cached_report[c] # Unavailable =>
            /\ confirmed[c] <= cached_report[c]
            /\ latest[c] <= cached_report[c]
            /\ cached_report[c] <= version[c]

(* A sweep overtaken by an invalidation finds the cache empty; its         *)
(* observations still satisfy the caller it runs for.                      *)
DraftIsAcceptable ==
    \A r \in Reader : phase[r] = "sweeping" =>
        /\ sweep_generation[r] <= invalidation_generation
        /\ sweep_generation[r] # invalidation_generation => cached_report = NoReport
        /\ \A c \in Component : draft[r][c] # Unavailable =>
               /\ need[r][c] <= draft[r][c]
               /\ latest[c] <= draft[r][c]
               /\ last_successes[c] <= draft[r][c]
               /\ draft[r][c] <= version[c]
               /\ sweep_generation[r] = invalidation_generation =>
                      confirmed[c] <= draft[r][c]

IdleSweepForgotten ==
    \A r \in Reader : phase[r] # "sweeping" => draft[r] = NoObservation

HealthInvariant ==
    /\ HealthTypeOK
    /\ LockHeldBySweeper
    /\ NothingFromTheFuture
    /\ CachedIsAcceptable
    /\ DraftIsAcceptable
    /\ IdleSweepForgotten

-----------------------------------------------------------------------------
LEMMA InitEstablishes == HealthInit => HealthInvariant
<1> SUFFICES ASSUME HealthInit
             PROVE  HealthInvariant
  OBVIOUS
<1> USE DEF HealthInit
<1>1. HealthTypeOK
  <2>1. NoObservation \in Report
    BY DEF NoObservation, Report, Observation, Unavailable
  <2>2. cached_report \in Report \union {NoReport} /\ cache_aged \in BOOLEAN
    OBVIOUS
  <2>3. /\ version \in [Component -> Nat]
        /\ confirmed \in [Component -> Nat]
        /\ need \in [Reader -> [Component -> Nat]]
        /\ latest \in [Component -> Nat]
    OBVIOUS
  <2>4. /\ phase \in [Reader -> {"idle", "waiting", "sweeping"}]
        /\ collection_lock \in Reader \union {NoReader}
        /\ sweep_generation \in [Reader -> Nat]
        /\ polled \in [Reader -> SUBSET Component]
        /\ invalidation_generation \in Nat
    OBVIOUS
  <2>5. /\ draft \in [Reader -> Report]
        /\ answer \in [Reader -> Report]
        /\ last_successes \in Report
    BY <2>1
  <2>6. QED
    BY <2>2, <2>3, <2>4, <2>5 DEF HealthTypeOK
<1>2. LockHeldBySweeper
  BY NoReaderAssumption DEF LockHeldBySweeper
<1>3. NothingFromTheFuture
  BY DEF NothingFromTheFuture, NoObservation, Unavailable
<1>4. CachedIsAcceptable /\ DraftIsAcceptable /\ IdleSweepForgotten
  BY DEF CachedIsAcceptable, DraftIsAcceptable, IdleSweepForgotten
<1>5. QED
  BY <1>1, <1>2, <1>3, <1>4 DEF HealthInvariant

LEMMA ChangePreserves ==
    ASSUME HealthInvariant, NEW c \in Component, Change(c)
    PROVE  HealthInvariant'
  BY DEF Change, HealthInvariant, HealthTypeOK, LockHeldBySweeper, NothingFromTheFuture,
      CachedIsAcceptable, DraftIsAcceptable, IdleSweepForgotten, NoObservation, Report,
      Observation, Unavailable, cacheVars, sweepVars, askVars

LEMMA CacheAgesPreserves ==
    ASSUME HealthInvariant, CacheAges
    PROVE  HealthInvariant'
  BY DEF CacheAges, HealthInvariant, HealthTypeOK, LockHeldBySweeper, NothingFromTheFuture,
      CachedIsAcceptable, DraftIsAcceptable, IdleSweepForgotten, NoObservation, Report,
      Observation, Unavailable, cacheVars, sweepVars, askVars

LEMMA InvalidatePreserves ==
    ASSUME HealthInvariant, NEW c \in Component, NEW seen \in 0 .. version[c],
           Invalidate(c, seen)
    PROVE  HealthInvariant'
<1> USE DEF HealthInvariant, Invalidate, sweepVars, askVars
<1>1. HealthTypeOK'
  <2>1. confirmed' \in [Component -> Nat]
    BY DEF HealthTypeOK
  <2>2. /\ cached_report' \in Report \union {NoReport}
        /\ cache_aged' \in BOOLEAN
    OBVIOUS
  <2>3. invalidation_generation' \in Nat
    BY DEF HealthTypeOK
  <2>4. QED
    BY <2>1, <2>2, <2>3 DEF HealthTypeOK
<1>2. LockHeldBySweeper' /\ IdleSweepForgotten' /\ CachedIsAcceptable'
  BY DEF LockHeldBySweeper, IdleSweepForgotten, CachedIsAcceptable
<1>3. NothingFromTheFuture'
  BY DEF NothingFromTheFuture, HealthTypeOK
<1>4. \A r \in Reader : phase'[r] = "sweeping" =>
          /\ sweep_generation'[r] < invalidation_generation'
          /\ cached_report' = NoReport
  BY DEF HealthTypeOK, DraftIsAcceptable
<1>5. DraftIsAcceptable'
  BY <1>4 DEF HealthTypeOK, DraftIsAcceptable
<1>6. QED
  BY <1>1, <1>2, <1>3, <1>5

LEMMA CallPreserves ==
    ASSUME HealthInvariant, NEW r \in Reader, Call(r)
    PROVE  HealthInvariant'
  BY DEF Call, HealthInvariant, HealthTypeOK, LockHeldBySweeper, NothingFromTheFuture,
      CachedIsAcceptable, DraftIsAcceptable, IdleSweepForgotten, NoObservation, Report,
      Observation, Unavailable, cacheVars, sweepVars, askVars

LEMMA ServeCachedPreserves ==
    ASSUME HealthInvariant, NEW r \in Reader, ServeCached(r)
    PROVE  HealthInvariant'
  BY NoReaderAssumption DEF ServeCached, Return, CollectionLockFree, CacheUsable,
      HealthInvariant, HealthTypeOK, LockHeldBySweeper, NothingFromTheFuture,
      CachedIsAcceptable, DraftIsAcceptable, IdleSweepForgotten, NoObservation, Report,
      Observation, Unavailable, cacheVars, sweepVars, askVars

LEMMA StartSweepPreserves ==
    ASSUME HealthInvariant, NEW r \in Reader, StartSweep(r)
    PROVE  HealthInvariant'
  BY NoReaderAssumption DEF StartSweep, CollectionLockFree, CacheUsable,
      HealthInvariant, HealthTypeOK, LockHeldBySweeper, NothingFromTheFuture,
      CachedIsAcceptable, DraftIsAcceptable, IdleSweepForgotten, NoObservation, Report,
      Observation, Unavailable, cacheVars, sweepVars, askVars

LEMMA PollPreserves ==
    ASSUME HealthInvariant, NEW r \in Reader, NEW c \in Component, Poll(r, c)
    PROVE  HealthInvariant'
  BY NoReaderAssumption DEF Poll,
      HealthInvariant, HealthTypeOK, LockHeldBySweeper, NothingFromTheFuture,
      CachedIsAcceptable, DraftIsAcceptable, IdleSweepForgotten, NoObservation, Report,
      Observation, Unavailable, cacheVars, sweepVars, askVars

(* The one step that moves observations into the cache: each conjunct of   *)
(* the invariant is re-established on its own.                             *)
LEMMA PublishPreserves ==
    ASSUME HealthInvariant, NEW r \in Reader, Publish(r)
    PROVE  HealthInvariant'
<1> USE DEF HealthInvariant
<1>1. \A c \in Component : draft[r][c] # Unavailable => draft[r][c] \in Nat
  BY DEF Publish, HealthTypeOK, DraftIsAcceptable, Report, Observation
<1>2. /\ draft[r] \in Report
      /\ NoObservation \in Report
  BY DEF HealthTypeOK, Report, Observation, NoObservation, Unavailable
<1>3. HealthTypeOK'
  <2>1. /\ phase' \in [Reader -> {"idle", "waiting", "sweeping"}]
        /\ collection_lock' \in Reader \union {NoReader}
        /\ sweep_generation' \in [Reader -> Nat]
        /\ polled' \in [Reader -> SUBSET Component]
    BY DEF Publish, Return, ForgetSweep, HealthTypeOK
  <2>2. /\ draft' \in [Reader -> Report]
        /\ answer' \in [Reader -> Report]
    BY <1>2 DEF Publish, Return, ForgetSweep, HealthTypeOK
  <2>3. /\ cached_report' \in Report \union {NoReport}
        /\ cache_aged' \in BOOLEAN
    BY <1>2 DEF Publish, HealthTypeOK
  <2>4. last_successes' \in Report
    BY <1>2 DEF Publish, HealthTypeOK, Report, Observation
  <2>5. latest' \in [Component -> Nat]
    BY <1>1 DEF Publish, Return, HealthTypeOK
  <2>6. QED
    BY <2>1, <2>2, <2>3, <2>4, <2>5 DEF Publish, HealthTypeOK
<1>4. LockHeldBySweeper'
  BY NoReaderAssumption DEF Publish, Return, HealthTypeOK, LockHeldBySweeper
<1>5. NothingFromTheFuture'
  BY DEF Publish, Return, HealthTypeOK, NothingFromTheFuture, DraftIsAcceptable
<1>6. CachedIsAcceptable'
  <2>1. CASE StillCurrent(r)
    BY <2>1, <1>1 DEF Publish, Return, StillCurrent, HealthTypeOK, DraftIsAcceptable,
                      CachedIsAcceptable
  <2>2. CASE ~StillCurrent(r)
    BY <2>2 DEF Publish, StillCurrent, DraftIsAcceptable, CachedIsAcceptable
  <2>3. QED
    BY <2>1, <2>2
<1>7. \A q \in Reader : phase'[q] # "sweeping" /\ (phase[q] = "sweeping" => q = r)
  BY DEF Publish, Return, HealthTypeOK, LockHeldBySweeper
<1>8. DraftIsAcceptable'
  BY <1>7 DEF DraftIsAcceptable
<1>9. IdleSweepForgotten'
  BY <1>7 DEF Publish, ForgetSweep, HealthTypeOK, IdleSweepForgotten
<1>10. QED
  BY <1>3, <1>4, <1>5, <1>6, <1>8, <1>9

LEMMA StutterPreserves ==
    ASSUME HealthInvariant, UNCHANGED healthVars
    PROVE  HealthInvariant'
  BY DEF healthVars, HealthInvariant, HealthTypeOK, LockHeldBySweeper,
      NothingFromTheFuture, CachedIsAcceptable, DraftIsAcceptable, IdleSweepForgotten

LEMMA NextPreserves == HealthInvariant /\ [HealthNext]_healthVars => HealthInvariant'
<1> SUFFICES ASSUME HealthInvariant, [HealthNext]_healthVars
             PROVE  HealthInvariant'
  OBVIOUS
<1>1. CASE UNCHANGED healthVars
  BY <1>1, StutterPreserves
<1>2. CASE \E c \in Component : Change(c)
  BY <1>2, ChangePreserves
<1>3. CASE CacheAges
  BY <1>3, CacheAgesPreserves
<1>4. CASE \E c \in Component : \E seen \in 0 .. version[c] : Invalidate(c, seen)
  BY <1>4, InvalidatePreserves
<1>5. ASSUME NEW r \in Reader, Call(r) \/ GetHealth(r)
      PROVE  HealthInvariant'
  BY <1>5, CallPreserves, ServeCachedPreserves, StartSweepPreserves, PollPreserves,
     PublishPreserves DEF GetHealth
<1>6. QED
  BY <1>1, <1>2, <1>3, <1>4, <1>5 DEF HealthNext

(* The strengthened invariant holds in every reachable state. *)
THEOREM HealthInvariantHolds == HealthSpec => []HealthInvariant
  BY InitEstablishes, NextPreserves, PTL DEF HealthSpec

(* Every variable of the health service keeps its type (service.py, the    *)
(* attributes of HealthService and the locals of get_health).              *)
THEOREM HealthTypeCorrect == HealthSpec => []HealthTypeOK
<1>1. HealthInvariant => HealthTypeOK
  BY DEF HealthInvariant
<1>2. QED
  BY <1>1, HealthInvariantHolds, PTL

(* get_health never runs two collector sweeps at once, for any number of   *)
(* request threads.                                                        *)
THEOREM SingleFlightHolds == HealthSpec => []SingleFlight
<1>1. HealthInvariant => SingleFlight
  BY DEF HealthInvariant, LockHeldBySweeper, SingleFlight
<1>2. QED
  BY <1>1, HealthInvariantHolds, PTL

(* invalidate and the generation check of get_health together keep every   *)
(* observation older than a confirmed mutation out of the cache.           *)
THEOREM CacheNeverStaleHolds == HealthSpec => []CacheNeverStale
<1>1. HealthInvariant => CacheNeverStale
  BY DEF HealthInvariant, HealthTypeOK, CachedIsAcceptable, CacheNeverStale, Report,
         Observation, Unavailable
<1>2. QED
  BY <1>1, HealthInvariantHolds, PTL
(* A sweep that ends puts a newer observation into _last_successes, never  *)
(* an older one, although overtaken sweeps update it too.                  *)
THEOREM LastSuccessMonotoneHolds == HealthSpec => LastSuccessMonotone
<1> DEFINE Step == \A c \in Component : last_successes'[c] >= last_successes[c]
<1>1. HealthInvariant /\ [HealthNext]_healthVars => [Step]_last_successes
  <2> SUFFICES ASSUME HealthInvariant, HealthNext, last_successes' # last_successes
               PROVE  Step
    BY DEF healthVars
  <2>1. PICK r \in Reader : Publish(r)
    BY DEF HealthNext, Change, CacheAges, Invalidate, Call, GetHealth, ServeCached,
           StartSweep, Poll, sweepVars
  <2>2. \A c \in Component : last_successes[c] \in Int /\ draft[r][c] \in Int
    BY DEF HealthInvariant, HealthTypeOK, Report, Observation
  <2>3. QED
    BY <2>1, <2>2 DEF Publish, HealthInvariant, DraftIsAcceptable
<1>2. QED
  BY <1>1, HealthInvariantHolds, PTL DEF HealthSpec, LastSuccessMonotone

-----------------------------------------------------------------------------
(* HealthCache implements HealthPromise.                                   *)

LEMMA InitImplements == HealthInit => Promise!PromiseInit
  BY DEF HealthInit, Promise!PromiseInit, NoObservation, Unavailable,
         Promise!Unavailable

(* Leaving get_health with `report` answers the caller, if every           *)
(* observation in the report is acceptable to it.                          *)
LEMMA ReturnAnswers ==
    ASSUME HealthInvariant, NEW r \in Reader, NEW report \in Report,
           phase[r] # "idle",
           Return(r, report),
           UNCHANGED <<version, confirmed, need>>,
           \A c \in Component : report[c] # Unavailable =>
               /\ need[r][c] <= report[c]
               /\ latest[c] <= report[c]
               /\ report[c] <= version[c]
    PROVE  Promise!Answer(r)
<1>1. {q \in Reader : phase'[q] # "idle"} = {q \in Reader : phase[q] # "idle"} \ {r}
  BY DEF Return, HealthInvariant, HealthTypeOK
<1>2. answer' = [answer EXCEPT ![r] = report] /\ answer'[r] = report
  BY DEF Return, HealthInvariant, HealthTypeOK
<1>3. QED
  BY <1>1, <1>2 DEF Promise!Answer, Promise!Acceptable, Promise!Unavailable, Unavailable,
                    Return

LEMMA StepImplements ==
    HealthInvariant /\ [HealthNext]_healthVars => [Promise!PromiseNext]_Promise!promiseVars
<1> SUFFICES ASSUME HealthInvariant, [HealthNext]_healthVars
             PROVE  [Promise!PromiseNext]_Promise!promiseVars
  OBVIOUS
<1> USE DEF HealthInvariant
<1>1. CASE UNCHANGED healthVars
  BY <1>1 DEF healthVars, Promise!promiseVars
<1>2. ASSUME NEW c \in Component, Change(c)
      PROVE  Promise!Change(c)
  BY <1>2 DEF Change, Promise!Change, askVars
<1>3. CASE CacheAges
  BY <1>3 DEF CacheAges, askVars, Promise!promiseVars
<1>4. ASSUME NEW c \in Component, NEW seen \in 0 .. version[c], Invalidate(c, seen)
      PROVE  Promise!Confirm
  <2>1. \A d \in Component : confirmed[d] <= confirmed'[d] /\ confirmed'[d] <= version[d]
    BY <1>4 DEF Invalidate, HealthTypeOK, NothingFromTheFuture
  <2>2. confirmed' = [d \in Component |-> confirmed'[d]]
    BY <1>4 DEF Invalidate, HealthTypeOK
  <2>3. QED
    BY <1>4, <2>1, <2>2 DEF Invalidate, askVars, Promise!Confirm
<1>5. ASSUME NEW r \in Reader, Call(r)
      PROVE  Promise!Ask(r)
  BY <1>5 DEF Call, HealthTypeOK, Promise!Ask
<1>6. ASSUME NEW r \in Reader, ServeCached(r)
      PROVE  Promise!Answer(r)
  <2>1. \A c \in Component : need[r][c] \in Nat /\ confirmed[c] \in Nat
                              /\ need[r][c] <= confirmed[c] /\ cached_report[c] \in Int
    BY <1>6 DEF ServeCached, CacheUsable, HealthTypeOK, NothingFromTheFuture, Report,
                Observation
  <2>2. cached_report \in Report /\ phase[r] # "idle"
    BY <1>6 DEF ServeCached, CacheUsable, HealthTypeOK
  <2>3. QED
    BY <1>6, <2>1, <2>2, ReturnAnswers
       DEF ServeCached, CacheUsable, CachedIsAcceptable
<1>7. ASSUME NEW r \in Reader, StartSweep(r)
      PROVE  UNCHANGED Promise!promiseVars
  BY <1>7 DEF StartSweep, HealthTypeOK, Promise!promiseVars
<1>8. ASSUME NEW r \in Reader, NEW c \in Component, Poll(r, c)
      PROVE  UNCHANGED Promise!promiseVars
  BY <1>8 DEF Poll, askVars, Promise!promiseVars
<1>9. ASSUME NEW r \in Reader, Publish(r)
      PROVE  Promise!Answer(r)
  <2>1. draft[r] \in Report /\ phase[r] # "idle"
    BY <1>9 DEF Publish, HealthTypeOK
  <2>2. QED
    BY <1>9, <2>1, ReturnAnswers DEF Publish, DraftIsAcceptable
<1>10. QED
  BY <1>1, <1>2, <1>3, <1>4, <1>5, <1>6, <1>7, <1>8, <1>9
     DEF HealthNext, GetHealth, Promise!PromiseNext

(* get_health and invalidate implement the abstract promise: every caller  *)
(* gets observations at least as new as every mutation verified before its *)
(* call and as every observation already handed out.                       *)
THEOREM ImplementsPromise == HealthSpec => KeepsPromise
  BY InitImplements, StepImplements, HealthInvariantHolds, PTL
     DEF HealthSpec, KeepsPromise, Promise!PromiseSpec

-----------------------------------------------------------------------------
(* The history, page by page                                               *)


Keys == Int \X Nat

PagesTypeOK ==
    /\ listing \in {"samples", "alerts", "events"} /\ utc \in Int
    /\ reader \in {"idle", "reading", "done", "not_found"}
    /\ reader # "idle" => size \in Nat \ {0}
    /\ \A r \in table : r.at \in Int /\ r.id \in Nat
    /\ IsFiniteSet(table)
    /\ cursor \in Keys \union {NoCursor}
    /\ given \in Seq(SUBSET Keys)
    /\ lasting \subseteq Keys

Given(k) == \E i \in 1 .. Len(given) : k \in given[i]

(* The pages follow each other in the order of the listing, and none goes  *)
(* beyond the cursor.                                                      *)
PagesOrdered ==
    /\ \A i, j \in 1 .. Len(given) : i < j => \A k \in given[i], l \in given[j] : Ahead(k, l)
    /\ reader \in {"idle", "reading"} /\ cursor = NoCursor => Len(given) = 0
    /\ cursor # NoCursor => \A k \in Keys : Given(k) => k = cursor \/ Ahead(k, cursor)

(* What was there all the time has been given or is still to come.         *)
NothingPassedOver ==
    /\ reader = "reading" => \A k \in lasting : k \in Selected(filter) /\ (Given(k) \/ After(k))
    /\ reader = "done" => \A k \in lasting : Given(k)

BeginsAtTheTop == reader = "idle" => cursor = NoCursor

PagesInvariant == PagesTypeOK /\ PagesOrdered /\ NothingPassedOver /\ BeginsAtTheTop

-----------------------------------------------------------------------------
LEMMA InitPages == PagesInit => PagesInvariant
  <1> SUFFICES ASSUME PagesInit PROVE PagesInvariant
    OBVIOUS
  <1>1. PagesTypeOK
    BY FS_EmptySet DEF PagesInit, PagesTypeOK
  <1>2. PagesOrdered /\ NothingPassedOver /\ BeginsAtTheTop
    BY DEF PagesInit, PagesOrdered, NothingPassedOver, BeginsAtTheTop
  <1> QED
    BY <1>1, <1>2 DEF PagesInvariant

(* The order of a listing is a strict total order.                         *)
LEMMA AheadOrders ==
  /\ \A k, l, m \in Keys : Ahead(k, l) /\ Ahead(l, m) => Ahead(k, m)
  /\ \A k, l \in Keys : k = l \/ Ahead(k, l) \/ Ahead(l, k)
  /\ \A k \in Keys : ~Ahead(k, k)
  <1>1. \A k, l, m \in Keys : Earlier(k, l) /\ Earlier(l, m) => Earlier(k, m)
    BY DEF Keys, Earlier
  <1>2. \A k, l \in Keys : k = l \/ Earlier(k, l) \/ Earlier(l, k)
    BY DEF Keys, Earlier
  <1>3. \A k \in Keys : ~Earlier(k, k)
    BY DEF Keys, Earlier
  <1> QED
    BY <1>1, <1>2, <1>3 DEF Ahead

LEMMA SelectedType ==
  ASSUME PagesTypeOK, NEW by
  PROVE  Selected(by) \in SUBSET Keys /\ IsFiniteSet(Selected(by))
  <1> DEFINE chosen == {r \in table : by \in {Every, r.class}}
  <1>1. IsFiniteSet(chosen) /\ \A r \in chosen : r.at \in Int /\ r.id \in Nat
    BY FS_Subset DEF PagesTypeOK
  <1>2. Selected(by) = {Key(r) : r \in chosen}
    BY DEF Selected
  <1> HIDE DEF chosen
  <1>3. IsFiniteSet({Key(r) : r \in chosen})
    <2> DEFINE f == [r \in chosen |-> Key(r)]
               keys == {Key(r) : r \in chosen}
    <2>1. f \in Surjection(chosen, keys)
      BY DEF Surjection
    <2> HIDE DEF f, keys
    <2>2. IsFiniteSet(keys)
      BY <1>1, <2>1, FS_Surjection
    <2> QED
      BY <2>2 DEF keys
  <1> QED
    BY <1>1, <1>2, <1>3 DEF Keys, Key

-----------------------------------------------------------------------------
(* The writer may take rows away, but never one that is still said to last.*)
LEMMA WriterStep ==
  ASSUME PagesInvariant, ReaderKeeps, utc' \in Int, lasting' \subseteq lasting,
         IsFiniteSet(table'), \A r \in table' : r.at \in Int /\ r.id \in Nat,
         \A k \in lasting' : k \in Selected(filter) => k \in Selected(filter)'
  PROVE  PagesInvariant'
  <1>1. UNCHANGED <<listing, reader, size, filter, cursor, given>>
    BY DEF ReaderKeeps
  <1>2. PagesTypeOK'
    BY <1>1 DEF PagesInvariant, PagesTypeOK
  <1>3. PagesOrdered'
    BY <1>1 DEF PagesInvariant, PagesOrdered, Ahead, Given
  <1>4. NothingPassedOver'
    BY <1>1 DEF PagesInvariant, NothingPassedOver, Given, After, Ahead
  <1> QED
    BY <1>1, <1>2, <1>3, <1>4 DEF PagesInvariant, BeginsAtTheTop

LEMMA WriterKeeps ==
  ASSUME PagesInvariant, ClockMoves \/ Insert \/ Changes
  PROVE  PagesInvariant'
  <1> PagesTypeOK
    BY DEF PagesInvariant
  <1>1. CASE ClockMoves
    <2>1. ReaderKeeps /\ UNCHANGED <<table, lasting>> /\ utc' \in Int
      BY <1>1 DEF ClockMoves, PagesTypeOK
    <2>2. Selected(filter)' = Selected(filter)
      BY <2>1 DEF Selected, ReaderKeeps
    <2> QED
      BY <2>1, <2>2, WriterStep DEF PagesTypeOK
  <1>2. CASE Insert
    <2>1. PICK i \in 1 .. MaxId, class \in FirstClass[listing] :
            table' = table \union {[id |-> i, at |-> utc, class |-> class]}
      BY <1>2 DEF Insert
    <2>2. ReaderKeeps /\ UNCHANGED <<utc, lasting, filter>>
      BY <1>2 DEF Insert, ReaderKeeps
    <2>3. i \in Nat /\ utc \in Int
      BY PagesAssumption DEF PagesTypeOK
    <2>4. IsFiniteSet(table')
      BY <2>1, FS_AddElement DEF PagesTypeOK
    <2>5. Selected(filter) \subseteq Selected(filter)'
      BY <2>1, <2>2 DEF Selected
    <2> QED
      BY <2>1, <2>2, <2>3, <2>4, <2>5, WriterStep DEF PagesTypeOK
  <1>3. CASE Changes
    <2>0. ReaderKeeps /\ UNCHANGED <<utc, filter>>
      BY <1>3 DEF Changes, ReaderKeeps
    <2>1. CASE Archives
      <3>1. UNCHANGED <<table, lasting>>
        BY <2>1 DEF Archives
      <3>2. Selected(filter)' = Selected(filter)
        BY <2>0, <3>1 DEF Selected
      <3> QED
        BY <2>0, <3>1, <3>2, WriterStep DEF PagesTypeOK
    <2>2. ASSUME NEW r \in table, Advances(r) PROVE PagesInvariant'
      <3>1. PICK q : /\ q = [r EXCEPT !.class = IF @ = "open" THEN "recovered" ELSE "archived"]
                     /\ table' = (table \ {r}) \union {q}
        BY <2>2 DEF Advances
      <3>2. q.at = r.at /\ q.id = r.id
        BY <3>1
      <3>3. IsFiniteSet(table')
        <4>1. IsFiniteSet(table \ {r})
          BY FS_Subset DEF PagesTypeOK
        <4> QED
          BY <3>1, <4>1, FS_AddElement
      <3>4. lasting' = (IF filter = Every THEN lasting ELSE lasting \ {Key(r)})
        BY <2>2 DEF Advances
      <3>5. \A k \in lasting' : k \in Selected(filter) => k \in Selected(filter)'
        BY <2>0, <3>1, <3>2, <3>4 DEF Selected, Key
      <3> QED
        BY <2>0, <3>1, <3>2, <3>3, <3>4, <3>5, WriterStep DEF PagesTypeOK
    <2>3. ASSUME NEW r \in table, Forget(r) PROVE PagesInvariant'
      <3>1. table' = table \ {r} /\ lasting' = lasting \ {Key(r)}
        BY <2>3 DEF Forget
      <3>2. IsFiniteSet(table')
        BY <3>1, FS_Subset DEF PagesTypeOK
      <3>3. \A k \in lasting' : k \in Selected(filter) => k \in Selected(filter)'
        BY <2>0, <3>1 DEF Selected
      <3> QED
        BY <2>0, <3>1, <3>2, <3>3, WriterStep DEF PagesTypeOK
    <2> QED
      BY <1>3, <2>1, <2>2, <2>3 DEF Changes
  <1> QED
    BY <1>1, <1>2, <1>3

-----------------------------------------------------------------------------
(* The reader                                                              *)

LEMMA BeginKeeps ==
  ASSUME PagesInvariant, Begin
  PROVE  PagesInvariant'
  <1>1. /\ reader = "idle" /\ reader' = "reading" /\ size' \in Nat \ {0}
        /\ lasting' = Selected(filter') /\ cursor = NoCursor /\ Len(given) = 0
        /\ UNCHANGED <<listing, utc, table, cursor, given>>
    BY PagesAssumption DEF Begin, PagesInvariant, PagesOrdered, BeginsAtTheTop
  <1>2. PagesTypeOK'
    BY <1>1, SelectedType DEF PagesInvariant, PagesTypeOK
  <1>3. PagesOrdered'
    BY <1>1 DEF PagesInvariant, PagesOrdered, Given, Ahead
  <1>4. NothingPassedOver'
    BY <1>1 DEF NothingPassedOver, After, Selected
  <1> QED
    BY <1>1, <1>2, <1>3, <1>4 DEF PagesInvariant, BeginsAtTheTop

(* A row that is not on the page has size rows ahead of it: it comes after *)
(* the last one of the page.  Where nothing is left all of it is.          *)
LEMMA PageComesFirst ==
  ASSUME PagesTypeOK, reader # "idle"
  PROVE  /\ Page \in SUBSET Rest /\ Rest \in SUBSET Keys
         /\ ~(Cardinality(Rest) > size) => Page = Rest
         /\ \A k \in Page, l \in Rest \ Page : Ahead(k, l)
  <1> DEFINE Over(k) == {l \in Rest : Ahead(l, k)}
  <1>1. /\ Rest \in SUBSET Keys /\ IsFiniteSet(Rest) /\ Cardinality(Rest) \in Nat
        /\ \A k : Over(k) \in SUBSET Rest /\ IsFiniteSet(Over(k)) /\ Cardinality(Over(k)) \in Nat
    <2>1. Rest \in SUBSET Selected(filter)
      BY DEF Rest
    <2>2. Rest \in SUBSET Keys /\ IsFiniteSet(Rest)
      BY <2>1, SelectedType, FS_Subset
    <2>3. \A k : Over(k) \in SUBSET Rest
      OBVIOUS
    <2> HIDE DEF Over
    <2> QED
      BY <2>2, <2>3, FS_Subset, FS_CardinalityType
  <1>2. Page = {k \in Rest : Cardinality(Over(k)) < size} /\ size \in Nat
    BY DEF Page, PagesTypeOK
  <1>3. ASSUME ~(Cardinality(Rest) > size), NEW k \in Rest PROVE k \in Page
    <2>1. k \notin Over(k)
      BY <1>1, AheadOrders
    <2>2. Over(k) # Rest
      BY <1>1, <1>3, <2>1
    <2> HIDE DEF Over
    <2>3. Cardinality(Over(k)) < Cardinality(Rest)
      <3>1. Cardinality(Over(k)) <= Cardinality(Rest)
            /\ (Cardinality(Over(k)) = Cardinality(Rest) => Over(k) = Rest)
        BY <1>1, FS_Subset
      <3> QED
        BY <1>1, <2>2, <3>1
    <2> QED
      BY <1>1, <1>2, <1>3, <2>3
  <1>4. ASSUME NEW k \in Page, NEW l \in Rest \ Page PROVE Ahead(k, l)
    <2>1. k \in Rest /\ k \in Keys /\ l \in Keys /\ k # l
      BY <1>1, <1>2
    <2>2. ASSUME Ahead(l, k) PROVE FALSE
      <3>1. Over(l) \in SUBSET Over(k)
        BY <1>1, <2>1, <2>2, AheadOrders
      <3> HIDE DEF Over
      <3>2. Cardinality(Over(l)) <= Cardinality(Over(k))
        BY <1>1, <3>1, FS_Subset
      <3> QED
        BY <1>1, <1>2, <3>2
    <2> QED
      BY <2>1, <2>2, AheadOrders
  <1> QED
    BY <1>1, <1>2, <1>3, <1>4

LEMMA ListsKeeps ==
  ASSUME PagesInvariant, Lists
  PROVE  PagesInvariant'
  <1>1. /\ reader = "reading" /\ given' = Append(given, Page)
        /\ UNCHANGED <<listing, utc, table, subject, size, filter, lasting>>
    BY DEF Lists, Answers
  <1> PagesTypeOK
    BY DEF PagesInvariant
  <1>2. /\ Page \in SUBSET Rest /\ Rest \in SUBSET Keys
        /\ ~(Cardinality(Rest) > size) => Page = Rest
        /\ \A k \in Page, l \in Rest \ Page : Ahead(k, l)
    BY <1>1, PageComesFirst
  <1>3. /\ Len(given) \in Nat /\ Len(given') = Len(given) + 1 /\ given' \in Seq(SUBSET Keys)
        /\ given'[Len(given) + 1] = Page
        /\ \A i \in 1 .. Len(given) : given'[i] = given[i] /\ given[i] \in SUBSET Keys
    BY <1>1, <1>2 DEF PagesTypeOK
  <1>4. \A k : Given(k)' <=> Given(k) \/ k \in Page
    BY <1>3 DEF Given
  (* Whatever was given before comes ahead of the page.                    *)
  <1>5. ASSUME NEW k \in Keys, Given(k), NEW l \in Page PROVE Ahead(k, l)
    <2>1. cursor # NoCursor
      BY <1>1, <1>5 DEF PagesInvariant, PagesOrdered, Given
    <2>2. (k = cursor \/ Ahead(k, cursor)) /\ Ahead(cursor, l)
      BY <1>2, <1>5, <2>1 DEF PagesInvariant, PagesOrdered, Rest, After
    <2> QED
      BY <1>2, <2>1, <2>2, AheadOrders DEF PagesTypeOK
  <1>6. \A i, j \in 1 .. Len(given') : i < j => \A k \in given'[i], l \in given'[j] : Ahead(k, l)
    <2> SUFFICES ASSUME NEW i \in 1 .. Len(given'), NEW j \in 1 .. Len(given'), i < j,
                        NEW k \in given'[i], NEW l \in given'[j]
                 PROVE  Ahead(k, l)
      OBVIOUS
    <2>1. i \in 1 .. Len(given) /\ k \in given[i] /\ k \in Keys
      BY <1>3
    <2>2. CASE j = Len(given) + 1
      BY <1>3, <1>5, <2>1, <2>2 DEF Given
    <2>3. CASE j \in 1 .. Len(given)
      BY <1>3, <2>1, <2>3 DEF PagesInvariant, PagesOrdered
    <2> QED
      BY <1>3, <2>2, <2>3
  <1>7. \A k, l : Ahead(k, l)' <=> Ahead(k, l)
    BY <1>1 DEF Ahead
  <1>8. \A k \in lasting : k \in Selected(filter)' /\ (Given(k) \/ k \in Rest) /\ k \in Keys
    BY <1>1 DEF PagesInvariant, PagesTypeOK, NothingPassedOver, Selected, Rest
  <1>9. CASE Cardinality(Rest) > size
    <2>1. PICK last \in Page : (\A l \in Page : l = last \/ Ahead(l, last)) /\ cursor' = last
                               /\ reader' = reader
      BY <1>9 DEF Lists, Answers, IsLast
    <2>2. last # NoCursor /\ last \in Keys
      BY <1>2, <2>1 DEF Keys, NoCursor
    <2>3. PagesTypeOK'
      BY <1>1, <1>3, <2>1, <2>2 DEF PagesTypeOK
    <2>4. PagesOrdered'
      BY <1>1, <1>4, <1>5, <1>6, <1>7, <2>1, <2>2 DEF PagesOrdered
    <2>5. NothingPassedOver'
      <3>1. ASSUME NEW k \in lasting PROVE Given(k)' \/ After(k)'
        BY <1>2, <1>4, <1>7, <1>8, <2>1 DEF After
      <3> QED
        BY <1>1, <1>8, <2>1, <3>1 DEF NothingPassedOver
    <2> QED
      BY <1>1, <2>1, <2>3, <2>4, <2>5 DEF PagesInvariant, BeginsAtTheTop
  <1>10. CASE ~(Cardinality(Rest) > size)
    <2>1. cursor' = NoCursor /\ reader' = "done" /\ Page = Rest
      BY <1>2, <1>10 DEF Lists, Answers
    <2>2. PagesTypeOK'
      BY <1>1, <1>3, <2>1 DEF PagesTypeOK
    <2>3. PagesOrdered'
      BY <1>6, <1>7, <2>1 DEF PagesOrdered
    <2>4. NothingPassedOver'
      BY <1>1, <1>4, <1>8, <2>1 DEF NothingPassedOver
    <2> QED
      BY <2>1, <2>2, <2>3, <2>4 DEF PagesInvariant, BeginsAtTheTop
  <1> QED
    BY <1>9, <1>10

LEMMA PagesStep == PagesInvariant /\ [PagesNext]_pagesVars => PagesInvariant'
  <1> SUFFICES ASSUME PagesInvariant, [PagesNext]_pagesVars PROVE PagesInvariant'
    OBVIOUS
  <1>1. CASE UNCHANGED pagesVars
    BY <1>1 DEF pagesVars, PagesInvariant, PagesTypeOK, PagesOrdered, NothingPassedOver, Given,
       Selected, After, Ahead, BeginsAtTheTop
  <1>2. CASE NotFound
    BY <1>2 DEF NotFound, PagesInvariant, PagesTypeOK, PagesOrdered, NothingPassedOver, Given,
       Ahead, BeginsAtTheTop
  <1> QED
    BY <1>1, <1>2, WriterKeeps, BeginKeeps, ListsKeeps
       DEF PagesNext, ListHealthSamples, ListAlerts, ListAlertEvents

(* For tables and pages of any size, and whatever is written between two   *)
(* pages, whoever follows the cursors to the end is given every row that   *)
(* was there all the time, in order and once.                              *)
THEOREM EveryRowOnceHolds == PagesSpec => []EveryRowOnce
  <1>1. PagesInvariant => EveryRowOnce
    BY DEF PagesInvariant, PagesOrdered, NothingPassedOver, EveryRowOnce, Given
  <1> QED
    BY <1>1, InitPages, PagesStep, PTL DEF PagesSpec
=============================================================================
