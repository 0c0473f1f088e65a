# Project Aurora: a verification project

Project Aurora supervises an ambient-lighting installation: a capture card, HyperHDR
(which turns video into LED colours) and WLED (which drives the LEDs). The program is a
validated configuration, a local web dashboard with a small authenticated control plane,
a transactional configuration-profile tool, a health-history database, and a set of
hardware probes that an operator runs by hand. This directory holds TLA+ models of the
parts whose correctness depends on interleavings, failures and order, the TLC runs that
check them on small instances, and proofs, checked by TLAPS, for every instance.

Paths below are relative to `src/src/aurora_core/` unless they start with `docs/` or `tests/`.

## Reproducing

    tlc -workers 2 -config HealthCache.cfg MCHealthCache    # any run listed under "Runs"
    tlapm HealthReaderProofs.tla                            # any *Proofs module

A definition whose comment begins with "Bug:" is a wrong version of the definition next to
it. It is used by nothing; substituted for the right one, it makes the property it is
paired with in `PROJECT.json` fail, which shows that the property can fail.

## The system

| part | state it keeps | operations | what is hard about it | module |
|---|---|---|---|---|
| health service (`dashboard/service.py`) | cached report, its age, invalidation generation, last successes, two locks | `get_health`, `invalidate` | page threads, collectors and invalidations interleave; a sweep must not be cached across a change it did not see | HealthCache |
| device controls (`control_plane/{wled,hyperhdr,ambient}_service.py`, the adapters and transports, `mutation_gate.py`) | reentrant gate, one private lock per service, attempt windows | one component command; ambient on and off, three commands each | two services with different locks, a sequence that must not be interrupted, replies that are lost, late or wrong | DeviceControls |
| control plane (`dashboard/server.py`) | the wiring of the two above | request handlers | a verified command and a page that is just being computed | ControlPlane |
| configuration profiles (`config_profiles/`) | the active file, profiles, backup pairs, a lock file | `apply`, `rollback` | separate processes, editors that know no lock, failures at every call, kill, loss of power | ConfigProfiles |
| operator sessions (`control_plane/{service,sessions,limiter}.py`) | sessions, attempt windows, client table | login, logout, session lookup | nothing is held between the steps of a request; bounded tables; expiry | SessionControl |
| runtime controller (`runtime/`) | lifecycle per component, stack of the started ones | `start`, `stop`, health | a component that fails to start or to stop, then more calls | RuntimeController |
| DDP output test (`hardware/ddp_output*.py`) | the socket lease, the counters of two frames | one bounded test | partial sends, deadline, Ctrl-C anywhere | DDPOutput |
| capture of one frame (`hardware/capture_frame*.py`) | descriptor, buffer, mapping, stream, the flags of the result | one validation: a read/write probe, perhaps a streaming one | clean-up after a failure at any step, a fallback that opens the device again | CaptureFrame |
| history: ingestion, evaluation, alerts, retention (`health_history/{ingestion,evaluation,sampling_gap,lifecycle,maintenance}.py`) | samples, evaluator counters, alerts with events, checkpoint, replay ledger | `ingest`, `cleanup_retention` | one transaction over many tables, repeated delivery, deletion of what other rows refer to, the alert life cycle | HealthRules, HealthHistory |
| history: queries (`health_history/queries.py`) | none; a cursor is in the reader's hands | three listings | rows come, change and go between two pages | HealthPages |
| history: scheduler, orchestrator, storage envelope (`health_history/{scheduler,orchestration,storage_envelope}.py`) | next slot, missed intervals, maintenance triggers; the write-ahead log | one due call | late calls, failures before and after a commit, a log that only a writer starts over | HealthScheduler |
| history: database, leadership (`health_history/{database_lifecycle,leadership,store}.py`) | lock file and kernel lock, database file, connection | bootstrap, close | two processes, crashes, clean-ups that fail | HealthDatabase |

Not modelled, because they have no state and no order to get wrong: the configuration
loader and its models, the password hash (a step that says yes or no in SessionControl),
forms, cookies, rendering and audit records, the command line, the classification of WLED
and HyperHDR answers (one poll in HealthCache, one verification in DeviceControls), the
other capture queries (device, capability, modes: one descriptor, one question), and of
`m18_validation/` the benchmark, the platform checks and `sampling_gap.py`, a twin of the
evaluator in HealthRules. `PROJECT.json` lists them one by one.

How the parts interact: the HTTP server runs a thread per request. A request handler looks
its session up (SessionControl), reads its form, and calls one control service
(DeviceControls). A service that verified a command calls `HealthService.invalidate`
(ControlPlane) after it has given its locks back. Page requests call `get_health`. The
health service takes no lock of the controls and the controls none of its collection lock.
The profile tool, the runtime controller, the DDP test and the capture are separate:
processes of their own, or a class that the tests drive. The health history is wired into
no command yet either: HealthService puts its parts together as their docstrings and tests
do, one owner that bootstraps, checks the log, constructs a scheduler and polls it.

## Modules

`MC*` modules hold the finite instances. MCCommands holds five that meet no other
component: the DDP test, the capture, the runtime controller, the reading of the history
and the operator sessions share nothing, so a behaviour picks one of them and leaves the
others alone.

### HealthPromise and HealthCache

`HealthPromise` says, without cache, lock or sweep, what an answer may contain: nothing
older than a change confirmed before the request, nothing older than what any caller has
received, nothing newer than the device. `HealthCache` is the code. Each component has a
version that grows with each change; an observation is the version a poll saw.

| code | model |
|---|---|
| `with self._collection_lock` | `collection_lock`; a thread that finds the cache usable takes and returns it in one step (`ServeCached`), one that sweeps holds it from `StartSweep` to `Publish` |
| age test under `_state_lock` | `CacheUsable`; the clock is the one bit `cache_aged`, which may be set at any time |
| generation read before the collectors start | `sweep_generation` in `StartSweep` |
| collectors in a thread pool | `Poll(r, c)` in any order, each may fail |
| `_with_last_success`, generation test, store, return | `Publish` |
| `invalidate()` | `Invalidate`, at any time |

The ghosts `confirmed`, `need` and `latest` carry what a caller may rely on and influence
nothing. The age test of the code uses a time read before the state lock; an age of one
bit that may rise at any moment includes that.

### DeviceControls

One process per request thread. A thread goes through the checks of `_execute` in their
order (`Admit`, `ParentAdmit`), takes the gate (`TakeGate`), the private lock and sends
(`StartMutation`), the device handles the POST (`DeviceHandles`), the adapter verifies
(`WLEDAnswers`, `HyperHDRAnswers`, `VerifyComponent`), the locks go back (`Release`), and
the result is returned (`Conclude`). Ambient requests run up to three of these in their
own thread, with one more acquisition of the reentrant gate around them. Every acquisition
in the code is non-blocking, so each has a "busy" branch and none waits.

The network may lose a POST, garble its answer, or deliver it after the sender gave up
(`late`), whoever holds the gate then, and others may change the devices
(`OutsideChange`). `SafetyBoundary` and `VerifiedMeansApplied` exempt two things, and
nothing else: what others do under the gate (`disturbed`), and a target that was last set
under it by a late POST of Aurora itself (`overtaken`); the other targets, and the target
itself once a command has set it again, stay covered. Without the second exemption the
safety boundary does not hold, which the run `controls_late` shows (`IsolationKept`).

### ControlPlane

Puts the two modules above together: a device change is a new version of its service, a
verified command is `Invalidate` in the step that concludes it, page requests are the
readers of HealthCache. `seen` is the version the verification saw, `told` and `expected`
what a browser may rely on.

### ConfigProfiles

One process per command. The steps follow the code's file operations: preflight, `flock`,
first reading, second reading, capacity, copy, manifest, sync of the backup directory,
temporary, second identity check, `os.replace`, sync of the directory, re-reading; then
the single automatic restoration runs through the same replace. Each may fail. An editor
writes the active file and the profiles without the lock, a backup goes bad, a command is
killed at any point, and power is lost: an unsynced name or unsynced bytes may be lost.
`Valid` depends on the command, because its environment overrides the document.

### SessionControl

Sessions are numbered by the store's own sequence, which also stands for the cookie and
its digest. A request is a chain of steps with nothing locked between them: resolve, form,
attempt, comparison, clear, rotate, create, answer. The clock ticks between any two. The
limiter keeps a bounded table of clients and a global window; what is forgotten from the
table is a choice among the clients seen longest ago. The attempts it grants are numbered,
`stamp` has the reading of the clock of each, and a list of stamps is the set of the
numbers in it, so that a window is a set that shrinks. `guesses` and `ended` are history.

### RuntimeController

`start` and `stop` as loops over the plan with one action per iteration and outcome. The
components' `start` and `stop` may raise and leave the component running or not. The
enabled and the injected components are any subsets of the plan.

### DDPOutput

One validation command: resolution, the lease, the test frame, the blackout, the one
close, the report. Every send may fail in each of the ways the code tells apart, the
deadline may pass between any two steps, and KeyboardInterrupt may be raised wherever the
interpreter looks for signals: at the entry of a function, after a call, at a loop. `wire`
is what the network was given, which the counters of the probe need not know.

### CaptureFrame

One capture: the read/write probe, the fallback, the streaming probe, and the service's
verdict on the result. One action per system call or loop turn. An ioctl may come after
the deadline, find its budget used up, be interrupted, be refused or succeed. The flags of
the result are the set `events`; `device` is what the kernel really has: how often the
device is open, its buffers, the mapping, the queue, the stream, and whether a frame is in
memory. The device writes into a mapped, queued, streaming buffer whenever it likes, also
while the clean-up runs. The reasons a failed acquisition gives, which nothing tells
apart, are one.

### HealthRules, HealthHistory and AlertReference

`HealthRules` holds the three pure evaluators as operators: when a condition is confirmed,
when sampling is interrupted, what becomes of an alert. `HealthHistory` is the store's
transaction around them: recognise a redelivery (`Verdict`), archive what has cooled down
(`ArchiveEligible`), advance the evaluators (`Verdicts`), plan the alerts in scope order
(`AllPlans`), store a sample where one is needed (`Stored`, `NeedsSample`), persist the
alerts with their events, move the checkpoint and the ledger (`Ingest`). A table is a set
of rows. The transaction is one step because SQLite makes it one; it fails as a whole
(`ObserveFails`), or commits and the caller hears an error (`ObserveLost`), after which
the same projection may be delivered again (`Redeliver`), also by a new process (`Reopen`).
What ingestion and the readers check of the tables is modelled too (`Malformed`,
`Readable`): a row that fails costs the store its trust. `Cleanup` deletes the oldest rows
within the row budget, in the code's order. The order in which scopes are taken is a
constant (`Place`): a new alert's row id is the newest one and the scopes opened before it,
so no loop is needed. Events and samples are sets as well, numbered as their row ids are.

`AlertReference` is `m18_validation/alert_lifecycle.py`, the reviewed lifecycle of one
alert, which was written before the store and which the store does not import. It is
stated for every pair of a scope and a kind; `CurrentAlert` maps the newest row of a pair
to it, and `ImplementsReference` checks that HealthHistory implements it.

### HealthPages

One reader follows the cursors of one listing, newest first for samples and alerts, oldest
first for the events of one alert, while the writer inserts, alerts change their
lifecycle, retention deletes, and the clock goes either way. A page fetches one row more
than it returns. `lasting` is the ghost of what was there all the time.

### HealthScheduler

One due call as the chain of steps of `_run_due_opportunity`, `_process_observation` and
`_run_maintenance_opportunity`: cadence (`Check`), resume (`Refresh`), UTC and report
(`Collect`), inspection and storage decision (`Inspect`), cleaning (`MakeRoom`,
`Reinspect`), the PASSIVE checkpoint (`Checkpoint`, `Recheck`), `Ingest`, and maintenance
(`Trigger`, `Maintain`, `MaintainWal`, `Maintained`). Every operation may fail, also after
it has written, and the store may lose its trust in any. The write-ahead log is its
frames, whether they are all copied back, and the slots its file has: a PASSIVE checkpoint
changes only the second, and the next writer then starts the log over. `life` is history:
what was accepted since the scheduler was constructed, and what was owed.

### HealthDatabase and HealthService

`HealthDatabase` is one process: leadership (create or open the lock file, lock without
waiting, verify), bootstrap (open, or create, populate and check; undo), close with its
two halves, and death anywhere, which gives the kernel lock back. The database file is
absent, partial or complete. `HealthService` composes it with the startup check and the
scheduler over the log that a crash leaves and a last close may remove.

## Runs

`expect: pass` unless said otherwise. Bounds are the values in the configuration files.

| run | asks | on |
|---|---|---|
| health_cache | is anything stale cached or handed out; does the cache keep the promise of HealthPromise; does every sweep end? | 2 page threads, 2 components, one change and one invalidation of each |
| controls | may requests get into each other's way; is the order of the children a safety boundary; are aggregates and verified results true? | ambient on and off and commands of both services on 2 threads, scarce attempts, a POST delivered late, others at the LED output |
| controls_late | expects a violation of `IsolationKept` | ambient off and an LED-enable command, one POST delivered late, nobody else at the devices |
| controls_refused | what do refusals leave behind, and is everybody answered? | every way to be refused, 2 threads |
| plane | does a page show what a command verified? | one control thread, one page, others at WLED |
| profiles | is activation transactional, and does every command end? | 2 commands with different environments, an editor, damaged backups, I/O failures, a kill, a loss of power |
| commands | does each command give back what it took, and is its report true; do sessions and limiter keep their bounds? | the DDP test, two datagrams a frame and up to three interrupts; the capture with every call refused, interrupted or late; four calls of a runtime of three components; a reader and seven writes; 3 browsers on 2 request threads, a store of two, a client table of two, 4 requests |
| ddp_interrupted | expects a violation of `BlackoutAlwaysEntered` | one interrupt |
| health_history | do the tables stay consistent with each other and with what was committed? | seven observations of two components, one failure, lost commit or clean-up anywhere, redelivery, restarts |
| history_backwards | expects a violation of `AlertsReadable` | a clock that is set back |
| health_service | one writer; misses reported once; no write into a log that is due for a checkpoint? | 2 processes, one failure or death and one failing operation anywhere, two schedulers |
| wal_stuck | expects a violation of `CheckpointRecovers` | the same instance |

What the properties say is in the comment before each. Those that took the most care:

- `KeepsPromise`, `PageShowsMutation`: freshness across a sweep, an invalidation and the
  locks of another service.
- `SafetyBoundary`, `VerifiedMeansApplied`: what is known of the devices in the middle of
  a sequence, target by target: a POST that arrives after its sender gave up takes away
  what is known of its own target only.
- `Reversible`, `ExitTellsTruth`: a copy of what was replaced survives kill and power loss,
  and the exit code is right about the active file even when the restoration failed.
- `AnswersTruth`, `ConfirmedIsAlerted`, `EventsTellLifecycle`: relations between tables
  that different statements of a transaction write and retention deletes.
- `MissesAccounted`: every interval is sampled, or reported by exactly one accepted
  observation, or pending, through late calls, failures and clock markers.
- `CleanMeansClean`: a report that says clean against what the kernel has.
- `EveryRowOnce`: keyset pages against a table that changes, ids that are used again
  included.

### Bounds, and why they are enough

- Threads and processes: two show every pairwise interleaving. The third party is the
  environment, which acts between any two steps. The proofs hold for any number.
- HealthCache: one change per component and one invalidation; a second of either would
  repeat the race that the generation counter decides. The two components tell a
  per-component error from a per-report one. In the plane run the version may rise twice
  (a command and somebody else) and the invalidations suffice for the three children of a
  sequence.
- DeviceControls: one attempt per limiter, so that limiters run dry inside a sequence, and
  `MaxLate = 1` keeps one POST on its way that arrives late. Levels 1 and 2 around a maximum of 1.
- ConfigProfiles: three documents (one that all accept, one that one command refuses, one
  invalid), one profile, three identifiers with room for two backups, one edit, one loss
  of power. Two commands suffice for the lock; the edit may fall before either of the two
  identity checks, or between the publication and the restoration.
- SessionControl: two sessions, a lifetime and a window of two ticks in three ticks of
  time, so that both expire within a behaviour; three clients, so that a table of two must
  forget one; four requests. Clients and threads are symmetric.
- RuntimeController: three components let a rollback pass one that fails to stop and reach
  another; four calls let a failed stop be followed by a start, a failure and a stop.
- DDPOutput: two datagrams a frame are the least with a first and a later one; three
  interrupts allow one in the test frame, one in the blackout and one in the close.
- CaptureFrame: the budgets of the code, 4 ioctls to read, 14 to stream, two polls.
- HealthHistory: one tick is one interval; a cooldown of three, a heartbeat of two and a
  retention of four of them and a ledger of two make everything happen within seven
  observations: confirmation takes three for degraded and two for unavailable, recovery
  two (`evaluation.py:14-16`), so that an escalation takes five and an alert of a
  condition that had recovered takes six; the startup marker jumps four
  ticks, over the cooldown. The row budget of three cuts a clean-up in the middle of an
  alert's events. One failure, lost commit or clean-up per behaviour.
- HealthPages: up to four rows, pages of one and two, seven changes.
- HealthScheduler: an interval of two ticks of the clock in four, so that calls come late
  by one or two intervals; a cap of two; a log due at two frames, with writes of one or two.
- HealthDatabase: one attempt and one trouble (a failure or a death); one process may
  create, the other only opens.

Deadlock is not checked where the system stops: commands of ConfigProfiles end, the bounded
clock and requests of SessionControl run out, the commands of MCCommands and the bounded
observations, attempts and clocks of the history come to their end. It is checked in
the other runs.

### Fairness

- `HealthFairness`: weak fairness of each thread's steps inside `get_health`. The
  collectors are bounded by their timeouts, and the state lock is held for assignments.
  Nothing is assumed of devices, of the clock, of invalidations, or of who calls.
- `FairControlSpec`: weak fairness of a request thread's own steps. A network call ends by
  its timeout (`TransportFails` is always possible while waiting). Devices and browsers
  promise nothing.
- `FairSpec` of ConfigProfiles: a started process is scheduled until it exits. The file
  calls return, with success or an error.

The other specifications state no fairness, and no liveness is claimed of them: nothing in
`src/` polls the scheduler yet.

## Findings

1. `ddp_interrupted`. `docs/ddp-output-validation.md:108-109` says "Once the socket exists,
   the blackout phase is always entered", and `docs/safety.md:59-60` says the same of
   Ctrl-C "immediately after acquisition". The blackout is run by the exit of the socket
   lease (`hardware/ddp_output_probe.py:136-160`). A KeyboardInterrupt raised at the entry
   of `__exit__`, or at that of `_finish`, leaves with the socket open and no blackout; one
   raised in `_finish` before the clean-up's own handler is caught, but goes on to the
   close. The window is a few bytecodes wide. `CleansUp` states what does hold: the
   blackout phase and the close in every other case, however many interrupts come.
2. `history_backwards`. `docs/health-history-alerting.md:680-681` and `1306-1307` say that
   UTC may move backward and the sequence stays authoritative. An observation of an earlier
   time is accepted, and closes an alert at a time before it opened
   (`health_history/lifecycle.py:191`). The row is committed and from then on no reader
   accepts it (`queries.py:754-758`): the first one closes the store.
3. `wal_stuck`. `docs/health-history-alerting.md:1672-1673` lets a completed checkpoint be
   followed by "one fresh storage decision before ingestion", and two tests expect the
   observation to be stored after it. They fake a log that is empty after the checkpoint.
   A PASSIVE checkpoint leaves the frame count as it is until the next writer starts the
   log over, so the fresh decision is "checkpoint due" again and no writer comes: with
   `wal_autocheckpoint = 0` every later observation ends as `checkpoint_incomplete`
   (`orchestration.py:397`) until the connection is closed or maintenance deletes something.

4. `controls_late`. `docs/hyperhdr-controls.md:124-125` says that the gate "prevents
   standalone HyperHDR operations from interleaving with a bounded ambient sequence", and
   `docs/ambient-controls.md:55-57` builds on it: the LED disable that comes first in
   ambient off is "the safety boundary", what follows its verification is safe. A POST that
   times out (`hyperhdr_adapter.py:159`) is answered as failed and the gate is given back
   (`hyperhdr_service.py:349`), but the request may still be carried out: an LED enable of
   a standalone operation can land between the verified LED disable of a later ambient off
   and its remaining children. Lines 74-75 say that "transport loss can make the device
   outcome ambiguous", but of the step that lost it, not of a later sequence.

Observations that have no run of their own:

- Consecutive observations that each report one missed interval never open a gap alert
  (`sampling_gap.py:173-178`, and so in the reference model); "the cumulative number of
  missed intervals across consecutive delayed scheduler observations"
  (`docs/health-history-alerting.md:938-940`, and the second row of the table at 981)
  reads as if they did. HealthRules has what the code does.
- A write-ahead log whose file is over 4 MiB is found by the checks around every store
  operation but the inspection itself and closes the store (`filesystem.py:166-182`), so
  only an inspection that comes first would report it as `wal_oversize_blocked`, as lines
  1628-1632 and 1676 of that document have it.
- Capacity pressure and a long log at once: clean-up writes before anything looks at the
  log (`MakeRoom`), so it may lengthen a log that is due for a checkpoint.
  `WritesWithinEnvelope` is about observations only.
- `docs/capture-frame-validation.md:107-109` closes the descriptor so that "the device
  cannot continue writing"; a mapping holds the device open as well, and `DeviceWrites`
  goes on until it is gone. No report says clean in that case (`CleanMeansClean`).
- Some results the streaming probe can produce without a frame are turned down by
  `_consistent_result` and reported as `unexpected_probe_failure`. `FrameAccounted` states
  that a result with a frame never is.
- A process that dies between the creation of the database and its schema leaves a file
  that no later bootstrap opens or replaces ("partial"; an operator has to remove it).
- The ids of alerts and events are `INTEGER PRIMARY KEY` without `AUTOINCREMENT`: an id
  may be used again after the largest row is deleted, and a reader that holds a cursor
  into the events of the old alert is then answered from those of the new one.
- The restoration of ConfigProfiles names no expected identity: an edit made between the
  publication and the restoration is overwritten by it (`config_profiles/service.py:450`).

## Proofs

The theorems hold for every value of the constants that the named assumptions allow: any
number of threads, processes, components, profiles, documents, sessions, clients, plan
items, datagrams, interrupts and rows, any interval, cap, ledger, row budget and log
threshold. Each safety theorem follows from an inductive invariant, proved for the initial
states and for each action. Every safety property that a run checks, action properties
and refinements included, is a theorem.

| module | inductive invariant | theorems |
|---|---|---|
| HealthReaderProofs | of HealthCache `HealthInvariant`: types; who sweeps holds the lock; nothing cached, drafted or counted as confirmed is newer than the device; what is cached or drafted is acceptable to every caller that may get it; idle threads have no sweep. Of HealthPages `PagesInvariant`: types; the pages follow each other and none goes beyond the cursor; what was there all the time has been given or lies after the cursor | types, single flight, `CacheNeverStale`, `LastSuccessMonotone`, and `ImplementsPromise`: HealthCache refines HealthPromise; `EveryRowOnce` |
| DeviceControlsProofs | `ControlInvariant`: types, and from where each thread is, who owns the gate, how deep, and who owns each private lock. `SequenceInvariant`: that; what an admitted sequence may assume of its allowlist; what each adapter result means; which children verified before the one that runs; what has been sent; what is then known of each target if nobody else changed the devices and no late POST set it. Of ControlPlane `PlaneInvariant`: the first; who carries a version that was seen; `expected`, `told`, `confirmed` and the version in that order; what is cached or swept satisfies who may get it | types, `SerializedMutations`, `AmbientUninterrupted`, `LocksReturned`, `SafetyBoundary`, `VerifiedMeansApplied`, `HonestAggregate`, `ChildNotRefused`, `RefusedMeansUntouched`; `PageShowsMutation`, and that the composition is a behaviour of both its parts (`PlaneImplementsControls`, `PlaneImplementsHealth`) |
| ConfigProfilesProofs | `ConfigInvariant`: types; exclusion; the active and the settled file are whole; what a command has read, staged and saved fits its place | types, `Exclusive`, `WholeDocument`, `Reversible`, `ExitTellsTruth`, `ReplacesWhatItBackedUp`, `InstallsValid`, and, with the count of occupied identifiers, `CapacityHeld` |
| SessionControlProofs | `StoreInvariant`: whatever the store, a browser or a thread has was issued; from the rotation or the logout on, the session a request presented is not in the store; the cap. `LimiterInvariant`: the recent guesses are on record, of tracked clients only, and the records are bounded | types, `OverIsOver`, `SessionCap`, `EvictsOnlyTheOldest`, `LimitsHold` |
| RuntimeControllerProofs | `RuntimeInvariant`: types; the stack holds the running components in plan order; while a call is under way the running ones are a prefix of the enabled ones. `TruthInvariant`: whoever fails to stop comes before all that failed already | types, `PlanOrder`, `AllOrNothing`, `NoSilentLeak`, `StopTellsTruth`, `Conservative` |
| HardwareProofs | of DDPOutput `OutputInvariant`: types; what is on the wire comes before the cursor of the place the command is at; counters never say more than the wire; a pending interrupt never reaches a report; what is owed to a socket. Of CaptureFrame `CaptureInvariant`: types; what the kernel has fits the place of the acquisition or of the clean-up; each flag of the result against what the kernel has; the verdict against both | types, `NeverRetried`, `GoodReportMeansBlackout`, `ProbeAccepted`, `InterruptSurfaces`, `CleansUp`; `OneDescriptor`, `CleanMeansClean`, `FrameAccounted`, for any budget of ioctls and polls |
| HealthHistoryProofs | `DeliveryOK`: the ledger holds the newest projections, one of every sequence, and the pending one is where its flag says. `BaselineInvariant`: the baseline sample is there and shows the last report. `AlertsInvariant`: a pair has one alert that is not archived, and it is the newest; the evaluators agree with it. `TimesOK`: the times of a row are in order and not after the last observation. `EventsOK`: the events are numbered, in order, and whole until the alert is archived. `ImplementsInvariant`: those, the alerts of a pair follow each other (`InOrder`), and what may be redelivered was read from the clock that is shown (`PendingIsNow`) | types, `AnswersTruth`, `BaselineIsCurrent`, `ConfirmedIsAlerted`, `AlertsReadable`, `TrustKept`, `EventsTellLifecycle`, and `ImplementsReferenceHolds`: HealthHistory refines AlertReference |
| HealthServiceProofs | `DatabaseInvariant`: types; whoever is past the lock holds it; connections and complete files fit the places. `SchedulerInvariant`: types; an account of the intervals since the last acceptance; the start's mark; the log is short where an observation is stored; attempts | `ServiceImplementsDatabase`: the composed service refines leadership and lifecycle alone; types, `StoreUnderLock`, `ClosedMeansReleased`, `DatabaseKept`, `MissesAccounted`, `FirstIsMarked`, `OncePerCall`, `WritesWithinEnvelope` |

Why the strengthenings are needed, in the least obvious cases. `CacheNeverStale` is not
inductive: a sweep in progress must be known to hold, as long as its generation is
current, only polls at least as new as every confirmed change, and to be acceptable to the
caller even if it is not. `SafetyBoundary` needs that the verified children are exactly
those before the present one, and that what they verified is still true of the devices.
`Reversible` needs the backup pair to be followed through five places before the file is
replaced. `GoodReportMeansBlackout` needs that the counter can equal the number of turns
only if every turn put its datagram out, and `ProbeAccepted` that a recorded failure
leaves its counter short. `CleanMeansClean` needs that a flag which says undone was set
after the kernel had undone it, and that no later step of the clean-up brings it back.
`PageShowsMutation` joins the two components at the order in which a control service
works: what it saw (`seen`) is not newer than the device, the cache is told before the
browser (`told` is never ahead of `confirmed`), and a sweep that was overtaken still
satisfies the reader it runs for, who asked before. That the composition implements both
its parts carries every theorem about them over to the dashboard process.
`MissesAccounted` needs a whole number `k` of intervals since the last acceptance that
reported any (`Account(k)`), of which those that clock markers took are deducted and the
rest is what `pending` counts up to its cap; the cap may be applied at each step or once
(`CappedOnce`). `OverIsOver` needs `AlreadyGone`: between the rotation and the answer the
session the browser still presents has left the store.

The history took the longest argument. Each plan of an observation is shown to fit the
table it was made from (`Fits`, `AllPlansFit`): it opens an alert only where all of the
pair's are archived, and moves only the one that is not. What the transaction makes of a
row is then a step of `Moves` or a fresh row (`IngestSteps`), from which follow, row by
row, the order of the times, the events and the table's own shape. `ConfirmedIsAlerted`
goes over the evaluators' verdicts instead: a count that reaches its threshold comes with
the verdict that opens an alert, and a scope settles only with the one that closes it.
The refinement looks at the newest row of a pair. Archiving, then persisting keep it the
newest (`ArchivedCurrent`, `PersistCurrent`), the generation of a new one follows the one
that the reference takes (`OpenedNext`), also where an unavailable alert grows out of a
degraded one; and retention takes the newest row of a pair only with all the older ones
(`CleanupForgets`), since what it chooses is closed downward in its order (`ChosenClosed`)
and the alerts of a pair follow each other.

`AlertsReadable`, `TrustKept`, `EventsTellLifecycle` and `ImplementsReference` assume
`ClockForward`: no projection is earlier than the one before it. That is a hypothesis of
those four theorems, no property of the code; the run `history_backwards` shows that it is
needed (finding 2). The others, types included, hold whatever the clock does.

A finite set of rows has a newest one because the sets of rows after a given one are
well-founded by inclusion (`FiniteHasLast`), which takes the place of an induction.

Proved and in no run, since the runs keep to what is most worth a mutant: the type
invariants, `LastSuccessMonotone`, `LocksReturned`, `RefusedMeansUntouched`, `Exclusive`,
`InstallsValid`, `CapacityHeld`, `PlanOrder`, `Conservative`, `ProbeAccepted`,
`InterruptSurfaces`, `ClosedMeansReleased`, `OncePerCall`.

Assumptions: the named `ASSUME`s of the modules, which TLC evaluates in every run, say that
bounds are numbers, that model values differ, that components and clients are finitely
many, that scopes are taken in some order, that a log is due before it is too long, that
the ledger is no longer than the counter counts (`REPLAY_LEDGER_CAPACITY` is far below
`MAX_BOUNDED_COUNTER`), and for DDP that the attempt budget suffices for two frames, as
`DDP_MAX_SEND_ATTEMPTS` does.

Only model-checked: liveness (`SweepEnds`, `EveryRequestAnswered`, `EveryCommandEnds`),
which is out of the prover's reach.

## What is left out, and why it is safe

- Time is an age bit (health), a sliding step (limiters of the controls), ticks (sessions,
  history) or a flag (DDP, capture). No property depends on durations.
- Authentication in DeviceControls is a bit of the request; it is decided in
  SessionControl. The bodies and headers of HTTP, JSON and DDP are abstracted to the
  classes the code tells apart.
- An operation goes ahead with a session that expired or was logged out after it was
  resolved: the code decides at the resolution, and no property is stated about it.
- In ConfigProfiles the first reading of two files is one step; the second reading sees a
  write between them in the same way as one after them. `list`, `validate` and `plan`
  change nothing.
- A component that raises when the runtime controller asks it for health counts as the
  report the code puts in its place, an argument of `Overall`.
- HealthHistory and HealthScheduler are not composed: what ties them is the committed
  sequence and whether a sample was stored, which HealthScheduler has as a choice.
  The stages within a transaction are not steps, since SQLite undoes or keeps them all.
- The incremental vacuum moves pages that nothing here tells apart; its writes to the log
  are in HealthScheduler. Digests stand for what they cover. Modes, owners and paths of
  files pass their checks or fail them.
- Acknowledgement of alerts is in the reference and in the schema, but no operation of the
  store makes it.

## What could come next

1. HealthHistory under a scheduler: the committed sequence of the one as the acceptance of
   the other.
