--------------------------- MODULE HealthHistory ---------------------------
(***************************************************************************)
(* The store of health observations, health_history/store.py over SQLite.  *)
(* ingest() takes one projection of a health report and, in one write      *)
(* transaction, recognises a redelivery from the replay ledger, archives   *)
(* the alerts that have cooled down, advances the evaluators, stores a     *)
(* sample where the history needs one, opens, updates and closes alerts    *)
(* with their events, and moves the checkpoint and the ledger on           *)
(* (ingestion.py).  cleanup_retention() deletes old rows under a row       *)
(* budget (maintenance.py).  Readers validate every row they return        *)
(* (queries.py); a row that does not pass costs the store its trust, and   *)
(* an untrusted store closes itself.                                       *)
(*                                                                         *)
(* A table is a set of rows.  A sample is named by its sequence, which is  *)
(* unique and grows as the row ids do; the events of an alert are a        *)
(* sequence in its row, in row-id order.  The six evaluation rows carry    *)
(* one reference to the baseline sample, always written together: it is    *)
(* one variable here.  observed_at and recorded_at are one time.           *)
(***************************************************************************)
EXTENDS HealthRules, FiniteSets

CONSTANTS Component,       \* the components of a report
          Place,           \* and their order
          Offered,         \* what a projection may say, and how long after the last
          LedgerCapacity,  \* REPLAY_LEDGER_CAPACITY
          Heartbeat,       \* HEARTBEAT_INTERVAL_US, in ticks
          Retention,       \* retention_days, in ticks
          RowBudget,       \* RETENTION_ROW_BUDGET
          MaxSequence,     \* bound: observations
          Failing,         \* bound: what is said in the ingestions that may fail
          MaxEvents        \* bound: failed ingestions and clean-ups together

Overall == "overall"
Sampling == "sampling"
HealthScope == Component \union {Overall}
HealthKind == {"degraded", "unavailable"}
Pairs == (HealthScope \X HealthKind) \union {<<Sampling, "sampling_gap">>}

(* The order in which the scopes are taken, the cadence last.              *)
Precedes(s, t) ==
    \/ s = Overall /\ t # Overall
    \/ s # Sampling /\ t = Sampling
    \/ s \in Component /\ t \in Component /\ Place[s] < Place[t]

(* A disabled component is reported unavailable, with a reason of its own. *)
Condition == {"healthy", "degraded", "unavailable", "disabled"}
SampleKind == {"heartbeat", "startup_gap", "clock_discontinuity"}
Report == [of : [Component -> Condition], kind : SampleKind, missed : Nat, after : Int]

ASSUME HistoryAssumption ==
    /\ Overall \notin Component /\ Sampling \notin Component
    /\ Component # {} /\ IsFiniteSet(Component)
    /\ Place \in [Component -> Nat] /\ \A c, d \in Component : Place[c] = Place[d] => c = d
    /\ Offered \subseteq Report
    /\ LedgerCapacity \in 1 .. MaxCounter /\ RowBudget \in Nat \ {0}
    /\ Heartbeat \in Nat \ {0} /\ Retention \in Nat \ {0}
    /\ Failing \subseteq Offered /\ MaxSequence \in Nat /\ MaxEvents \in Nat

VARIABLES
    now,          \* UTC, as the caller reads it
    store,        \* "open", or closed: "untrusted" (its files), "malformed" (its rows)
    checkpoint,   \* newest accepted projection and how many there were
    ledger,       \* accepted_observation_replay
    samples,      \* health_samples with component_samples
    baseline,     \* evaluation_state.last_sample_id
    heartbeat_at, \* evaluation_state.last_heartbeat_at_utc_us
    evaluation,   \* evaluation_state of the health scopes
    phase,        \* evaluation_state.gap_phase of the sampling scope
    alerts,       \* alerts with alert_events
    pending,      \* ghost: a projection whose ingestion ended in an error and that may
                  \* be delivered again, and whether it had committed
    happened      \* ghost: failed ingestions and clean-ups, for the bound

tables == <<checkpoint, ledger, samples, baseline, heartbeat_at, evaluation, phase, alerts>>
vars == <<now, store, tables, pending, happened>>

NoSample == 0
NoProjection == [seq |-> 0, at |-> NoTime, report |-> [kind |-> "none"]]
NothingPending == [projection |-> NoProjection, committed |-> FALSE]

StatusOf(condition) == IF condition = "disabled" THEN "unavailable" ELSE condition
Rank(status) == CASE status = "healthy" -> 0 [] status = "degraded" -> 1
                  [] status = "unavailable" -> 2
Worst(report) == {c \in Component : \A d \in Component :
                     Rank(StatusOf(report.of[d])) <= Rank(StatusOf(report.of[c]))}
Status(report, scope) ==
    StatusOf(report.of[IF scope = Overall THEN CHOOSE c \in Worst(report) : TRUE ELSE scope])

(* Intentionally disabled: the component is, or all the worst ones are.    *)
Disabled(report, scope) ==
    IF scope = Overall THEN \A c \in Worst(report) : report.of[c] = "disabled"
    ELSE report.of[scope] = "disabled"

Init ==
    /\ now = 0 /\ store = "open"
    /\ checkpoint = [last |-> NoProjection, count |-> 0]
    /\ ledger = {} /\ samples = {} /\ baseline = NoSample /\ heartbeat_at = NoTime
    /\ evaluation = [s \in HealthScope |->
                        [current |-> NoStatus, candidate |-> NoStatus, count |-> 0]]
    /\ phase = "clear" /\ alerts = {} /\ pending = NothingPending /\ happened = 0

-----------------------------------------------------------------------------
(* What the store knows of a projection it is given: a new one, one it has *)
(* accepted before, another one under the sequence of an accepted one, or  *)
(* one that is older than the ledger reaches.  The digest covers the whole *)
(* projection, so equality stands for it.                                  *)

(* Bug: a projection under a known sequence is taken for a redelivery.     *)
LenientVerdict(p) ==
    IF p.seq > checkpoint.last.seq THEN "new"
    ELSE IF \A e \in ledger : e.seq # p.seq THEN "stale" ELSE "replayed"

Verdict(p) ==
    IF p.seq > checkpoint.last.seq THEN "new"
    ELSE IF \A e \in ledger : e.seq # p.seq THEN "stale"
    ELSE IF p \in ledger THEN "replayed" ELSE "conflict"

(* Bug: one entry less stays.                                              *)
OverTrimmed(entries) ==
    {e \in entries : Cardinality({f \in entries : f.seq > e.seq}) + 1 < LedgerCapacity}

(* The newest LedgerCapacity entries stay.                                 *)
Trimmed(entries) ==
    {e \in entries : Cardinality({f \in entries : f.seq > e.seq}) < LedgerCapacity}

-----------------------------------------------------------------------------
(* Alerts                                                                  *)

NoRow == [id |-> 0, alert |-> NoAlert]
RowsOf(table, scope, kind) == {r \in table : r.scope = scope /\ r.kind = kind}
LastRow(rows) ==
    IF rows = {} THEN NoRow ELSE CHOOSE r \in rows : \A q \in rows : q.id <= r.id
ActiveRows(rows) == {r \in rows : Active(r.alert)}
ActiveHealthAlerts(table, scope) ==
    ActiveRows({r \in table : r.scope = scope /\ r.kind \in HealthKind})

(* Bug: an archived alert is not looked for.                               *)
CurrentOrRecovered(table, scope, kind) ==
    LastRow({r \in RowsOf(table, scope, kind) : r.alert.lifecycle # "archived"})

(* The active row of a pair, or else its newest recovered or archived one. *)
CurrentOrLatest(table, scope, kind) ==
    LET rows == RowsOf(table, scope, kind) IN
    IF ActiveRows(rows) # {} THEN LastRow(ActiveRows(rows)) ELSE LastRow(rows)

NoPlan == [id |-> 0, event |-> "none", alert |-> NoAlert]
Plan(row, transition) ==
    [id |-> row.id, event |-> transition.event, alert |-> transition.alert]

OpenPlan(table, scope, kind, at) ==
    LET row == CurrentOrLatest(table, scope, kind) IN Plan(row, OpenOrUpdate(row.alert, at))

(* An unavailable alert grows out of an active degraded one, but only when *)
(* the scope has no unavailable alert of any lifecycle left.               *)
ConditionPlan(table, scope, kind, at) ==
    LET degraded == ActiveRows(RowsOf(table, scope, "degraded")) IN
    IF /\ kind = "unavailable" /\ degraded # {}
       /\ RowsOf(table, scope, "unavailable") = {}
    THEN Plan(NoRow, Escalate(LastRow(degraded).alert, at))
    ELSE OpenPlan(table, scope, kind, at)

(* Bug: an unavailable alert hides the degraded one it grew out of.        *)
PartialRecoveryPlan(table, scope, kind, at) ==
    LET row == LastRow(ActiveRows(RowsOf(table, scope, kind))) IN
    IF kind = "degraded" /\ ActiveRows(RowsOf(table, scope, "unavailable")) # {}
    THEN NoPlan ELSE Plan(row, Recover(row.alert, at))

RecoveryPlan(table, scope, kind, at) ==
    LET row == LastRow(ActiveRows(RowsOf(table, scope, kind)))
    IN Plan(row, Recover(row.alert, at))

HealthPlan(table, scope, kind, verdict, at) ==
    IF verdict.event = "condition_confirmed" /\ kind = verdict.state.current
    THEN ConditionPlan(table, scope, kind, at)
    ELSE IF verdict.event = "recovery_confirmed"
    THEN RecoveryPlan(table, scope, kind, at)
    ELSE NoPlan

(* A gap alert is opened or counted again by every miss of an active gap.  *)
GapCondition(verdict, report) ==
    \/ verdict.event = "opened"
    \/ /\ verdict.phase = "active" /\ report.missed > 0
       /\ report.kind # "clock_discontinuity"
       /\ verdict.event \in {"miss_recorded", "recovery_reset"}
GapPlan(table, verdict, p) ==
    IF GapCondition(verdict, p.report)
    THEN OpenPlan(table, Sampling, "sampling_gap", p.at)
    ELSE IF verdict.event = "recovered"
    THEN RecoveryPlan(table, Sampling, "sampling_gap", p.at)
    ELSE NoPlan

Happened(row, type, at, alert) ==
    [n |-> Cardinality(row.events) + 1, type |-> type, at |-> at, result |-> alert.lifecycle]

(* Bug: the archival of an alert is not recorded among its events.         *)
QuietlyChanged(row, plan, at) ==
    [row EXCEPT !.alert = plan.alert,
                !.archived = IF plan.event = "archived" THEN at ELSE @,
                !.events = IF plan.event = "archived" THEN @
                           ELSE @ \union {Happened(row, plan.event, at, plan.alert)}]

Changed(row, plan, at) ==
    [row EXCEPT !.alert = plan.alert,
                !.archived = IF plan.event = "archived" THEN at ELSE @,
                !.events = @ \union {Happened(row, plan.event, at, plan.alert)}]

(* New rows are numbered in the order of their scopes: a scope opens one   *)
(* alert at a time.                                                        *)
Opened(plans) == {pair \in Pairs : plans[pair].event = "opened"}
Created(table, plans, pair, at) ==
    [id |-> LastRow(table).id + 1
              + Cardinality({q \in Opened(plans) : Precedes(q[1], pair[1])}),
     scope |-> pair[1], kind |-> pair[2], opened |-> at, archived |-> NoTime,
     alert |-> plans[pair].alert,
     events |-> {[n |-> 1, type |-> "opened", at |-> at, result |-> "open"]}]

Concerns(plan, row) ==
    plan.id = row.id /\ plan.event \in {"occurrence_updated", "recovered"}
Persist(table, plans, at) ==
    {LET plan == plans[<<r.scope, r.kind>>]
     IN IF Concerns(plan, r) THEN Changed(r, plan, at) ELSE r : r \in table}
    \union {Created(table, plans, pair, at) : pair \in Opened(plans)}

Eligible(table, at) ==
    {r \in table : r.alert.lifecycle = "recovered" /\ r.alert.cooldown <= at}

(* Every recovered alert whose cooldown is over is archived first.         *)
ArchiveEligible(table, at) ==
    {IF r \in Eligible(table, at)
     THEN Changed(r, Plan(r, Archive(r.alert, at)), at)
     ELSE r : r \in table}

-----------------------------------------------------------------------------
(* One write transaction                                                   *)

Verdicts(table, p) ==
    [s \in HealthScope |-> EvaluateHealth(evaluation[s], Status(p.report, s),
                               Disabled(p.report, s), ActiveHealthAlerts(table, s) # {})]

AllPlans(table, verdicts, gap, p) ==
    [pair \in Pairs |->
        IF pair[1] = Sampling THEN GapPlan(table, gap, p)
        ELSE HealthPlan(table, pair[1], pair[2], verdicts[pair[1]], p.at)]

(* The history keeps a marker, the first sample, a change against the      *)
(* baseline, a heartbeat, and whatever opens or closes an alert.  A marker *)
(* does not become the baseline that retention has taken away.             *)
BaselineSample == CHOOSE s \in samples : s.seq = baseline
IsMarker(report) == report.kind # "heartbeat"
HeartbeatDue(p) == p.at - heartbeat_at >= Heartbeat

(* Bug: an unchanged overall status hides a changed component.             *)
StoredByOverall(p) ==
    \/ IsMarker(p.report) \/ baseline = NoSample
    \/ Status(BaselineSample, Overall) # Status(p.report, Overall) \/ HeartbeatDue(p)

Stored(p) ==
    \/ IsMarker(p.report) \/ baseline = NoSample
    \/ BaselineSample.of # p.report.of \/ HeartbeatDue(p)

UpdatesBaseline(p) == ~(IsMarker(p.report) /\ checkpoint.count > 0 /\ baseline = NoSample)

NeedsSample(plans) ==
    \E pair \in Pairs : plans[pair].event \in {"opened", "recovered"}
Exhausted(plans) == \E pair \in Pairs : plans[pair].event = "rejected"

(* What ingestion finds wrong with its own tables: the ledger does not     *)
(* match the checkpoint, the baseline is gone, a pair has two active       *)
(* alerts or two that may be archived.                                     *)
AnchorBroken ==
    \/ Cardinality(ledger) # (IF checkpoint.count < LedgerCapacity
                             THEN checkpoint.count ELSE LedgerCapacity)
    \/ checkpoint.count > 0 /\ checkpoint.last \notin ledger
BaselineBroken ==
    /\ baseline # NoSample
    /\ (\A s \in samples : s.seq # baseline) \/ heartbeat_at = NoTime
Doubled(rows) == \E r, q \in rows : r # q /\ r.scope = q.scope /\ r.kind = q.kind
Malformed(p) ==
    \/ AnchorBroken
    \/ /\ Verdict(p) = "new"
       /\ BaselineBroken \/ Doubled(ActiveRows(alerts)) \/ Doubled(Eligible(alerts, p.at))

Ingest(p) ==
    LET archived == ArchiveEligible(alerts, p.at)
        verdicts == Verdicts(archived, p)
        gap      == EvaluateGap(phase, p.report.kind, p.report.missed)
        plans    == AllPlans(archived, verdicts, gap, p)
        sampled  == Stored(p) \/ NeedsSample(plans)
    IN /\ ~Exhausted(plans)
       /\ alerts' = Persist(archived, plans, p.at)
       /\ samples' = IF sampled
                     THEN samples \union {[seq |-> p.seq, at |-> p.at, of |-> p.report.of]}
                     ELSE samples
       /\ baseline' = IF sampled /\ UpdatesBaseline(p) THEN p.seq ELSE baseline
       /\ heartbeat_at' = IF sampled THEN p.at ELSE heartbeat_at
       /\ evaluation' = [s \in HealthScope |-> verdicts[s].state]
       /\ phase' = gap.phase
       /\ ledger' = Trimmed(ledger \union {p})
       /\ checkpoint' = [last |-> p, count |-> Saturated(checkpoint.count + 1)]

-----------------------------------------------------------------------------
(* Operations of the store                                                 *)

(* ingest() of the next observation.                                       *)
Projections ==
    {[seq |-> checkpoint.last.seq + 1, at |-> now + report.after, report |-> report] :
        report \in {report \in Offered : now + report.after >= 0}}

Close(trouble) == store' = trouble /\ UNCHANGED tables

Observe(p) ==
    /\ store = "open" /\ p.seq <= MaxSequence /\ now' = p.at
    /\ IF Malformed(p) THEN Close("malformed") /\ UNCHANGED pending
       ELSE /\ Ingest(p) /\ UNCHANGED store
            /\ pending' = [pending EXCEPT !.committed = @ \/ p = pending.projection]
    /\ UNCHANGED happened

(* A statement, or the commit, fails and everything is rolled back.        *)
ObserveFails(p) ==
    /\ store = "open" /\ p.seq <= MaxSequence /\ happened < MaxEvents
    /\ p.report \in Failing
    /\ now' = p.at /\ happened' = happened + 1
    /\ pending' = [projection |-> p, committed |-> FALSE]
    /\ UNCHANGED <<store, tables>>

(* The files do not check out after the commit: the caller sees an error.  *)
ObserveLost(p) ==
    /\ store = "open" /\ p.seq <= MaxSequence /\ happened < MaxEvents
    /\ p.report \in Failing
    /\ ~Malformed(p) /\ Ingest(p)
    /\ now' = p.at /\ happened' = happened + 1 /\ store' = "untrusted"
    /\ pending' = [projection |-> p, committed |-> TRUE]

(* The caller delivers that projection again.  Anything but a new one is   *)
(* answered without a change: replayed, stale or in conflict.              *)
Redeliver ==
    LET p == pending.projection IN
    /\ store = "open" /\ p # NoProjection
    /\ IF Malformed(p) THEN Close("malformed") /\ UNCHANGED pending
       ELSE /\ UNCHANGED store
            /\ IF Verdict(p) = "new"
               THEN Ingest(p) /\ pending' = [pending EXCEPT !.committed = TRUE]
               ELSE UNCHANGED <<tables, pending>>
    /\ UNCHANGED <<now, happened>>

(* A new process opens the store.                                          *)
Reopen == store # "open" /\ store' = "open" /\ UNCHANGED <<now, tables, pending, happened>>

(* cleanup_retention(): old samples and archived alerts, oldest first, a   *)
(* sample before an alert; the events of an alert before its row.          *)
Cutoff == now - Retention
OldAlerts(table) ==
    {r \in table : r.alert.lifecycle = "archived" /\ r.alert.recovered < Cutoff}
Deletions ==
    {<<s.at, 0, s.seq, 0, 0, 0>> : s \in {s \in samples : s.at < Cutoff}}
    \union UNION {{<<r.alert.recovered, 1, r.id, 0, e.at, e.n>> : e \in r.events}
                     \union {<<r.alert.recovered, 1, r.id, 1, 0, 0>>} :
                  r \in OldAlerts(alerts)}
Before(d, e) == \E i \in 1..6 : d[i] < e[i] /\ \A j \in 1..(i - 1) : d[j] = e[j]
Chosen == {d \in Deletions : Cardinality({e \in Deletions : Before(e, d)}) < RowBudget}

Cleanup ==
    /\ store = "open" /\ happened < MaxEvents /\ happened' = happened + 1
    /\ LET deleted == Chosen
           Kept(r) == [r EXCEPT !.events = {e \in @ : \A d \in deleted :
                                              ~(d[2] = 1 /\ d[3] = r.id /\ d[6] = e.n)}]
           GoneSample(seq) == \E d \in deleted : d[2] = 0 /\ d[3] = seq
           GoneAlert(r) == \E d \in deleted : d[2] = 1 /\ d[3] = r.id /\ d[4] = 1
       IN /\ deleted # {}
          /\ samples' = {s \in samples : ~GoneSample(s.seq)}
          /\ baseline' = IF GoneSample(baseline) THEN NoSample ELSE baseline
          /\ alerts' = {Kept(r) : r \in {r \in alerts : ~GoneAlert(r)}}
    /\ UNCHANGED <<now, store, checkpoint, ledger, heartbeat_at, evaluation, phase, pending>>

(* list_alerts() and its kin: what they check of every row they return.    *)
Readable(r) ==
    LET a == r.alert IN
    /\ (a.lifecycle \in {"recovered", "archived"}) = (a.recovered # NoTime)
    /\ (a.lifecycle = "archived") = (r.archived # NoTime)
    /\ a.cooldown >= r.opened
    /\ a.recovered # NoTime => a.recovered >= r.opened /\ a.cooldown >= a.recovered
    /\ r.archived # NoTime => r.archived >= Larger(a.recovered, a.cooldown)

(* Every alert row the store keeps passes the checks its readers make of   *)
(* it (_validate_alert_record), whatever the clock did.                    *)
AlertsReadable == \A r \in alerts : Readable(r)

ReadAlerts ==
    /\ store = "open"
    /\ IF AlertsReadable THEN UNCHANGED <<store, tables>> ELSE Close("malformed")
    /\ UNCHANGED <<now, pending, happened>>

Next ==
    \/ \E p \in Projections : Observe(p) \/ ObserveFails(p) \/ ObserveLost(p)
    \/ Redeliver \/ Reopen \/ Cleanup \/ ReadAlerts

Spec == Init /\ [][Next]_vars

-----------------------------------------------------------------------------
(* Properties                                                              *)

(* No sequence of its own observations, clean-ups, failures and restarts   *)
(* leaves tables that the store takes for malformed.                       *)
TrustKept == store # "malformed"

(* What a redelivery would be answered is the truth: replayed only if that *)
(* very projection was committed, new or in conflict only if it was not,   *)
(* and stale only if the ledger has moved on.                              *)
AnswersTruth ==
    LET p == pending.projection IN
    p # NoProjection =>
        CASE Verdict(p) = "replayed" -> pending.committed
          [] Verdict(p) \in {"new", "conflict"} -> ~pending.committed
          [] Verdict(p) = "stale" -> checkpoint.last.seq - p.seq >= LedgerCapacity

(* The evaluators and the alerts, written by different statements, say the *)
(* same: a confirmed condition has an alert that is not archived, a scope  *)
(* that has settled on healthy has no active one, nor has a cadence that   *)
(* is not interrupted.                                                     *)
ConfirmedIsAlerted ==
    /\ \A s \in HealthScope :
          LET e == evaluation[s] IN
          /\ (e.candidate \in HealthKind /\ e.count >= OpenThreshold(e.candidate)) =>
                \E r \in RowsOf(alerts, s, e.candidate) : r.alert.lifecycle # "archived"
          /\ (e = Settled("healthy")) => ActiveHealthAlerts(alerts, s) = {}
    /\ phase \in {"clear", "candidate_one"} =>
          ActiveRows(RowsOf(alerts, Sampling, "sampling_gap")) = {}

(* The events of an alert tell its life: all of it while the alert is not  *)
(* archived, and after that the end of it, as retention eats it from the   *)
(* front; the last one always says what the alert has become.              *)
EventsTellLifecycle ==
    \A r \in alerts :
        LET Latest == CHOOSE e \in r.events : \A f \in r.events : f.n <= e.n
            Of(type) == {e \in r.events : e.type = type}
        IN /\ r.events # {} =>
                 /\ Latest.result = r.alert.lifecycle
                 /\ \A e, f \in r.events : e.n < f.n => e.at <= f.at
           /\ r.alert.lifecycle # "archived" =>
                 /\ Cardinality(Of("opened")) = 1
                 /\ Of("recovered") # {} <=> r.alert.lifecycle = "recovered"
                 /\ Saturated(Cardinality(Of("occurrence_updated")) + 1)
                       = r.alert.occurrences
           /\ (r.alert.lifecycle = "archived" /\ r.events # {}) => Latest.type = "archived"

(* What the history would show as the current health is what was last      *)
(* observed, though most observations leave no sample.                     *)
BaselineIsCurrent ==
    baseline # NoSample => BaselineSample.of = checkpoint.last.report.of

(* The newest row of every pair lives the reviewed lifecycle: one episode  *)
(* at a time, a new generation only after the cooldown, and none of the    *)
(* steps lost to failures, restarts or the order of the statements.        *)
CurrentAlert == [pair \in Pairs |-> LastRow(RowsOf(alerts, pair[1], pair[2])).alert]
Reference == INSTANCE AlertReference WITH
    Pair <- Pairs, AlertCooldown <- Cooldown, MaxGeneration <- MaxCounter,
    time <- now, current <- CurrentAlert
ImplementsReference == Reference!ReferenceSpec
=============================================================================
