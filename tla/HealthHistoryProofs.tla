------------------------- MODULE HealthHistoryProofs -------------------------
(***************************************************************************)
(* Proofs about the store of health observations, for any number of        *)
(* components, alerts and samples, any ledger and any row budget.          *)
(***************************************************************************)
EXTENDS HealthHistory, FiniteSetTheorems, WellFoundedInduction, TLAPS

Projection == [seq : Nat \ {0}, at : Nat, report : Report]
StatusValue == {"healthy", "degraded", "unavailable", NoStatus}
Lifecycle == {"open", "recovered", "archived"}
AlertValue == [lifecycle : Lifecycle, generation : 1 .. MaxCounter,
               occurrences : 1 .. MaxCounter, cooldown : Int, recovered : Int]
AlertEvent == [n : Nat \ {0}, at : Nat, result : Lifecycle,
               type : {"opened", "occurrence_updated", "recovered", "archived"}]
AlertRow == [id : Nat \ {0}, scope : HealthScope \union {Sampling},
             kind : HealthKind \union {"sampling_gap"}, opened : Nat, archived : Int,
             alert : AlertValue, events : SUBSET AlertEvent]

EvaluationState == [current : StatusValue, candidate : StatusValue, count : Nat]

HistoryTypeOK ==
    /\ now \in Nat /\ store \in {"open", "untrusted", "malformed"} /\ happened \in Nat
    /\ checkpoint \in [last : Projection \union {NoProjection}, count : Nat]
    /\ ledger \subseteq Projection
    /\ samples \subseteq [seq : Nat \ {0}, at : Nat, of : [Component -> Condition]]
    /\ baseline \in Nat /\ heartbeat_at \in Int
    /\ evaluation \in [HealthScope -> EvaluationState]
    /\ phase \in {"clear", "candidate_one", "active", "recovery_one"}
    /\ alerts \subseteq AlertRow /\ \A r \in alerts : <<r.scope, r.kind>> \in Pairs
    /\ pending \in [projection : Projection \union {NoProjection}, committed : BOOLEAN]

Last == checkpoint.last
Within(seq) == Last.seq - seq < LedgerCapacity

(* The ledger holds the newest projections, one of every sequence, and the *)
(* counter has counted them all until it was full.                         *)
LedgerOK ==
    /\ checkpoint.count = Saturated(Last.seq)
    /\ \A e \in ledger : e.seq \in 1 .. Last.seq /\ Within(e.seq)
    /\ \A n \in 1 .. Last.seq : Within(n) => \E e \in ledger : e.seq = n
    /\ \A e, f \in ledger : e.seq = f.seq => e = f
    /\ Last.seq > 0 => Last \in ledger

(* What became of the projection whose ingestion ended in an error.        *)
PendingOK ==
    LET p == pending.projection IN
    /\ p.seq <= Last.seq + 1
    /\ p # NoProjection =>
          IF pending.committed THEN p.seq <= Last.seq /\ (Within(p.seq) => p \in ledger)
          ELSE p \notin ledger

BaselineOK ==
    /\ IsFiniteSet(samples)
    /\ \A s, t \in samples : s.seq <= Last.seq /\ (s.seq = t.seq => s = t)
    /\ baseline # NoSample =>
          /\ heartbeat_at # NoTime
          /\ \E s \in samples : s.seq = baseline /\ s.of = Last.report.of

(* A pair has one alert that is not archived, and it is the newest.        *)
TableOK(table) ==
    /\ table \subseteq AlertRow /\ IsFiniteSet(table)
    /\ \A r \in table : <<r.scope, r.kind>> \in Pairs /\ IsFiniteSet(r.events)
    /\ \A r, q \in table : r.id = q.id => r = q
    /\ \A r, q \in table : r.scope = q.scope /\ r.kind = q.kind /\ r.id < q.id =>
          r.alert.lifecycle = "archived"

-----------------------------------------------------------------------------
(* Where the clock is not set back                                         *)

ClockForward == \A report \in Offered : report.after >= 0

(* No time of a row is later than a given one, and they are in order.      *)
RowTimes(r, at) ==
    /\ r.opened <= at /\ r.opened <= r.alert.cooldown
    /\ IF r.alert.lifecycle = "open" THEN r.alert.recovered = NoTime
       ELSE r.alert.recovered \in r.opened .. at /\ r.alert.recovered <= r.alert.cooldown
    /\ IF r.alert.lifecycle = "archived" THEN r.alert.cooldown <= r.archived
       ELSE r.archived = NoTime
    /\ \A e \in r.events : e.at <= at

TimesOK ==
    /\ Last.at <= now /\ pending.projection.at <= now
    /\ pending.projection.seq > Last.seq => Last.at <= pending.projection.at
    /\ \A r \in alerts : RowTimes(r, Last.at)

(* The alerts of a pair follow each other: one is opened when the one      *)
(* before it has recovered.                                                *)
InOrder ==
    \A r, q \in alerts : r.scope = q.scope /\ r.kind = q.kind /\ r.id < q.id =>
        r.alert.recovered <= q.opened

(* What may still be delivered again was read from the clock that is shown. *)
PendingIsNow == pending.projection.seq > Last.seq => pending.projection.at = now

-----------------------------------------------------------------------------
(* The events of an alert: numbered, in the order of their times, the last *)
(* one saying what the alert has become, and all there until it is         *)
(* archived.                                                               *)
OfType(r, type) == {e \in r.events : e.type = type}
Numbered(r) ==
    /\ \A e, f \in r.events : e.n = f.n => e = f
    /\ \A e, f \in r.events : e.n < f.n => e.at <= f.at
LastSays(r) ==
    \A e \in r.events : (\A f \in r.events : f.n <= e.n) =>
        /\ e.result = r.alert.lifecycle
        /\ r.alert.lifecycle = "archived" => e.type = "archived"
Whole(r) ==
    /\ \A e \in r.events : e.n <= Cardinality(r.events) /\ (e.type = "opened" <=> e.n = 1)
    /\ \E e \in r.events : e.n = 1
    /\ OfType(r, "recovered") # {} <=> r.alert.lifecycle = "recovered"
    /\ Saturated(Cardinality(OfType(r, "occurrence_updated")) + 1) = r.alert.occurrences
Tells(r) == Numbered(r) /\ LastSays(r) /\ (r.alert.lifecycle # "archived" => Whole(r))
EventsOK == \A r \in alerts : Tells(r)

-----------------------------------------------------------------------------
(* Finite sets                                                             *)

(* A finite set of numbered things has a last one: of the sets of things   *)
(* after one of them, some has no proper subset among them.                *)
LEMMA FiniteHasLast ==
  ASSUME NEW rows, IsFiniteSet(rows), rows # {}, NEW number \in [rows -> Int]
  PROVE  \E r \in rows : \A q \in rows : number[q] <= number[r]
  <1> DEFINE Later(r) == {q \in rows : number[q] > number[r]}
             All == {Later(r) : r \in rows}
  <1>1. All \subseteq FiniteSubsetsOf(rows) /\ All # {}
    <2>1. \A r \in rows : Later(r) \in SUBSET rows
      OBVIOUS
    <2>2. \A L \in SUBSET rows : L \in FiniteSubsetsOf(rows)
      BY FS_FiniteSubsetsOfFinite
    <2> HIDE DEF Later
    <2>3. All # {}
      OBVIOUS
    <2> QED
      BY <2>1, <2>2, <2>3
  <1>2. IsWellFoundedOn(StrictSubsetOrdering(rows), FiniteSubsetsOf(rows))
    BY FS_StrictSubsetOrderingWellFounded
  <1>3. PICK L \in All : \A M \in All : ~(<<M, L>> \in StrictSubsetOrdering(rows))
    <2> HIDE DEF All
    <2> QED
      BY <1>1, <1>2, WFMin
  <1>4. PICK r \in rows : L = Later(r)
    OBVIOUS
  <1>5. ASSUME NEW q \in rows, number[q] > number[r] PROVE FALSE
    <2>1. Later(q) \subseteq L /\ q \in L /\ q \notin Later(q) /\ L \subseteq rows
      BY <1>4, <1>5
    <2>2. <<Later(q), L>> \in StrictSubsetOrdering(rows)
      BY <2>1 DEF StrictSubsetOrdering
    <2> QED
      BY <1>3, <2>2
  <1> QED
    BY <1>5

(* Things numbered without a gap are as many as their numbers.             *)
LEMMA NumberedCount ==
  ASSUME NEW S, NEW lo \in Int, NEW hi \in Int, NEW number \in [S -> lo .. hi],
         \A e, f \in S : number[e] = number[f] => e = f,
         \A n \in lo .. hi : \E e \in S : number[e] = n
  PROVE  IsFiniteSet(S) /\ Cardinality(S) = IF lo > hi THEN 0 ELSE hi - lo + 1
  <1>1. number \in Injection(S, lo .. hi) /\ number \in Surjection(S, lo .. hi)
    BY DEF Injection, IsInjective, Surjection
  <1>2. IsFiniteSet(lo .. hi) /\ Cardinality(lo .. hi) = IF lo > hi THEN 0 ELSE hi - lo + 1
    BY FS_Interval
  <1>3. IsFiniteSet(S) /\ Cardinality(S) = Cardinality(lo .. hi)
    BY <1>1, <1>2, FS_Injection
  <1> QED
    BY <1>2, <1>3

-----------------------------------------------------------------------------
(* What is delivered                                                       *)

DeliveryTypeOK ==
    /\ now \in Nat /\ Last \in Projection \union {NoProjection}
    /\ ledger \subseteq Projection
    /\ pending.projection \in Projection \union {NoProjection}
    /\ pending.committed \in BOOLEAN
    /\ pending = [projection |-> pending.projection, committed |-> pending.committed]
    /\ checkpoint = [last |-> Last, count |-> checkpoint.count]

DeliveryOK == DeliveryTypeOK /\ LedgerOK /\ PendingOK

LEMMA InitDelivery == Init => DeliveryOK
  <1> SUFFICES ASSUME Init PROVE DeliveryOK
    OBVIOUS
  <1>1. Last = NoProjection /\ Last.seq = 0 /\ ledger = {}
    BY DEF Init, Last, NoProjection
  <1>2. DeliveryTypeOK
    BY <1>1 DEF Init, DeliveryTypeOK, NothingPending
  <1>3. LedgerOK
    BY <1>1, RulesAssumption DEF Init, LedgerOK, Saturated
  <1>4. PendingOK
    BY <1>1 DEF Init, PendingOK, NothingPending, NoProjection
  <1> QED
    BY <1>2, <1>3, <1>4 DEF DeliveryOK

(* The anchor that ingestion looks for is always there.                    *)
LEMMA AnchorHolds ==
  ASSUME DeliveryOK
  PROVE  ~AnchorBroken
  <1> DEFINE L == Last.seq
             lo == IF L < LedgerCapacity THEN 1 ELSE L - LedgerCapacity + 1
             number == [e \in ledger |-> e.seq]
  <1>1. L \in Nat /\ LedgerCapacity \in Nat \ {0} /\ MaxCounter \in Nat /\ LedgerCapacity <= MaxCounter
    BY HistoryAssumption, RulesAssumption
       DEF DeliveryOK, DeliveryTypeOK, Projection, NoProjection
  <1>2. Cardinality(ledger) = IF lo > L THEN 0 ELSE L - lo + 1
    <2>1. \A e \in ledger : e.seq \in lo .. L
      BY <1>1 DEF DeliveryOK, LedgerOK, Within
    <2>2. \A n \in lo .. L : \E e \in ledger : e.seq = n
      BY <1>1 DEF DeliveryOK, LedgerOK, Within
    <2>3. number \in [ledger -> lo .. L] /\ \A n \in lo .. L : \E e \in ledger : number[e] = n
      BY <2>1, <2>2
    <2>4. \A e, f \in ledger : number[e] = number[f] => e = f
      BY DEF DeliveryOK, LedgerOK
    <2>5. lo \in Int /\ L \in Int
      BY <1>1
    <2> HIDE DEF number, lo, L
    <2> QED
      BY <2>3, <2>4, <2>5, NumberedCount
  <1>3. checkpoint.count = IF L > MaxCounter THEN MaxCounter ELSE L
    BY DEF DeliveryOK, LedgerOK, Saturated
  <1>4. checkpoint.count > 0 => Last \in ledger
    BY <1>1, <1>3 DEF DeliveryOK, LedgerOK
  <1>5. Cardinality(ledger) = IF checkpoint.count < LedgerCapacity
                              THEN checkpoint.count ELSE LedgerCapacity
    BY <1>1, <1>2, <1>3
  <1> QED
    BY <1>4, <1>5 DEF AnchorBroken, Last

(* Of entries without a gap, those that the trimming keeps are within the  *)
(* reach of the ledger.                                                    *)
LEMMA TrimKeeps ==
  ASSUME NEW entries, NEW top \in Nat,
         \A e \in entries : e.seq \in 1 .. top,
         \A e, f \in entries : e.seq = f.seq => e = f,
         \A e \in entries : \A n \in (e.seq + 1) .. top : \E f \in entries : f.seq = n
  PROVE  Trimmed(entries) = {e \in entries : top - e.seq < LedgerCapacity}
  <1> SUFFICES ASSUME NEW e \in entries
               PROVE  Cardinality({f \in entries : f.seq > e.seq}) = top - e.seq
    BY DEF Trimmed
  <1> DEFINE S == {f \in entries : f.seq > e.seq}
             number == [f \in S |-> f.seq]
             lo == e.seq + 1
  <1>1. lo \in Int /\ top \in Int /\ lo <= top + 1
    OBVIOUS
  <1>2. number \in [S -> lo .. top]
    BY <1>1
  <1>3. \A f, g \in S : number[f] = number[g] => f = g
    OBVIOUS
  <1>4. \A n \in lo .. top : \E f \in S : number[f] = n
    <2> SUFFICES ASSUME NEW n \in lo .. top PROVE \E f \in S : number[f] = n
      OBVIOUS
    <2>1. PICK f \in entries : f.seq = n
      OBVIOUS
    <2>2. f \in S
      BY <2>1
    <2> QED
      BY <2>1, <2>2
  <1> HIDE DEF S, number, lo
  <1>5. Cardinality(S) = IF lo > top THEN 0 ELSE top - lo + 1
    BY <1>1, <1>2, <1>3, <1>4, NumberedCount
  <1> QED
    BY <1>1, <1>5 DEF S, lo

Accepts(p) ==
    /\ checkpoint' = [last |-> p, count |-> Saturated(checkpoint.count + 1)]
    /\ ledger' = Trimmed(ledger \union {p})

LEMMA LedgerAfter ==
  ASSUME DeliveryOK, NEW p \in Projection, p.seq = Last.seq + 1, Accepts(p)
  PROVE  /\ Last' = p /\ LedgerOK'
         /\ ledger' = {e \in ledger \union {p} : p.seq - e.seq < LedgerCapacity}
  <1> DEFINE entries == ledger \union {p}
  <1>1. /\ Last' = p /\ ledger' = Trimmed(entries) /\ p.seq \in Nat /\ Last.seq \in Nat
        /\ checkpoint'.count = Saturated(checkpoint.count + 1)
    BY DEF Accepts, Last, Projection, DeliveryOK, DeliveryTypeOK, NoProjection
  <1>2. \A e \in entries : e.seq \in 1 .. p.seq
    BY <1>1 DEF DeliveryOK, LedgerOK
  <1>3. \A e, f \in entries : e.seq = f.seq => e = f
    BY <1>1 DEF DeliveryOK, LedgerOK
  <1>4. LedgerCapacity \in Nat \ {0} /\ MaxCounter \in Nat
    BY HistoryAssumption, RulesAssumption
  <1>5. \A n \in 1 .. Last.seq : Last.seq - n < LedgerCapacity => \E f \in entries : f.seq = n
    BY DEF DeliveryOK, LedgerOK, Within
  <1>6. \A n \in 1 .. p.seq : p.seq - n < LedgerCapacity => \E f \in entries : f.seq = n
    <2> SUFFICES ASSUME NEW n \in 1 .. p.seq, p.seq - n < LedgerCapacity
                 PROVE  \E f \in entries : f.seq = n
      OBVIOUS
    <2>1. CASE n = p.seq
      BY <2>1
    <2>2. CASE n # p.seq
      BY <1>1, <1>4, <1>5, <2>2
    <2> QED
      BY <2>1, <2>2
  <1>7. \A e \in entries : \A n \in (e.seq + 1) .. p.seq : \E f \in entries : f.seq = n
    <2> SUFFICES ASSUME NEW e \in entries, NEW n \in (e.seq + 1) .. p.seq
                 PROVE  \E f \in entries : f.seq = n
      OBVIOUS
    <2>1. e.seq \in 1 .. p.seq /\ (e # p => Last.seq - e.seq < LedgerCapacity)
      BY <1>1, <1>2 DEF DeliveryOK, LedgerOK, Within
    <2>2. CASE n = p.seq
      BY <2>2
    <2>3. CASE n # p.seq
      BY <1>1, <1>4, <1>5, <2>1, <2>3
    <2> QED
      BY <2>2, <2>3
  <1>8. Trimmed(entries) = {e \in entries : p.seq - e.seq < LedgerCapacity}
    <2> HIDE DEF entries
    <2> QED
      BY <1>1, <1>2, <1>3, <1>7, TrimKeeps
  <1>9. LedgerOK'
    <2>1. checkpoint'.count = Saturated(p.seq)
      BY <1>1, <1>4 DEF Saturated, DeliveryOK, LedgerOK
    <2>2. \A e \in ledger' : e \in entries /\ p.seq - e.seq < LedgerCapacity
      BY <1>1, <1>8
    <2>3. \A n \in 1 .. p.seq : p.seq - n < LedgerCapacity => \E e \in ledger' : e.seq = n
      BY <1>1, <1>6, <1>8
    <2>4. p \in ledger'
      <3>1. p \in entries /\ p.seq - p.seq < LedgerCapacity
        BY <1>1, <1>4
      <3> HIDE DEF entries
      <3> QED
        BY <1>1, <1>8, <3>1
    <2> HIDE DEF entries
    <2>5. /\ \A e \in ledger' : e.seq \in 1 .. p.seq
          /\ \A e, f \in ledger' : e.seq = f.seq => e = f
      BY <1>2, <1>3, <2>2
    <2> QED
      BY <1>1, <2>1, <2>2, <2>3, <2>4, <2>5 DEF LedgerOK, Within
  <1> QED
    BY <1>1, <1>8, <1>9

LEMMA IngestAccepts ==
  ASSUME NEW p, Ingest(p)
  PROVE  Accepts(p)
  BY DEF Ingest, Accepts

(* The projections that are offered, and the one that is delivered again.  *)
LEMMA OfferedNext ==
  ASSUME DeliveryOK, NEW p \in Projections
  PROVE  p \in Projection /\ p.seq = Last.seq + 1 /\ p.at \in Nat
  <1>1. PICK report \in Offered : /\ now + report.after >= 0
             /\ p = [seq |-> checkpoint.last.seq + 1, at |-> now + report.after, report |-> report]
    BY DEF Projections
  <1>2. report \in Report /\ report.after \in Int
    BY HistoryAssumption DEF Report
  <1>3. Last.seq \in Nat /\ now \in Nat
    BY DEF DeliveryOK, DeliveryTypeOK, Projection, NoProjection
  <1>4. p.seq = Last.seq + 1 /\ p.at = now + report.after /\ p.report = report
        /\ p = [seq |-> p.seq, at |-> p.at, report |-> p.report]
    BY <1>1 DEF Last
  <1>5. p.seq \in Nat \ {0} /\ p.at \in Nat /\ p.report \in Report
    BY <1>1, <1>2, <1>3, <1>4
  <1> QED
    BY <1>4, <1>5 DEF Projection

LEMMA RedeliveredNext ==
  ASSUME DeliveryOK, pending.projection # NoProjection, Verdict(pending.projection) = "new"
  PROVE  pending.projection \in Projection /\ pending.projection.seq = Last.seq + 1
  <1>1. pending.projection \in Projection
    BY DEF DeliveryOK, DeliveryTypeOK
  <1>2. pending.projection.seq > Last.seq
    BY DEF Verdict, Last
  <1>3. pending.projection.seq <= Last.seq + 1 /\ Last.seq \in Nat /\ pending.projection.seq \in Nat
    BY <1>1 DEF DeliveryOK, DeliveryTypeOK, PendingOK, Projection, NoProjection
  <1> QED
    BY <1>1, <1>2, <1>3

LEMMA DeliveryStep == DeliveryOK /\ [Next]_vars => DeliveryOK'
  <1> SUFFICES ASSUME DeliveryOK, [Next]_vars PROVE DeliveryOK'
    OBVIOUS
  <1> USE DEF DeliveryOK
  <1>0. Last \in Projection \union {NoProjection} /\ Last.seq \in Nat
    BY DEF DeliveryTypeOK, Projection, NoProjection
  <1>1. ASSUME UNCHANGED <<now, checkpoint, ledger, pending>>
        PROVE  DeliveryOK'
    BY <1>1 DEF DeliveryTypeOK, LedgerOK, PendingOK, Last, Within
  (* A projection is accepted, whatever was pending.                       *)
  <1>2. ASSUME NEW p \in Projection, p.seq = Last.seq + 1, Accepts(p), now' \in Nat,
               pending'.projection = pending.projection, pending'.committed \in BOOLEAN,
               pending' = [projection |-> pending'.projection, committed |-> pending'.committed],
               pending'.committed <=> (pending.committed \/ p = pending.projection)
        PROVE  DeliveryOK'
    <2>1. /\ Last' = p /\ LedgerOK'
          /\ ledger' = {e \in ledger \union {p} : p.seq - e.seq < LedgerCapacity}
      BY <1>2, LedgerAfter
    <2>2. DeliveryTypeOK'
      BY <1>2, <2>1 DEF DeliveryTypeOK, Accepts
    <2>3. PendingOK'
      <3> DEFINE q == pending.projection
      <3>1. q.seq \in Nat /\ p.seq \in Nat /\ q.seq <= Last.seq + 1 /\ LedgerCapacity \in Nat
        BY HistoryAssumption DEF DeliveryTypeOK, PendingOK, Projection, NoProjection
      <3>2. ASSUME q # NoProjection, q = p PROVE PendingOK'
        BY <1>2, <2>1, <3>1, <3>2 DEF PendingOK, Within
      <3>3. ASSUME q # NoProjection, q # p, pending.committed PROVE PendingOK'
        <4>1. q.seq <= Last.seq /\ (Last.seq - q.seq < LedgerCapacity => q \in ledger)
          BY <3>3 DEF PendingOK, Within
        <4>2. p.seq - q.seq < LedgerCapacity => q \in ledger'
          BY <1>0, <1>2, <2>1, <3>1, <4>1
        <4> QED
          BY <1>0, <1>2, <2>1, <3>1, <3>3, <4>1, <4>2 DEF PendingOK, Within
      <3>4. ASSUME q # NoProjection, q # p, ~pending.committed PROVE PendingOK'
        <4>1. q \notin ledger
          BY <3>4 DEF PendingOK
        <4>2. q \notin ledger'
          BY <2>1, <3>4, <4>1
        <4> QED
          BY <1>0, <1>2, <2>1, <3>1, <3>4, <4>2 DEF PendingOK
      <3>5. ASSUME q = NoProjection PROVE PendingOK'
        BY <1>0, <1>2, <2>1, <3>1, <3>5 DEF PendingOK
      <3> QED
        BY <3>2, <3>3, <3>4, <3>5
    <2> QED
      BY <2>1, <2>2, <2>3
  <1>3. ASSUME NEW p \in Projections, Observe(p) \/ ObserveFails(p) \/ ObserveLost(p)
        PROVE  DeliveryOK'
    <2>1. p \in Projection /\ p.seq = Last.seq + 1 /\ p.at \in Nat
      BY <1>3, OfferedNext
    <2>2. CASE Observe(p)
      <3>1. CASE Malformed(p)
        <4>1. now' = p.at /\ UNCHANGED <<checkpoint, ledger, pending>>
          BY <2>2, <3>1 DEF Observe, Close, tables
        <4> QED
          BY <2>1, <4>1 DEF DeliveryTypeOK, LedgerOK, PendingOK, Last, Within
      <3>2. CASE ~Malformed(p)
        <4>1. Accepts(p) /\ now' = p.at
              /\ pending' = [pending EXCEPT !.committed = @ \/ p = pending.projection]
          BY <2>2, <3>2, IngestAccepts DEF Observe
        <4>2. /\ pending'.projection = pending.projection /\ pending'.committed \in BOOLEAN
              /\ pending' = [projection |-> pending'.projection, committed |-> pending'.committed]
              /\ pending'.committed <=> (pending.committed \/ p = pending.projection)
          BY <4>1 DEF DeliveryTypeOK
        <4> QED
          BY <1>2, <2>1, <4>1, <4>2
      <3> QED
        BY <3>1, <3>2
    <2>3. CASE ObserveFails(p)
      <3>1. /\ now' = p.at /\ UNCHANGED <<checkpoint, ledger>>
            /\ pending' = [projection |-> p, committed |-> FALSE]
        BY <2>3 DEF ObserveFails, tables
      <3>2. p \notin ledger
        BY <1>0, <2>1 DEF LedgerOK
      <3>3. DeliveryTypeOK' /\ LedgerOK'
        BY <2>1, <3>1 DEF DeliveryTypeOK, LedgerOK, Last, Within
      <3>4. PendingOK'
        BY <1>0, <2>1, <3>1, <3>2 DEF PendingOK, Last
      <3> QED
        BY <3>3, <3>4
    <2>4. CASE ObserveLost(p)
      <3>1. Accepts(p) /\ now' = p.at /\ pending' = [projection |-> p, committed |-> TRUE]
        BY <2>4, IngestAccepts DEF ObserveLost
      <3>2. /\ Last' = p /\ LedgerOK'
            /\ ledger' = {e \in ledger \union {p} : p.seq - e.seq < LedgerCapacity}
        BY <2>1, <3>1, LedgerAfter
      <3>3. DeliveryTypeOK'
        BY <2>1, <3>1, <3>2 DEF DeliveryTypeOK, Accepts
      <3>4. PendingOK'
        BY <2>1, <3>1, <3>2, HistoryAssumption DEF PendingOK, Within, Projection
      <3> QED
        BY <3>2, <3>3, <3>4
    <2> QED
      BY <1>3, <2>2, <2>3, <2>4
  <1>4. CASE Redeliver
    <2>1. PICK p : p = pending.projection
      OBVIOUS
    <2>2. CASE UNCHANGED <<now, checkpoint, ledger, pending>>
      BY <1>1, <2>2
    <2>3. CASE ~UNCHANGED <<now, checkpoint, ledger, pending>>
      <3>1. /\ p # NoProjection /\ Verdict(p) = "new" /\ now' = now /\ Ingest(p)
            /\ pending' = [pending EXCEPT !.committed = TRUE]
        BY <1>4, <2>1, <2>3 DEF Redeliver, Close, tables
      <3>2. p \in Projection /\ p.seq = Last.seq + 1
        BY <2>1, <3>1, RedeliveredNext
      <3>3. /\ pending'.projection = pending.projection /\ pending'.committed \in BOOLEAN
            /\ pending' = [projection |-> pending'.projection, committed |-> pending'.committed]
            /\ pending'.committed <=> (pending.committed \/ p = pending.projection)
            /\ now' \in Nat
        BY <2>1, <3>1 DEF DeliveryTypeOK
      <3> QED
        BY <1>2, <3>1, <3>2, <3>3, IngestAccepts
    <2> QED
      BY <2>2, <2>3
  <1>5. CASE Reopen \/ Cleanup \/ ReadAlerts \/ UNCHANGED vars
    BY <1>1, <1>5 DEF Reopen, Cleanup, ReadAlerts, Close, vars, tables
  <1> QED
    BY <1>3, <1>4, <1>5 DEF Next

(* Whatever was accepted in between, failed, was lost or was delivered     *)
(* again, and for a ledger of any length, a redelivery is answered with    *)
(* the truth.                                                              *)
THEOREM AnswersTruthHolds == Spec => []AnswersTruth
  <1>1. DeliveryOK => AnswersTruth
    <2> SUFFICES ASSUME DeliveryOK, pending.projection # NoProjection
                 PROVE  LET p == pending.projection IN
                        CASE Verdict(p) = "replayed" -> pending.committed
                          [] Verdict(p) \in {"new", "conflict"} -> ~pending.committed
                          [] Verdict(p) = "stale" -> checkpoint.last.seq - p.seq >= LedgerCapacity
      BY DEF AnswersTruth
    <2> DEFINE p == pending.projection
    <2>1. p.seq \in Nat \ {0} /\ Last.seq \in Nat /\ LedgerCapacity \in Nat
      BY HistoryAssumption DEF DeliveryOK, DeliveryTypeOK, Projection, NoProjection
    <2>2. IF pending.committed THEN p.seq <= Last.seq /\ (Within(p.seq) => p \in ledger)
          ELSE p \notin ledger
      BY DEF DeliveryOK, PendingOK
    <2>3. CASE p.seq > Last.seq
      BY <2>1, <2>2, <2>3 DEF Verdict, Last
    <2>4. CASE p.seq <= Last.seq /\ \A e \in ledger : e.seq # p.seq
      <3>1. ~Within(p.seq)
        BY <2>1, <2>4 DEF DeliveryOK, LedgerOK
      <3>2. Verdict(p) = "stale"
        BY <2>1, <2>4 DEF Verdict, Last
      <3> QED
        BY <2>1, <3>1, <3>2 DEF Within, Last
    <2>5. CASE p.seq <= Last.seq /\ \E e \in ledger : e.seq = p.seq
      <3>1. Verdict(p) = IF p \in ledger THEN "replayed" ELSE "conflict"
        BY <2>1, <2>5 DEF Verdict, Last
      <3>2. PICK e \in ledger : e.seq = p.seq
        BY <2>5
      <3>3. Within(p.seq)
        BY <3>2 DEF DeliveryOK, LedgerOK
      <3>4. p \in ledger <=> pending.committed
        BY <2>2, <3>3
      <3> QED
        BY <3>1, <3>4
    <2>6. \/ p.seq > Last.seq
          \/ p.seq <= Last.seq /\ \A e \in ledger : e.seq # p.seq
          \/ p.seq <= Last.seq /\ \E e \in ledger : e.seq = p.seq
      BY <2>1
    <2> QED
      BY <2>3, <2>4, <2>5, <2>6
  <1> QED
    BY <1>1, InitDelivery, DeliveryStep, PTL DEF Spec

-----------------------------------------------------------------------------
(* What a step does to the tables                                          *)

LEMMA StepKinds ==
  ASSUME DeliveryOK, [Next]_vars
  PROVE  \/ UNCHANGED tables \/ Cleanup
         \/ \E p \in Projection : p.seq = Last.seq + 1 /\ ~Malformed(p) /\ Ingest(p)
  <1>1. ASSUME NEW p \in Projections, Observe(p) \/ ObserveFails(p) \/ ObserveLost(p)
        PROVE  UNCHANGED tables \/ (~Malformed(p) /\ Ingest(p))
    BY <1>1 DEF Observe, ObserveFails, ObserveLost, Close
  <1>2. ASSUME Redeliver
        PROVE  \/ UNCHANGED tables
               \/ /\ pending.projection # NoProjection /\ Verdict(pending.projection) = "new"
                  /\ ~Malformed(pending.projection) /\ Ingest(pending.projection)
    BY <1>2 DEF Redeliver, Close, tables
  <1>3. ASSUME Redeliver
        PROVE  \/ UNCHANGED tables
               \/ \E p \in Projection : p.seq = Last.seq + 1 /\ ~Malformed(p) /\ Ingest(p)
    <2>1. PICK p : p = pending.projection
      OBVIOUS
    <2> QED
      BY <1>2, <1>3, <2>1, RedeliveredNext
  <1>4. ASSUME Reopen \/ ReadAlerts \/ UNCHANGED vars PROVE UNCHANGED tables
    BY <1>4 DEF Reopen, ReadAlerts, Close, vars
  <1> QED
    BY <1>1, <1>3, <1>4, OfferedNext DEF Next

LEMMA TablesKept ==
  ASSUME UNCHANGED tables
  PROVE  UNCHANGED <<checkpoint, ledger, samples, baseline, heartbeat_at, evaluation, phase,
                     alerts, Last>>
  BY DEF tables, Last

-----------------------------------------------------------------------------
(* The baseline                                                            *)

Sample == [seq : Nat \ {0}, at : Nat, of : [Component -> Condition]]
BaselineInvariant ==
    samples \subseteq Sample /\ baseline \in Nat /\ heartbeat_at \in Int /\ BaselineOK

LEMMA InitBaseline == Init => BaselineInvariant
  BY FS_EmptySet DEF Init, BaselineInvariant, BaselineOK, NoSample, NoTime

LEMMA BaselineIs ==
  ASSUME BaselineInvariant, baseline # NoSample
  PROVE  BaselineSample \in samples /\ BaselineSample.of = Last.report.of
  BY DEF BaselineInvariant, BaselineOK, BaselineSample

LEMMA BaselineStep == DeliveryOK /\ BaselineInvariant /\ [Next]_vars => BaselineInvariant'
  <1> SUFFICES ASSUME DeliveryOK, BaselineInvariant, [Next]_vars PROVE BaselineInvariant'
    OBVIOUS
  <1>1. CASE UNCHANGED tables
    BY <1>1, TablesKept DEF BaselineInvariant, BaselineOK
  <1>2. CASE Cleanup
    <2> DEFINE Gone(seq) == \E d \in Chosen : d[2] = 0 /\ d[3] = seq
    <2>1. /\ samples' = {s \in samples : ~Gone(s.seq)}
          /\ baseline' = IF Gone(baseline) THEN NoSample ELSE baseline
          /\ heartbeat_at' = heartbeat_at /\ Last' = Last
      BY <1>2 DEF Cleanup, Last
    <2> HIDE DEF Gone
    <2>2. samples' \subseteq samples /\ IsFiniteSet(samples')
      BY <2>1, FS_Subset DEF BaselineInvariant, BaselineOK
    <2>3. baseline' # NoSample => baseline' = baseline /\ ~Gone(baseline)
      BY <2>1
    <2>4. baseline' # NoSample => \E s \in samples' : s.seq = baseline' /\ s.of = Last'.report.of
      BY <2>1, <2>3 DEF BaselineInvariant, BaselineOK
    <2>5. baseline' \in Nat
      BY <2>1 DEF BaselineInvariant, NoSample
    <2> QED
      BY <2>1, <2>2, <2>3, <2>4, <2>5 DEF BaselineInvariant, BaselineOK
  <1>3. ASSUME NEW p \in Projection, p.seq = Last.seq + 1, Ingest(p)
        PROVE  BaselineInvariant'
    <2> DEFINE row == [seq |-> p.seq, at |-> p.at, of |-> p.report.of]
    <2>1. PICK sampled \in BOOLEAN :
            /\ Stored(p) => sampled
            /\ samples' = IF sampled THEN samples \union {row} ELSE samples
            /\ baseline' = IF sampled /\ UpdatesBaseline(p) THEN p.seq ELSE baseline
            /\ heartbeat_at' = IF sampled THEN p.at ELSE heartbeat_at
      <3> DEFINE archived == ArchiveEligible(alerts, p.at)
                 verdicts == Verdicts(archived, p)
                 gap == EvaluateGap(phase, p.report.kind, p.report.missed)
                 plans == AllPlans(archived, verdicts, gap, p)
                 sampled == Stored(p) \/ NeedsSample(plans)
      <3>1. /\ samples' = IF sampled THEN samples \union {row} ELSE samples
            /\ baseline' = IF sampled /\ UpdatesBaseline(p) THEN p.seq ELSE baseline
            /\ heartbeat_at' = IF sampled THEN p.at ELSE heartbeat_at
        BY <1>3 DEF Ingest
      <3>2. sampled \in BOOLEAN
        BY DEF Stored, NeedsSample
      <3>3. Stored(p) => sampled
        OBVIOUS
      <3> HIDE DEF sampled
      <3> QED
        BY <3>1, <3>2, <3>3
    <2>2. Last' = p /\ Last.seq \in Nat /\ p.seq \in Nat \ {0} /\ p.at \in Nat
      <3>1. Accepts(p)
        BY <1>3, IngestAccepts
      <3>2. Last.seq \in Nat
        BY DEF Projection, DeliveryOK, DeliveryTypeOK, NoProjection
      <3> QED
        BY <3>1, <3>2 DEF Accepts, Last, Projection
    <2>3. p.report.of \in [Component -> Condition] /\ row \in Sample
      BY <2>2 DEF Projection, Report, Sample
    <2>4. row.seq = p.seq /\ row.of = p.report.of
      OBVIOUS
    <2> HIDE DEF row
    <2>5. CASE sampled
      <3>1. samples' = samples \union {row} /\ heartbeat_at' = p.at
        BY <2>1, <2>5
      <3>2. IsFiniteSet(samples') /\ samples' \subseteq Sample
        BY <2>3, <3>1, FS_AddElement DEF BaselineInvariant, BaselineOK
      <3>3. \A s, t \in samples' : s.seq <= p.seq /\ (s.seq = t.seq => s = t)
        <4>1. \A s \in samples : s.seq \in Nat /\ s.seq <= Last.seq
          BY DEF BaselineInvariant, BaselineOK, Sample
        <4> QED
          BY <1>3, <2>2, <2>4, <3>1, <4>1 DEF BaselineInvariant, BaselineOK
      <3>4. CASE UpdatesBaseline(p)
        <4>1. baseline' = p.seq
          BY <2>1, <2>5, <3>4
        <4> QED
          BY <2>2, <2>4, <3>1, <3>2, <3>3, <4>1 DEF BaselineInvariant, BaselineOK, NoTime
      <3>5. CASE ~UpdatesBaseline(p)
        <4>1. baseline' = NoSample
          BY <2>1, <3>5 DEF UpdatesBaseline
        <4> QED
          BY <2>2, <3>1, <3>2, <3>3, <4>1 DEF BaselineInvariant, BaselineOK, NoSample
      <3> QED
        BY <3>4, <3>5
    <2>6. CASE ~sampled
      <3>1. UNCHANGED <<samples, baseline, heartbeat_at>> /\ ~Stored(p)
        BY <2>1, <2>6
      <3>2. baseline # NoSample /\ BaselineSample.of = p.report.of
        BY <3>1 DEF Stored
      <3>3. PICK s \in samples : s.seq = baseline /\ s.of = Last.report.of
        BY <3>2 DEF BaselineInvariant, BaselineOK
      <3>4. s.of = p.report.of
        BY <3>2, <3>3, BaselineIs
      <3>5. \A t \in samples : t.seq <= p.seq
        BY <1>3, <2>2 DEF BaselineInvariant, BaselineOK, Sample
      <3> QED
        BY <2>2, <3>1, <3>2, <3>3, <3>4, <3>5 DEF BaselineInvariant, BaselineOK
    <2> QED
      BY <2>5, <2>6
  <1> QED
    BY <1>1, <1>2, <1>3, StepKinds

(* Whatever was stored, left out and deleted, what the history shows as    *)
(* the current health is what was last accepted.                           *)
THEOREM BaselineIsCurrentHolds == Spec => []BaselineIsCurrent
  <1>1. BaselineInvariant => BaselineIsCurrent
    BY BaselineIs DEF BaselineIsCurrent, Last
  <1> QED
    BY <1>1, InitDelivery, DeliveryStep, InitBaseline, BaselineStep, PTL DEF Spec

-----------------------------------------------------------------------------
(* The rows of a table                                                     *)

LEMMA LastRowIs ==
  ASSUME NEW rows, rows \subseteq AlertRow, IsFiniteSet(rows)
  PROVE  /\ rows = {} => LastRow(rows) = NoRow
         /\ rows # {} => LastRow(rows) \in rows /\ \A q \in rows : q.id <= LastRow(rows).id
  <1>1. CASE rows = {}
    BY <1>1 DEF LastRow
  <1>2. CASE rows # {}
    <2> DEFINE number == [r \in rows |-> r.id]
    <2>1. number \in [rows -> Int]
      BY DEF AlertRow
    <2>2. \E r \in rows : \A q \in rows : number[q] <= number[r]
      <3> HIDE DEF number
      <3> QED
        BY <1>2, <2>1, FiniteHasLast
    <2>3. \E r \in rows : \A q \in rows : q.id <= r.id
      BY <2>2
    <2> QED
      BY <1>2, <2>3 DEF LastRow
  <1> QED
    BY <1>1, <1>2

LEMMA RowsOfFinite ==
  ASSUME NEW table, TableOK(table), NEW scope, NEW kind
  PROVE  LET rows == RowsOf(table, scope, kind) IN
         /\ rows \subseteq table /\ rows \subseteq AlertRow /\ IsFiniteSet(rows)
         /\ ActiveRows(rows) \subseteq rows /\ IsFiniteSet(ActiveRows(rows))
  <1> DEFINE rows == RowsOf(table, scope, kind)
  <1>1. rows \in SUBSET table
    BY DEF RowsOf
  <1>2. ActiveRows(rows) \in SUBSET rows
    BY DEF ActiveRows
  <1>3. IsFiniteSet(table) /\ table \subseteq AlertRow
    BY DEF TableOK
  <1> HIDE DEF rows
  <1>4. IsFiniteSet(rows)
    BY <1>1, <1>3, FS_Subset
  <1>5. IsFiniteSet(ActiveRows(rows))
    BY <1>2, <1>4, FS_Subset
  <1> QED
    BY <1>1, <1>2, <1>3, <1>4, <1>5 DEF rows

(* How an alert may be moved on by what is observed at a time.             *)
Moves(a, plan, at) ==
    \/ /\ plan.event = "archived" /\ a.lifecycle = "recovered" /\ a.cooldown <= at
       /\ plan.alert = [a EXCEPT !.lifecycle = "archived"]
    \/ /\ plan.event = "occurrence_updated" /\ a.lifecycle # "archived"
       /\ a.lifecycle = "recovered" => at < a.cooldown
       /\ plan.alert = [a EXCEPT !.occurrences = Saturated(@ + 1),
                                 !.cooldown = Larger(@, Deadline(at))]
    \/ /\ plan.event = "recovered" /\ a.lifecycle = "open"
       /\ plan.alert = [a EXCEPT !.lifecycle = "recovered", !.recovered = at,
                                 !.cooldown = Larger(@, Deadline(at))]

LEMMA MovesType ==
  ASSUME NEW a \in AlertValue, NEW plan, NEW at \in Nat, Moves(a, plan, at)
  PROVE  /\ plan.alert \in AlertValue
         /\ plan.event \in {"archived", "occurrence_updated", "recovered"}
  <1>1. /\ MaxCounter \in Nat \ {0} /\ Cooldown \in Nat /\ a.cooldown \in Int /\ a.recovered \in Int
        /\ a.occurrences \in 1 .. MaxCounter /\ a.generation \in 1 .. MaxCounter
        /\ a.lifecycle \in Lifecycle
    BY RulesAssumption DEF AlertValue
  <1>2. Saturated(a.occurrences + 1) \in 1 .. MaxCounter
        /\ Larger(a.cooldown, Deadline(at)) \in Int
    BY <1>1 DEF Saturated, Larger, Deadline
  <1>3. a = [lifecycle |-> a.lifecycle, generation |-> a.generation,
             occurrences |-> a.occurrences, cooldown |-> a.cooldown, recovered |-> a.recovered]
    BY DEF AlertValue
  <1>4. CASE plan.event = "archived"
    BY <1>1, <1>4 DEF Moves, AlertValue, Lifecycle
  <1>5. CASE plan.event = "occurrence_updated"
    BY <1>1, <1>2, <1>5 DEF Moves, AlertValue
  <1>6. CASE plan.event = "recovered"
    <2>1. plan.alert = [lifecycle |-> "recovered", generation |-> a.generation,
                        occurrences |-> a.occurrences,
                        cooldown |-> Larger(a.cooldown, Deadline(at)), recovered |-> at]
      BY <1>3, <1>6 DEF Moves
    <2>2. at \in Int /\ a.occurrences \in 1 .. MaxCounter
      BY DEF AlertValue
    <2> QED
      BY <1>1, <1>2, <1>6, <2>1, <2>2 DEF AlertValue, Lifecycle
  <1> QED
    BY <1>4, <1>5, <1>6 DEF Moves

LEMMA ChangedRow ==
  ASSUME NEW r \in AlertRow, IsFiniteSet(r.events), NEW at \in Nat, NEW plan,
         Moves(r.alert, plan, at)
  PROVE  LET q == Changed(r, plan, at) IN
         /\ q \in AlertRow /\ IsFiniteSet(q.events)
         /\ q.id = r.id /\ q.scope = r.scope /\ q.kind = r.kind /\ q.opened = r.opened
         /\ q.alert = plan.alert
         /\ q.archived = IF plan.event = "archived" THEN at ELSE r.archived
         /\ q.events = r.events \union {Happened(r, plan.event, at, plan.alert)}
  <1> DEFINE e == Happened(r, plan.event, at, plan.alert)
             q == Changed(r, plan, at)
  <1>1. r.alert \in AlertValue /\ r.events \subseteq AlertEvent /\ r.archived \in Int
    BY DEF AlertRow
  <1>2. /\ plan.alert \in AlertValue
        /\ plan.event \in {"archived", "occurrence_updated", "recovered"}
    BY <1>1, MovesType
  <1>3. e \in AlertEvent
    <2>1. Cardinality(r.events) + 1 \in Nat \ {0}
      BY FS_CardinalityType
    <2> QED
      BY <1>2, <2>1 DEF Happened, AlertEvent, AlertValue
  <1>4. IsFiniteSet(r.events \union {e})
    <2> HIDE DEF e
    <2> QED
      BY FS_AddElement
  <1>5. q = [r EXCEPT !.alert = plan.alert,
                      !.archived = IF plan.event = "archived" THEN at ELSE @,
                      !.events = @ \union {e}]
    BY DEF Changed
  <1> HIDE DEF e, q
  <1>6. /\ q.id = r.id /\ q.scope = r.scope /\ q.kind = r.kind /\ q.opened = r.opened
        /\ q.alert = plan.alert
        /\ q.archived = IF plan.event = "archived" THEN at ELSE r.archived
        /\ q.events = r.events \union {e}
    BY <1>5 DEF AlertRow
  <1>7. q \in AlertRow
    <2>1. q = [id |-> r.id, scope |-> r.scope, kind |-> r.kind, opened |-> r.opened,
               archived |-> IF plan.event = "archived" THEN at ELSE r.archived,
               alert |-> plan.alert, events |-> r.events \union {e}]
      BY <1>5 DEF AlertRow
    <2>2. r.events \union {e} \in SUBSET AlertEvent
      BY <1>1, <1>3
    <2>3. (IF plan.event = "archived" THEN at ELSE r.archived) \in Int
      BY <1>1
    <2> QED
      BY <1>2, <2>1, <2>2, <2>3 DEF AlertRow
  <1> QED
    BY <1>4, <1>6, <1>7 DEF e, q

(* What becomes of a row in one ingestion.                                 *)
RowSteps(r, q, at) == q = r \/ \E plan : Moves(r.alert, plan, at) /\ q = Changed(r, plan, at)

LEMMA RowStepsType ==
  ASSUME NEW r \in AlertRow, IsFiniteSet(r.events), NEW at \in Nat, NEW q, RowSteps(r, q, at)
  PROVE  /\ q \in AlertRow /\ IsFiniteSet(q.events)
         /\ q.id = r.id /\ q.scope = r.scope /\ q.kind = r.kind /\ q.opened = r.opened
         /\ r.alert.lifecycle = "archived" => q = r
  <1>1. CASE q = r
    BY <1>1
  <1>2. CASE \E plan : Moves(r.alert, plan, at) /\ q = Changed(r, plan, at)
    <2>1. PICK plan : Moves(r.alert, plan, at) /\ q = Changed(r, plan, at)
      BY <1>2
    <2>2. r.alert.lifecycle # "archived"
      BY <2>1 DEF Moves
    <2> QED
      BY <2>1, <2>2, ChangedRow
  <1> QED
    BY <1>1, <1>2 DEF RowSteps

LEMMA TableSteps ==
  ASSUME NEW table, TableOK(table), NEW at \in Nat, NEW next,
         \A r \in table : RowSteps(r, next[r], at)
  PROVE  TableOK({next[r] : r \in table})
  <1> DEFINE after == {next[r] : r \in table}
  <1>1. \A r \in table : /\ next[r] \in AlertRow /\ IsFiniteSet(next[r].events)
                         /\ next[r].id = r.id /\ next[r].scope = r.scope
                         /\ next[r].kind = r.kind
                         /\ r.alert.lifecycle = "archived" => next[r] = r
    <2> SUFFICES ASSUME NEW r \in table
                 PROVE  /\ next[r] \in AlertRow /\ IsFiniteSet(next[r].events)
                        /\ next[r].id = r.id /\ next[r].scope = r.scope
                        /\ next[r].kind = r.kind
                        /\ r.alert.lifecycle = "archived" => next[r] = r
      OBVIOUS
    <2>1. r \in AlertRow /\ IsFiniteSet(r.events) /\ RowSteps(r, next[r], at)
      BY DEF TableOK
    <2> QED
      BY <2>1, RowStepsType
  <1>2. IsFiniteSet(after)
    <2> DEFINE f == [r \in table |-> next[r]]
    <2>1. f \in Surjection(table, after)
      BY DEF Surjection
    <2> HIDE DEF f, after
    <2> QED
      BY <2>1, FS_Surjection DEF TableOK
  <1>3. after \subseteq AlertRow
    BY <1>1
  <1>4. \A q \in after : <<q.scope, q.kind>> \in Pairs /\ IsFiniteSet(q.events)
    <2>1. \A r \in table : <<next[r].scope, next[r].kind>> = <<r.scope, r.kind>>
      BY <1>1
    <2> QED
      BY <1>1, <2>1 DEF TableOK
  <1>5. \A q, p \in after : q.id = p.id => q = p
    BY <1>1 DEF TableOK
  <1>6. \A q, p \in after : q.scope = p.scope /\ q.kind = p.kind /\ q.id < p.id =>
           q.alert.lifecycle = "archived"
    <2> SUFFICES ASSUME NEW r \in table, NEW t \in table, next[r].scope = next[t].scope,
                        next[r].kind = next[t].kind, next[r].id < next[t].id
                 PROVE  next[r].alert.lifecycle = "archived"
      OBVIOUS
    <2>1. r.alert.lifecycle = "archived"
      BY <1>1 DEF TableOK
    <2> QED
      BY <1>1, <2>1
  <1> HIDE DEF after
  <1>7. TableOK(after)
    BY <1>2, <1>3, <1>4, <1>5, <1>6 DEF TableOK
  <1> QED
    BY <1>7 DEF after

Cooled(r, at) == r.alert.lifecycle = "recovered" => at < r.alert.cooldown

(* Archival comes first: after it, no alert that has recovered has cooled  *)
(* down.                                                                   *)
LEMMA ArchiveOK ==
  ASSUME NEW table, TableOK(table), NEW at \in Nat
  PROVE  LET archived == ArchiveEligible(table, at) IN
         /\ TableOK(archived)
         /\ \A q \in archived : Cooled(q, at) /\ \E r \in table : RowSteps(r, q, at)
         /\ \A q \in archived : \E r \in table : RowSteps(r, q, at) /\
               (q.alert.lifecycle # "archived" => q = r)
  <1> DEFINE next == [r \in table |->
                        IF r \in Eligible(table, at)
                        THEN Changed(r, Plan(r, Archive(r.alert, at)), at) ELSE r]
  <1>1. ArchiveEligible(table, at) = {next[r] : r \in table}
    BY DEF ArchiveEligible
  <1>2. ASSUME NEW r \in table
        PROVE  /\ RowSteps(r, next[r], at) /\ Cooled(next[r], at)
               /\ next[r].alert.lifecycle # "archived" => next[r] = r
    <2>1. r \in AlertRow /\ IsFiniteSet(r.events) /\ r.alert \in AlertValue
      BY DEF TableOK, AlertRow
    <2>2. CASE r \in Eligible(table, at)
      <3>1. PICK plan : plan = Plan(r, Archive(r.alert, at))
        OBVIOUS
      <3>2. r.alert.lifecycle = "recovered" /\ r.alert.cooldown <= at
        BY <2>2 DEF Eligible
      <3>3. Archive(r.alert, at) = [event |-> "archived",
                                    alert |-> [r.alert EXCEPT !.lifecycle = "archived"]]
        BY <2>1, <3>2 DEF Archive, AlertValue
      <3>4. Moves(r.alert, plan, at) /\ plan.alert.lifecycle = "archived"
        BY <2>1, <3>1, <3>2, <3>3 DEF Moves, Plan, AlertValue
      <3>5. next[r] = Changed(r, plan, at)
        BY <2>2, <3>1
      <3> HIDE DEF next
      <3>6. next[r].alert = plan.alert
        BY <2>1, <3>4, <3>5, ChangedRow
      <3> QED
        BY <3>4, <3>5, <3>6 DEF RowSteps, Cooled
    <2>3. CASE r \notin Eligible(table, at)
      BY <2>1, <2>3 DEF RowSteps, Cooled, Eligible, AlertValue
    <2> QED
      BY <2>2, <2>3
  <1> HIDE DEF next
  <1>3. TableOK({next[r] : r \in table})
    BY <1>2, TableSteps
  <1> QED
    BY <1>1, <1>2, <1>3

-----------------------------------------------------------------------------
(* What is planned for a pair                                              *)

(* A plan fits the table: it opens an alert where all of the pair's are    *)
(* archived, or moves the one that is not.                                 *)
Fits(table, pair, plan, at) ==
    \/ plan.event \in {"none", "rejected"}
    \/ /\ plan.event = "opened"
       /\ \A r \in RowsOf(table, pair[1], pair[2]) : r.alert.lifecycle = "archived"
       /\ \E generation \in 1 .. MaxCounter : plan.alert = NewAlert(at, generation)
    \/ \E r \in RowsOf(table, pair[1], pair[2]) :
          plan.id = r.id /\ plan.event # "opened" /\ Moves(r.alert, plan, at)

LEMMA OccurrenceFits ==
  ASSUME NEW table, NEW scope, NEW kind, NEW at \in Nat, NEW r \in RowsOf(table, scope, kind),
         r.alert.lifecycle # "archived", Cooled(r, at)
  PROVE  LET plan == Plan(r, Occurrence(r.alert, at)) IN
         Fits(table, <<scope, kind>>, plan, at) /\ plan.event # "opened"
  <1> DEFINE a == r.alert
             updated == [a EXCEPT !.occurrences = Saturated(@ + 1),
                                  !.cooldown = Larger(@, Deadline(at))]
             plan == Plan(r, Occurrence(a, at))
  <1>1. CASE updated = a
    <2>1. plan.event = "none"
      BY <1>1 DEF Occurrence, Idempotent, Plan
    <2> QED
      BY <2>1 DEF Fits
  <1>2. CASE updated # a
    <2>1. plan.id = r.id /\ plan.event = "occurrence_updated" /\ plan.alert = updated
      BY <1>2 DEF Occurrence, Plan
    <2> HIDE DEF plan
    <2>2. Moves(a, plan, at)
      BY <2>1 DEF Moves, Cooled
    <2> QED
      BY <2>1, <2>2 DEF Fits, plan
  <1> QED
    BY <1>1, <1>2

LEMMA OpenFits ==
  ASSUME NEW table, TableOK(table), NEW at \in Nat, \A r \in table : Cooled(r, at),
         NEW scope, NEW kind
  PROVE  LET plan == OpenPlan(table, scope, kind, at) IN
         /\ Fits(table, <<scope, kind>>, plan, at)
         /\ plan.event \in {"opened", "rejected"}
            \/ \E r \in RowsOf(table, scope, kind) : r.alert.lifecycle # "archived"
  <1> DEFINE rows == RowsOf(table, scope, kind)
             row == CurrentOrLatest(table, scope, kind)
             plan == OpenPlan(table, scope, kind, at)
  <1>1. /\ rows \subseteq table /\ rows \subseteq AlertRow /\ IsFiniteSet(rows)
        /\ ActiveRows(rows) \subseteq rows /\ IsFiniteSet(ActiveRows(rows))
    BY RowsOfFinite
  <1>2. plan = Plan(row, OpenOrUpdate(row.alert, at))
    BY DEF OpenPlan
  <1>3. CASE rows = {}
    <2>1. row = NoRow
      BY <1>1, <1>3, LastRowIs DEF CurrentOrLatest, ActiveRows
    <2>2. plan.event = "opened" /\ plan.alert = NewAlert(at, 1)
      BY <1>2, <2>1 DEF NoRow, OpenOrUpdate, Plan
    <2>3. 1 \in 1 .. MaxCounter
      BY RulesAssumption
    <2> QED
      BY <1>3, <2>2, <2>3 DEF Fits
  <1>4. CASE rows # {}
    <2>1. row \in rows /\ (row.alert.lifecycle = "archived" =>
                              \A r \in rows : r.alert.lifecycle = "archived")
      <3>1. CASE ActiveRows(rows) # {}
        <4>1. row = LastRow(ActiveRows(rows))
          BY <3>1 DEF CurrentOrLatest
        <4>2. row \in ActiveRows(rows)
          BY <1>1, <3>1, <4>1, LastRowIs
        <4> QED
          BY <1>1, <4>2 DEF ActiveRows, Active
      <3>2. CASE ActiveRows(rows) = {}
        <4>1. row = LastRow(rows)
          BY <3>2 DEF CurrentOrLatest
        <4>2. row \in rows /\ \A r \in rows : r.id <= row.id
          BY <1>1, <1>4, <4>1, LastRowIs
        <4>3. ASSUME NEW r \in rows, row.alert.lifecycle = "archived"
              PROVE  r.alert.lifecycle = "archived"
          <5>1. r.id \in Nat /\ row.id \in Nat /\ r \in table /\ row \in table
            BY <1>1, <4>2 DEF AlertRow
          <5>2. CASE r.id = row.id
            BY <4>3, <5>1, <5>2 DEF TableOK
          <5>3. CASE r.id < row.id
            BY <4>2, <5>1, <5>3 DEF TableOK, RowsOf
          <5> QED
            BY <4>2, <5>1, <5>2, <5>3
        <4> QED
          BY <4>2, <4>3
      <3> QED
        BY <3>1, <3>2
    <2>2. row.alert \in AlertValue /\ row.alert # NoAlert
          /\ row.alert.generation \in 1 .. MaxCounter
      BY <1>1, <2>1 DEF AlertRow, AlertValue, Lifecycle, NoAlert
    <2>3. CASE Active(row.alert) \/ (row.alert.lifecycle = "recovered" /\ at < row.alert.cooldown)
      <3>1. plan = Plan(row, Occurrence(row.alert, at))
        BY <1>2, <2>2, <2>3 DEF OpenOrUpdate
      <3>2. row.alert.lifecycle # "archived" /\ Cooled(row, at)
        BY <1>1, <2>1, <2>3 DEF Active
      <3> HIDE DEF row, rows, plan
      <3> QED
        BY <2>1, <3>1, <3>2, OccurrenceFits DEF rows, plan
    <2>4. CASE ~(Active(row.alert) \/ (row.alert.lifecycle = "recovered" /\ at < row.alert.cooldown))
      <3>1. row.alert.lifecycle = "archived"
        BY <1>1, <2>1, <2>2, <2>4 DEF Active, AlertValue, Lifecycle, Cooled
      <3>2. CASE row.alert.generation = MaxCounter
        <4>1. plan.event = "rejected"
          BY <1>2, <2>2, <2>4, <3>2 DEF OpenOrUpdate, Rejected, Plan
        <4> QED
          BY <4>1 DEF Fits
      <3>3. CASE row.alert.generation # MaxCounter
        <4>1. plan.event = "opened" /\ plan.alert = NewAlert(at, row.alert.generation + 1)
          BY <1>2, <2>2, <2>4, <3>3 DEF OpenOrUpdate, Plan
        <4>2. row.alert.generation + 1 \in 1 .. MaxCounter
          BY <2>2, <3>3, RulesAssumption
        <4> QED
          BY <2>1, <3>1, <4>1, <4>2 DEF Fits
      <3> QED
        BY <3>2, <3>3
    <2> QED
      BY <2>3, <2>4
  <1> QED
    BY <1>3, <1>4

LEMMA ConditionFits ==
  ASSUME NEW table, TableOK(table), NEW at \in Nat, \A r \in table : Cooled(r, at),
         NEW scope, NEW kind
  PROVE  LET plan == ConditionPlan(table, scope, kind, at) IN
         /\ Fits(table, <<scope, kind>>, plan, at)
         /\ plan.event \in {"opened", "rejected"}
            \/ \E r \in RowsOf(table, scope, kind) : r.alert.lifecycle # "archived"
  <1> DEFINE degraded == ActiveRows(RowsOf(table, scope, "degraded"))
             plan == ConditionPlan(table, scope, kind, at)
  <1>1. CASE kind = "unavailable" /\ degraded # {} /\ RowsOf(table, scope, "unavailable") = {}
    <2>1. LastRow(degraded) \in degraded /\ degraded \subseteq AlertRow
      BY <1>1, RowsOfFinite, LastRowIs
    <2>2. PICK a : a = LastRow(degraded).alert
      OBVIOUS
    <2>3. a.generation \in 1 .. MaxCounter /\ MaxCounter \in Nat
      BY <2>1, <2>2, RulesAssumption DEF AlertRow, AlertValue
    <2>4. plan = Plan(NoRow, Escalate(a, at))
      BY <1>1, <2>2 DEF ConditionPlan
    <2>5. \/ plan.event = "rejected"
          \/ /\ plan.event = "opened" /\ plan.alert = NewAlert(at, a.generation + 1)
             /\ a.generation + 1 \in 1 .. MaxCounter
      BY <2>3, <2>4 DEF Escalate, Rejected, Plan
    <2> QED
      BY <1>1, <2>3, <2>5 DEF Fits
  <1>2. CASE ~(kind = "unavailable" /\ degraded # {} /\ RowsOf(table, scope, "unavailable") = {})
    <2>1. plan = OpenPlan(table, scope, kind, at)
      BY <1>2 DEF ConditionPlan
    <2> QED
      BY <2>1, OpenFits
  <1> QED
    BY <1>1, <1>2

LEMMA RecoveryFits ==
  ASSUME NEW table, TableOK(table), NEW at \in Nat, NEW scope, NEW kind
  PROVE  LET plan == RecoveryPlan(table, scope, kind, at) IN
         Fits(table, <<scope, kind>>, plan, at) /\ plan.event # "opened"
  <1> DEFINE rows == ActiveRows(RowsOf(table, scope, kind))
             plan == RecoveryPlan(table, scope, kind, at)
  <1>1. rows \subseteq AlertRow /\ IsFiniteSet(rows) /\ rows \subseteq RowsOf(table, scope, kind)
    BY RowsOfFinite
  <1>2. PICK row : row = LastRow(rows)
    OBVIOUS
  <1>3. plan = Plan(row, Recover(row.alert, at))
    BY <1>2 DEF RecoveryPlan
  <1>4. CASE rows = {}
    <2>1. row = NoRow
      BY <1>1, <1>2, <1>4, LastRowIs
    <2>2. plan.event = "none"
      BY <1>3, <2>1 DEF Recover, Active, NoRow, NoAlert, Idempotent, Plan
    <2> QED
      BY <2>2 DEF Fits
  <1>5. CASE rows # {}
    <2>1. row \in rows
      BY <1>1, <1>2, <1>5, LastRowIs
    <2>2. Active(row.alert) /\ row.alert.lifecycle = "open"
      BY <1>1, <2>1 DEF ActiveRows, Active, AlertRow, AlertValue, Lifecycle
    <2>3. /\ plan.id = row.id /\ plan.event = "recovered"
          /\ plan.alert = [row.alert EXCEPT !.lifecycle = "recovered", !.recovered = at,
                                            !.cooldown = Larger(@, Deadline(at))]
      BY <1>3, <2>2 DEF Recover, Plan
    <2> HIDE DEF plan
    <2>4. Moves(row.alert, plan, at)
      BY <2>2, <2>3 DEF Moves
    <2> QED
      BY <1>1, <2>1, <2>3, <2>4 DEF Fits, plan
  <1> QED
    BY <1>4, <1>5

(* All the plans of an observation fit, and a scope opens one alert.       *)
PlansFit(table, plans, at) ==
    /\ \A pair \in Pairs : Fits(table, pair, plans[pair], at)
    /\ \A pair, q \in Opened(plans) : pair[1] = q[1] => pair = q

LEMMA AllPlansFit ==
  ASSUME NEW table, TableOK(table), NEW p \in Projection, \A r \in table : Cooled(r, p.at),
         NEW verdicts, NEW gap
  PROVE  PlansFit(table, AllPlans(table, verdicts, gap, p), p.at)
  <1> DEFINE plans == AllPlans(table, verdicts, gap, p)
  <1>0. p.at \in Nat
    BY DEF Projection
  <1>1. ASSUME NEW pair \in Pairs, pair[1] = Sampling
        PROVE  Fits(table, pair, plans[pair], p.at) /\ pair = <<Sampling, "sampling_gap">>
    <2>1. pair = <<Sampling, "sampling_gap">>
      BY <1>1, HistoryAssumption DEF Pairs, HealthScope, Sampling, Overall
    <2>2. plans[pair] = GapPlan(table, gap, p)
      BY <1>1 DEF AllPlans
    <2>3. Fits(table, <<Sampling, "sampling_gap">>, GapPlan(table, gap, p), p.at)
      <3>1. CASE GapCondition(gap, p.report)
        BY <1>0, <3>1, OpenFits DEF GapPlan
      <3>2. CASE ~GapCondition(gap, p.report) /\ gap.event = "recovered"
        BY <1>0, <3>2, RecoveryFits DEF GapPlan
      <3>3. CASE ~GapCondition(gap, p.report) /\ gap.event # "recovered"
        BY <3>3 DEF GapPlan, NoPlan, Fits
      <3> QED
        BY <3>1, <3>2, <3>3
    <2> QED
      BY <2>1, <2>2, <2>3
  <1>2. ASSUME NEW pair \in Pairs, pair[1] # Sampling
        PROVE  /\ Fits(table, pair, plans[pair], p.at) /\ pair = <<pair[1], pair[2]>>
               /\ plans[pair].event = "opened" => pair[2] = verdicts[pair[1]].state.current
    <2>1. pair = <<pair[1], pair[2]>>
      BY <1>2 DEF Pairs
    <2>2. PICK scope, kind, verdict :
             scope = pair[1] /\ kind = pair[2] /\ verdict = verdicts[pair[1]]
      OBVIOUS
    <2>3. plans[pair] = HealthPlan(table, scope, kind, verdict, p.at)
      BY <1>2, <2>2 DEF AllPlans
    <2>4. /\ Fits(table, <<scope, kind>>, HealthPlan(table, scope, kind, verdict, p.at), p.at)
          /\ HealthPlan(table, scope, kind, verdict, p.at).event = "opened" =>
                kind = verdict.state.current
      <3>1. CASE verdict.event = "condition_confirmed" /\ kind = verdict.state.current
        BY <1>0, <3>1, ConditionFits DEF HealthPlan
      <3>2. CASE /\ ~(verdict.event = "condition_confirmed" /\ kind = verdict.state.current)
                 /\ verdict.event = "recovery_confirmed"
        BY <1>0, <3>2, RecoveryFits DEF HealthPlan
      <3>3. CASE /\ ~(verdict.event = "condition_confirmed" /\ kind = verdict.state.current)
                 /\ verdict.event # "recovery_confirmed"
        <4>1. HealthPlan(table, scope, kind, verdict, p.at) = NoPlan
          BY <3>3 DEF HealthPlan
        <4> QED
          BY <4>1 DEF NoPlan, Fits
      <3> QED
        BY <3>1, <3>2, <3>3
    <2> QED
      BY <2>1, <2>2, <2>3, <2>4
  <1> HIDE DEF plans
  <1>3. \A pair \in Pairs : Fits(table, pair, plans[pair], p.at)
    BY <1>1, <1>2
  <1>4. ASSUME NEW pair \in Opened(plans), NEW q \in Opened(plans), pair[1] = q[1]
        PROVE  pair = q
    <2>1. /\ pair \in Pairs /\ q \in Pairs
          /\ plans[pair].event = "opened" /\ plans[q].event = "opened"
      BY DEF Opened
    <2>2. CASE pair[1] = Sampling
      BY <1>1, <1>4, <2>1, <2>2
    <2>3. CASE pair[1] # Sampling
      <3>1. pair[2] = q[2] /\ pair = <<pair[1], pair[2]>> /\ q = <<q[1], q[2]>>
        BY <1>2, <1>4, <2>1, <2>3
      <3> QED
        BY <1>4, <3>1
    <2> QED
      BY <2>2, <2>3
  <1> QED
    BY <1>3, <1>4 DEF PlansFit, plans

-----------------------------------------------------------------------------
(* New rows                                                                *)

LEMMA ScopesOrdered ==
  ASSUME NEW s \in HealthScope \union {Sampling}, NEW t \in HealthScope \union {Sampling},
         NEW u \in HealthScope \union {Sampling}
  PROVE  /\ ~Precedes(s, s)
         /\ s = t \/ Precedes(s, t) \/ Precedes(t, s)
         /\ Precedes(s, t) /\ Precedes(t, u) => Precedes(s, u)
  <1>1. /\ Overall \notin Component /\ Sampling \notin Component /\ Overall # Sampling
        /\ \A c \in Component : Place[c] \in Nat
        /\ \A c, d \in Component : Place[c] = Place[d] => c = d
    BY HistoryAssumption DEF Overall, Sampling
  <1>2. ~Precedes(s, s)
    BY <1>1 DEF HealthScope, Precedes
  <1>3. s = t \/ Precedes(s, t) \/ Precedes(t, s)
    BY <1>1 DEF HealthScope, Precedes
  <1>4. Precedes(s, t) /\ Precedes(t, u) => Precedes(s, u)
    BY <1>1 DEF HealthScope, Precedes
  <1> QED
    BY <1>2, <1>3, <1>4

LEMMA OpenedFinite ==
  ASSUME NEW plans, \A pair, q \in Opened(plans) : pair[1] = q[1] => pair = q
  PROVE  /\ IsFiniteSet(Opened(plans))
         /\ \A pair \in Opened(plans) : pair[1] \in HealthScope \union {Sampling}
  <1> DEFINE scopes == HealthScope \union {Sampling}
             f == [pair \in Opened(plans) |-> pair[1]]
  <1>1. IsFiniteSet(scopes)
    BY HistoryAssumption, FS_AddElement DEF HealthScope
  <1>2. \A pair \in Opened(plans) : pair[1] \in scopes
    BY DEF Opened, Pairs
  <1> HIDE DEF scopes
  <1>3. f \in Injection(Opened(plans), scopes)
    BY <1>2 DEF Injection, IsInjective
  <1> HIDE DEF f
  <1>4. IsFiniteSet(Opened(plans))
    BY <1>1, <1>3, FS_Injection
  <1> QED
    BY <1>2, <1>4 DEF scopes

(* New rows have ids of their own, beyond those of the table.              *)
LEMMA CreatedIds ==
  ASSUME NEW table, TableOK(table), NEW at \in Nat, NEW plans, PlansFit(table, plans, at)
  PROVE  /\ \A pair \in Opened(plans) :
               /\ Created(table, plans, pair, at).id \in Nat \ {0}
               /\ \A r \in table : r.id < Created(table, plans, pair, at).id
         /\ \A pair, q \in Opened(plans) :
               Created(table, plans, pair, at).id = Created(table, plans, q, at).id => pair = q
  <1> DEFINE opened == Opened(plans)
             Ahead(pair) == {q \in opened : Precedes(q[1], pair[1])}
             Id(pair) == Created(table, plans, pair, at).id
  <1>1. PICK last \in Nat : last = LastRow(table).id /\ \A r \in table : r.id <= last
    BY LastRowIs DEF TableOK, NoRow, AlertRow
  <1>2. /\ IsFiniteSet(opened)
        /\ \A pair \in opened : pair[1] \in HealthScope \union {Sampling}
        /\ \A pair, q \in opened : pair[1] = q[1] => pair = q
    BY OpenedFinite DEF PlansFit
  <1>3. \A pair : Id(pair) = last + 1 + Cardinality(Ahead(pair))
    BY <1>1 DEF Created
  <1> HIDE DEF opened, Id
  <1>4. \A pair : Ahead(pair) \in SUBSET opened
    OBVIOUS
  <1>5. \A pair : IsFiniteSet(Ahead(pair)) /\ Cardinality(Ahead(pair)) \in Nat
    <2> HIDE DEF Ahead
    <2> QED
      BY <1>2, <1>4, FS_Subset, FS_CardinalityType
  <1>6. ASSUME NEW pair \in opened, NEW q \in opened, Precedes(pair[1], q[1])
        PROVE  Id(pair) # Id(q)
    <2>1. pair \in Ahead(q) /\ pair \notin Ahead(pair)
      BY <1>2, <1>6, ScopesOrdered
    <2>2. Ahead(pair) \in SUBSET Ahead(q)
      BY <1>2, <1>6, ScopesOrdered
    <2> HIDE DEF Ahead
    <2>3. Cardinality(Ahead(pair)) # Cardinality(Ahead(q))
      BY <1>5, <2>1, <2>2, FS_Subset
    <2> QED
      BY <1>3, <1>5, <2>3
  <1>7. \A pair, q \in opened : Id(pair) = Id(q) => pair = q
    BY <1>2, <1>6, ScopesOrdered
  <1>8. \A pair \in opened : Id(pair) \in Nat \ {0} /\ \A r \in table : r.id < Id(pair)
    <2> HIDE DEF Ahead
    <2>1. \A r \in table : r.id \in Nat
      BY DEF TableOK, AlertRow
    <2> QED
      BY <1>1, <1>3, <1>5, <2>1
  <1> QED
    BY <1>7, <1>8 DEF opened, Id

FreshRow(q, at) ==
    /\ \E generation \in 1 .. MaxCounter : q.alert = NewAlert(at, generation)
    /\ q.opened = at /\ q.archived = NoTime
    /\ q.events = {[n |-> 1, type |-> "opened", at |-> at, result |-> "open"]}

LEMMA CreatedRow ==
  ASSUME NEW table, TableOK(table), NEW at \in Nat, NEW plans, PlansFit(table, plans, at),
         NEW pair \in Opened(plans)
  PROVE  LET q == Created(table, plans, pair, at) IN
         /\ q \in AlertRow /\ IsFiniteSet(q.events) /\ FreshRow(q, at)
         /\ pair = <<q.scope, q.kind>> /\ pair \in Pairs /\ q.alert = plans[pair].alert
  <1> DEFINE q == Created(table, plans, pair, at)
             e == [n |-> 1, type |-> "opened", at |-> at, result |-> "open"]
  <1>1. pair \in Pairs /\ plans[pair].event = "opened" /\ Fits(table, pair, plans[pair], at)
    BY DEF Opened, PlansFit
  <1>2. \E generation \in 1 .. MaxCounter : plans[pair].alert = NewAlert(at, generation)
    BY <1>1 DEF Fits
  <1>3. plans[pair].alert \in AlertValue
    BY <1>2, RulesAssumption DEF NewAlert, AlertValue, Lifecycle, Deadline, NoTime
  <1>4. /\ pair = <<pair[1], pair[2]>> /\ pair[1] \in HealthScope \union {Sampling}
        /\ pair[2] \in HealthKind \union {"sampling_gap"}
    BY <1>1 DEF Pairs
  <1>5. q.id \in Nat \ {0}
    BY CreatedIds
  <1>6. q = [id |-> q.id, scope |-> pair[1], kind |-> pair[2], opened |-> at, archived |-> NoTime,
             alert |-> plans[pair].alert, events |-> {e}]
    BY DEF Created
  <1>7. e \in AlertEvent
    BY DEF AlertEvent, Lifecycle
  <1> HIDE DEF q, e
  <1>8. IsFiniteSet({e})
    BY FS_Singleton
  <1>9. /\ q.scope = pair[1] /\ q.kind = pair[2] /\ q.opened = at /\ q.archived = NoTime
        /\ q.alert = plans[pair].alert /\ q.events = {e}
    BY <1>6
  <1>10. q \in AlertRow
    BY <1>3, <1>4, <1>5, <1>6, <1>7 DEF AlertRow, NoTime
  <1> QED
    BY <1>1, <1>2, <1>4, <1>8, <1>9, <1>10 DEF q, e, FreshRow

(* The plans of an observation written to a table.                         *)
LEMMA PersistOK ==
  ASSUME NEW table, TableOK(table), NEW at \in Nat, NEW plans, PlansFit(table, plans, at)
  PROVE  LET after == Persist(table, plans, at) IN
         /\ TableOK(after)
         /\ \A q \in after : FreshRow(q, at) \/ \E r \in table : RowSteps(r, q, at)
  <1> DEFINE next == [r \in table |->
                        LET plan == plans[<<r.scope, r.kind>>]
                        IN IF Concerns(plan, r) THEN Changed(r, plan, at) ELSE r]
             kept == {next[r] : r \in table}
             new == [pair \in Opened(plans) |-> Created(table, plans, pair, at)]
             created == {new[pair] : pair \in Opened(plans)}
  <1>1. Persist(table, plans, at) = kept \union created
    BY DEF Persist
  <1>2. ASSUME NEW r \in table PROVE RowSteps(r, next[r], at)
    <2>1. PICK plan : plan = plans[<<r.scope, r.kind>>]
      OBVIOUS
    <2>2. CASE Concerns(plan, r)
      <3>1. <<r.scope, r.kind>> \in Pairs /\ Fits(table, <<r.scope, r.kind>>, plan, at)
        BY <2>1 DEF TableOK, PlansFit
      <3>2. PICK q \in RowsOf(table, r.scope, r.kind) : plan.id = q.id /\ Moves(q.alert, plan, at)
        BY <2>2, <3>1 DEF Fits, Concerns
      <3>3. q = r
        BY <2>2, <3>2 DEF Concerns, RowsOf, TableOK
      <3> QED
        BY <2>1, <2>2, <3>2, <3>3 DEF RowSteps
    <2>3. CASE ~Concerns(plan, r)
      BY <2>1, <2>3 DEF RowSteps
    <2> QED
      BY <2>2, <2>3
  <1> HIDE DEF next
  <1>3. TableOK(kept)
    BY <1>2, TableSteps
  <1>4. /\ \A pair \in Opened(plans) :
              /\ new[pair] \in AlertRow /\ IsFiniteSet(new[pair].events)
              /\ FreshRow(new[pair], at) /\ pair \in Pairs
              /\ pair = <<new[pair].scope, new[pair].kind>>
              /\ \A r \in table : r.id < new[pair].id
        /\ \A pair, q \in Opened(plans) : new[pair].id = new[q].id => pair = q
    BY CreatedRow, CreatedIds
  <1>5. IsFiniteSet(created)
    <2>1. new \in Surjection(Opened(plans), created)
      BY DEF Surjection
    <2>2. IsFiniteSet(Opened(plans))
      BY OpenedFinite DEF PlansFit
    <2> HIDE DEF new, created
    <2> QED
      BY <2>1, <2>2, FS_Surjection
  <1> HIDE DEF new
  <1>6. ASSUME NEW q \in kept
        PROVE  \E r \in table : /\ RowSteps(r, q, at) /\ q.id = r.id /\ q.scope = r.scope
                                /\ q.kind = r.kind
                                /\ r.alert.lifecycle = "archived" => q = r
    <2>1. PICK r \in table : q = next[r]
      OBVIOUS
    <2>2. r \in AlertRow /\ IsFiniteSet(r.events) /\ RowSteps(r, q, at)
      BY <1>2, <2>1 DEF TableOK
    <2> QED
      BY <2>2, RowStepsType
  <1>7. ASSUME NEW q \in kept, NEW c \in created
        PROVE  /\ q.id < c.id
               /\ q.scope = c.scope /\ q.kind = c.kind => q.alert.lifecycle = "archived"
    <2>1. PICK pair \in Opened(plans) : c = new[pair]
      OBVIOUS
    <2>2. PICK r \in table : /\ q.id = r.id /\ q.scope = r.scope /\ q.kind = r.kind
                             /\ r.alert.lifecycle = "archived" => q = r
      BY <1>6
    <2>3. q.id < c.id
      BY <1>4, <2>1, <2>2
    <2>4. ASSUME q.scope = c.scope, q.kind = c.kind PROVE q.alert.lifecycle = "archived"
      <3>1. pair = <<r.scope, r.kind>>
        BY <1>4, <2>1, <2>2, <2>4
      <3>2. pair[1] = r.scope /\ pair[2] = r.kind
        BY <3>1
      <3>3. r \in RowsOf(table, pair[1], pair[2])
        BY <3>2 DEF RowsOf
      <3>4. Fits(table, pair, plans[pair], at) /\ plans[pair].event = "opened"
        BY DEF PlansFit, Opened
      <3>5. r.alert.lifecycle = "archived"
        BY <3>3, <3>4 DEF Fits
      <3> QED
        BY <2>2, <3>5
    <2> QED
      BY <2>3, <2>4
  <1>8. ASSUME NEW c \in created, NEW d \in created,
               (c.scope = d.scope /\ c.kind = d.kind) \/ c.id = d.id
        PROVE  c = d
    BY <1>4, <1>8
  <1>9. ASSUME NEW c \in created
        PROVE  /\ c \in AlertRow /\ IsFiniteSet(c.events) /\ FreshRow(c, at)
               /\ <<c.scope, c.kind>> \in Pairs
    BY <1>4
  <1> HIDE DEF kept, created
  <1>10. TableOK(kept \union created)
    <2> DEFINE after == kept \union created
    <2>1. IsFiniteSet(after)
      BY <1>3, <1>5, FS_Union DEF TableOK
    <2>2. /\ after \subseteq AlertRow
          /\ \A r \in after : <<r.scope, r.kind>> \in Pairs /\ IsFiniteSet(r.events)
      BY <1>3, <1>9 DEF TableOK
    <2>3. \A r \in kept, c \in created : r.id \in Nat /\ c.id \in Nat
      BY <1>3, <1>9 DEF TableOK, AlertRow
    <2>4. \A r, q \in after : r.id = q.id => r = q
      BY <1>3, <1>7, <1>8, <2>3 DEF TableOK
    <2>5. \A r, q \in after : r.scope = q.scope /\ r.kind = q.kind /\ r.id < q.id =>
             r.alert.lifecycle = "archived"
      <3> SUFFICES ASSUME NEW r \in after, NEW q \in after, r.scope = q.scope, r.kind = q.kind,
                          r.id < q.id
                   PROVE  r.alert.lifecycle = "archived"
        OBVIOUS
      <3>1. CASE r \in kept /\ q \in kept
        BY <1>3, <3>1 DEF TableOK
      <3>2. CASE r \in kept /\ q \in created
        BY <1>7, <3>2
      <3>3. CASE r \in created /\ q \in kept
        BY <1>7, <2>3, <3>3
      <3>4. CASE r \in created /\ q \in created
        <4>1. r = q /\ r.id \in Nat
          BY <1>8, <1>9, <3>4 DEF AlertRow
        <4> QED
          BY <4>1
      <3> QED
        BY <3>1, <3>2, <3>3, <3>4
    <2> HIDE DEF after
    <2>6. TableOK(after)
      BY <2>1, <2>2, <2>4, <2>5 DEF TableOK
    <2> QED
      BY <2>6 DEF after
  <1>11. \A q \in kept \union created : FreshRow(q, at) \/ \E r \in table : RowSteps(r, q, at)
    BY <1>6, <1>9
  <1> QED
    BY <1>1, <1>10, <1>11

(* What an ingestion does to the rows.                                     *)
LEMMA IngestRows ==
  ASSUME TableOK(alerts), NEW p \in Projection, Ingest(p)
  PROVE  LET archived == ArchiveEligible(alerts, p.at)
             verdicts == Verdicts(archived, p)
             gap      == EvaluateGap(phase, p.report.kind, p.report.missed)
             plans    == AllPlans(archived, verdicts, gap, p)
         IN /\ TableOK(archived) /\ PlansFit(archived, plans, p.at) /\ ~Exhausted(plans)
            /\ alerts' = Persist(archived, plans, p.at)
            /\ evaluation' = [s \in HealthScope |-> verdicts[s].state] /\ phase' = gap.phase
  <1> DEFINE archived == ArchiveEligible(alerts, p.at)
             verdicts == Verdicts(archived, p)
             gap      == EvaluateGap(phase, p.report.kind, p.report.missed)
             plans    == AllPlans(archived, verdicts, gap, p)
  <1>1. p.at \in Nat
    BY DEF Projection
  <1>2. TableOK(archived) /\ \A r \in archived : Cooled(r, p.at)
    BY <1>1, ArchiveOK
  <1>3. /\ ~Exhausted(plans) /\ alerts' = Persist(archived, plans, p.at)
        /\ evaluation' = [s \in HealthScope |-> verdicts[s].state] /\ phase' = gap.phase
    BY DEF Ingest
  <1>4. PlansFit(archived, plans, p.at)
    <2> HIDE DEF archived, verdicts, gap
    <2> QED
      BY <1>2, AllPlansFit
  <1> QED
    BY <1>2, <1>3, <1>4

LEMMA IngestSteps ==
  ASSUME TableOK(alerts), NEW p \in Projection, Ingest(p)
  PROVE  /\ TableOK(alerts')
         /\ \A q \in alerts' : FreshRow(q, p.at) \/ \E r \in alerts : RowSteps(r, q, p.at)
  <1>1. p.at \in Nat
    BY DEF Projection
  <1>2. PICK archived : archived = ArchiveEligible(alerts, p.at)
    OBVIOUS
  <1>3. PICK plans : PlansFit(archived, plans, p.at) /\ alerts' = Persist(archived, plans, p.at)
    BY <1>2, IngestRows
  <1>4. /\ TableOK(archived)
        /\ \A q \in archived : \E r \in alerts : RowSteps(r, q, p.at) /\
              (q.alert.lifecycle # "archived" => q = r)
    BY <1>1, <1>2, ArchiveOK
  <1>5. /\ TableOK(alerts')
        /\ \A q \in alerts' : FreshRow(q, p.at) \/ \E r \in archived : RowSteps(r, q, p.at)
    BY <1>1, <1>3, <1>4, PersistOK
  <1>6. ASSUME NEW q \in alerts', NEW a \in archived, RowSteps(a, q, p.at)
        PROVE  \E r \in alerts : RowSteps(r, q, p.at)
    <2>1. PICK r \in alerts : RowSteps(r, a, p.at) /\ (a.alert.lifecycle # "archived" => a = r)
      BY <1>4
    <2>2. CASE a.alert.lifecycle = "archived"
      <3>1. a \in AlertRow /\ IsFiniteSet(a.events)
        BY <1>4 DEF TableOK
      <3>2. q = a
        BY <1>1, <1>6, <2>2, <3>1, RowStepsType
      <3> QED
        BY <2>1, <3>2
    <2>3. CASE a.alert.lifecycle # "archived"
      BY <1>6, <2>1, <2>3
    <2> QED
      BY <2>2, <2>3
  <1> QED
    BY <1>5, <1>6

-----------------------------------------------------------------------------
(* Retention                                                               *)

(* What is deleted is an old sample, or belongs to an archived alert.      *)
LEMMA ChosenAre ==
  ASSUME NEW d \in Chosen
  PROVE  \/ d[2] = 0
         \/ /\ d[2] = 1
            /\ \E r \in alerts : d[3] = r.id /\ r.alert.lifecycle = "archived"
  <1>1. d \in Deletions
    BY DEF Chosen
  <1>2. CASE d \in {<<s.at, 0, s.seq, 0, 0, 0>> : s \in {s \in samples : s.at < Cutoff}}
    BY <1>2
  <1>3. CASE \E r \in OldAlerts(alerts) :
               d \in {<<r.alert.recovered, 1, r.id, 0, e.at, e.n>> : e \in r.events}
                      \union {<<r.alert.recovered, 1, r.id, 1, 0, 0>>}
    <2>1. PICK r \in OldAlerts(alerts) :
               d \in {<<r.alert.recovered, 1, r.id, 0, e.at, e.n>> : e \in r.events}
                      \union {<<r.alert.recovered, 1, r.id, 1, 0, 0>>}
      BY <1>3
    <2>2. d[2] = 1 /\ d[3] = r.id
      BY <2>1
    <2> QED
      BY <2>2 DEF OldAlerts
  <1> QED
    BY <1>1, <1>2, <1>3 DEF Deletions

LEMMA CleanupRows ==
  ASSUME TableOK(alerts), Cleanup
  PROVE  /\ TableOK(alerts')
         /\ \A q \in alerts' : \E r \in alerts :
               /\ q = [r EXCEPT !.events = {e \in @ : \A d \in Chosen :
                                              ~(d[2] = 1 /\ d[3] = r.id /\ d[6] = e.n)}]
               /\ q.id = r.id /\ q.scope = r.scope /\ q.kind = r.kind /\ q.opened = r.opened
               /\ q.archived = r.archived /\ q.alert = r.alert
               /\ r.alert.lifecycle # "archived" => q = r
         /\ \A r \in alerts : r.alert.lifecycle # "archived" => r \in alerts'
  <1> DEFINE Left(r) == {e \in r.events : \A d \in Chosen :
                            ~(d[2] = 1 /\ d[3] = r.id /\ d[6] = e.n)}
             Gone(r) == \E d \in Chosen : d[2] = 1 /\ d[3] = r.id /\ d[4] = 1
             kept == [r \in alerts |-> [r EXCEPT !.events = Left(r)]]
             staying == {r \in alerts : ~Gone(r)}
  <1>1. alerts' = {kept[r] : r \in staying}
    BY DEF Cleanup
  <1>2. ASSUME NEW r \in alerts, r.alert.lifecycle # "archived"
        PROVE  ~Gone(r) /\ Left(r) = r.events
    <2>1. ASSUME NEW d \in Chosen, d[2] = 1, d[3] = r.id PROVE FALSE
      <3>1. PICK q \in alerts : q.id = r.id /\ q.alert.lifecycle = "archived"
        BY <2>1, ChosenAre
      <3> QED
        BY <1>2, <3>1 DEF TableOK
    <2> QED
      BY <2>1
  <1>3. \A r \in alerts : Left(r) \in SUBSET r.events
    OBVIOUS
  <1>4. staying \in SUBSET alerts
    OBVIOUS
  <1>5. \A r \in alerts : kept[r] = [r EXCEPT !.events = Left(r)]
    OBVIOUS
  <1>6. \A r \in alerts : r.alert.lifecycle # "archived" => r \in staying
    BY <1>2
  <1>7. \A r \in alerts : r.alert.lifecycle # "archived" => Left(r) = r.events
    BY <1>2
  <1> HIDE DEF kept, staying, Left
  <1>8. ASSUME NEW r \in alerts
        PROVE  /\ kept[r] \in AlertRow /\ kept[r].id = r.id /\ kept[r].scope = r.scope
               /\ kept[r].kind = r.kind /\ kept[r].opened = r.opened
               /\ kept[r].archived = r.archived /\ kept[r].alert = r.alert
               /\ kept[r].events = Left(r)
               /\ IsFiniteSet(kept[r].events) /\ <<kept[r].scope, kept[r].kind>> \in Pairs
               /\ r.alert.lifecycle # "archived" => kept[r] = r
    <2>1. r \in AlertRow /\ IsFiniteSet(r.events) /\ <<r.scope, r.kind>> \in Pairs
      BY DEF TableOK
    <2>2. kept[r] = [id |-> r.id, scope |-> r.scope, kind |-> r.kind, opened |-> r.opened,
                     archived |-> r.archived, alert |-> r.alert, events |-> Left(r)]
      BY <1>5, <2>1 DEF AlertRow
    <2>3. r = [id |-> r.id, scope |-> r.scope, kind |-> r.kind, opened |-> r.opened,
               archived |-> r.archived, alert |-> r.alert, events |-> r.events]
      BY <2>1 DEF AlertRow
    <2>4. Left(r) \subseteq AlertEvent /\ IsFiniteSet(Left(r))
      BY <1>3, <2>1, FS_Subset DEF AlertRow
    <2>5. kept[r] \in AlertRow
      BY <2>1, <2>2, <2>4 DEF AlertRow
    <2>6. /\ kept[r].id = r.id /\ kept[r].scope = r.scope
          /\ kept[r].kind = r.kind /\ kept[r].opened = r.opened
          /\ kept[r].archived = r.archived /\ kept[r].alert = r.alert
          /\ kept[r].events = Left(r)
      BY <2>2
    <2>7. r.alert.lifecycle # "archived" => kept[r] = r
      BY <1>7, <2>2, <2>3
    <2> QED
      BY <2>1, <2>4, <2>5, <2>6, <2>7
  <1>9. TableOK(alerts')
    <2>1. IsFiniteSet(staying)
      BY <1>4, FS_Subset DEF TableOK
    <2>2. IsFiniteSet(alerts')
      <3> DEFINE f == [r \in staying |-> kept[r]]
      <3>1. f \in Surjection(staying, alerts')
        BY <1>1 DEF Surjection
      <3> HIDE DEF f
      <3> QED
        BY <2>1, <3>1, FS_Surjection
    <2>3. \A q \in alerts' : \E r \in alerts : q = kept[r]
      BY <1>1, <1>4
    <2>4. /\ alerts' \subseteq AlertRow
          /\ \A q \in alerts' : <<q.scope, q.kind>> \in Pairs /\ IsFiniteSet(q.events)
      BY <1>8, <2>3
    <2>5. ASSUME NEW q \in alerts', NEW p \in alerts', q.id = p.id PROVE q = p
      <3>1. PICK r \in alerts, t \in alerts : q = kept[r] /\ p = kept[t]
        BY <2>3
      <3>2. r.id = t.id
        BY <1>8, <2>5, <3>1
      <3> QED
        BY <3>1, <3>2 DEF TableOK
    <2>6. ASSUME NEW q \in alerts', NEW p \in alerts', q.scope = p.scope, q.kind = p.kind,
                 q.id < p.id
          PROVE  q.alert.lifecycle = "archived"
      <3>1. PICK r \in alerts, t \in alerts : q = kept[r] /\ p = kept[t]
        BY <2>3
      <3>2. r.scope = t.scope /\ r.kind = t.kind /\ r.id < t.id
        BY <1>8, <2>6, <3>1
      <3>3. r.alert.lifecycle = "archived"
        BY <3>2 DEF TableOK
      <3> QED
        BY <1>8, <3>1, <3>3
    <2> QED
      BY <2>2, <2>4, <2>5, <2>6 DEF TableOK
  <1>10. \A r \in alerts : r.alert.lifecycle # "archived" => r \in alerts'
    BY <1>1, <1>6, <1>8
  <1>11. ASSUME NEW q \in alerts'
         PROVE  \E r \in alerts :
               /\ q = [r EXCEPT !.events = Left(r)]
               /\ q.id = r.id /\ q.scope = r.scope /\ q.kind = r.kind /\ q.opened = r.opened
               /\ q.archived = r.archived /\ q.alert = r.alert
               /\ r.alert.lifecycle # "archived" => q = r
    <2>1. PICK r \in alerts : q = kept[r]
      BY <1>1, <1>4
    <2> QED
      BY <1>5, <1>8, <2>1
  <1> QED
    BY <1>9, <1>10, <1>11 DEF Left

-----------------------------------------------------------------------------
(* A condition that is confirmed has an alert                              *)

(* What a plan of its pair makes of a row.                                 *)
Stays(q, r, plan, at) ==
    /\ q.id = r.id /\ q.scope = r.scope /\ q.kind = r.kind
    /\ IF Concerns(plan, r) THEN q.alert = plan.alert /\ Moves(r.alert, plan, at) ELSE q = r

LEMMA PersistRows ==
  ASSUME NEW table, TableOK(table), NEW at \in Nat, NEW plans, PlansFit(table, plans, at)
  PROVE  LET after == Persist(table, plans, at)
         IN /\ \A q \in after : \/ \E r \in table : Stays(q, r, plans[<<q.scope, q.kind>>], at)
                                \/ plans[<<q.scope, q.kind>>].event = "opened"
            /\ \A r \in table : \E q \in after : Stays(q, r, plans[<<r.scope, r.kind>>], at)
            /\ \A pair \in Opened(plans) : \E q \in after :
                  /\ pair = <<q.scope, q.kind>> /\ FreshRow(q, at)
                  /\ q.alert = plans[pair].alert
  <1> DEFINE next == [r \in table |->
                        LET plan == plans[<<r.scope, r.kind>>]
                        IN IF Concerns(plan, r) THEN Changed(r, plan, at) ELSE r]
             created == {Created(table, plans, pair, at) : pair \in Opened(plans)}
  <1>1. Persist(table, plans, at) = {next[r] : r \in table} \union created
    BY DEF Persist
  <1>2. ASSUME NEW r \in table
        PROVE  /\ Stays(next[r], r, plans[<<r.scope, r.kind>>], at)
               /\ <<next[r].scope, next[r].kind>> = <<r.scope, r.kind>>
    <2>1. PICK plan : plan = plans[<<r.scope, r.kind>>]
      OBVIOUS
    <2>2. CASE Concerns(plan, r)
      <3>1. <<r.scope, r.kind>> \in Pairs /\ Fits(table, <<r.scope, r.kind>>, plan, at)
            /\ r \in AlertRow /\ IsFiniteSet(r.events)
        BY <2>1 DEF TableOK, PlansFit
      <3>2. PICK q \in RowsOf(table, r.scope, r.kind) : plan.id = q.id /\ Moves(q.alert, plan, at)
        BY <2>2, <3>1 DEF Fits, Concerns
      <3>3. Moves(r.alert, plan, at)
        BY <2>2, <3>2 DEF Concerns, RowsOf, TableOK
      <3>4. PICK c : c = Changed(r, plan, at)
        OBVIOUS
      <3>5. c.id = r.id /\ c.scope = r.scope /\ c.kind = r.kind /\ c.alert = plan.alert
        BY <3>1, <3>3, <3>4, ChangedRow
      <3>6. next[r] = c
        BY <2>1, <2>2, <3>4
      <3> HIDE DEF next
      <3> QED
        BY <2>1, <2>2, <3>3, <3>5, <3>6 DEF Stays
    <2>3. CASE ~Concerns(plan, r)
      BY <2>1, <2>3 DEF Stays
    <2> QED
      BY <2>2, <2>3
  <1>3. ASSUME NEW pair \in Opened(plans)
        PROVE  \E q \in created : /\ pair = <<q.scope, q.kind>> /\ FreshRow(q, at)
                                  /\ q.alert = plans[pair].alert
    BY CreatedRow
  <1>4. ASSUME NEW q \in created
        PROVE  plans[<<q.scope, q.kind>>].event = "opened"
    <2>1. PICK pair \in Opened(plans) : q = Created(table, plans, pair, at)
      OBVIOUS
    <2>2. pair = <<q.scope, q.kind>>
      BY <2>1, CreatedRow
    <2> QED
      BY <2>2 DEF Opened
  <1> HIDE DEF next, created
  <1> DEFINE after == Persist(table, plans, at)
  <1>5. \A q \in after : \/ \E r \in table : Stays(q, r, plans[<<q.scope, q.kind>>], at)
                         \/ plans[<<q.scope, q.kind>>].event = "opened"
    <2>1. ASSUME NEW r \in table
          PROVE  Stays(next[r], r, plans[<<next[r].scope, next[r].kind>>], at)
      BY <1>2
    <2> QED
      BY <1>1, <1>4, <2>1
  <1>6. \A r \in table : \E q \in after : Stays(q, r, plans[<<r.scope, r.kind>>], at)
    BY <1>1, <1>2
  <1>7. \A pair \in Opened(plans) : \E q \in after :
           /\ pair = <<q.scope, q.kind>> /\ FreshRow(q, at)
           /\ q.alert = plans[pair].alert
    BY <1>1, <1>3
  <1> HIDE DEF after
  <1> QED
    BY <1>5, <1>6, <1>7 DEF after

(* A pair whose alert is to recover, or that has no plan and no active     *)
(* alert, has none afterwards.                                             *)
LEMMA PairSettles ==
  ASSUME NEW table, TableOK(table), NEW at \in Nat, NEW plans, PlansFit(table, plans, at),
         NEW scope, NEW kind, <<scope, kind>> \in Pairs,
         \/ plans[<<scope, kind>>] = RecoveryPlan(table, scope, kind, at)
         \/ plans[<<scope, kind>>] = NoPlan /\ ActiveRows(RowsOf(table, scope, kind)) = {}
  PROVE  ActiveRows(RowsOf(Persist(table, plans, at), scope, kind)) = {}
  <1> DEFINE active == ActiveRows(RowsOf(table, scope, kind))
  <1> SUFFICES ASSUME NEW q \in Persist(table, plans, at), q.scope = scope, q.kind = kind,
                      Active(q.alert)
               PROVE  FALSE
    BY DEF ActiveRows, RowsOf
  <1>1. PICK plan : plan = plans[<<scope, kind>>]
    OBVIOUS
  <1>2. plan.event # "opened"
    BY <1>1, RecoveryFits DEF NoPlan
  <1>3. PICK r \in table : /\ q.id = r.id /\ q.scope = r.scope /\ q.kind = r.kind
                           /\ IF Concerns(plan, r)
                              THEN q.alert = plan.alert /\ Moves(r.alert, plan, at) ELSE q = r
    <2>1. plans[<<q.scope, q.kind>>] = plan
      BY <1>1
    <2>2. \E r \in table : Stays(q, r, plan, at)
      BY <1>2, <2>1, PersistRows
    <2> QED
      BY <2>2 DEF Stays
  <1>4. r \in AlertRow /\ r.alert \in AlertValue /\ r \in RowsOf(table, scope, kind)
    BY <1>3 DEF TableOK, AlertRow, RowsOf
  <1>5. r \in active
    <2>1. CASE Concerns(plan, r)
      <3>1. plan.event \in {"occurrence_updated", "recovered"} /\ plan.alert.lifecycle = "open"
        <4>1. plan.alert \in AlertValue
          BY <1>3, <1>4, <2>1, MovesType
        <4> QED
          BY <1>3, <2>1, <4>1 DEF Concerns, Active, AlertValue, Lifecycle
      <3>2. r.alert.lifecycle = "open"
        BY <1>3, <1>4, <2>1, <3>1 DEF Moves, AlertValue
      <3> QED
        BY <1>4, <3>2 DEF ActiveRows, Active
    <2>2. CASE ~Concerns(plan, r)
      BY <1>3, <1>4, <2>2 DEF ActiveRows
    <2> QED
      BY <2>1, <2>2
  <1>6. plan = RecoveryPlan(table, scope, kind, at)
    BY <1>1, <1>5
  <1>7. PICK row \in active : row = LastRow(active)
    BY <1>5, RowsOfFinite, LastRowIs
  <1>8. row = r
    <2>1. row \in RowsOf(table, scope, kind) /\ Active(row.alert) /\ Active(r.alert)
      BY <1>5, <1>7 DEF ActiveRows
    <2>2. row.id \in Nat /\ r.id \in Nat /\ row \in table /\ r.scope = row.scope /\ r.kind = row.kind
      BY <1>4, <2>1 DEF RowsOf, TableOK, AlertRow
    <2>3. ~(row.id < r.id) /\ ~(r.id < row.id)
      BY <2>1, <2>2 DEF TableOK, Active
    <2>4. row.id = r.id
      BY <2>2, <2>3
    <2> QED
      BY <2>2, <2>4 DEF TableOK
  <1>9. /\ plan.id = r.id /\ plan.event = "recovered"
        /\ plan.alert = [r.alert EXCEPT !.lifecycle = "recovered", !.recovered = at,
                                        !.cooldown = Larger(@, Deadline(at))]
    <2>1. Active(r.alert)
      BY <1>5 DEF ActiveRows
    <2> QED
      BY <1>6, <1>7, <1>8, <2>1 DEF RecoveryPlan, Plan, Recover
  <1>10. q.alert.lifecycle = "recovered"
    BY <1>3, <1>4, <1>9 DEF Concerns, AlertValue
  <1> QED
    BY <1>10 DEF Active

(* A pair whose condition is confirmed has an alert afterwards that is not *)
(* archived.                                                               *)
LEMMA PairAlerted ==
  ASSUME NEW table, TableOK(table), NEW at \in Nat, \A r \in table : Cooled(r, at),
         NEW plans, PlansFit(table, plans, at),
         NEW scope, NEW kind, <<scope, kind>> \in Pairs,
         plans[<<scope, kind>>] = ConditionPlan(table, scope, kind, at), ~Exhausted(plans)
  PROVE  \E q \in RowsOf(Persist(table, plans, at), scope, kind) : q.alert.lifecycle # "archived"
  <1>1. PICK plan : plan = plans[<<scope, kind>>]
    OBVIOUS
  <1>2. plan.event # "rejected"
    BY <1>1 DEF Exhausted
  <1>3. CASE plan.event = "opened"
    <2>1. PICK q \in Persist(table, plans, at) : <<scope, kind>> = <<q.scope, q.kind>> /\ FreshRow(q, at)
      BY <1>1, <1>3, PersistRows DEF Opened
    <2>2. q.scope = scope /\ q.kind = kind /\ q.alert.lifecycle = "open"
      BY <2>1 DEF FreshRow, NewAlert
    <2> QED
      BY <2>2 DEF RowsOf
  <1>4. CASE plan.event # "opened"
    <2>1. PICK r \in RowsOf(table, scope, kind) : r.alert.lifecycle # "archived"
      BY <1>1, <1>2, <1>4, ConditionFits
    <2>2. r \in table /\ r.scope = scope /\ r.kind = kind /\ r.alert \in AlertValue
      BY <2>1 DEF RowsOf, TableOK, AlertRow
    <2>3. PICK q \in Persist(table, plans, at) :
                   /\ q.scope = r.scope /\ q.kind = r.kind
                   /\ IF Concerns(plan, r)
                      THEN q.alert = plan.alert /\ Moves(r.alert, plan, at) ELSE q = r
      <3>1. \E q \in Persist(table, plans, at) : Stays(q, r, plan, at)
        BY <1>1, <2>2, PersistRows
      <3> QED
        BY <3>1 DEF Stays
    <2>4. q.alert.lifecycle # "archived"
      BY <2>1, <2>2, <2>3 DEF Concerns, Moves, AlertValue
    <2> QED
      BY <2>2, <2>3, <2>4 DEF RowsOf
  <1> QED
    BY <1>3, <1>4

-----------------------------------------------------------------------------
(* What the evaluators say                                                 *)

LEMMA StatusIs ==
  ASSUME NEW report \in Report, NEW scope \in HealthScope
  PROVE  /\ Status(report, scope) \in {"healthy", "degraded", "unavailable"}
         /\ Disabled(report, scope) => Status(report, scope) = "unavailable"
  <1>1. report.of \in [Component -> Condition] /\ Component # {} /\ Overall \notin Component
    BY HistoryAssumption DEF Report
  <1>2. \A c \in Component : /\ StatusOf(report.of[c]) \in {"healthy", "degraded", "unavailable"}
                             /\ Rank(StatusOf(report.of[c])) \in 0 .. 2
    BY <1>1 DEF Condition, StatusOf, Rank
  <1>3. Worst(report) # {}
    <2>1. CASE \E c \in Component : Rank(StatusOf(report.of[c])) = 2
      BY <1>2, <2>1 DEF Worst
    <2>2. CASE /\ \A c \in Component : Rank(StatusOf(report.of[c])) # 2
               /\ \E c \in Component : Rank(StatusOf(report.of[c])) = 1
      BY <1>2, <2>2 DEF Worst
    <2>3. CASE /\ \A c \in Component : Rank(StatusOf(report.of[c])) # 2
               /\ \A c \in Component : Rank(StatusOf(report.of[c])) # 1
      <3>1. \A c \in Component : Rank(StatusOf(report.of[c])) = 0
        BY <1>2, <2>3
      <3> QED
        BY <1>1, <3>1 DEF Worst
    <2> QED
      BY <2>1, <2>2, <2>3
  <1>4. PICK worst : worst = CHOOSE c \in Worst(report) : TRUE
    OBVIOUS
  <1>5. worst \in Worst(report) /\ worst \in Component
    BY <1>3, <1>4 DEF Worst
  <1>6. CASE scope = Overall
    BY <1>1, <1>2, <1>4, <1>5, <1>6 DEF Status, Disabled, StatusOf
  <1>7. CASE scope # Overall
    BY <1>1, <1>2, <1>7 DEF Status, Disabled, StatusOf, HealthScope
  <1> QED
    BY <1>6, <1>7

(* A verdict that has counted a condition to its threshold confirms it,    *)
(* and one that settles on healthy confirms a recovery or has nothing to   *)
(* recover.                                                                *)
LEMMA EvaluateHealthIs ==
  ASSUME NEW state, NEW status \in {"healthy", "degraded", "unavailable"},
         NEW disabled \in BOOLEAN, disabled => status = "unavailable", NEW active \in BOOLEAN
  PROVE  LET v == EvaluateHealth(state, status, disabled, active) IN
         /\ v.state.candidate \in HealthKind /\ v.state.count >= OpenThreshold(v.state.candidate) =>
               v.event = "condition_confirmed" /\ v.state.current = v.state.candidate
         /\ v.state = Settled("healthy") =>
               v.event = "recovery_confirmed" \/ (v.event = "none" /\ ~active)
  <1> DEFINE v == EvaluateHealth(state, status, disabled, active)
  <1>1. CASE disabled
    <2>1. v.state = Settled("unavailable")
      BY <1>1 DEF EvaluateHealth
    <2> QED
      BY <2>1 DEF Settled, HealthKind, NoStatus
  <1>2. CASE ~disabled /\ status = "healthy"
    <2>1. v = EvaluateHealthy(state, active)
      BY <1>2 DEF EvaluateHealth
    <2>2. PICK n : n = Consecutive(state, "healthy")
      OBVIOUS
    <2>3. CASE ~active
      <3>1. v = [state |-> Settled("healthy"), event |-> "none"]
        BY <2>1, <2>3 DEF EvaluateHealthy
      <3> QED
        BY <2>3, <3>1 DEF Settled, HealthKind, NoStatus
    <2>4. CASE active /\ n >= HealthyRecoveryThreshold
      <3>1. v = [state |-> Settled("healthy"), event |-> "recovery_confirmed"]
        BY <2>1, <2>2, <2>4 DEF EvaluateHealthy
      <3> QED
        BY <3>1 DEF Settled, HealthKind, NoStatus
    <2>5. CASE active /\ ~(n >= HealthyRecoveryThreshold)
      <3>1. v = [state |-> Counting("healthy", n), event |-> "none"]
        BY <2>1, <2>2, <2>5 DEF EvaluateHealthy
      <3>2. v.state.candidate = "healthy"
        BY <3>1 DEF Counting
      <3>3. Settled("healthy").candidate = "none"
        BY DEF Settled, NoStatus
      <3> QED
        BY <3>2, <3>3 DEF HealthKind
    <2> QED
      BY <2>3, <2>4, <2>5
  <1>3. CASE ~disabled /\ status # "healthy"
    <2>1. PICK n : n = Consecutive(state, status)
      OBVIOUS
    <2>2. v = [state |-> Counting(status, n),
               event |-> IF n >= OpenThreshold(status) THEN "condition_confirmed" ELSE "none"]
      BY <1>3, <2>1 DEF EvaluateHealth
    <2>3. /\ v.state.candidate = status /\ v.state.current = status /\ v.state.count = n
          /\ v.event = IF n >= OpenThreshold(status) THEN "condition_confirmed" ELSE "none"
      BY <2>2 DEF Counting
    <2>4. Settled("healthy").candidate = "none"
      BY DEF Settled, NoStatus
    <2> QED
      BY <1>3, <2>3, <2>4
  <1> QED
    BY <1>1, <1>2, <1>3

Phases == {"clear", "candidate_one", "active", "recovery_one"}
Calm == {"clear", "candidate_one"}

(* A cadence is calm after an observation that ends a gap, or if it was    *)
(* calm before and no gap is alerted.                                      *)
LEMMA EvaluateGapIs ==
  ASSUME phase \in Phases, NEW report \in Report
  PROVE  LET gap == EvaluateGap(phase, report.kind, report.missed) IN
         /\ gap.phase \in Phases
         /\ gap.phase \in Calm => /\ ~GapCondition(gap, report)
                                  /\ gap.event = "recovered" \/ phase \in Calm
  <1>1. report.kind \in SampleKind /\ report.missed \in Nat
    BY DEF Report
  <1>2. ASSUME report.missed > 0
        PROVE  LET gap == ApplyMisses(phase, report.missed) IN
               /\ gap.phase \in Phases
               /\ gap.phase \in Calm => gap.event # "opened" /\ phase \in Calm
    BY <1>1, <1>2 DEF ApplyMisses, Phases, Calm
  <1>3. LET gap == OnTime(phase) IN
        /\ gap.phase \in Phases /\ gap.event # "opened"
        /\ gap.phase \in Calm => gap.event = "recovered" \/ phase \in Calm
    BY DEF OnTime, Phases, Calm
  <1> QED
    BY <1>1, <1>2, <1>3 DEF EvaluateGap, GapCondition, Phases, Calm

(* One ingestion makes what the evaluators and the alerts say agree,       *)
(* whatever they said before of the health.                                *)
LEMMA IngestConfirms ==
  ASSUME TableOK(alerts), phase \in Phases,
         phase \in Calm => ActiveRows(RowsOf(alerts, Sampling, "sampling_gap")) = {},
         NEW p \in Projection, Ingest(p)
  PROVE  phase' \in Phases /\ ConfirmedIsAlerted'
  <1>1. PICK archived : archived = ArchiveEligible(alerts, p.at)
    OBVIOUS
  <1>2. PICK gap : gap = EvaluateGap(phase, p.report.kind, p.report.missed)
    OBVIOUS
  <1>3. PICK verdicts : verdicts = Verdicts(archived, p)
    OBVIOUS
  <1>4. PICK plans : plans = AllPlans(archived, verdicts, gap, p)
    OBVIOUS
  <1>5. /\ TableOK(archived) /\ PlansFit(archived, plans, p.at) /\ ~Exhausted(plans)
        /\ alerts' = Persist(archived, plans, p.at)
        /\ evaluation' = [s \in HealthScope |-> verdicts[s].state] /\ phase' = gap.phase
    BY <1>1, <1>2, <1>3, <1>4, IngestRows
  <1>6. p.at \in Nat /\ p.report \in Report
    BY DEF Projection
  <1>7. /\ \A r \in archived : Cooled(r, p.at)
        /\ \A q \in archived : q.alert.lifecycle # "archived" => q \in alerts
    BY <1>1, <1>6, ArchiveOK
  <1>8. ASSUME NEW s \in HealthScope
        PROVE  LET e == evaluation[s] IN
          /\ (e.candidate \in HealthKind /\ e.count >= OpenThreshold(e.candidate))' =>
                \E r \in RowsOf(alerts', s, evaluation'[s].candidate) : r.alert.lifecycle # "archived"
          /\ (e = Settled("healthy"))' => ActiveHealthAlerts(alerts', s) = {}
    <2>1. PICK active \in BOOLEAN : active <=> ActiveHealthAlerts(archived, s) # {}
      OBVIOUS
    <2>2. PICK v : v = EvaluateHealth(evaluation[s], Status(p.report, s),
                                      Disabled(p.report, s), active)
      OBVIOUS
    <2>3. verdicts[s] = v /\ evaluation'[s] = v.state
      <3>1. verdicts[s] = EvaluateHealth(evaluation[s], Status(p.report, s),
                             Disabled(p.report, s), ActiveHealthAlerts(archived, s) # {})
        BY <1>3 DEF Verdicts
      <3>2. (ActiveHealthAlerts(archived, s) # {}) = active
        BY <2>1
      <3> QED
        BY <1>5, <2>2, <3>1, <3>2
    <2>4. /\ v.state.candidate \in HealthKind /\ v.state.count >= OpenThreshold(v.state.candidate) =>
                v.event = "condition_confirmed" /\ v.state.current = v.state.candidate
          /\ v.state = Settled("healthy") =>
                v.event = "recovery_confirmed" \/ (v.event = "none" /\ ~active)
      <3>1. Disabled(p.report, s) \in BOOLEAN
        BY DEF Disabled
      <3>2. PICK disabled \in BOOLEAN : disabled = Disabled(p.report, s)
        BY <3>1
      <3>3. PICK status : status = Status(p.report, s)
        OBVIOUS
      <3>4. status \in {"healthy", "degraded", "unavailable"} /\ (disabled => status = "unavailable")
        BY <1>6, <3>2, <3>3, StatusIs
      <3>5. v = EvaluateHealth(evaluation[s], status, disabled, active)
        BY <2>2, <3>2, <3>3
      <3> QED
        BY <3>4, <3>5, EvaluateHealthIs
    <2>5. s # Sampling /\ \A k \in HealthKind : <<s, k>> \in Pairs
      BY HistoryAssumption DEF HealthScope, Pairs, Overall, Sampling
    <2>6. \A k \in HealthKind : plans[<<s, k>>] = HealthPlan(archived, s, k, v, p.at)
      BY <1>4, <2>3, <2>5 DEF AllPlans
    <2>7. ASSUME v.state.candidate \in HealthKind, v.state.count >= OpenThreshold(v.state.candidate)
          PROVE  \E r \in RowsOf(alerts', s, v.state.candidate) : r.alert.lifecycle # "archived"
      <3>1. PICK k \in HealthKind : k = v.state.candidate
        BY <2>7
      <3>2. plans[<<s, k>>] = ConditionPlan(archived, s, k, p.at)
        BY <2>4, <2>6, <2>7, <3>1 DEF HealthPlan
      <3> QED
        BY <1>5, <1>6, <1>7, <2>5, <3>1, <3>2, PairAlerted
    <2>8. ASSUME v.state = Settled("healthy")
          PROVE  ActiveHealthAlerts(alerts', s) = {}
      <3>1. ASSUME NEW k \in HealthKind
            PROVE  ActiveRows(RowsOf(alerts', s, k)) = {}
        <4>1. \/ plans[<<s, k>>] = RecoveryPlan(archived, s, k, p.at)
              \/ /\ plans[<<s, k>>] = NoPlan
                 /\ ActiveRows(RowsOf(archived, s, k)) = {}
          <5>1. CASE v.event = "recovery_confirmed"
            BY <2>6, <5>1 DEF HealthPlan
          <5>2. CASE v.event = "none" /\ ~active
            BY <2>1, <2>6, <5>2 DEF HealthPlan, ActiveHealthAlerts, ActiveRows, RowsOf
          <5> QED
            BY <2>4, <2>8, <5>1, <5>2
        <4> QED
          BY <1>5, <1>6, <2>5, <4>1, PairSettles
      <3> QED
        BY <3>1 DEF ActiveHealthAlerts, ActiveRows, RowsOf
    <2> QED
      BY <2>3, <2>7, <2>8
  <1>9. phase' \in Phases
    BY <1>2, <1>5, <1>6, EvaluateGapIs
  <1>10. ASSUME phase' \in Calm
         PROVE  ActiveRows(RowsOf(alerts', Sampling, "sampling_gap")) = {}
    <2>1. /\ gap.phase \in Calm /\ ~GapCondition(gap, p.report)
          /\ gap.event = "recovered" \/ phase \in Calm
      BY <1>2, <1>5, <1>6, <1>10, EvaluateGapIs
    <2>2. <<Sampling, "sampling_gap">> \in Pairs
      BY DEF Pairs
    <2>3. plans[<<Sampling, "sampling_gap">>] = GapPlan(archived, gap, p)
      BY <1>4, <2>2 DEF AllPlans
    <2>4. \/ plans[<<Sampling, "sampling_gap">>] = RecoveryPlan(archived, Sampling, "sampling_gap", p.at)
          \/ /\ plans[<<Sampling, "sampling_gap">>] = NoPlan
             /\ ActiveRows(RowsOf(archived, Sampling, "sampling_gap")) = {}
      <3>1. CASE gap.event = "recovered"
        BY <2>1, <2>3, <3>1 DEF GapPlan
      <3>2. CASE gap.event # "recovered"
        <4>1. ActiveRows(RowsOf(alerts, Sampling, "sampling_gap")) = {}
          BY <2>1, <3>2
        <4>2. ActiveRows(RowsOf(archived, Sampling, "sampling_gap")) = {}
          BY <1>7, <4>1 DEF ActiveRows, RowsOf, Active
        <4> QED
          BY <2>1, <2>3, <3>2, <4>2 DEF GapPlan
      <3> QED
        BY <3>1, <3>2
    <2> QED
      BY <1>5, <1>6, <2>2, <2>4, PairSettles
  <1> QED
    BY <1>8, <1>9, <1>10 DEF ConfirmedIsAlerted, Calm

-----------------------------------------------------------------------------
(* The alerts, whatever the clock does                                     *)

AlertsInvariant == TableOK(alerts) /\ phase \in Phases /\ ConfirmedIsAlerted

LEMMA InitAlerts == Init => AlertsInvariant
  <1> SUFFICES ASSUME Init PROVE AlertsInvariant
    OBVIOUS
  <1>1. TableOK(alerts)
    BY FS_EmptySet DEF Init, TableOK
  <1>2. ConfirmedIsAlerted
    BY DEF Init, ConfirmedIsAlerted, HealthKind, NoStatus, ActiveHealthAlerts, ActiveRows, RowsOf
  <1> QED
    BY <1>1, <1>2 DEF Init, AlertsInvariant, Phases

LEMMA AlertsStep == DeliveryOK /\ AlertsInvariant /\ [Next]_vars => AlertsInvariant'
  <1> SUFFICES ASSUME DeliveryOK, AlertsInvariant, [Next]_vars PROVE AlertsInvariant'
    OBVIOUS
  <1>1. TableOK(alerts) /\ phase \in Phases /\ ConfirmedIsAlerted
    BY DEF AlertsInvariant
  <1>2. CASE UNCHANGED tables
    <2>1. UNCHANGED <<alerts, evaluation, phase>>
      BY <1>2, TablesKept
    <2> QED
      BY <1>1, <2>1 DEF AlertsInvariant, ConfirmedIsAlerted, TableOK
  <1>3. CASE Cleanup
    <2>1. UNCHANGED <<evaluation, phase>>
      BY <1>3 DEF Cleanup
    <2>2. /\ TableOK(alerts')
          /\ \A q \in alerts' : \E r \in alerts : q.alert = r.alert /\
                (r.alert.lifecycle # "archived" => q = r)
          /\ \A r \in alerts : r.alert.lifecycle # "archived" => r \in alerts'
      BY <1>1, <1>3, CleanupRows
    <2>3. \A q \in alerts' : Active(q.alert) => q \in alerts
      BY <2>2 DEF Active
    <2>4. \A s \in HealthScope : ActiveHealthAlerts(alerts', s) \subseteq ActiveHealthAlerts(alerts, s)
      BY <2>3 DEF ActiveHealthAlerts, ActiveRows
    <2>5. ActiveRows(RowsOf(alerts', Sampling, "sampling_gap"))
             \subseteq ActiveRows(RowsOf(alerts, Sampling, "sampling_gap"))
      BY <2>3 DEF RowsOf, ActiveRows
    <2>6. ASSUME NEW s, NEW k, \E r \in RowsOf(alerts, s, k) : r.alert.lifecycle # "archived"
          PROVE  \E r \in RowsOf(alerts', s, k) : r.alert.lifecycle # "archived"
      BY <2>2, <2>6 DEF RowsOf
    <2>7. ConfirmedIsAlerted'
      BY <1>1, <2>1, <2>4, <2>5, <2>6 DEF ConfirmedIsAlerted
    <2> QED
      BY <1>1, <2>1, <2>2, <2>7 DEF AlertsInvariant
  <1>4. ASSUME NEW p \in Projection, Ingest(p)
        PROVE  AlertsInvariant'
    <2>1. TableOK(alerts')
      BY <1>1, <1>4, IngestSteps
    <2>2. phase' \in Phases /\ ConfirmedIsAlerted'
      BY <1>1, <1>4, IngestConfirms DEF ConfirmedIsAlerted, Calm
    <2> QED
      BY <2>1, <2>2 DEF AlertsInvariant
  <1> QED
    BY <1>2, <1>3, <1>4, StepKinds

(* What the evaluators have confirmed is alerted, and what they have seen  *)
(* recover is not, through failures, redeliveries, restarts and clean-ups, *)
(* even if the clock is set back.                                          *)
THEOREM ConfirmedIsAlertedHolds == Spec => []ConfirmedIsAlerted
  <1>1. AlertsInvariant => ConfirmedIsAlerted
    BY DEF AlertsInvariant
  <1> QED
    BY <1>1, InitDelivery, DeliveryStep, InitAlerts, AlertsStep, PTL DEF Spec

-----------------------------------------------------------------------------
(* The times of the alerts, where the clock is not set back                *)

LEMMA FreshTimes ==
  ASSUME NEW q, NEW at \in Nat, FreshRow(q, at)
  PROVE  RowTimes(q, at)
  <1>1. PICK generation \in 1 .. MaxCounter : q.alert = NewAlert(at, generation)
    BY DEF FreshRow
  <1>2. /\ q.alert.lifecycle = "open" /\ q.alert.recovered = NoTime
        /\ q.alert.cooldown = at + Cooldown
    BY <1>1 DEF NewAlert, Deadline
  <1>3. /\ q.opened = at /\ q.archived = NoTime
        /\ \A e \in q.events : e.at = at
    BY DEF FreshRow
  <1> QED
    BY <1>2, <1>3, RulesAssumption DEF RowTimes

LEMMA StepTimes ==
  ASSUME NEW r \in AlertRow, IsFiniteSet(r.events), NEW last \in Int, NEW at \in Nat,
         last <= at, RowTimes(r, last), NEW q, RowSteps(r, q, at)
  PROVE  RowTimes(q, at)
  <1>1. /\ r.opened \in Nat /\ r.archived \in Int /\ r.alert \in AlertValue
        /\ r.events \subseteq AlertEvent
    BY DEF AlertRow
  <1>2. /\ r.alert.cooldown \in Int /\ r.alert.recovered \in Int /\ Cooldown \in Nat
        /\ \A e \in r.events : e.at \in Nat
    BY <1>1, RulesAssumption DEF AlertValue, AlertEvent
  <1>3. CASE q = r
    BY <1>1, <1>2, <1>3 DEF RowTimes
  <1>4. CASE \E plan : Moves(r.alert, plan, at) /\ q = Changed(r, plan, at)
    <2>1. PICK plan : Moves(r.alert, plan, at) /\ q = Changed(r, plan, at)
      BY <1>4
    <2>2. /\ q.opened = r.opened /\ q.alert = plan.alert
          /\ q.archived = IF plan.event = "archived" THEN at ELSE r.archived
          /\ q.events = r.events \union {Happened(r, plan.event, at, plan.alert)}
      BY <2>1, ChangedRow
    <2>3. \A e \in q.events : e.at <= at
      BY <1>2, <2>2 DEF RowTimes, Happened
    <2>4. CASE plan.event = "archived"
      <3>1. /\ q.alert.lifecycle = "archived" /\ q.alert.cooldown = r.alert.cooldown
            /\ q.alert.recovered = r.alert.recovered /\ r.alert.cooldown <= at
            /\ r.alert.lifecycle = "recovered" /\ q.archived = at
        BY <1>1, <2>1, <2>2, <2>4 DEF Moves, AlertValue
      <3> QED
        BY <1>1, <1>2, <2>2, <2>3, <3>1 DEF RowTimes
    <2>5. CASE plan.event = "occurrence_updated"
      <3>1. /\ q.alert.lifecycle = r.alert.lifecycle /\ r.alert.lifecycle # "archived"
            /\ q.alert.recovered = r.alert.recovered /\ q.archived = r.archived
            /\ q.alert.cooldown = Larger(r.alert.cooldown, Deadline(at))
        BY <1>1, <2>1, <2>2, <2>5 DEF Moves, AlertValue
      <3>2. q.alert.cooldown \in Int /\ q.alert.cooldown >= r.alert.cooldown
        BY <1>2, <3>1 DEF Larger, Deadline
      <3> QED
        BY <1>1, <1>2, <2>2, <2>3, <3>1, <3>2 DEF RowTimes
    <2>6. CASE plan.event = "recovered"
      <3>1. /\ q.alert.lifecycle = "recovered" /\ q.alert.recovered = at
            /\ q.archived = r.archived /\ r.alert.lifecycle = "open"
            /\ q.alert.cooldown = Larger(r.alert.cooldown, Deadline(at))
        BY <1>1, <2>1, <2>2, <2>6 DEF Moves, AlertValue
      <3>2. /\ q.alert.cooldown \in Int /\ q.alert.cooldown >= r.alert.cooldown
            /\ q.alert.cooldown >= at
        BY <1>2, <3>1 DEF Larger, Deadline
      <3> QED
        BY <1>1, <1>2, <2>2, <2>3, <3>1, <3>2 DEF RowTimes
    <2> QED
      BY <2>1, <2>4, <2>5, <2>6 DEF Moves
  <1> QED
    BY <1>3, <1>4 DEF RowSteps

(* A row whose times are in order passes the checks of its readers.        *)
LEMMA TimesReadable ==
  ASSUME NEW r \in AlertRow, NEW at \in Int, RowTimes(r, at)
  PROVE  Readable(r)
  <1>1. r.opened \in Nat /\ r.archived \in Int /\ r.alert \in AlertValue
    BY DEF AlertRow
  <1>2. /\ r.alert.cooldown \in Int /\ r.alert.recovered \in Int
        /\ r.alert.lifecycle \in {"open", "recovered", "archived"}
    BY <1>1 DEF AlertValue, Lifecycle
  <1>3. /\ (r.alert.lifecycle \in {"recovered", "archived"}) <=> (r.alert.recovered # NoTime)
        /\ (r.alert.lifecycle = "archived") <=> (r.archived # NoTime)
    BY <1>1, <1>2 DEF RowTimes, NoTime
  <1>4. /\ r.alert.cooldown >= r.opened
        /\ r.alert.recovered # NoTime =>
              r.alert.recovered >= r.opened /\ r.alert.cooldown >= r.alert.recovered
        /\ r.archived # NoTime => r.archived >= Larger(r.alert.recovered, r.alert.cooldown)
    BY <1>1, <1>2 DEF RowTimes, NoTime, Larger
  <1> QED
    BY <1>3, <1>4 DEF Readable

(* What a step does to the times of what is delivered.                     *)
LEMMA StepClocks ==
  ASSUME ClockForward, DeliveryOK, [Next]_vars,
         Last.at <= now, pending.projection.at <= now,
         pending.projection.seq > Last.seq => Last.at <= pending.projection.at
  PROVE  /\ Last'.at <= now' /\ pending'.projection.at <= now'
         /\ pending'.projection.seq > Last'.seq => Last'.at <= pending'.projection.at
         /\ \/ UNCHANGED tables \/ Cleanup
            \/ \E p \in Projection : /\ p.seq = Last.seq + 1 /\ Ingest(p)
                                     /\ Last' = p /\ Last.at <= p.at
  <1>1. /\ now \in Nat /\ Last.at \in Int /\ Last.seq \in Nat
        /\ pending.projection.at \in Int /\ pending.projection.seq \in Nat
        /\ pending.projection.seq <= Last.seq + 1
    BY DEF DeliveryOK, DeliveryTypeOK, PendingOK, Projection, NoProjection, NoTime
  <1>2. ASSUME NEW p \in Projections
        PROVE  p \in Projection /\ p.seq = Last.seq + 1 /\ p.at \in Nat /\ now <= p.at
    <2>1. PICK report \in Offered : p.at = now + report.after
      BY DEF Projections
    <2>2. report.after >= 0 /\ report.after \in Int
      BY HistoryAssumption DEF ClockForward, Report
    <2> QED
      BY <1>1, <2>1, <2>2, OfferedNext
  <1>3. ASSUME NEW p, Ingest(p)
        PROVE  Last' = p
    BY <1>3 DEF Ingest, Last
  <1>4. ASSUME UNCHANGED tables PROVE Last' = Last
    BY <1>4 DEF tables, Last
  <1>5. ASSUME NEW p \in Projections, Observe(p) PROVE
         /\ Last'.at <= now' /\ pending'.projection.at <= now'
         /\ pending'.projection.seq > Last'.seq => Last'.at <= pending'.projection.at
         /\ UNCHANGED tables \/ (Ingest(p) /\ Last.at <= p.at)
    <2>1. now' = p.at /\ pending'.projection = pending.projection
      BY <1>5 DEF Observe, DeliveryOK, DeliveryTypeOK
    <2>2. UNCHANGED tables \/ Ingest(p)
      BY <1>5 DEF Observe, Close
    <2>3. CASE UNCHANGED tables
      BY <1>1, <1>2, <1>4, <2>1, <2>3
    <2>4. CASE Ingest(p)
      BY <1>1, <1>2, <1>3, <2>1, <2>4
    <2> QED
      BY <2>2, <2>3, <2>4
  <1>6. ASSUME NEW p \in Projections, ObserveFails(p) PROVE
         /\ Last'.at <= now' /\ pending'.projection.at <= now'
         /\ pending'.projection.seq > Last'.seq => Last'.at <= pending'.projection.at
         /\ UNCHANGED tables
    <2>1. now' = p.at /\ pending'.projection = p /\ UNCHANGED tables
      BY <1>6 DEF ObserveFails
    <2> QED
      BY <1>1, <1>2, <1>4, <2>1
  <1>7. ASSUME NEW p \in Projections, ObserveLost(p) PROVE
         /\ Last'.at <= now' /\ pending'.projection.at <= now'
         /\ pending'.projection.seq > Last'.seq => Last'.at <= pending'.projection.at
         /\ Ingest(p) /\ Last.at <= p.at
    <2>1. now' = p.at /\ pending'.projection = p /\ Ingest(p)
      BY <1>7 DEF ObserveLost
    <2> QED
      BY <1>1, <1>2, <1>3, <2>1
  <1>8. ASSUME Redeliver PROVE
         /\ Last'.at <= now' /\ pending'.projection.at <= now'
         /\ pending'.projection.seq > Last'.seq => Last'.at <= pending'.projection.at
         /\ \/ UNCHANGED tables
            \/ \E p \in Projection : p.seq = Last.seq + 1 /\ Ingest(p) /\ Last.at <= p.at
    <2>1. PICK p : p = pending.projection
      OBVIOUS
    <2>2. now' = now /\ pending'.projection = p
      BY <1>8, <2>1 DEF Redeliver, DeliveryOK, DeliveryTypeOK
    <2>3. \/ UNCHANGED tables
          \/ p # NoProjection /\ Verdict(p) = "new" /\ Ingest(p)
      BY <1>8, <2>1 DEF Redeliver, Close, tables
    <2>4. CASE UNCHANGED tables
      BY <1>1, <1>4, <2>1, <2>2, <2>4
    <2>5. CASE p # NoProjection /\ Verdict(p) = "new" /\ Ingest(p)
      <3>1. p \in Projection /\ p.seq = Last.seq + 1
        BY <2>1, <2>5, RedeliveredNext
      <3>2. Last' = p
        BY <1>3, <2>5
      <3> QED
        BY <1>1, <2>1, <2>2, <2>5, <3>1, <3>2
    <2> QED
      BY <2>3, <2>4, <2>5
  <1>9. ASSUME Reopen \/ ReadAlerts \/ UNCHANGED vars PROVE UNCHANGED <<tables, now, pending>>
    BY <1>9 DEF Reopen, ReadAlerts, Close, vars
  <1>10. ASSUME Cleanup PROVE UNCHANGED <<Last, now, pending>>
    BY <1>10 DEF Cleanup, Last
  <1>11. CASE Reopen \/ ReadAlerts \/ UNCHANGED vars
    BY <1>4, <1>9, <1>11
  <1>12. CASE Cleanup
    BY <1>10, <1>12
  <1>13. CASE \E p \in Projections : Observe(p) \/ ObserveFails(p) \/ ObserveLost(p)
    BY <1>2, <1>3, <1>5, <1>6, <1>7, <1>13
  <1>14. CASE Redeliver
    BY <1>3, <1>8, <1>14
  <1> QED
    BY <1>11, <1>12, <1>13, <1>14 DEF Next

LEMMA InitTimes == Init => TimesOK
  BY DEF Init, TimesOK, Last, NoProjection, NothingPending, NoTime

LEMMA TimesStep ==
  ASSUME ClockForward
  PROVE  DeliveryOK /\ AlertsInvariant /\ TimesOK /\ [Next]_vars => TimesOK'
  <1> SUFFICES ASSUME DeliveryOK, AlertsInvariant, TimesOK, [Next]_vars PROVE TimesOK'
    OBVIOUS
  <1>1. TableOK(alerts) /\ \A r \in alerts : RowTimes(r, Last.at)
    BY DEF AlertsInvariant, TimesOK
  <1>2. /\ Last'.at <= now' /\ pending'.projection.at <= now'
        /\ pending'.projection.seq > Last'.seq => Last'.at <= pending'.projection.at
        /\ \/ UNCHANGED tables \/ Cleanup
           \/ \E p \in Projection : /\ p.seq = Last.seq + 1 /\ Ingest(p)
                                    /\ Last' = p /\ Last.at <= p.at
    BY StepClocks DEF TimesOK
  <1>3. CASE UNCHANGED tables
    <2>1. UNCHANGED <<alerts, Last>>
      BY <1>3, TablesKept
    <2> QED
      BY <1>1, <1>2, <2>1 DEF TimesOK
  <1>4. CASE Cleanup
    <2>1. Last' = Last
      BY <1>4 DEF Cleanup, Last
    <2>2. ASSUME NEW q \in alerts' PROVE RowTimes(q, Last.at)
      <3>1. PICK r \in alerts :
               /\ q = [r EXCEPT !.events = {e \in @ : \A d \in Chosen :
                                              ~(d[2] = 1 /\ d[3] = r.id /\ d[6] = e.n)}]
               /\ q.opened = r.opened /\ q.archived = r.archived /\ q.alert = r.alert
        BY <1>1, <1>4, CleanupRows
      <3>2. q.events \subseteq r.events
        BY <1>1, <3>1 DEF TableOK, AlertRow
      <3> QED
        BY <1>1, <3>1, <3>2 DEF RowTimes
    <2> QED
      BY <1>2, <2>1, <2>2 DEF TimesOK
  <1>5. ASSUME NEW p \in Projection, Ingest(p), Last' = p, Last.at <= p.at
        PROVE  TimesOK'
    <2>1. p.at \in Nat /\ Last.at \in Int
      BY DEF Projection, DeliveryOK, DeliveryTypeOK, NoProjection, NoTime
    <2>2. ASSUME NEW q \in alerts' PROVE RowTimes(q, p.at)
      <3>1. FreshRow(q, p.at) \/ \E r \in alerts : RowSteps(r, q, p.at)
        BY <1>1, <1>5, IngestSteps
      <3>2. ASSUME NEW r \in alerts, RowSteps(r, q, p.at) PROVE RowTimes(q, p.at)
        <4>1. r \in AlertRow /\ IsFiniteSet(r.events) /\ RowTimes(r, Last.at)
          BY <1>1 DEF TableOK
        <4> QED
          BY <1>5, <2>1, <3>2, <4>1, StepTimes
      <3> QED
        BY <2>1, <3>1, <3>2, FreshTimes
    <2> QED
      BY <1>2, <1>5, <2>2 DEF TimesOK
  <1> QED
    BY <1>2, <1>3, <1>4, <1>5

-----------------------------------------------------------------------------
(* Trust                                                                   *)

(* Ingestion never finds its tables malformed, whatever the clock does.    *)
LEMMA NeverMalformed ==
  ASSUME DeliveryOK, BaselineInvariant, AlertsInvariant, NEW p
  PROVE  ~Malformed(p)
  <1>1. ~AnchorBroken
    BY AnchorHolds
  <1>2. ~BaselineBroken
    BY DEF BaselineInvariant, BaselineOK, BaselineBroken
  <1>3. ASSUME NEW rows, rows \subseteq alerts, \A r \in rows : r.alert.lifecycle # "archived"
        PROVE  ~Doubled(rows)
    <2> SUFFICES ASSUME NEW r \in rows, NEW q \in rows, r # q, r.scope = q.scope, r.kind = q.kind
                 PROVE  FALSE
      BY DEF Doubled
    <2>1. r.id \in Nat /\ q.id \in Nat /\ r.id # q.id
      BY <1>3 DEF AlertsInvariant, TableOK, AlertRow
    <2>2. ~(r.id < q.id) /\ ~(q.id < r.id)
      BY <1>3 DEF AlertsInvariant, TableOK
    <2> QED
      BY <2>1, <2>2
  <1>4. ~Doubled(ActiveRows(alerts))
    BY <1>3 DEF ActiveRows, Active
  <1>5. ~Doubled(Eligible(alerts, p.at))
    BY <1>3 DEF Eligible
  <1> QED
    BY <1>1, <1>2, <1>4, <1>5 DEF Malformed

LEMMA AlwaysReadable ==
  ASSUME DeliveryOK, AlertsInvariant, TimesOK
  PROVE  AlertsReadable
  <1> SUFFICES ASSUME NEW r \in alerts PROVE Readable(r)
    BY DEF AlertsReadable
  <1>1. r \in AlertRow /\ RowTimes(r, Last.at)
    BY DEF AlertsInvariant, TableOK, TimesOK
  <1>2. Last.at \in Int
    BY DEF DeliveryOK, DeliveryTypeOK, Projection, NoProjection, NoTime
  <1> QED
    BY <1>1, <1>2, TimesReadable

(* Where the clock is not set back, every alert row passes the checks that *)
(* its readers make of it.                                                 *)
THEOREM AlertsReadableHolds ==
  ASSUME ClockForward
  PROVE  Spec => []AlertsReadable
  <1>1. DeliveryOK /\ AlertsInvariant /\ TimesOK /\ [Next]_vars => TimesOK'
    BY TimesStep
  <1>2. DeliveryOK /\ AlertsInvariant /\ TimesOK => AlertsReadable
    BY AlwaysReadable
  <1> QED
    BY <1>1, <1>2, InitDelivery, DeliveryStep, InitAlerts, AlertsStep, InitTimes, PTL DEF Spec

LEMMA TrustStep ==
  DeliveryOK /\ BaselineInvariant /\ AlertsInvariant /\ AlertsReadable /\ TrustKept
     /\ [Next]_vars => TrustKept'
  <1> SUFFICES ASSUME DeliveryOK, BaselineInvariant, AlertsInvariant, AlertsReadable, TrustKept,
                      [Next]_vars
               PROVE  TrustKept'
    OBVIOUS
  <1>1. store # "malformed"
    BY DEF TrustKept
  <1>2. ASSUME NEW p, Observe(p) \/ ObserveFails(p) \/ ObserveLost(p) PROVE store' # "malformed"
    BY <1>1, <1>2, NeverMalformed DEF Observe, ObserveFails, ObserveLost
  <1>3. ASSUME Redeliver PROVE store' # "malformed"
    BY <1>1, <1>3, NeverMalformed DEF Redeliver
  <1>4. ASSUME Reopen \/ Cleanup \/ ReadAlerts \/ UNCHANGED vars PROVE store' # "malformed"
    BY <1>1, <1>4 DEF Reopen, Cleanup, ReadAlerts, vars
  <1> QED
    BY <1>2, <1>3, <1>4 DEF Next, TrustKept

(* Where the clock is not set back, no sequence of its own observations,   *)
(* clean-ups, failures and restarts makes the store take its own tables    *)
(* for malformed.                                                          *)
THEOREM TrustKeptHolds ==
  ASSUME ClockForward
  PROVE  Spec => []TrustKept
  <1>1. Spec => []AlertsReadable
    BY AlertsReadableHolds
  <1>2. Init => TrustKept
    BY DEF Init, TrustKept
  <1> QED
    BY <1>1, <1>2, InitDelivery, DeliveryStep, InitBaseline, BaselineStep, InitAlerts, AlertsStep,
       TrustStep, PTL DEF Spec

-----------------------------------------------------------------------------
(* The events                                                              *)

LEMMA FreshTells ==
  ASSUME NEW q, NEW at \in Nat, FreshRow(q, at)
  PROVE  Tells(q)
  <1> DEFINE e == [n |-> 1, type |-> "opened", at |-> at, result |-> "open"]
  <1>1. /\ q.events = {e} /\ e.n = 1 /\ e.type = "opened" /\ e.result = "open" /\ e.at = at
        /\ q.alert.lifecycle = "open" /\ q.alert.occurrences = 1
    BY DEF FreshRow, NewAlert
  <1> HIDE DEF e
  <1>2. Cardinality(q.events) = 1
    BY <1>1, FS_Singleton
  <1>3. OfType(q, "recovered") = {} /\ OfType(q, "occurrence_updated") = {}
    BY <1>1 DEF OfType
  <1>4. Cardinality(OfType(q, "occurrence_updated")) = 0
    BY <1>3, FS_EmptySet
  <1>5. Saturated(1) = 1
    BY RulesAssumption DEF Saturated
  <1>6. Whole(q)
    BY <1>1, <1>2, <1>3, <1>4, <1>5 DEF Whole
  <1> QED
    BY <1>1, <1>6 DEF Tells, Numbered, LastSays

(* The event that records a move comes last, and says what it has made of  *)
(* the alert.                                                              *)
LEMMA StepTells ==
  ASSUME NEW r \in AlertRow, IsFiniteSet(r.events), NEW last \in Int, NEW at \in Nat,
         last <= at, RowTimes(r, last), Tells(r), NEW q, RowSteps(r, q, at)
  PROVE  Tells(q)
  <1>1. CASE q = r
    BY <1>1
  <1>2. CASE \E plan : Moves(r.alert, plan, at) /\ q = Changed(r, plan, at)
    <2>1. PICK plan : Moves(r.alert, plan, at) /\ q = Changed(r, plan, at)
      BY <1>2
    <2>2. PICK e : e = Happened(r, plan.event, at, plan.alert)
      OBVIOUS
    <2>3. q.alert = plan.alert /\ q.events = r.events \union {e}
      BY <2>1, <2>2, ChangedRow
    <2>4. PICK count \in Nat : count = Cardinality(r.events)
      BY FS_CardinalityType
    <2>5. e.n = count + 1 /\ e.type = plan.event /\ e.at = at /\ e.result = plan.alert.lifecycle
      BY <2>2, <2>4 DEF Happened
    <2>6. /\ r.alert \in AlertValue /\ r.alert.lifecycle # "archived" /\ Whole(r) /\ Numbered(r)
          /\ plan.event \in {"archived", "occurrence_updated", "recovered"}
          /\ (plan.alert.lifecycle = "archived" => plan.event = "archived")
          /\ (plan.event = "archived" => plan.alert.lifecycle = "archived")
      BY <2>1 DEF Moves, Tells, AlertRow, AlertValue
    <2>7. \A f \in r.events : f.n \in Nat \ {0} /\ f.n <= count /\ f.at \in Nat /\ f.at <= at
      BY <2>4, <2>6 DEF AlertRow, AlertEvent, Whole, RowTimes
    <2>8. Numbered(q)
      <3>1. \A f, g \in q.events : f.n = g.n => f = g
        BY <2>3, <2>5, <2>6, <2>7 DEF Numbered
      <3>2. \A f, g \in q.events : f.n < g.n => f.at <= g.at
        BY <2>3, <2>5, <2>6, <2>7 DEF Numbered
      <3> QED
        BY <3>1, <3>2 DEF Numbered
    <2>9. LastSays(q)
      <3> SUFFICES ASSUME NEW f \in q.events, \A g \in q.events : g.n <= f.n
                   PROVE  /\ f.result = q.alert.lifecycle
                          /\ q.alert.lifecycle = "archived" => f.type = "archived"
        BY DEF LastSays
      <3>1. f = e
        BY <2>3, <2>5, <2>7
      <3> QED
        BY <2>3, <2>5, <2>6, <3>1
    <2>10. CASE q.alert.lifecycle # "archived"
      <3>1. PICK first \in r.events : first.n = 1
        BY <2>6 DEF Whole
      <3>2. count >= 1 /\ e \notin r.events
        BY <2>5, <2>7, <3>1
      <3>3. Cardinality(q.events) = count + 1
        <4>1. Cardinality(r.events \union {e}) = Cardinality(r.events) + 1
          BY <3>2, FS_AddElement
        <4> QED
          BY <2>3, <2>4, <4>1
      <3>4. \A f \in q.events : f.n <= count + 1 /\ (f.type = "opened" <=> f.n = 1)
        BY <2>3, <2>5, <2>6, <2>7, <3>2 DEF Whole
      <3>5. \E f \in q.events : f.n = 1
        BY <2>3, <3>1
      <3>6. OfType(q, "recovered") # {} <=> q.alert.lifecycle = "recovered"
        <4>1. CASE plan.event = "recovered"
          <5>1. q.alert.lifecycle = "recovered"
            BY <2>1, <2>3, <2>6, <4>1 DEF Moves, AlertValue
          <5> QED
            BY <2>3, <2>5, <4>1, <5>1 DEF OfType
        <4>2. CASE plan.event = "occurrence_updated"
          <5>1. q.alert.lifecycle = r.alert.lifecycle
            BY <2>1, <2>3, <2>6, <4>2 DEF Moves, AlertValue
          <5>2. OfType(q, "recovered") = OfType(r, "recovered")
            BY <2>3, <2>5, <4>2 DEF OfType
          <5> QED
            BY <2>6, <5>1, <5>2 DEF Whole
        <4> QED
          BY <2>3, <2>6, <2>10, <4>1, <4>2
      <3>7. PICK updates : updates = OfType(r, "occurrence_updated")
        OBVIOUS
      <3>8. IsFiniteSet(updates) /\ Cardinality(updates) \in Nat
        <4>1. updates \in SUBSET r.events
          BY <3>7 DEF OfType
        <4> QED
          BY <4>1, FS_Subset, FS_CardinalityType
      <3>9. Saturated(Cardinality(OfType(q, "occurrence_updated")) + 1) = q.alert.occurrences
        <4>1. r.alert.occurrences = Saturated(Cardinality(updates) + 1)
          BY <2>6, <3>7 DEF Whole
        <4>2. CASE plan.event = "recovered"
          <5>1. q.alert.occurrences = r.alert.occurrences
            BY <2>1, <2>3, <2>6, <4>2 DEF Moves, AlertValue
          <5>2. OfType(q, "occurrence_updated") = updates
            BY <2>3, <2>5, <3>7, <4>2 DEF OfType
          <5> QED
            BY <4>1, <5>1, <5>2
        <4>3. CASE plan.event = "occurrence_updated"
          <5>1. q.alert.occurrences = Saturated(r.alert.occurrences + 1)
            BY <2>1, <2>3, <2>6, <4>3 DEF Moves, AlertValue
          <5>2. OfType(q, "occurrence_updated") = updates \union {e}
            BY <2>3, <2>5, <3>7, <4>3 DEF OfType
          <5>3. e \notin updates
            BY <3>2, <3>7 DEF OfType
          <5>4. Cardinality(OfType(q, "occurrence_updated")) = Cardinality(updates) + 1
            BY <3>8, <5>2, <5>3, FS_AddElement
          <5> QED
            BY <3>8, <4>1, <5>1, <5>4, RulesAssumption DEF Saturated
        <4> QED
          BY <2>3, <2>6, <2>10, <4>2, <4>3
      <3> QED
        BY <2>4, <2>8, <2>9, <3>3, <3>4, <3>5, <3>6, <3>9 DEF Tells, Whole
    <2> QED
      BY <2>8, <2>9, <2>10 DEF Tells
  <1> QED
    BY <1>1, <1>2 DEF RowSteps

(* Deletions are totally ordered: finitely many, and what comes before one *)
(* that is chosen is chosen too.                                           *)
LEMMA BeforeTransitive ==
  ASSUME NEW d, NEW e, NEW f,
         \A x \in 1 .. 6 : d[x] \in Int /\ e[x] \in Int /\ f[x] \in Int,
         Before(d, e), Before(e, f)
  PROVE  Before(d, f)
  <1>1. PICK i \in 1 .. 6 : d[i] < e[i] /\ \A j \in 1 .. (i - 1) : d[j] = e[j]
    BY DEF Before
  <1>2. PICK k \in 1 .. 6 : e[k] < f[k] /\ \A j \in 1 .. (k - 1) : e[j] = f[j]
    BY DEF Before
  <1>3. CASE i <= k
    <2>1. d[i] < f[i] /\ \A j \in 1 .. (i - 1) : d[j] = f[j]
      BY <1>1, <1>2, <1>3
    <2> QED
      BY <2>1 DEF Before
  <1>4. CASE k < i
    <2>1. d[k] < f[k] /\ \A j \in 1 .. (k - 1) : d[j] = f[j]
      BY <1>1, <1>2, <1>4
    <2> QED
      BY <2>1 DEF Before
  <1> QED
    BY <1>3, <1>4

SampleDeletion(s) == <<s.at, 0, s.seq, 0, 0, 0>>
EventDeletion(r, e) == <<r.alert.recovered, 1, r.id, 0, e.at, e.n>>
RowDeletion(r) == <<r.alert.recovered, 1, r.id, 1, 0, 0>>

LEMMA DeletionsAre ==
  ASSUME samples \subseteq Sample, IsFiniteSet(samples), TableOK(alerts)
  PROVE  /\ IsFiniteSet(Deletions)
         /\ \A d \in Deletions : \A x \in 1 .. 6 : d[x] \in Int
         /\ \A r \in OldAlerts(alerts) : \A e \in r.events : EventDeletion(r, e) \in Deletions
         /\ \A d \in Deletions : d[2] = 1 /\ d[6] # 0 =>
               \E r \in OldAlerts(alerts) : \E e \in r.events : d = EventDeletion(r, e)
  <1> DEFINE old == OldAlerts(alerts)
             gone == {s \in samples : s.at < Cutoff}
             first == {SampleDeletion(s) : s \in gone}
             of(r) == {EventDeletion(r, e) : e \in r.events} \union {RowDeletion(r)}
             rest == UNION {of(r) : r \in old}
  <1>1. Deletions = first \union rest
    BY DEF Deletions, SampleDeletion, EventDeletion, RowDeletion
  <1>2. old \in SUBSET alerts /\ gone \in SUBSET samples
    BY DEF OldAlerts
  <1>3. IsFiniteSet(old) /\ IsFiniteSet(gone)
    <2> HIDE DEF old, gone
    <2> QED
      BY <1>2, FS_Subset DEF TableOK
  <1>4. ASSUME NEW r \in old
        PROVE  r \in AlertRow /\ IsFiniteSet(r.events)
    BY <1>2 DEF TableOK
  <1>5. IsFiniteSet(first)
    <2> DEFINE f == [s \in gone |-> SampleDeletion(s)]
    <2>1. f \in Surjection(gone, first)
      BY DEF Surjection
    <2> HIDE DEF f, gone, first
    <2> QED
      BY <1>3, <2>1, FS_Surjection
  <1>6. ASSUME NEW r \in old PROVE IsFiniteSet(of(r))
    <2> DEFINE events == r.events
               image == {EventDeletion(r, e) : e \in events}
               f == [e \in events |-> EventDeletion(r, e)]
    <2>1. f \in Surjection(events, image)
      BY DEF Surjection
    <2>2. IsFiniteSet(events)
      BY <1>4
    <2>3. of(r) = image \union {RowDeletion(r)}
      OBVIOUS
    <2> HIDE DEF f, events, image, of
    <2>4. IsFiniteSet(image)
      BY <2>1, <2>2, FS_Surjection
    <2> QED
      BY <2>3, <2>4, FS_AddElement
  <1>7. IsFiniteSet(rest)
    <2> DEFINE parts == {of(r) : r \in old}
               f == [r \in old |-> of(r)]
    <2>1. f \in Surjection(old, parts)
      BY DEF Surjection
    <2>2. \A T \in parts : IsFiniteSet(T)
      BY <1>6
    <2> HIDE DEF f, old, of, parts
    <2>3. IsFiniteSet(parts)
      BY <1>3, <2>1, FS_Surjection
    <2>4. IsFiniteSet(UNION parts)
      BY <2>2, <2>3, FS_UNION
    <2> QED
      BY <2>4 DEF parts
  <1>8. IsFiniteSet(Deletions)
    <2> HIDE DEF first, rest
    <2> QED
      BY <1>1, <1>5, <1>7, FS_Union
  <1>9. \A r \in old : \A e \in r.events : EventDeletion(r, e) \in Deletions
    BY <1>1
  <1>10. ASSUME NEW d \in Deletions
         PROVE  \/ \E s \in gone : d = SampleDeletion(s)
                \/ \E r \in old : d = RowDeletion(r) \/ \E e \in r.events : d = EventDeletion(r, e)
    BY <1>1
  <1>11. ASSUME NEW s \in gone PROVE
            SampleDeletion(s)[2] = 0 /\ \A x \in 1 .. 6 : SampleDeletion(s)[x] \in Int
    <2>1. s.at \in Int /\ s.seq \in Int
      BY <1>2 DEF Sample
    <2> QED
      BY <2>1 DEF SampleDeletion
  <1>12. ASSUME NEW r \in old PROVE
            RowDeletion(r)[6] = 0 /\ \A x \in 1 .. 6 : RowDeletion(r)[x] \in Int
    <2>1. r.alert.recovered \in Int /\ r.id \in Int
      BY <1>4 DEF AlertRow, AlertValue
    <2> QED
      BY <2>1 DEF RowDeletion
  <1>13. ASSUME NEW r \in old, NEW e \in r.events PROVE
            \A x \in 1 .. 6 : EventDeletion(r, e)[x] \in Int
    <2>1. r.alert.recovered \in Int /\ r.id \in Int /\ e.at \in Int /\ e.n \in Int
      BY <1>4 DEF AlertRow, AlertValue, AlertEvent
    <2> QED
      BY <2>1 DEF EventDeletion
  <1> HIDE DEF gone, old
  <1>14. \A d \in Deletions : \A x \in 1 .. 6 : d[x] \in Int
    BY <1>10, <1>11, <1>12, <1>13
  <1>15. \A d \in Deletions : d[2] = 1 /\ d[6] # 0 =>
            \E r \in old : \E e \in r.events : d = EventDeletion(r, e)
    BY <1>10, <1>11, <1>12
  <1> QED
    BY <1>8, <1>9, <1>14, <1>15 DEF old

LEMMA ChosenClosed ==
  ASSUME IsFiniteSet(Deletions), \A d \in Deletions : \A x \in 1 .. 6 : d[x] \in Int,
         NEW d \in Deletions, NEW e \in Chosen, Before(d, e)
  PROVE  d \in Chosen
  <1> DEFINE earlier(f) == {g \in Deletions : Before(g, f)}
  <1>1. e \in Deletions /\ Cardinality(earlier(e)) < RowBudget /\ RowBudget \in Nat
    BY HistoryAssumption DEF Chosen
  <1>2. earlier(e) \in SUBSET Deletions
    OBVIOUS
  <1>3. earlier(d) \in SUBSET earlier(e)
    <2> SUFFICES ASSUME NEW g \in Deletions, Before(g, d) PROVE Before(g, e)
      OBVIOUS
    <2>1. \A x \in 1 .. 6 : g[x] \in Int /\ d[x] \in Int /\ e[x] \in Int
      BY <1>1
    <2> QED
      BY <2>1, BeforeTransitive
  <1> HIDE DEF earlier
  <1>4. IsFiniteSet(earlier(e))
    BY <1>2, FS_Subset
  <1>5. Cardinality(earlier(d)) <= Cardinality(earlier(e))
    BY <1>3, <1>4, FS_Subset
  <1>6. Cardinality(earlier(d)) \in Nat /\ Cardinality(earlier(e)) \in Nat
    BY <1>3, <1>4, FS_Subset, FS_CardinalityType
  <1>7. Cardinality(earlier(d)) < RowBudget
    BY <1>1, <1>5, <1>6
  <1> QED
    BY <1>7 DEF Chosen, earlier

(* Retention takes the events of an alert from the front.                  *)
LEMMA CleanupTells ==
  ASSUME samples \subseteq Sample, IsFiniteSet(samples), TableOK(alerts), EventsOK, Cleanup,
         NEW q \in alerts'
  PROVE  Tells(q)
  <1>1. PICK r \in alerts :
               /\ q = [r EXCEPT !.events = {e \in @ : \A d \in Chosen :
                                              ~(d[2] = 1 /\ d[3] = r.id /\ d[6] = e.n)}]
               /\ q.alert = r.alert
               /\ r.alert.lifecycle # "archived" => q = r
    BY CleanupRows
  <1>2. r \in AlertRow /\ Tells(r)
    BY DEF TableOK, EventsOK
  <1>3. CASE r.alert.lifecycle # "archived"
    BY <1>1, <1>2, <1>3
  <1>4. CASE r.alert.lifecycle = "archived"
    <2>1. q.events = {e \in r.events : \A d \in Chosen :
                                          ~(d[2] = 1 /\ d[3] = r.id /\ d[6] = e.n)}
      BY <1>1, <1>2 DEF AlertRow
    <2>2. Numbered(q)
      BY <1>2, <2>1 DEF Tells, Numbered
    <2>3. ASSUME NEW e \in q.events, NEW f \in r.events, e.n < f.n
          PROVE  f \in q.events
      <3> SUFFICES ASSUME NEW d \in Chosen, d[2] = 1, d[3] = r.id, d[6] = f.n PROVE FALSE
        BY <2>1
      <3>1. /\ e.n \in Nat \ {0} /\ f.n \in Nat \ {0} /\ e.at \in Nat /\ f.at \in Nat
            /\ e \in r.events /\ r.id \in Nat
        BY <1>2, <2>1 DEF AlertRow, AlertEvent
      <3>2. d \in Deletions
        BY DEF Chosen
      <3>3. PICK s \in OldAlerts(alerts) : \E e1 \in s.events : d = EventDeletion(s, e1)
        BY <3>1, <3>2, DeletionsAre
      <3>4. PICK g \in s.events : d = EventDeletion(s, g)
        BY <3>3
      <3>5. s = r /\ g.n = f.n
        <4>1. s \in alerts /\ d[3] = s.id /\ d[6] = g.n
          BY <3>4 DEF OldAlerts, EventDeletion
        <4> QED
          BY <4>1 DEF TableOK
      <3>6. g = f
        BY <1>2, <3>5, <3>4 DEF Tells, Numbered
      <3>7. EventDeletion(r, e) \in Deletions
        BY <3>1, <3>3, <3>5, DeletionsAre
      <3>8. e.at <= f.at
        BY <1>2, <2>3, <3>1 DEF Tells, Numbered
      <3>9. Before(EventDeletion(r, e), d)
        <4> DEFINE c == EventDeletion(r, e)
        <4>1. d = EventDeletion(r, f)
          BY <3>5, <3>6, <3>4
        <4>2. /\ \A j \in 1 .. 4 : c[j] = d[j]
              /\ c[5] = e.at /\ d[5] = f.at /\ c[6] = e.n /\ d[6] = f.n
          BY <4>1 DEF EventDeletion
        <4> HIDE DEF c
        <4>3. CASE e.at < f.at
          <5>1. 5 \in 1 .. 6 /\ c[5] < d[5] /\ \A j \in 1 .. (5 - 1) : c[j] = d[j]
            BY <4>2, <4>3
          <5> QED
            BY <5>1 DEF Before, c
        <4>4. CASE e.at = f.at
          <5>1. 6 \in 1 .. 6 /\ c[6] < d[6] /\ \A j \in 1 .. (6 - 1) : c[j] = d[j]
            BY <2>3, <4>2, <4>4
          <5> QED
            BY <5>1 DEF Before, c
        <4> QED
          BY <3>1, <3>8, <4>3, <4>4
      <3>10. PICK c \in Chosen : c = EventDeletion(r, e)
        BY <3>7, <3>9, DeletionsAre, ChosenClosed
      <3>11. c[2] = 1 /\ c[3] = r.id /\ c[6] = e.n
        BY <3>10 DEF EventDeletion
      <3> QED
        BY <2>1, <3>11
    <2>4. LastSays(q)
      <3> SUFFICES ASSUME NEW e \in q.events, \A f \in q.events : f.n <= e.n
                   PROVE  /\ e.result = q.alert.lifecycle
                          /\ q.alert.lifecycle = "archived" => e.type = "archived"
        BY DEF LastSays
      <3>1. e \in r.events
        BY <2>1
      <3>2. \A f \in r.events : f.n \in Nat /\ (f \in q.events => f.n <= e.n)
        BY <1>2 DEF AlertRow, AlertEvent
      <3>3. \A f \in r.events : f.n <= e.n
        BY <2>3, <3>1, <3>2
      <3> QED
        BY <1>1, <1>2, <3>1, <3>3 DEF Tells, LastSays
    <2> QED
      BY <1>1, <1>4, <2>2, <2>4 DEF Tells
  <1> QED
    BY <1>3, <1>4

LEMMA EventsStep ==
  ASSUME ClockForward
  PROVE  DeliveryOK /\ BaselineInvariant /\ AlertsInvariant /\ TimesOK /\ EventsOK /\ [Next]_vars
            => EventsOK'
  <1> SUFFICES ASSUME DeliveryOK, BaselineInvariant, AlertsInvariant, TimesOK, EventsOK, [Next]_vars
               PROVE  EventsOK'
    OBVIOUS
  <1>1. TableOK(alerts) /\ \A r \in alerts : RowTimes(r, Last.at) /\ Tells(r)
    BY DEF AlertsInvariant, TimesOK, EventsOK
  <1>2. \/ UNCHANGED tables \/ Cleanup
        \/ \E p \in Projection : /\ p.seq = Last.seq + 1 /\ Ingest(p)
                                 /\ Last' = p /\ Last.at <= p.at
    BY StepClocks DEF TimesOK
  <1>3. CASE UNCHANGED tables
    <2>1. UNCHANGED alerts
      BY <1>3, TablesKept
    <2> QED
      BY <1>1, <2>1 DEF EventsOK
  <1>4. CASE Cleanup
    <2>1. \A q \in alerts' : Tells(q)
      BY <1>1, <1>4, CleanupTells DEF BaselineInvariant, BaselineOK
    <2> QED
      BY <2>1 DEF EventsOK
  <1>5. ASSUME NEW p \in Projection, Ingest(p), Last.at <= p.at
        PROVE  EventsOK'
    <2>1. p.at \in Nat /\ Last.at \in Int
      BY DEF Projection, DeliveryOK, DeliveryTypeOK, NoProjection, NoTime
    <2>2. ASSUME NEW q \in alerts' PROVE Tells(q)
      <3>1. FreshRow(q, p.at) \/ \E r \in alerts : RowSteps(r, q, p.at)
        BY <1>1, <1>5, IngestSteps
      <3>2. ASSUME NEW r \in alerts, RowSteps(r, q, p.at) PROVE Tells(q)
        <4>1. r \in AlertRow /\ IsFiniteSet(r.events) /\ RowTimes(r, Last.at) /\ Tells(r)
          BY <1>1 DEF TableOK
        <4> QED
          BY <1>5, <2>1, <3>2, <4>1, StepTells
      <3> QED
        BY <2>1, <3>1, <3>2, FreshTells
    <2> QED
      BY <2>2 DEF EventsOK
  <1> QED
    BY <1>2, <1>3, <1>4, <1>5

LEMMA EventsTell ==
  ASSUME TableOK(alerts), EventsOK
  PROVE  EventsTellLifecycle
  <1> SUFFICES ASSUME NEW r \in alerts
       PROVE LET Latest == CHOOSE e \in r.events : \A f \in r.events : f.n <= e.n
                 Of(type) == {e \in r.events : e.type = type}
             IN /\ r.events # {} =>
                      /\ Latest.result = r.alert.lifecycle
                      /\ \A e, f \in r.events : e.n < f.n => e.at <= f.at
                /\ r.alert.lifecycle # "archived" =>
                      /\ Cardinality(Of("opened")) = 1
                      /\ Of("recovered") # {} <=> r.alert.lifecycle = "recovered"
                      /\ Saturated(Cardinality(Of("occurrence_updated")) + 1)
                            = r.alert.occurrences
                /\ (r.alert.lifecycle = "archived" /\ r.events # {}) => Latest.type = "archived"
    BY DEF EventsTellLifecycle
  <1>1. r \in AlertRow /\ IsFiniteSet(r.events) /\ Tells(r)
    BY DEF TableOK, EventsOK
  <1>2. PICK latest : latest = CHOOSE e \in r.events : \A f \in r.events : f.n <= e.n
    OBVIOUS
  <1>3. ASSUME r.events # {}
        PROVE  latest.result = r.alert.lifecycle /\ (r.alert.lifecycle = "archived" => latest.type = "archived")
    <2> DEFINE events == r.events
               number == [e \in events |-> e.n]
    <2>1. number \in [events -> Int]
      BY <1>1 DEF AlertRow, AlertEvent
    <2>2. events # {} /\ IsFiniteSet(events)
      BY <1>1, <1>3
    <2>3. \E e \in events : \A f \in events : number[f] <= number[e]
      <3> HIDE DEF number, events
      <3> QED
        BY <2>1, <2>2, FiniteHasLast
    <2>4. \E e \in r.events : \A f \in r.events : f.n <= e.n
      BY <2>3
    <2>5. latest \in r.events /\ \A f \in r.events : f.n <= latest.n
      BY <1>2, <2>4
    <2> QED
      BY <1>1, <2>5 DEF Tells, LastSays
  <1>4. ASSUME r.alert.lifecycle # "archived"
        PROVE  Cardinality({e \in r.events : e.type = "opened"}) = 1
    <2>1. PICK e \in r.events : e.n = 1
      BY <1>1, <1>4 DEF Tells, Whole
    <2>2. {f \in r.events : f.type = "opened"} = {e}
      BY <1>1, <1>4, <2>1 DEF Tells, Whole, Numbered
    <2> QED
      BY <2>2, FS_Singleton
  <1>5. r.alert.lifecycle # "archived" =>
           /\ {e \in r.events : e.type = "recovered"} # {} <=> r.alert.lifecycle = "recovered"
           /\ Saturated(Cardinality({e \in r.events : e.type = "occurrence_updated"}) + 1)
                 = r.alert.occurrences
    BY <1>1 DEF Tells, Whole, OfType
  <1>6. \A e, f \in r.events : e.n < f.n => e.at <= f.at
    BY <1>1 DEF Tells, Numbered
  <1> QED
    BY <1>2, <1>3, <1>4, <1>5, <1>6

(* Where the clock is not set back, the events that an alert has left tell *)
(* its life to the end, and those of one that is not archived all of it.   *)
THEOREM EventsTellLifecycleHolds ==
  ASSUME ClockForward
  PROVE  Spec => []EventsTellLifecycle
  <1>1. DeliveryOK /\ AlertsInvariant /\ TimesOK /\ [Next]_vars => TimesOK'
    BY TimesStep
  <1>2. DeliveryOK /\ BaselineInvariant /\ AlertsInvariant /\ TimesOK /\ EventsOK /\ [Next]_vars
           => EventsOK'
    BY EventsStep
  <1>3. Init => EventsOK
    BY DEF Init, EventsOK
  <1>4. AlertsInvariant /\ EventsOK => EventsTellLifecycle
    BY EventsTell DEF AlertsInvariant
  <1> QED
    BY <1>1, <1>2, <1>3, <1>4, InitDelivery, DeliveryStep, InitBaseline, BaselineStep, InitAlerts,
       AlertsStep, InitTimes, PTL DEF Spec

-----------------------------------------------------------------------------
(* Types                                                                   *)

LEMMA EvaluationType ==
  ASSUME NEW state \in EvaluationState, NEW status \in {"healthy", "degraded", "unavailable"},
         NEW disabled, NEW active
  PROVE  EvaluateHealth(state, status, disabled, active).state \in EvaluationState
  <1>1. PICK n : n = Consecutive(state, status)
    OBVIOUS
  <1>2. n \in Nat
    BY <1>1, RulesAssumption DEF Consecutive, Saturated, EvaluationState
  <1>3. /\ Settled(status) \in EvaluationState /\ Settled("healthy") \in EvaluationState
        /\ Counting(status, n) \in EvaluationState
    BY <1>2 DEF Settled, Counting, EvaluationState, StatusValue, NoStatus
  <1>4. CASE disabled
    BY <1>3, <1>4 DEF EvaluateHealth
  <1>5. CASE ~disabled /\ status = "healthy"
    BY <1>1, <1>3, <1>5 DEF EvaluateHealth, EvaluateHealthy
  <1>6. CASE ~disabled /\ status # "healthy"
    BY <1>1, <1>3, <1>6 DEF EvaluateHealth
  <1> QED
    BY <1>4, <1>5, <1>6

OtherTypes ==
    /\ evaluation \in [HealthScope -> EvaluationState]
    /\ store \in {"open", "untrusted", "malformed"} /\ happened \in Nat

LEMMA OtherTypesStep == DeliveryOK /\ OtherTypes /\ [Next]_vars => OtherTypes'
  <1> SUFFICES ASSUME DeliveryOK, OtherTypes, [Next]_vars PROVE OtherTypes'
    OBVIOUS
  <1>1. ASSUME NEW p \in Projection, Ingest(p)
        PROVE  evaluation' \in [HealthScope -> EvaluationState]
    <2>1. PICK verdicts : /\ verdicts = Verdicts(ArchiveEligible(alerts, p.at), p)
                          /\ evaluation' = [s \in HealthScope |-> verdicts[s].state]
      BY <1>1 DEF Ingest
    <2>2. ASSUME NEW s \in HealthScope PROVE verdicts[s].state \in EvaluationState
      <3>1. /\ evaluation[s] \in EvaluationState
            /\ Status(p.report, s) \in {"healthy", "degraded", "unavailable"}
        BY StatusIs DEF OtherTypes, Projection
      <3> QED
        BY <2>1, <3>1, EvaluationType DEF Verdicts
    <2> QED
      BY <2>1, <2>2
  <1>2. evaluation' \in [HealthScope -> EvaluationState]
    <2>1. CASE UNCHANGED tables
      BY <2>1, TablesKept DEF OtherTypes
    <2>2. CASE Cleanup
      BY <2>2 DEF Cleanup, OtherTypes
    <2> QED
      BY <1>1, <2>1, <2>2, StepKinds
  <1>3. ASSUME NEW p, Observe(p) \/ ObserveFails(p) \/ ObserveLost(p)
        PROVE  store' \in {"open", "untrusted", "malformed"} /\ happened' \in Nat
    BY <1>3 DEF Observe, ObserveFails, ObserveLost, Close, OtherTypes
  <1>4. ASSUME Redeliver \/ Reopen \/ Cleanup \/ ReadAlerts \/ UNCHANGED vars
        PROVE  store' \in {"open", "untrusted", "malformed"} /\ happened' \in Nat
    BY <1>4 DEF Redeliver, Reopen, Cleanup, ReadAlerts, Close, OtherTypes, vars
  <1> QED
    BY <1>2, <1>3, <1>4 DEF Next, OtherTypes

(* Every table keeps its types: no step stores a row of another shape.     *)
THEOREM TypeCorrect == Spec => []HistoryTypeOK
  <1>1. Init => OtherTypes
    BY DEF Init, OtherTypes, EvaluationState, StatusValue, NoStatus
  <1>2. DeliveryOK /\ BaselineInvariant /\ AlertsInvariant /\ OtherTypes => HistoryTypeOK
    <2> SUFFICES ASSUME DeliveryOK, BaselineInvariant, AlertsInvariant, OtherTypes
                 PROVE  HistoryTypeOK
      OBVIOUS
    <2>1. checkpoint.count \in Nat
      BY RulesAssumption
         DEF DeliveryOK, DeliveryTypeOK, LedgerOK, Saturated, Projection, NoProjection
    <2>2. checkpoint \in [last : Projection \union {NoProjection}, count : Nat]
      BY <2>1 DEF DeliveryOK, DeliveryTypeOK
    <2>3. pending \in [projection : Projection \union {NoProjection}, committed : BOOLEAN]
      BY DEF DeliveryOK, DeliveryTypeOK
    <2> QED
      BY <2>2, <2>3 DEF HistoryTypeOK, DeliveryOK, DeliveryTypeOK, BaselineInvariant, Sample,
                        AlertsInvariant, TableOK, Phases, OtherTypes
  <1> QED
    BY <1>1, <1>2, InitDelivery, DeliveryStep, InitBaseline, BaselineStep, InitAlerts, AlertsStep,
       OtherTypesStep, PTL DEF Spec

-----------------------------------------------------------------------------
(* The newest row of a pair                                                *)

CurrentIn(table, pair) == LastRow(RowsOf(table, pair[1], pair[2])).alert

(* A row that is not archived is the newest of its pair.                   *)
LEMMA OpenIsLast ==
  ASSUME NEW table, TableOK(table), NEW scope, NEW kind, NEW r \in RowsOf(table, scope, kind),
         r.alert.lifecycle # "archived"
  PROVE  LastRow(RowsOf(table, scope, kind)) = r
  <1> DEFINE rows == RowsOf(table, scope, kind)
  <1>1. rows \subseteq table /\ rows \subseteq AlertRow /\ IsFiniteSet(rows)
    BY RowsOfFinite
  <1>2. rows # {}
    OBVIOUS
  <1>3. PICK q : q = LastRow(rows)
    OBVIOUS
  <1>4. q \in rows /\ r.id <= q.id
    BY <1>1, <1>2, <1>3, LastRowIs
  <1>5. r \in table /\ q \in table /\ r.id \in Nat /\ q.id \in Nat
        /\ r.scope = q.scope /\ r.kind = q.kind
    BY <1>1, <1>4 DEF RowsOf, AlertRow
  <1>6. ~(r.id < q.id)
    BY <1>5 DEF TableOK
  <1>7. r = q
    BY <1>4, <1>5, <1>6 DEF TableOK
  <1> QED
    BY <1>3, <1>7

(* So an active one is, and there is one where the newest is active.       *)
LEMMA ActiveIsLast ==
  ASSUME NEW table, TableOK(table), NEW scope, NEW kind
  PROVE  LET rows == RowsOf(table, scope, kind) IN
         /\ Active(LastRow(rows).alert) <=> ActiveRows(rows) # {}
         /\ ActiveRows(rows) # {} => LastRow(ActiveRows(rows)) = LastRow(rows)
  <1> DEFINE rows == RowsOf(table, scope, kind)
  <1>1. /\ rows \subseteq AlertRow /\ IsFiniteSet(rows)
        /\ ActiveRows(rows) \subseteq rows /\ IsFiniteSet(ActiveRows(rows))
    BY RowsOfFinite
  <1>2. CASE ActiveRows(rows) # {}
    <2>1. PICK r : r = LastRow(ActiveRows(rows))
      OBVIOUS
    <2>2. r \in ActiveRows(rows)
      BY <1>1, <1>2, <2>1, LastRowIs
    <2>3. r \in rows /\ Active(r.alert) /\ r.alert.lifecycle # "archived"
      BY <1>1, <2>2 DEF ActiveRows, Active
    <2>4. LastRow(rows) = r
      BY <2>3, OpenIsLast
    <2> QED
      BY <1>2, <2>1, <2>3, <2>4
  <1>3. CASE ActiveRows(rows) = {}
    <2>1. rows = {} => ~Active(LastRow(rows).alert)
      BY <1>1, LastRowIs DEF NoRow, NoAlert, Active
    <2>2. rows # {} => LastRow(rows) \in rows
      BY <1>1, LastRowIs
    <2>3. rows # {} => ~Active(LastRow(rows).alert)
      <3> HIDE DEF rows
      <3> QED
        BY <1>3, <2>2 DEF ActiveRows
    <2>4. ~Active(LastRow(rows).alert)
      BY <2>1, <2>3
    <2> QED
      BY <1>3, <2>4
  <1> QED
    BY <1>2, <1>3

(* If no row is added, the image of the newest is the newest.              *)
LEMMA LastKept ==
  ASSUME NEW rows, rows \subseteq AlertRow, IsFiniteSet(rows), rows # {},
         NEW after, after \subseteq AlertRow, IsFiniteSet(after),
         \A q, c \in after : q.id = c.id => q = c,
         \A q \in after : \E r \in rows : q.id = r.id,
         NEW image \in after, image.id = LastRow(rows).id
  PROVE  LastRow(after) = image
  <1>1. PICK q : q = LastRow(after)
    OBVIOUS
  <1>2. q \in after /\ image.id <= q.id
    BY <1>1, LastRowIs
  <1>3. PICK r \in rows : q.id = r.id
    BY <1>2
  <1>4. r.id <= LastRow(rows).id
    BY LastRowIs
  <1>5. q.id \in Nat /\ image.id \in Nat
    BY <1>2 DEF AlertRow
  <1>6. q.id = image.id
    BY <1>2, <1>3, <1>4, <1>5
  <1> QED
    BY <1>1, <1>2, <1>6

-----------------------------------------------------------------------------
(* What one transaction makes of the newest row of a pair                  *)

CooledDown(a, at) == a.lifecycle = "recovered" /\ a.cooldown <= at

Archives(q, r, at) ==
    /\ q.id = r.id /\ q.scope = r.scope /\ q.kind = r.kind
    /\ IF CooledDown(r.alert, at)
       THEN q.alert = [r.alert EXCEPT !.lifecycle = "archived"] ELSE q = r

LEMMA ArchivedRows ==
  ASSUME NEW table, TableOK(table), NEW at \in Nat
  PROVE  LET archived == ArchiveEligible(table, at)
         IN /\ \A q \in archived : \E r \in table : Archives(q, r, at)
            /\ \A r \in table : \E q \in archived : Archives(q, r, at)
  <1> DEFINE archived == ArchiveEligible(table, at)
             next == [r \in table |->
                        IF r \in Eligible(table, at)
                        THEN Changed(r, Plan(r, Archive(r.alert, at)), at) ELSE r]
  <1>1. archived = {next[r] : r \in table}
    BY DEF ArchiveEligible
  <1>2. ASSUME NEW r \in table
        PROVE  Archives(next[r], r, at)
    <2>1. r \in AlertRow /\ IsFiniteSet(r.events) /\ r.alert \in AlertValue
      BY DEF TableOK, AlertRow
    <2>2. CASE CooledDown(r.alert, at)
      <3>1. PICK plan : plan = Plan(r, Archive(r.alert, at))
        OBVIOUS
      <3>2. r \in Eligible(table, at) /\ r.alert.lifecycle = "recovered"
            /\ r.alert.cooldown <= at
        BY <2>2 DEF Eligible, CooledDown
      <3>3. Archive(r.alert, at) = [event |-> "archived",
                                    alert |-> [r.alert EXCEPT !.lifecycle = "archived"]]
        BY <2>1, <3>2 DEF Archive, AlertValue
      <3>4. plan.alert = [r.alert EXCEPT !.lifecycle = "archived"]
            /\ Moves(r.alert, plan, at)
        BY <3>1, <3>2, <3>3 DEF Moves, Plan
      <3>5. next[r] = Changed(r, plan, at)
        BY <3>1, <3>2
      <3>6. PICK q : q = next[r]
        OBVIOUS
      <3>7. q.id = r.id /\ q.scope = r.scope /\ q.kind = r.kind /\ q.alert = plan.alert
        BY <2>1, <3>4, <3>5, <3>6, ChangedRow
      <3>8. Archives(q, r, at)
        BY <2>2, <3>4, <3>7 DEF Archives
      <3> QED
        BY <3>6, <3>8
    <2>3. CASE ~CooledDown(r.alert, at)
      <3>1. next[r] = r
        BY <2>3 DEF Eligible, CooledDown
      <3> QED
        BY <2>3, <3>1 DEF Archives
    <2> QED
      BY <2>2, <2>3
  <1> HIDE DEF next
  <1> QED
    BY <1>1, <1>2

(* The newest row of a pair is archived when it has cooled down, and no    *)
(* other row becomes the newest; the active rows are the same.             *)
LEMMA ArchivedCurrent ==
  ASSUME NEW table, TableOK(table), NEW at \in Nat, NEW pair
  PROVE  LET archived == ArchiveEligible(table, at)
             a == CurrentIn(table, pair)
             b == CurrentIn(archived, pair)
         IN /\ RowsOf(table, pair[1], pair[2]) = {} <=> RowsOf(archived, pair[1], pair[2]) = {}
            /\ IF CooledDown(a, at) THEN b = [a EXCEPT !.lifecycle = "archived"] ELSE b = a
  <1>1. PICK archived : archived = ArchiveEligible(table, at)
    OBVIOUS
  <1>2. PICK rows : rows = RowsOf(table, pair[1], pair[2])
    OBVIOUS
  <1>3. PICK after : after = RowsOf(archived, pair[1], pair[2])
    OBVIOUS
  <1>4. /\ \A q \in archived : \E r \in table : Archives(q, r, at)
        /\ \A r \in table : \E q \in archived : Archives(q, r, at)
    BY <1>1, ArchivedRows
  <1>5. TableOK(archived)
    BY <1>1, ArchiveOK
  <1>6. /\ rows \subseteq table /\ rows \subseteq AlertRow /\ IsFiniteSet(rows)
        /\ after \subseteq archived /\ after \subseteq AlertRow /\ IsFiniteSet(after)
    BY <1>2, <1>3, <1>5, RowsOfFinite
  <1>7. ASSUME NEW q \in after
        PROVE  \E r \in rows : q.id = r.id
    <2>1. q \in archived /\ q.scope = pair[1] /\ q.kind = pair[2]
      BY <1>3 DEF RowsOf
    <2>2. PICK r \in table : q.id = r.id /\ q.scope = r.scope /\ q.kind = r.kind
      BY <1>4, <2>1 DEF Archives
    <2>3. r \in rows
      BY <1>2, <2>1, <2>2 DEF RowsOf
    <2> QED
      BY <2>2, <2>3
  <1>8. CASE rows = {}
    <2>1. after = {}
      BY <1>7, <1>8
    <2>2. LastRow(rows) = NoRow /\ LastRow(after) = NoRow
      BY <1>6, <1>8, <2>1, LastRowIs
    <2>3. ~CooledDown(NoRow.alert, at)
      BY DEF NoRow, NoAlert, CooledDown
    <2> QED
      BY <1>1, <1>2, <1>3, <1>8, <2>1, <2>2, <2>3 DEF CurrentIn
  <1>9. CASE rows # {}
    <2>1. PICK r : r = LastRow(rows)
      OBVIOUS
    <2>2. r \in rows
      BY <1>6, <1>9, <2>1, LastRowIs
    <2>3. PICK q \in archived :
             /\ q.id = r.id /\ q.scope = r.scope /\ q.kind = r.kind
             /\ IF CooledDown(r.alert, at)
                THEN q.alert = [r.alert EXCEPT !.lifecycle = "archived"] ELSE q = r
      BY <1>4, <1>6, <2>2 DEF Archives
    <2>4. q \in after
      BY <1>2, <1>3, <2>2, <2>3 DEF RowsOf
    <2>5. \A c, d \in after : c.id = d.id => c = d
      BY <1>5, <1>6 DEF TableOK
    <2>6. LastRow(after) = q
      BY <1>6, <1>7, <1>9, <2>1, <2>3, <2>4, <2>5, LastKept
    <2> QED
      BY <1>1, <1>2, <1>3, <1>9, <2>1, <2>3, <2>4, <2>6 DEF CurrentIn
  <1> QED
    BY <1>8, <1>9

LEMMA PersistCurrent ==
  ASSUME NEW table, TableOK(table), NEW at \in Nat, NEW plans, PlansFit(table, plans, at),
         NEW pair \in Pairs
  PROVE  LET b == CurrentIn(table, pair)
             c == CurrentIn(Persist(table, plans, at), pair)
         IN IF plans[pair].event = "opened" THEN c = plans[pair].alert
            ELSE \/ c = b
                 \/ b \in AlertValue /\ Moves(b, plans[pair], at) /\ c = plans[pair].alert
  <1>1. PICK written : written = Persist(table, plans, at)
    OBVIOUS
  <1>2. PICK rows : rows = RowsOf(table, pair[1], pair[2])
    OBVIOUS
  <1>3. PICK after : after = RowsOf(written, pair[1], pair[2])
    OBVIOUS
  <1>4. pair = <<pair[1], pair[2]>>
    BY DEF Pairs
  <1>5. TableOK(written)
    BY <1>1, PersistOK
  <1>6. /\ \A q \in written : \/ \E r \in table : Stays(q, r, plans[<<q.scope, q.kind>>], at)
                             \/ plans[<<q.scope, q.kind>>].event = "opened"
        /\ \A r \in table : \E q \in written : Stays(q, r, plans[<<r.scope, r.kind>>], at)
        /\ pair \in Opened(plans) => \E q \in written :
              /\ pair = <<q.scope, q.kind>> /\ FreshRow(q, at)
              /\ q.alert = plans[pair].alert
    BY <1>1, PersistRows
  <1>7. /\ rows \subseteq table /\ rows \subseteq AlertRow /\ IsFiniteSet(rows)
        /\ after \subseteq written /\ after \subseteq AlertRow /\ IsFiniteSet(after)
    BY <1>2, <1>3, <1>5, RowsOfFinite
  <1>8. CASE plans[pair].event = "opened"
    <2>1. PICK q \in written : /\ pair = <<q.scope, q.kind>> /\ FreshRow(q, at)
                              /\ q.alert = plans[pair].alert
      BY <1>6, <1>8 DEF Opened
    <2>2. q \in after /\ q.alert.lifecycle = "open"
      BY <1>3, <1>4, <2>1 DEF RowsOf, FreshRow, NewAlert
    <2>3. LastRow(after) = q
      BY <1>3, <1>5, <2>2, OpenIsLast
    <2> QED
      BY <1>1, <1>3, <1>8, <2>1, <2>3 DEF CurrentIn
  <1>9. CASE plans[pair].event # "opened"
    <2>1. ASSUME NEW q \in after
          PROVE  \E r \in rows : q.id = r.id
      <3>1. q \in written /\ q.scope = pair[1] /\ q.kind = pair[2]
        BY <1>3 DEF RowsOf
      <3>2. PICK r \in table : q.id = r.id /\ q.scope = r.scope /\ q.kind = r.kind
        BY <1>4, <1>6, <1>9, <3>1 DEF Stays
      <3>3. r \in rows
        BY <1>2, <3>1, <3>2 DEF RowsOf
      <3> QED
        BY <3>2, <3>3
    <2>2. CASE rows = {}
      <3>1. after = {}
        BY <2>1, <2>2
      <3>2. LastRow(rows) = NoRow /\ LastRow(after) = NoRow
        BY <1>7, <2>2, <3>1, LastRowIs
      <3> QED
        BY <1>1, <1>2, <1>3, <1>9, <3>2 DEF CurrentIn
    <2>3. CASE rows # {}
      <3>1. PICK r : r = LastRow(rows)
        OBVIOUS
      <3>2. r \in rows
        BY <1>7, <2>3, <3>1, LastRowIs
      <3>3. r \in table /\ r.scope = pair[1] /\ r.kind = pair[2]
        BY <1>2, <3>2 DEF RowsOf
      <3>4. PICK q \in written : Stays(q, r, plans[<<r.scope, r.kind>>], at)
        BY <1>6, <3>3
      <3>5. Stays(q, r, plans[pair], at)
        BY <1>4, <3>3, <3>4
      <3>6. q.id = r.id /\ q \in after
        BY <1>3, <3>3, <3>5 DEF Stays, RowsOf
      <3>7. \A c, d \in after : c.id = d.id => c = d
        BY <1>5, <1>7 DEF TableOK
      <3>8. LastRow(after) = q
        BY <1>7, <2>1, <2>3, <3>1, <3>6, <3>7, LastKept
      <3>9. q.alert = r.alert \/ (Moves(r.alert, plans[pair], at) /\ q.alert = plans[pair].alert)
        BY <3>5 DEF Stays
      <3>10. r.alert \in AlertValue
        BY <1>7, <3>2 DEF AlertRow
      <3> QED
        BY <1>1, <1>2, <1>3, <1>9, <3>1, <3>8, <3>9, <3>10 DEF CurrentIn
    <2> QED
      BY <2>2, <2>3
  <1> QED
    BY <1>8, <1>9

(* An alert is opened in the next generation: that of the newest one of    *)
(* its pair, or of the degraded one that it grows out of.                  *)
DegradedIn(table, pair) == CurrentIn(table, <<pair[1], "degraded">>)
Escalating(table, pair) ==
    /\ pair[2] = "unavailable" /\ RowsOf(table, pair[1], "unavailable") = {}
    /\ Active(DegradedIn(table, pair))
Follows(a, b, at) == b.generation # MaxCounter /\ a = NewAlert(at, b.generation + 1)

LEMMA OpenedFrom ==
  ASSUME NEW table, TableOK(table), NEW at \in Nat, \A r \in table : Cooled(r, at),
         NEW scope, NEW kind,
         OpenPlan(table, scope, kind, at).event = "opened"
  PROVE  LET b == LastRow(RowsOf(table, scope, kind)).alert IN
         /\ b.lifecycle \in {"none", "archived"}
         /\ Follows(OpenPlan(table, scope, kind, at).alert, b, at)
  <1> DEFINE rows == RowsOf(table, scope, kind)
             row == CurrentOrLatest(table, scope, kind)
  <1>1. rows \subseteq AlertRow /\ IsFiniteSet(rows) /\ ActiveRows(rows) \subseteq rows
    BY RowsOfFinite
  <1>2. Fits(table, <<scope, kind>>, OpenPlan(table, scope, kind, at), at)
    BY OpenFits
  <1>3. \A r \in rows : r.alert.lifecycle = "archived"
    BY <1>2 DEF Fits, Moves
  <1>4. ActiveRows(rows) = {}
    <2> HIDE DEF rows
    <2> QED
      BY <1>3 DEF ActiveRows, Active
  <1>5. row = LastRow(rows)
    BY <1>4 DEF CurrentOrLatest
  <1>6. OpenPlan(table, scope, kind, at) = Plan(row, OpenOrUpdate(row.alert, at))
    BY DEF OpenPlan
  <1>7. PICK a : a = row.alert
    OBVIOUS
  <1>8. PICK transition : transition = OpenOrUpdate(a, at)
    OBVIOUS
  <1>9. /\ transition.event = "opened"
        /\ OpenPlan(table, scope, kind, at).alert = transition.alert
    BY <1>6, <1>7, <1>8 DEF Plan
  <1>10. CASE rows = {}
    <2>1. a = NoAlert
      BY <1>1, <1>5, <1>7, <1>10, LastRowIs DEF NoRow
    <2>2. a.lifecycle = "none" /\ a.generation = 0 /\ 0 # MaxCounter
          /\ transition.alert = NewAlert(at, 1)
      BY <1>8, <2>1, RulesAssumption DEF NoAlert, OpenOrUpdate
    <2> QED
      BY <1>5, <1>7, <1>9, <2>2 DEF Follows
  <1>11. CASE rows # {}
    <2>1. row \in rows
      BY <1>1, <1>5, <1>11, LastRowIs
    <2>2. a.lifecycle = "archived"
      BY <1>3, <1>7, <2>1
    <2>3. a # NoAlert /\ ~Active(a)
      BY <2>2 DEF NoAlert, Active
    <2>4. a.generation # MaxCounter /\ transition.alert = NewAlert(at, a.generation + 1)
      BY <1>8, <1>9, <2>2, <2>3 DEF OpenOrUpdate, Rejected
    <2> QED
      BY <1>5, <1>7, <1>9, <2>2, <2>4 DEF Follows
  <1> QED
    BY <1>10, <1>11

LEMMA OpenedNext ==
  ASSUME NEW table, TableOK(table), NEW p \in Projection, \A r \in table : Cooled(r, p.at),
         NEW verdicts, NEW gap, NEW pair \in Pairs,
         AllPlans(table, verdicts, gap, p)[pair].event = "opened"
  PROVE  LET plan == AllPlans(table, verdicts, gap, p)[pair] IN
         IF Escalating(table, pair) THEN Follows(plan.alert, DegradedIn(table, pair), p.at)
         ELSE /\ CurrentIn(table, pair).lifecycle \in {"none", "archived"}
              /\ Follows(plan.alert, CurrentIn(table, pair), p.at)
  <1>1. PICK plan : plan = AllPlans(table, verdicts, gap, p)[pair]
    OBVIOUS
  <1>2. p.at \in Nat /\ plan.event = "opened" /\ NoPlan.event # "opened"
    BY <1>1 DEF Projection, NoPlan
  <1>3. CASE pair[1] = Sampling
    <2>1. pair = <<Sampling, "sampling_gap">>
      BY <1>3, HistoryAssumption DEF Pairs, HealthScope, Sampling, Overall
    <2>2. plan = GapPlan(table, gap, p)
      BY <1>1, <1>3 DEF AllPlans
    <2>3. RecoveryPlan(table, Sampling, "sampling_gap", p.at).event # "opened"
      BY <1>2, RecoveryFits
    <2>4. plan = OpenPlan(table, Sampling, "sampling_gap", p.at)
      BY <1>2, <2>2, <2>3 DEF GapPlan
    <2>5. LET b == LastRow(RowsOf(table, Sampling, "sampling_gap")).alert IN
          b.lifecycle \in {"none", "archived"} /\ Follows(plan.alert, b, p.at)
      BY <1>2, <2>4, OpenedFrom
    <2>6. ~Escalating(table, pair)
      BY <2>1 DEF Escalating
    <2> QED
      BY <1>1, <2>1, <2>5, <2>6 DEF CurrentIn
  <1>4. CASE pair[1] # Sampling
    <2>1. PICK scope, kind : scope = pair[1] /\ kind = pair[2]
      OBVIOUS
    <2>2. plan = HealthPlan(table, scope, kind, verdicts[scope], p.at)
      BY <1>1, <1>4, <2>1 DEF AllPlans
    <2>3. RecoveryPlan(table, scope, kind, p.at).event # "opened"
      BY <1>2, RecoveryFits
    <2>4. plan = ConditionPlan(table, scope, kind, p.at)
      BY <1>2, <2>2, <2>3 DEF HealthPlan
    <2>5. PICK degraded : degraded = RowsOf(table, scope, "degraded")
      OBVIOUS
    <2>6. /\ Active(LastRow(degraded).alert) <=> ActiveRows(degraded) # {}
          /\ ActiveRows(degraded) # {} => LastRow(ActiveRows(degraded)) = LastRow(degraded)
      BY <2>5, ActiveIsLast
    <2>7. Escalating(table, pair) <=>
             /\ kind = "unavailable" /\ ActiveRows(degraded) # {}
             /\ RowsOf(table, scope, "unavailable") = {}
      BY <2>1, <2>5, <2>6 DEF Escalating, DegradedIn, CurrentIn
    <2>8. CASE Escalating(table, pair)
      <3>1. PICK d : d = LastRow(degraded).alert
        OBVIOUS
      <3>2. plan = Plan(NoRow, Escalate(d, p.at))
        BY <2>4, <2>5, <2>6, <2>7, <2>8, <3>1 DEF ConditionPlan
      <3>3. d.generation # MaxCounter /\ plan.alert = NewAlert(p.at, d.generation + 1)
        BY <1>2, <3>2 DEF Escalate, Rejected, Plan
      <3> QED
        BY <1>1, <2>1, <2>5, <2>8, <3>1, <3>3 DEF Follows, DegradedIn, CurrentIn
    <2>9. CASE ~Escalating(table, pair)
      <3>1. plan = OpenPlan(table, scope, kind, p.at)
        BY <2>4, <2>5, <2>7, <2>9 DEF ConditionPlan
      <3>2. LET b == LastRow(RowsOf(table, scope, kind)).alert IN
            b.lifecycle \in {"none", "archived"} /\ Follows(plan.alert, b, p.at)
        BY <1>2, <3>1, OpenedFrom
      <3> QED
        BY <1>1, <2>1, <2>9, <3>2 DEF CurrentIn
    <2> QED
      BY <2>8, <2>9
  <1> QED
    BY <1>3, <1>4

-----------------------------------------------------------------------------
(* The reviewed lifecycle                                                  *)

LEMMA CurrentIs ==
  ASSUME NEW pair \in Pairs
  PROVE  /\ CurrentAlert[pair] = CurrentIn(alerts, pair)
         /\ CurrentAlert'[pair] = CurrentIn(alerts', pair)
  BY DEF CurrentAlert, CurrentIn

LEMMA CurrentType ==
  ASSUME NEW table, TableOK(table), NEW pair
  PROVE  IF RowsOf(table, pair[1], pair[2]) = {} THEN CurrentIn(table, pair) = NoAlert
         ELSE /\ CurrentIn(table, pair) \in AlertValue /\ CurrentIn(table, pair) # NoAlert
              /\ \E r \in RowsOf(table, pair[1], pair[2]) : r.alert = CurrentIn(table, pair)
  <1>1. PICK rows : rows = RowsOf(table, pair[1], pair[2])
    OBVIOUS
  <1>2. rows \subseteq AlertRow /\ IsFiniteSet(rows)
    BY <1>1, RowsOfFinite
  <1>3. CASE rows = {}
    <2>1. LastRow(rows) = NoRow
      BY <1>2, <1>3, LastRowIs
    <2> QED
      BY <1>1, <1>3, <2>1 DEF CurrentIn, NoRow
  <1>4. CASE rows # {}
    <2>1. PICK r \in rows : r = LastRow(rows)
      BY <1>2, <1>4, LastRowIs
    <2>2. r.alert \in AlertValue
      BY <1>2 DEF AlertRow
    <2>3. r.alert # NoAlert
      BY <2>2 DEF AlertValue, Lifecycle, NoAlert
    <2>4. CurrentIn(table, pair) = r.alert
      BY <1>1, <2>1 DEF CurrentIn
    <2> QED
      BY <1>1, <1>4, <2>2, <2>3, <2>4
  <1> QED
    BY <1>3, <1>4

(* A plan that moves an alert on is a step of the reference.               *)
LEMMA MovesEvolve ==
  ASSUME NEW pair \in Pairs, NEW at \in Nat, now' = at, NEW a \in AlertValue, NEW plan,
         Moves(a, plan, at), CurrentAlert[pair] = a, CurrentAlert'[pair] = plan.alert
  PROVE  Reference!Evolves(pair)
  <1>1. /\ a.cooldown \in Int /\ a.occurrences \in 1 .. MaxCounter /\ MaxCounter \in Nat
        /\ a.lifecycle \in Lifecycle /\ Cooldown \in Nat
    BY RulesAssumption DEF AlertValue
  <1>2. Reference!Extended(a) = Larger(a.cooldown, Deadline(at))
    BY DEF Reference!Extended, Reference!Latest, Larger, Deadline
  <1>3. Saturated(a.occurrences + 1) =
           IF a.occurrences < MaxCounter THEN a.occurrences + 1 ELSE a.occurrences
    BY <1>1 DEF Saturated
  <1>4. CASE /\ a.lifecycle = "recovered" /\ a.cooldown <= at
             /\ plan.alert = [a EXCEPT !.lifecycle = "archived"]
    <2>1. Reference!ReferenceArchive(pair)
      BY <1>1, <1>4 DEF Reference!ReferenceArchive, Reference!Becomes
    <2> QED
      BY <2>1 DEF Reference!Evolves
  <1>5. CASE /\ a.lifecycle # "archived" /\ (a.lifecycle = "recovered" => at < a.cooldown)
             /\ plan.alert = [a EXCEPT !.occurrences = Saturated(@ + 1),
                                       !.cooldown = Larger(@, Deadline(at))]
    <2>1. plan.alert = [a EXCEPT !.occurrences = IF @ < MaxCounter THEN @ + 1 ELSE @,
                                 !.cooldown = Reference!Extended(a)]
      BY <1>2, <1>3, <1>5
    <2>2. Reference!IsActive(a) \/ (a.lifecycle = "recovered" /\ now' < a.cooldown)
      BY <1>1, <1>5 DEF Lifecycle, Reference!IsActive
    <2>3. Reference!ReferenceUpdate(pair)
      BY <2>1, <2>2 DEF Reference!ReferenceUpdate, Reference!Becomes
    <2> QED
      BY <2>3 DEF Reference!Evolves
  <1>6. CASE /\ a.lifecycle = "open"
             /\ plan.alert = [a EXCEPT !.lifecycle = "recovered", !.recovered = at,
                                       !.cooldown = Larger(@, Deadline(at))]
    <2>1. plan.alert = [a EXCEPT !.lifecycle = "recovered", !.recovered = now',
                                 !.cooldown = Reference!Extended(a)]
      BY <1>2, <1>6
    <2>2. Reference!ReferenceRecover(pair)
      BY <1>6, <2>1 DEF Reference!ReferenceRecover, Reference!IsActive, Reference!Becomes
    <2> QED
      BY <2>2 DEF Reference!Evolves
  <1> QED
    BY <1>4, <1>5, <1>6 DEF Moves

(* So is the opening of an alert, after the one before it was archived in  *)
(* the same transaction or earlier.                                        *)
LEMMA OpensEvolve ==
  ASSUME TableOK(alerts), NEW at \in Nat, now' = at, NEW pair \in Pairs,
         NEW alert, CurrentAlert'[pair] = alert,
         IF Escalating(ArchiveEligible(alerts, at), pair)
         THEN Follows(alert, DegradedIn(ArchiveEligible(alerts, at), pair), at)
         ELSE /\ CurrentIn(ArchiveEligible(alerts, at), pair).lifecycle \in {"none", "archived"}
              /\ Follows(alert, CurrentIn(ArchiveEligible(alerts, at), pair), at)
  PROVE  Reference!Evolves(pair)
  <1>1. PICK archived : archived = ArchiveEligible(alerts, at)
    OBVIOUS
  <1>2. PICK a : a = CurrentIn(alerts, pair)
    OBVIOUS
  <1>3. PICK b : b = CurrentIn(archived, pair)
    OBVIOUS
  <1>4. MaxCounter \in Nat /\ pair = <<pair[1], pair[2]>>
    BY RulesAssumption DEF Pairs
  <1>5. a = NoAlert <=> RowsOf(alerts, pair[1], pair[2]) = {}
    BY <1>2, CurrentType
  <1>6. a = NoAlert \/ a \in AlertValue
    BY <1>2, CurrentType
  <1>7. /\ RowsOf(alerts, pair[1], pair[2]) = {} <=> RowsOf(archived, pair[1], pair[2]) = {}
        /\ IF CooledDown(a, at) THEN b = [a EXCEPT !.lifecycle = "archived"] ELSE b = a
    BY <1>1, <1>2, <1>3, ArchivedCurrent
  <1>8. PICK degraded : degraded = <<pair[1], "degraded">>
    OBVIOUS
  <1>9. PICK d : d = CurrentIn(alerts, degraded)
    OBVIOUS
  <1>10. d = NoAlert \/ d \in AlertValue
    BY <1>9, CurrentType
  <1>11. DegradedIn(archived, pair) = IF CooledDown(d, at) THEN [d EXCEPT !.lifecycle = "archived"]
                                      ELSE d
    <2>1. LET x == CurrentIn(alerts, degraded)
              y == CurrentIn(ArchiveEligible(alerts, at), degraded)
          IN IF CooledDown(x, at) THEN y = [x EXCEPT !.lifecycle = "archived"] ELSE y = x
      BY ArchivedCurrent
    <2> QED
      BY <1>1, <1>8, <1>9, <2>1 DEF DegradedIn
  <1>12. /\ Active(DegradedIn(archived, pair)) => DegradedIn(archived, pair) = d
         /\ Active(DegradedIn(archived, pair)) <=> Active(d)
    BY <1>10, <1>11 DEF CooledDown, Active, NoAlert, AlertValue
  <1>13. pair[2] = "unavailable" => degraded \in Pairs
    BY <1>8, HistoryAssumption DEF Pairs, HealthKind
  <1>14. CurrentAlert[pair] = a /\ (pair[2] = "unavailable" => CurrentAlert[degraded] = d)
    BY <1>2, <1>9, <1>13, CurrentIs
  <1>15. Reference!Nothing = NoAlert
    BY DEF Reference!Nothing, NoAlert, NoTime
  <1>16. Reference!DegradedOf(pair) = IF pair[2] = "unavailable" THEN d ELSE NoAlert
    BY <1>8, <1>13, <1>14, <1>15 DEF Reference!DegradedOf
  <1>17. Reference!Escalates(pair) <=> a = NoAlert /\ pair[2] = "unavailable" /\ Active(d)
    BY <1>14, <1>15, <1>16
       DEF Reference!Escalates, Reference!IsActive, Active, NoAlert
  <1>18. Reference!Escalates(pair) <=> Escalating(archived, pair)
    BY <1>5, <1>7, <1>12, <1>17 DEF Escalating
  <1>19. \A generation : Reference!Fresh(generation) = NewAlert(at, generation)
    BY DEF Reference!Fresh, NewAlert, Deadline, NoTime
  <1>20. CASE Escalating(archived, pair)
    <2>1. DegradedIn(archived, pair) = d /\ pair[2] = "unavailable" /\ Active(d)
      BY <1>12, <1>20 DEF Escalating
    <2>2. Follows(alert, d, at)
      BY <1>1, <1>20, <2>1
    <2>3. d.generation < MaxCounter
      BY <1>4, <1>10, <2>1, <2>2 DEF Follows, Active, NoAlert, AlertValue
    <2>4. Reference!ReferenceEscalate(pair)
      BY <1>16, <1>18, <1>19, <1>20, <2>1, <2>2, <2>3
         DEF Follows, Reference!ReferenceEscalate, Reference!Becomes
    <2> QED
      BY <2>4 DEF Reference!Evolves
  <1>21. CASE ~Escalating(archived, pair)
    <2>1. b.lifecycle \in {"none", "archived"} /\ Follows(alert, b, at)
      BY <1>1, <1>3, <1>21
    <2>2. a.generation = b.generation /\ a.generation \in 0 .. MaxCounter
      BY <1>4, <1>6, <1>7 DEF NoAlert, AlertValue
    <2>3. \/ a.lifecycle \in {"none", "archived"}
          \/ a.lifecycle = "recovered" /\ now' >= a.cooldown
      BY <1>6, <1>7, <2>1 DEF CooledDown, NoAlert, AlertValue
    <2>4. a.generation < MaxCounter /\ alert = NewAlert(at, a.generation + 1)
      BY <1>4, <2>1, <2>2 DEF Follows
    <2>5. Reference!ReferenceOpen(pair)
      BY <1>14, <1>18, <1>19, <1>21, <2>3, <2>4
         DEF Reference!ReferenceOpen, Reference!Becomes
    <2> QED
      BY <2>5 DEF Reference!Evolves
  <1> QED
    BY <1>20, <1>21

LEMMA IngestEvolves ==
  ASSUME TableOK(alerts), NEW p \in Projection, Ingest(p), now' = p.at
  PROVE  Reference!ReferenceNext
  <1> SUFFICES ASSUME NEW pair \in Pairs PROVE Reference!Evolves(pair)
    BY DEF Reference!ReferenceNext
  <1>1. PICK archived : archived = ArchiveEligible(alerts, p.at)
    OBVIOUS
  <1>2. PICK verdicts : verdicts = Verdicts(archived, p)
    OBVIOUS
  <1>3. PICK gap : gap = EvaluateGap(phase, p.report.kind, p.report.missed)
    OBVIOUS
  <1>4. PICK plans : plans = AllPlans(archived, verdicts, gap, p)
    OBVIOUS
  <1>5. /\ TableOK(archived) /\ PlansFit(archived, plans, p.at)
        /\ alerts' = Persist(archived, plans, p.at)
    BY <1>1, <1>2, <1>3, <1>4, IngestRows
  <1>6. p.at \in Nat
    BY DEF Projection
  <1>7. \A r \in archived : Cooled(r, p.at)
    BY <1>1, <1>6, ArchiveOK
  <1>8. PICK a : a = CurrentIn(alerts, pair)
    OBVIOUS
  <1>9. PICK b : b = CurrentIn(archived, pair)
    OBVIOUS
  <1>10. PICK c : c = CurrentIn(alerts', pair)
    OBVIOUS
  <1>11. CurrentAlert[pair] = a /\ CurrentAlert'[pair] = c
    BY <1>8, <1>10, CurrentIs
  <1>12. IF CooledDown(a, p.at) THEN b = [a EXCEPT !.lifecycle = "archived"] ELSE b = a
    BY <1>1, <1>6, <1>8, <1>9, ArchivedCurrent
  <1>13. IF plans[pair].event = "opened" THEN c = plans[pair].alert
         ELSE \/ c = b
              \/ b \in AlertValue /\ Moves(b, plans[pair], p.at) /\ c = plans[pair].alert
    BY <1>5, <1>6, <1>9, <1>10, PersistCurrent
  <1>14. CASE plans[pair].event = "opened"
    <2>1. IF Escalating(archived, pair)
          THEN Follows(plans[pair].alert, DegradedIn(archived, pair), p.at)
          ELSE /\ CurrentIn(archived, pair).lifecycle \in {"none", "archived"}
               /\ Follows(plans[pair].alert, CurrentIn(archived, pair), p.at)
      BY <1>4, <1>5, <1>7, <1>14, OpenedNext
    <2>2. CurrentAlert'[pair] = plans[pair].alert
      BY <1>11, <1>13, <1>14
    <2> QED
      BY <1>1, <1>6, <2>1, <2>2, OpensEvolve
  <1>15. CASE plans[pair].event # "opened" /\ c = b
    <2>1. CASE CooledDown(a, p.at)
      <3>1. Reference!ReferenceArchive(pair)
        BY <1>11, <1>12, <1>15, <2>1
           DEF CooledDown, Reference!ReferenceArchive, Reference!Becomes
      <3> QED
        BY <3>1 DEF Reference!Evolves
    <2>2. CASE ~CooledDown(a, p.at)
      BY <1>11, <1>12, <1>15, <2>2 DEF Reference!Becomes, Reference!Evolves
    <2> QED
      BY <2>1, <2>2
  <1>16. CASE /\ plans[pair].event # "opened" /\ b \in AlertValue
              /\ Moves(b, plans[pair], p.at) /\ c = plans[pair].alert
    <2>1. b.lifecycle # "archived"
      BY <1>16 DEF Moves
    <2>2. a = NoAlert \/ a \in AlertValue
      BY <1>8, CurrentType
    <2>3. a = b
      BY <1>12, <2>1, <2>2 DEF NoAlert, AlertValue
    <2>4. CurrentAlert[pair] = b /\ CurrentAlert'[pair] = plans[pair].alert
      BY <1>11, <1>16, <2>3
    <2> QED
      BY <1>6, <1>16, <2>4, MovesEvolve
  <1> QED
    BY <1>13, <1>14, <1>15, <1>16

(* Retention takes the newest row of a pair only with all the older ones.  *)
GoneRow(r) == \E d \in Chosen : d[2] = 1 /\ d[3] = r.id /\ d[4] = 1
SameAlert(q, r) == q.id = r.id /\ q.scope = r.scope /\ q.kind = r.kind /\ q.alert = r.alert

LEMMA CleanupKeeps ==
  ASSUME TableOK(alerts), Cleanup
  PROVE  /\ \A q \in alerts' : \E r \in alerts : ~GoneRow(r) /\ SameAlert(q, r)
         /\ \A r \in alerts : ~GoneRow(r) => \E q \in alerts' : SameAlert(q, r)
  <1> DEFINE Left(r) == {e \in r.events : \A d \in Chosen :
                            ~(d[2] = 1 /\ d[3] = r.id /\ d[6] = e.n)}
             kept == [r \in alerts |-> [r EXCEPT !.events = Left(r)]]
  <1>1. alerts' = {kept[r] : r \in {r \in alerts : ~GoneRow(r)}}
    BY DEF Cleanup, GoneRow
  <1>2. ASSUME NEW r \in alerts PROVE SameAlert(kept[r], r)
    <2>1. r \in AlertRow
      BY DEF TableOK
    <2>2. kept[r] = [id |-> r.id, scope |-> r.scope, kind |-> r.kind, opened |-> r.opened,
                     archived |-> r.archived, alert |-> r.alert, events |-> Left(r)]
      BY <2>1 DEF AlertRow
    <2> QED
      BY <2>2 DEF SameAlert
  <1> HIDE DEF kept
  <1> QED
    BY <1>1, <1>2

LEMMA RowDeletions ==
  ASSUME TableOK(alerts)
  PROVE  /\ \A r \in OldAlerts(alerts) : RowDeletion(r) \in Deletions
         /\ \A d \in Deletions : d[2] = 1 /\ d[4] = 1 =>
               \E r \in OldAlerts(alerts) : d = RowDeletion(r)
  <1> DEFINE old == OldAlerts(alerts)
             of(r) == {EventDeletion(r, e) : e \in r.events} \union {RowDeletion(r)}
             first == {SampleDeletion(s) : s \in {s \in samples : s.at < Cutoff}}
  <1>1. Deletions = first \union UNION {of(r) : r \in old}
    BY DEF Deletions, SampleDeletion, EventDeletion, RowDeletion
  <1>2. \A r \in old : RowDeletion(r) \in Deletions
    BY <1>1
  <1>3. ASSUME NEW d \in Deletions, d[2] = 1, d[4] = 1
        PROVE  \E r \in old : d = RowDeletion(r)
    <2>1. d \notin first
      BY <1>3 DEF SampleDeletion
    <2>2. PICK r \in old : d \in of(r)
      BY <1>1, <2>1
    <2>3. \A e \in r.events : d # EventDeletion(r, e)
      BY <1>3 DEF EventDeletion
    <2> QED
      BY <2>2, <2>3
  <1> QED
    BY <1>2, <1>3

LEMMA CleanupForgets ==
  ASSUME samples \subseteq Sample, IsFiniteSet(samples), TableOK(alerts), InOrder,
         now \in Nat, NEW last, \A r \in alerts : RowTimes(r, last),
         NEW r \in alerts, GoneRow(r),
         NEW q \in alerts, q.scope = r.scope, q.kind = r.kind, q.id <= r.id
  PROVE  GoneRow(q) /\ r.alert.lifecycle = "archived"
  <1>1. PICK d \in Chosen : d[2] = 1 /\ d[3] = r.id /\ d[4] = 1
    BY DEF GoneRow
  <1>2. d \in Deletions
    BY DEF Chosen
  <1>3. PICK x \in OldAlerts(alerts) : d = RowDeletion(x)
    BY <1>1, <1>2, RowDeletions
  <1>4. x.id = r.id /\ x \in alerts
    BY <1>1, <1>3 DEF RowDeletion, OldAlerts
  <1>5. x = r
    BY <1>4 DEF TableOK
  <1>6. r.alert.lifecycle = "archived" /\ r.alert.recovered < Cutoff
    BY <1>3, <1>5 DEF OldAlerts
  <1>7. CASE q.id = r.id
    <2>1. q = r
      BY <1>7 DEF TableOK
    <2> QED
      BY <1>6, <2>1
  <1>8. CASE q.id # r.id
    <2>1. /\ r \in AlertRow /\ q \in AlertRow /\ r.id \in Nat /\ q.id \in Nat
          /\ r.alert.recovered \in Int /\ q.alert.recovered \in Int
          /\ r.opened \in Int
      BY DEF TableOK, AlertRow, AlertValue
    <2>2. q.id < r.id
      BY <1>8, <2>1
    <2>3. q.alert.lifecycle = "archived" /\ q.alert.recovered <= r.opened
      BY <2>2 DEF TableOK, InOrder
    <2>4. r.alert.recovered \in r.opened .. last
      BY <1>6 DEF RowTimes
    <2>5. q.alert.recovered <= r.alert.recovered
      BY <2>1, <2>3, <2>4
    <2>6. Cutoff \in Int
      BY HistoryAssumption DEF Cutoff
    <2>7. q.alert.recovered < Cutoff
      BY <1>6, <2>1, <2>5, <2>6
    <2>8. q \in OldAlerts(alerts)
      BY <2>3, <2>7 DEF OldAlerts
    <2>9. PICK f : f = RowDeletion(q)
      OBVIOUS
    <2>10. f \in Deletions /\ f[2] = 1 /\ f[3] = q.id /\ f[4] = 1
      BY <2>8, <2>9, RowDeletions DEF RowDeletion
    <2>11. Before(f, d)
      <3>1. /\ f = <<q.alert.recovered, 1, q.id, 1, 0, 0>>
            /\ d = <<r.alert.recovered, 1, r.id, 1, 0, 0>>
        BY <1>3, <1>5, <2>9 DEF RowDeletion
      <3>2. CASE q.alert.recovered < r.alert.recovered
        <4>1. f[1] < d[1] /\ \A j \in 1 .. (1 - 1) : f[j] = d[j]
          BY <3>1, <3>2
        <4> QED
          BY <4>1 DEF Before
      <3>3. CASE q.alert.recovered = r.alert.recovered
        <4>1. f[3] < d[3] /\ \A j \in 1 .. (3 - 1) : f[j] = d[j]
          BY <2>2, <3>1, <3>3
        <4> QED
          BY <4>1 DEF Before
      <3> QED
        BY <2>1, <2>5, <3>2, <3>3
    <2>12. IsFiniteSet(Deletions) /\ \A e \in Deletions : \A i \in 1 .. 6 : e[i] \in Int
      BY DeletionsAre
    <2>13. f \in Chosen
      BY <2>10, <2>11, <2>12, ChosenClosed
    <2> QED
      BY <1>6, <2>10, <2>13 DEF GoneRow
  <1> QED
    BY <1>7, <1>8

LEMMA CleanupEvolves ==
  ASSUME samples \subseteq Sample, IsFiniteSet(samples), TableOK(alerts), InOrder,
         now \in Nat, NEW last, \A r \in alerts : RowTimes(r, last), Cleanup
  PROVE  Reference!ReferenceNext
  <1> SUFFICES ASSUME NEW pair \in Pairs PROVE Reference!Evolves(pair)
    BY DEF Reference!ReferenceNext
  <1>1. PICK rows : rows = RowsOf(alerts, pair[1], pair[2])
    OBVIOUS
  <1>2. PICK after : after = RowsOf(alerts', pair[1], pair[2])
    OBVIOUS
  <1>3. TableOK(alerts')
    BY CleanupRows
  <1>4. /\ rows \subseteq alerts /\ rows \subseteq AlertRow /\ IsFiniteSet(rows)
        /\ after \subseteq alerts' /\ after \subseteq AlertRow /\ IsFiniteSet(after)
    BY <1>1, <1>2, <1>3, RowsOfFinite
  <1>5. CurrentAlert[pair] = LastRow(rows).alert /\ CurrentAlert'[pair] = LastRow(after).alert
    BY <1>1, <1>2, CurrentIs DEF CurrentIn
  <1>6. ASSUME NEW q \in after
        PROVE  \E r \in rows : ~GoneRow(r) /\ q.id = r.id
    <2>1. PICK r \in alerts : ~GoneRow(r) /\ SameAlert(q, r)
      BY <1>4, CleanupKeeps
    <2>2. r \in rows
      BY <1>1, <1>2, <2>1 DEF RowsOf, SameAlert
    <2> QED
      BY <2>1, <2>2 DEF SameAlert
  <1>7. CASE rows = {}
    <2>1. after = {}
      BY <1>6, <1>7
    <2>2. LastRow(rows) = NoRow /\ LastRow(after) = NoRow
      BY <1>4, <1>7, <2>1, LastRowIs
    <2> QED
      BY <1>5, <2>2 DEF Reference!Becomes, Reference!Evolves
  <1>8. CASE rows # {}
    <2>1. PICK r : r = LastRow(rows)
      OBVIOUS
    <2>2. r \in rows /\ \A q \in rows : q.id <= r.id
      BY <1>4, <1>8, <2>1, LastRowIs
    <2>3. r \in alerts /\ r.scope = pair[1] /\ r.kind = pair[2]
      BY <1>1, <2>2 DEF RowsOf
    <2>4. CASE GoneRow(r)
      <3>1. ASSUME NEW q \in rows
            PROVE  GoneRow(q) /\ r.alert.lifecycle = "archived"
        <4>1. q \in alerts /\ q.scope = r.scope /\ q.kind = r.kind /\ q.id <= r.id
          BY <1>1, <2>2, <2>3 DEF RowsOf
        <4> QED
          BY <2>3, <2>4, <4>1, CleanupForgets
      <3>2. after = {}
        BY <1>6, <3>1
      <3>3. LastRow(after) = NoRow
        BY <1>4, <3>2, LastRowIs
      <3>4. CurrentAlert[pair].lifecycle = "archived" /\ CurrentAlert'[pair] = NoAlert
        BY <1>5, <2>1, <2>2, <3>1, <3>3 DEF NoRow
      <3>5. Reference!Forget(pair)
        BY <3>4 DEF Reference!Forget, Reference!Becomes, Reference!Nothing, NoAlert, NoTime
      <3> QED
        BY <3>5 DEF Reference!Evolves
    <2>5. CASE ~GoneRow(r)
      <3>1. PICK q \in alerts' : SameAlert(q, r)
        BY <2>3, <2>5, CleanupKeeps
      <3>2. q \in after /\ q.id = r.id /\ q.alert = r.alert
        BY <1>2, <2>3, <3>1 DEF RowsOf, SameAlert
      <3>3. \A c, d \in after : c.id = d.id => c = d
        BY <1>3, <1>4 DEF TableOK
      <3>4. \A c \in after : \E d \in rows : c.id = d.id
        BY <1>6
      <3>5. LastRow(after) = q
        BY <1>4, <1>8, <2>1, <3>2, <3>3, <3>4, LastKept
      <3>6. CurrentAlert'[pair] = CurrentAlert[pair]
        BY <1>5, <2>1, <3>2, <3>5
      <3> QED
        BY <3>6 DEF Reference!Becomes, Reference!Evolves
    <2> QED
      BY <2>4, <2>5
  <1> QED
    BY <1>7, <1>8

LEMMA OrderStep ==
  ASSUME ClockForward, DeliveryOK, AlertsInvariant, TimesOK, InOrder, [Next]_vars
  PROVE  InOrder'
  <1>1. TableOK(alerts) /\ \A r \in alerts : RowTimes(r, Last.at)
    BY DEF AlertsInvariant, TimesOK
  <1>2. \/ UNCHANGED tables \/ Cleanup
        \/ \E p \in Projection : Ingest(p) /\ Last.at <= p.at
    BY StepClocks DEF TimesOK
  <1>3. CASE UNCHANGED tables
    <2>1. UNCHANGED alerts
      BY <1>3, TablesKept
    <2> QED
      BY <2>1 DEF InOrder
  <1>4. CASE Cleanup
    <2>1. \A q \in alerts' : \E r \in alerts :
             /\ q.id = r.id /\ q.scope = r.scope /\ q.kind = r.kind
             /\ q.opened = r.opened /\ q.alert = r.alert
      BY <1>1, <1>4, CleanupRows
    <2> QED
      BY <2>1 DEF InOrder
  <1>5. ASSUME NEW p \in Projection, Ingest(p), Last.at <= p.at,
               NEW x \in alerts', NEW y \in alerts', x.scope = y.scope, x.kind = y.kind, x.id < y.id
        PROVE  x.alert.recovered <= y.opened
    <2>1. p.at \in Nat /\ Last.at \in Int
      BY DEF Projection, DeliveryOK, DeliveryTypeOK, NoProjection, NoTime
    <2>2. TableOK(alerts')
      BY <1>1, <1>5, IngestSteps
    <2>3. x.alert.lifecycle = "archived" /\ x \in AlertRow /\ x.alert.recovered \in Int
      BY <1>5, <2>2 DEF TableOK, AlertRow, AlertValue
    <2>4. PICK r \in alerts : RowSteps(r, x, p.at)
      <3>1. FreshRow(x, p.at) => x.alert.lifecycle = "open"
        BY DEF FreshRow, NewAlert
      <3>2. ~FreshRow(x, p.at)
        BY <2>3, <3>1
      <3> QED
        BY <1>1, <1>5, <3>2, IngestSteps
    <2>5. r \in AlertRow /\ IsFiniteSet(r.events) /\ RowTimes(r, Last.at)
      BY <1>1 DEF TableOK
    <2>6. CASE FreshRow(y, p.at)
      <3>1. RowTimes(x, p.at)
        BY <1>5, <2>1, <2>4, <2>5, StepTimes
      <3>2. x.alert.recovered <= p.at
        BY <2>1, <2>3, <3>1 DEF RowTimes, AlertRow
      <3> QED
        BY <2>6, <3>2 DEF FreshRow
    <2>7. ASSUME NEW q \in alerts, RowSteps(q, y, p.at)
          PROVE  x.alert.recovered <= y.opened
      <3>1. q \in AlertRow /\ IsFiniteSet(q.events)
        BY <1>1 DEF TableOK
      <3>2. /\ y.id = q.id /\ y.scope = q.scope /\ y.kind = q.kind /\ y.opened = q.opened
        BY <2>1, <2>7, <3>1, RowStepsType
      <3>3. /\ x.id = r.id /\ x.scope = r.scope /\ x.kind = r.kind
            /\ r.alert.lifecycle = "archived" => x = r
        BY <2>1, <2>4, <2>5, RowStepsType
      <3>4. r.scope = q.scope /\ r.kind = q.kind /\ r.id < q.id
        BY <1>5, <3>2, <3>3
      <3>5. r.alert.lifecycle = "archived"
        BY <1>1, <3>4 DEF TableOK
      <3>6. r.alert.recovered <= q.opened
        BY <3>4 DEF InOrder
      <3> QED
        BY <3>2, <3>3, <3>5, <3>6
    <2> QED
      BY <1>1, <1>5, <2>6, <2>7, IngestSteps
  <1>6. ASSUME NEW p \in Projection, Ingest(p), Last.at <= p.at
        PROVE  InOrder'
    BY <1>5, <1>6 DEF InOrder
  <1> QED
    BY <1>2, <1>3, <1>4, <1>6

(* What is taken in is taken in at the time that is shown, redelivered or  *)
(* not: between the failure and the redelivery nobody reads the clock.     *)
LEMMA NowStep ==
  ASSUME DeliveryOK, BaselineInvariant, AlertsInvariant, PendingIsNow, [Next]_vars
  PROVE  /\ PendingIsNow'
         /\ UNCHANGED tables \/ Cleanup \/ \E p \in Projection : Ingest(p) /\ now' = p.at
  <1>1. /\ Last.seq \in Nat /\ pending.projection.seq \in Nat
        /\ pending.projection.seq <= Last.seq + 1
    BY DEF DeliveryOK, DeliveryTypeOK, PendingOK, Projection, NoProjection
  <1>2. ASSUME NEW p \in Projections
        PROVE  p \in Projection /\ p.seq = Last.seq + 1
    BY <1>1, OfferedNext DEF DeliveryOK, DeliveryTypeOK
  <1>3. ASSUME NEW p, Ingest(p)
        PROVE  Last' = p
    BY <1>3 DEF Ingest, Last
  <1>4. ASSUME UNCHANGED tables PROVE Last' = Last
    BY <1>4 DEF tables, Last
  <1>5. ASSUME NEW p \in Projections, Observe(p)
        PROVE  PendingIsNow' /\ Ingest(p) /\ now' = p.at
    <2>1. Ingest(p) /\ now' = p.at /\ pending'.projection = pending.projection
      BY <1>5, NeverMalformed DEF Observe, DeliveryOK, DeliveryTypeOK
    <2>2. Last'.seq = Last.seq + 1
      BY <1>2, <1>3, <2>1
    <2> QED
      BY <1>1, <2>1, <2>2 DEF PendingIsNow
  <1>6. ASSUME NEW p \in Projections, ObserveFails(p)
        PROVE  PendingIsNow' /\ UNCHANGED tables
    BY <1>6 DEF ObserveFails, PendingIsNow
  <1>7. ASSUME NEW p \in Projections, ObserveLost(p)
        PROVE  PendingIsNow' /\ Ingest(p) /\ now' = p.at
    BY <1>7 DEF ObserveLost, PendingIsNow
  <1>8. ASSUME Redeliver
        PROVE  /\ PendingIsNow'
               /\ UNCHANGED tables \/ \E p \in Projection : Ingest(p) /\ now' = p.at
    <2>1. PICK p : p = pending.projection
      OBVIOUS
    <2>2. now' = now /\ pending'.projection = p
      BY <1>8, <2>1 DEF Redeliver, DeliveryOK, DeliveryTypeOK
    <2>3. \/ UNCHANGED tables
          \/ p # NoProjection /\ Verdict(p) = "new" /\ Ingest(p)
      BY <1>8, <2>1 DEF Redeliver, Close, tables
    <2>4. CASE UNCHANGED tables
      BY <1>4, <2>1, <2>2, <2>4 DEF PendingIsNow
    <2>5. CASE p # NoProjection /\ Verdict(p) = "new" /\ Ingest(p)
      <3>1. p \in Projection /\ p.seq = Last.seq + 1
        BY <2>1, <2>5, RedeliveredNext
      <3>2. Last' = p
        BY <1>3, <2>5
      <3>3. p.at = now
        BY <1>1, <2>1, <3>1 DEF PendingIsNow
      <3> QED
        BY <2>2, <2>5, <3>1, <3>2, <3>3 DEF PendingIsNow
    <2> QED
      BY <2>3, <2>4, <2>5
  <1>9. ASSUME Reopen \/ ReadAlerts \/ UNCHANGED vars
        PROVE  UNCHANGED <<tables, now, pending>>
    BY <1>9 DEF Reopen, ReadAlerts, Close, vars
  <1>10. ASSUME Cleanup PROVE UNCHANGED <<Last, now, pending>>
    BY <1>10 DEF Cleanup, Last
  <1>11. CASE Reopen \/ ReadAlerts \/ UNCHANGED vars
    BY <1>4, <1>9, <1>11 DEF PendingIsNow
  <1>12. CASE Cleanup
    BY <1>10, <1>12 DEF PendingIsNow
  <1>13. CASE \E p \in Projections : Observe(p) \/ ObserveFails(p) \/ ObserveLost(p)
    BY <1>2, <1>5, <1>6, <1>7, <1>13
  <1> QED
    BY <1>8, <1>11, <1>12, <1>13 DEF Next

ImplementsInvariant ==
    DeliveryOK /\ BaselineInvariant /\ AlertsInvariant /\ TimesOK /\ InOrder /\ PendingIsNow

LEMMA InitImplements == Init => ImplementsInvariant /\ Reference!ReferenceInit
  <1> SUFFICES ASSUME Init PROVE ImplementsInvariant /\ Reference!ReferenceInit
    OBVIOUS
  <1>1. DeliveryOK /\ BaselineInvariant /\ AlertsInvariant /\ TimesOK
    BY InitDelivery, InitBaseline, InitAlerts, InitTimes
  <1>2. InOrder /\ PendingIsNow
    BY DEF Init, InOrder, PendingIsNow, NothingPending, NoProjection, Last
  <1>3. \A pair \in Pairs : RowsOf(alerts, pair[1], pair[2]) = {}
    BY DEF Init, RowsOf
  <1>4. \A pair \in Pairs : LastRow(RowsOf(alerts, pair[1], pair[2])).alert = Reference!Nothing
    BY <1>3 DEF LastRow, NoRow, NoAlert, NoTime, Reference!Nothing
  <1>5. Reference!ReferenceInit
    BY <1>4 DEF Init, Reference!ReferenceInit, CurrentAlert
  <1> QED
    BY <1>1, <1>2, <1>5 DEF ImplementsInvariant

LEMMA StepImplements ==
  ASSUME ClockForward
  PROVE  ImplementsInvariant /\ [Next]_vars =>
            ImplementsInvariant' /\ [Reference!ReferenceNext]_(Reference!referenceVars)
  <1> SUFFICES ASSUME ImplementsInvariant, [Next]_vars
               PROVE  /\ ImplementsInvariant'
                      /\ Reference!ReferenceNext \/ UNCHANGED Reference!referenceVars
    OBVIOUS
  <1>1. /\ DeliveryOK /\ BaselineInvariant /\ AlertsInvariant /\ TimesOK
        /\ InOrder /\ PendingIsNow
    BY DEF ImplementsInvariant
  <1>2. ImplementsInvariant'
    BY <1>1, DeliveryStep, BaselineStep, AlertsStep, TimesStep, OrderStep, NowStep
       DEF ImplementsInvariant
  <1>3. UNCHANGED tables \/ Cleanup \/ \E p \in Projection : Ingest(p) /\ now' = p.at
    BY <1>1, NowStep
  <1>4. TableOK(alerts) /\ \A r \in alerts : RowTimes(r, Last.at)
    BY <1>1 DEF AlertsInvariant, TimesOK
  <1>5. CASE UNCHANGED tables
    <2>1. UNCHANGED alerts
      BY <1>5, TablesKept
    <2>2. \A pair \in Pairs : CurrentAlert'[pair] = CurrentAlert[pair]
      BY <2>1, CurrentIs
    <2>3. Reference!ReferenceNext
      BY <2>2 DEF Reference!ReferenceNext, Reference!Evolves, Reference!Becomes
    <2> QED
      BY <1>2, <2>3
  <1>6. CASE Cleanup
    <2>1. Reference!ReferenceNext
      BY <1>1, <1>4, <1>6, CleanupEvolves
         DEF BaselineInvariant, BaselineOK, DeliveryOK, DeliveryTypeOK
    <2> QED
      BY <1>2, <2>1
  <1>7. ASSUME NEW p \in Projection, Ingest(p), now' = p.at
        PROVE  Reference!ReferenceNext
    BY <1>4, <1>7, IngestEvolves
  <1> QED
    BY <1>2, <1>3, <1>5, <1>6, <1>7

(* The newest alert of every pair lives the reviewed lifecycle, whatever   *)
(* fails, is redelivered, deleted or started again.                        *)
THEOREM ImplementsReferenceHolds ==
  ASSUME ClockForward
  PROVE  Spec => ImplementsReference
  <1>1. ImplementsInvariant /\ [Next]_vars =>
           ImplementsInvariant' /\ [Reference!ReferenceNext]_(Reference!referenceVars)
    BY StepImplements
  <1> QED
    BY <1>1, InitImplements, PTL DEF Spec, ImplementsReference, Reference!ReferenceSpec
=============================================================================
