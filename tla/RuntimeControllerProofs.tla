---------------------- MODULE RuntimeControllerProofs ----------------------
(***************************************************************************)
(* Proofs about RuntimeController for a plan of any length.  The stack of  *)
(* started components holds the running ones in plan order, and wherever   *)
(* the caller is, the running components are a prefix of the enabled ones. *)
(***************************************************************************)
EXTENDS RuntimeController, SequenceTheorems, TLAPS

Running == {c \in Component : lifecycle[c] = "running"}

(* The stack holds the running components in plan order. *)
StackSound ==
  /\ \A i \in 1 .. Len(started) : started[i] \in enabled /\ lifecycle[started[i]] = "running"
  /\ \A i, j \in 1 .. Len(started) : i < j => started[i] < started[j]
  /\ \A c \in Component : lifecycle[c] = "running" => \E i \in 1 .. Len(started) : started[i] = c

(* Where a component may be while it moves. *)
MovesFit ==
  /\ \A c \in Component : lifecycle[c] = "starting" => call = "start" /\ c = item /\ c \in enabled
  /\ \A c \in Component : lifecycle[c] = "stopping" =>
       /\ Stopping /\ c \in enabled
       /\ \A d \in enabled : d < c => lifecycle[d] = "running"
       /\ \A d \in Component : lifecycle[d] = "running" => d < c

(* start has started what precedes its place; elsewhere what runs has all  *)
(* enabled components before it running.                                   *)
PrefixFits ==
  /\ call = "start" => \A c \in Component : lifecycle[c] = "running" <=> c \in enabled /\ c < item
  /\ \A c \in Component : lifecycle[c] = "running" =>
       \A d \in enabled : d < c => lifecycle[d] = "running"

RuntimeInvariant ==
  /\ RuntimeTypeOK
  /\ StackSound
  /\ MovesFit
  /\ PrefixFits
  /\ AllOrNothing

-----------------------------------------------------------------------------
LEMMA InitRuntime == RuntimeInit => RuntimeInvariant
  <1> SUFFICES ASSUME RuntimeInit PROVE RuntimeInvariant
    OBVIOUS
  <1>1. RuntimeTypeOK
    BY RuntimeAssumption DEF RuntimeInit, RuntimeTypeOK, Component, Lifecycle
  <1>2. StackSound /\ MovesFit /\ PrefixFits
    BY DEF RuntimeInit, StackSound, MovesFit, PrefixFits
  <1>3. AllOrNothing
    BY DEF RuntimeInit, AllOrNothing
  <1> QED
    BY <1>1, <1>2, <1>3 DEF RuntimeInvariant

(* Popping the stack. *)
LEMMA PopFacts ==
  ASSUME NEW S, NEW s \in Seq(S), s # <<>>
  PROVE  /\ SubSeq(s, 1, Len(s) - 1) \in Seq(S)
         /\ Len(SubSeq(s, 1, Len(s) - 1)) = Len(s) - 1
         /\ Len(s) \in Nat \ {0}
         /\ \A i \in 1 .. Len(s) - 1 : SubSeq(s, 1, Len(s) - 1)[i] = s[i]
         /\ s[Len(s)] \in S
  <1>1. Len(s) \in Nat \ {0}
    OBVIOUS
  <1> DEFINE n == Len(s) - 1
             t == SubSeq(s, 1, n)
  <1>2. n \in Nat /\ 1 \in 1 .. Len(s) + 1 /\ n \in 0 .. Len(s)
    BY <1>1
  <1>3. t \in Seq(S) /\ Len(t) = (IF 1 <= n THEN n - 1 + 1 ELSE 0)
        /\ \A i \in 1 .. n - 1 + 1 : t[i] = s[1 + i - 1]
    BY <1>2, SubSeqProperties
  <1>4. Len(t) = n /\ \A i \in 1 .. n : t[i] = s[i]
    <2> HIDE DEF t, n
    <2>1. n = 0 \/ 1 <= n
      BY <1>2
    <2>2. n - 1 + 1 = n /\ \A i \in 1 .. n : 1 + i - 1 = i
      BY <1>2
    <2>3. Len(t) = n
      BY <1>2, <1>3, <2>1, <2>2
    <2>4. ASSUME NEW i \in 1 .. n PROVE t[i] = s[i]
      <3>1. t[i] = s[1 + i - 1]
        BY <1>3, <2>2
      <3> QED
        BY <3>1, <2>2
    <2> QED
      BY <2>3, <2>4
  <1> QED
    BY <1>1, <1>3, <1>4

LEMMA TypeStep == RuntimeInvariant /\ [RuntimeNext]_runtimeVars => RuntimeTypeOK'
  <1> SUFFICES ASSUME RuntimeInvariant, [RuntimeNext]_runtimeVars PROVE RuntimeTypeOK'
    OBVIOUS
  <1> USE RuntimeAssumption DEF RuntimeInvariant, RuntimeTypeOK, Component
  <1>1. CASE UNCHANGED runtimeVars
    BY <1>1 DEF runtimeVars, plan
  <1>2. CASE CallStart
    BY <1>2 DEF CallStart, plan
  <1>3. CASE Skip
    BY <1>3 DEF Skip, plan
  <1>4. CASE Missing
    BY <1>4 DEF Missing, Become, Lifecycle, plan
  <1>5. CASE EnterComponent
    BY <1>5 DEF EnterComponent, Become, Lifecycle, plan
  <1>6. CASE StartSucceeds
    BY <1>6 DEF StartSucceeds, Become, Lifecycle, plan
  <1>7. CASE StartRaises
    BY <1>7 DEF StartRaises, Become, Lifecycle, plan
  <1>8. CASE Started
    BY <1>8 DEF Started, plan
  <1>9. CASE CallStop
    BY <1>9 DEF CallStop, plan
  <1>10. CASE Pop
    <2>1. started' \in Seq(Component)
      BY <1>10, PopFacts DEF Pop
    <2>2. lifecycle' \in [Component -> Lifecycle]
      BY <1>10 DEF Pop, Become, Lifecycle
    <2> QED
      BY <1>10, <2>1, <2>2 DEF Pop, plan
  <1>11. CASE StopSucceeds
    BY <1>11 DEF StopSucceeds, Become, Lifecycle, plan
  <1>12. CASE StopRaises
    BY <1>12 DEF StopRaises, Become, Lifecycle, plan
  <1>13. CASE Stopped
    BY <1>13 DEF Stopped, plan
  <1> QED
    BY <1>1, <1>2, <1>3, <1>4, <1>5, <1>6, <1>7, <1>8, <1>9, <1>10, <1>11, <1>12, <1>13
       DEF RuntimeNext

LEMMA StackStep == RuntimeInvariant /\ [RuntimeNext]_runtimeVars => StackSound'
  <1> SUFFICES ASSUME RuntimeInvariant, [RuntimeNext]_runtimeVars PROVE StackSound'
    OBVIOUS
  <1> USE RuntimeAssumption DEF RuntimeInvariant, RuntimeTypeOK, Component
  <1>1. CASE UNCHANGED runtimeVars \/ CallStart \/ Skip \/ Started \/ CallStop \/ Stopped
    BY <1>1 DEF runtimeVars, plan, CallStart, Skip, Started, CallStop, Stopped, StackSound
  <1>2. ASSUME NEW c \in Component, NEW state \in {"starting", "failed", "stopped"},
               lifecycle[c] # "running", Become(c, state), UNCHANGED <<started, enabled>>
        PROVE  StackSound'
    BY <1>2 DEF Become, StackSound
  <1>3. CASE Missing \/ EnterComponent \/ StartRaises
    <2>1. item \in Component /\ lifecycle[item] # "running"
      BY <1>3 DEF Missing, EnterComponent, StartRaises, MovesFit, PrefixFits
    <2> QED
      BY <1>3, <1>2, <2>1 DEF Missing, EnterComponent, StartRaises, plan
  <1>4. CASE StopSucceeds \/ StopRaises
    BY <1>4, <1>2 DEF StopSucceeds, StopRaises, plan
  <1>5. CASE StartSucceeds
    <2>1. item \in Component /\ lifecycle[item] = "starting" /\ item \in enabled
      BY <1>5 DEF StartSucceeds, MovesFit
    <2>2. /\ Len(started') = Len(started) + 1
          /\ started'[Len(started) + 1] = item
          /\ \A i \in 1 .. Len(started) : started'[i] = started[i]
      BY <1>5, <2>1 DEF StartSucceeds
    <2>3. \A i \in 1 .. Len(started) : started[i] \in enabled /\ started[i] < item
      BY <1>5 DEF StartSucceeds, StackSound, PrefixFits
    <2>4. \A i \in 1 .. Len(started') :
            started'[i] \in enabled' /\ lifecycle'[started'[i]] = "running"
      BY <1>5, <2>1, <2>2, <2>3 DEF StartSucceeds, Become, StackSound, plan
    <2>5. ASSUME NEW i \in 1 .. Len(started'), NEW j \in 1 .. Len(started'), i < j
          PROVE  started'[i] < started'[j]
      <3>1. i \in 1 .. Len(started) /\ (j \in 1 .. Len(started) \/ j = Len(started) + 1)
        BY <2>2, <2>5
      <3> QED
        BY <3>1, <2>2, <2>3, <2>5 DEF StackSound
    <2>6. ASSUME NEW c \in Component, lifecycle'[c] = "running"
          PROVE  \E i \in 1 .. Len(started') : started'[i] = c
      <3>1. CASE c = item
        BY <3>1, <2>2
      <3>2. CASE c # item
        BY <3>2, <2>2, <2>6, <1>5 DEF StartSucceeds, Become, StackSound
      <3> QED
        BY <3>1, <3>2
    <2> QED
      BY <2>4, <2>5, <2>6 DEF StackSound
  <1>6. CASE Pop
    <2>1. /\ Len(started') = Len(started) - 1 /\ Len(started) \in Nat \ {0}
          /\ \A i \in 1 .. Len(started) - 1 : started'[i] = started[i]
          /\ Last \in Component
      BY <1>6, PopFacts DEF Pop, Last
    <2>2. \A i \in 1 .. Len(started) - 1 : started[i] # Last
      <3>1. \A i, j \in 1 .. Len(started) : i < j => started[i] < started[j]
        BY DEF StackSound
      <3>2. \A i \in 1 .. Len(started) : started[i] \in Component
        OBVIOUS
      <3> SUFFICES ASSUME NEW i \in 1 .. Len(started) - 1 PROVE started[i] # Last
        OBVIOUS
      <3>3. /\ i \in 1 .. Len(started) /\ Len(started) \in 1 .. Len(started)
            /\ i < Len(started)
        BY <2>1
      <3>4. started[i] < started[Len(started)]
        BY <3>1, <3>3
      <3>5. started[i] \in Nat /\ started[Len(started)] \in Nat
        BY <3>2, <3>3
      <3> QED
        BY <3>4, <3>5 DEF Last
    <2>3. \A i \in 1 .. Len(started') :
            started'[i] \in enabled' /\ lifecycle'[started'[i]] = "running"
      BY <1>6, <2>1, <2>2 DEF Pop, Become, StackSound, plan
    <2>4. ASSUME NEW i \in 1 .. Len(started'), NEW j \in 1 .. Len(started'), i < j
          PROVE  started'[i] < started'[j]
      <3>1. i \in 1 .. Len(started) - 1 /\ j \in 1 .. Len(started) - 1
        BY <2>1
      <3>2. started'[i] = started[i] /\ started'[j] = started[j]
        BY <3>1, <2>1
      <3>3. i \in 1 .. Len(started) /\ j \in 1 .. Len(started)
        BY <3>1, <2>1
      <3> QED
        BY <3>2, <3>3, <2>4 DEF StackSound
    <2>5. ASSUME NEW c \in Component, lifecycle'[c] = "running"
          PROVE  \E i \in 1 .. Len(started') : started'[i] = c
      <3>1. c # Last /\ lifecycle[c] = "running"
        BY <1>6, <2>5, <2>1 DEF Pop, Become
      <3>2. PICK i \in 1 .. Len(started) : started[i] = c
        BY <3>1 DEF StackSound
      <3>3. i \in 1 .. Len(started) - 1
        BY <3>1, <3>2, <2>1 DEF Last
      <3> QED
        BY <3>2, <3>3, <2>1
    <2> QED
      BY <2>3, <2>4, <2>5 DEF StackSound
  <1> QED
    BY <1>1, <1>3, <1>4, <1>5, <1>6 DEF RuntimeNext

LEMMA MovesStep == RuntimeInvariant /\ [RuntimeNext]_runtimeVars => MovesFit'
  <1> SUFFICES ASSUME RuntimeInvariant, [RuntimeNext]_runtimeVars PROVE MovesFit'
    OBVIOUS
  <1> USE RuntimeAssumption DEF RuntimeInvariant, RuntimeTypeOK, Component
  <1>1. CASE UNCHANGED runtimeVars
    BY <1>1 DEF runtimeVars, plan, MovesFit, Stopping
  <1>2. CASE CallStart \/ CallStop
    BY <1>2 DEF plan, CallStart, CallStop, MovesFit, Stopping
  <1>3. CASE Skip \/ Started
    BY <1>3 DEF plan, Skip, Started, MovesFit, Stopping
  <1>4. CASE Stopped
    BY <1>4 DEF plan, Stopped, MovesFit, Stopping
  <1>5. CASE Missing \/ StartRaises \/ EnterComponent
    BY <1>5 DEF plan, Missing, StartRaises, EnterComponent, Become, MovesFit, Stopping
  <1>6. CASE StartSucceeds
    BY <1>6 DEF plan, StartSucceeds, Become, MovesFit, Stopping
  <1>7. CASE StopSucceeds \/ StopRaises
    BY <1>7 DEF plan, StopSucceeds, StopRaises, Become, MovesFit, Stopping
  <1>8. CASE Pop
    <2>1. Last \in Component /\ Len(started) \in Nat \ {0} /\ Last = started[Len(started)]
      BY <1>8, PopFacts DEF Pop, Last
    <2>2. Last \in enabled /\ lifecycle[Last] = "running"
      BY <2>1 DEF StackSound
    <2>3. \A c \in Component : lifecycle[c] = "running" => c <= Last
      BY <2>1 DEF StackSound
    <2>4. \A d \in enabled : d < Last => lifecycle[d] = "running"
      BY <2>1, <2>2 DEF PrefixFits
    <2> QED
      BY <1>8, <2>1, <2>2, <2>3, <2>4 DEF Pop, Become, MovesFit, Stopping, plan
  <1> QED
    BY <1>1, <1>2, <1>3, <1>4, <1>5, <1>6, <1>7, <1>8 DEF RuntimeNext

LEMMA PrefixStep == RuntimeInvariant /\ [RuntimeNext]_runtimeVars => PrefixFits'
  <1> SUFFICES ASSUME RuntimeInvariant, [RuntimeNext]_runtimeVars PROVE PrefixFits'
    OBVIOUS
  <1> USE RuntimeAssumption DEF RuntimeInvariant, RuntimeTypeOK, Component
  <1>1. CASE UNCHANGED runtimeVars
    BY <1>1 DEF runtimeVars, plan, PrefixFits
  <1>2. CASE CallStart
    <2>1. started = <<>> => \A c \in Component : lifecycle[c] # "running"
      BY DEF StackSound
    <2> QED
      BY <1>2, <2>1 DEF plan, CallStart, PrefixFits
  <1>3. CASE CallStop \/ Started \/ Stopped
    BY <1>3 DEF plan, CallStop, Started, Stopped, PrefixFits, Stopping
  <1>4. CASE Skip
    BY <1>4 DEF plan, Skip, PrefixFits
  <1>5. CASE Missing \/ StartRaises
    <2>1. /\ item \in Component /\ call = "start" /\ call' = "rollback" /\ enabled' = enabled
          /\ \A c \in Component : lifecycle'[c] = IF c = item THEN "failed" ELSE lifecycle[c]
      BY <1>5 DEF plan, Missing, StartRaises, Become
    <2>2. \A c \in Component : lifecycle[c] = "running" => c < item
      BY <2>1 DEF PrefixFits
    <2> QED
      BY <2>1, <2>2 DEF PrefixFits
  <1>6. CASE EnterComponent
    BY <1>6 DEF plan, EnterComponent, Become, PrefixFits
  <1>7. CASE StartSucceeds
    BY <1>7 DEF plan, StartSucceeds, Become, PrefixFits, MovesFit
  <1>8. CASE StopSucceeds \/ StopRaises
    BY <1>8 DEF plan, StopSucceeds, StopRaises, Become, PrefixFits, Stopping
  <1>9. CASE Pop
    <2>1. Last \in Component /\ Len(started) \in Nat \ {0} /\ Last = started[Len(started)]
      BY <1>9, PopFacts DEF Pop, Last
    <2>2. \A c \in Component : lifecycle[c] = "running" => c <= Last
      BY <2>1 DEF StackSound
    <2> QED
      BY <1>9, <2>1, <2>2 DEF Pop, Become, PrefixFits, Stopping, plan
  <1> QED
    BY <1>1, <1>2, <1>3, <1>4, <1>5, <1>6, <1>7, <1>8, <1>9 DEF RuntimeNext

LEMMA AllOrNothingStep == RuntimeInvariant /\ [RuntimeNext]_runtimeVars => AllOrNothing'
  <1> SUFFICES ASSUME RuntimeInvariant, [RuntimeNext]_runtimeVars, call' = "idle"
               PROVE  Running' \in {{}, enabled'}
    BY DEF AllOrNothing, Running
  <1> USE RuntimeAssumption DEF RuntimeInvariant, RuntimeTypeOK, Component
  <1>1. CASE UNCHANGED runtimeVars \/ CallStart
    BY <1>1 DEF runtimeVars, plan, CallStart, AllOrNothing, Running
  <1>2. CASE Started
    <2>1. \A c \in Component : lifecycle'[c] = "running" <=> c \in enabled
      BY <1>2 DEF Started, PrefixFits
    <2>2. Running' = enabled /\ enabled' = enabled
      BY <1>2, <2>1 DEF Started, plan, Running
    <2> QED
      BY <2>2
  <1>3. CASE Stopped
    <2>1. \A c \in Component : lifecycle[c] # "running"
      BY <1>3 DEF Stopped, StackSound
    <2> QED
      BY <1>3, <2>1 DEF Stopped, Running
  <1>4. CASE \/ Skip \/ Missing \/ EnterComponent \/ StartSucceeds \/ StartRaises
             \/ CallStop \/ Pop \/ StopSucceeds \/ StopRaises
    BY <1>4 DEF Skip, Missing, EnterComponent, StartSucceeds, StartRaises, CallStop, Pop,
                StopSucceeds, StopRaises, Stopping
  <1> QED
    BY <1>1, <1>2, <1>3, <1>4 DEF RuntimeNext

(* The inductive invariant holds for every plan, registry and failure. *)
THEOREM RuntimeInvariantHolds == RuntimeSpec => []RuntimeInvariant
  <1>1. RuntimeInvariant /\ [RuntimeNext]_runtimeVars => RuntimeInvariant'
    BY TypeStep, StackStep, MovesStep, PrefixStep, AllOrNothingStep DEF RuntimeInvariant
  <1> QED
    BY InitRuntime, <1>1, PTL DEF RuntimeSpec

(* Every variable of the controller keeps its type. *)
THEOREM RuntimeTypeCorrect == RuntimeSpec => []RuntimeTypeOK
  <1>1. RuntimeInvariant => RuntimeTypeOK
    BY DEF RuntimeInvariant
  <1> QED
    BY RuntimeInvariantHolds, <1>1, PTL

(* start, its rollback and stop keep to plan order for plans of any length. *)
THEOREM PlanOrderHolds == RuntimeSpec => []PlanOrder
  <1>1. RuntimeInvariant => PlanOrder
    BY DEF RuntimeInvariant, PlanOrder, PrefixFits, MovesFit, RuntimeTypeOK, Component
  <1> QED
    BY RuntimeInvariantHolds, <1>1, PTL

(* Between calls all that is enabled runs, or nothing does. *)
THEOREM AllOrNothingHolds == RuntimeSpec => []AllOrNothing
  <1>1. RuntimeInvariant => AllOrNothing
    BY DEF RuntimeInvariant
  <1> QED
    BY RuntimeInvariantHolds, <1>1, PTL

-----------------------------------------------------------------------------
(* Who may be running is listed as such, or as on its way, or as failed. *)
LEMMA LeakStep == RuntimeTypeOK /\ MovesFit /\ NoSilentLeak /\ [RuntimeNext]_runtimeVars => NoSilentLeak'
  <1> SUFFICES ASSUME RuntimeTypeOK, MovesFit, NoSilentLeak, [RuntimeNext]_runtimeVars PROVE NoSilentLeak'
    OBVIOUS
  <1> USE DEF RuntimeTypeOK, Component, NoSilentLeak
  <1>1. CASE UNCHANGED runtimeVars \/ CallStart \/ Skip \/ Started \/ CallStop \/ Stopped
    BY <1>1 DEF runtimeVars, plan, CallStart, Skip, Started, CallStop, Stopped
  <1>2. CASE Missing \/ EnterComponent \/ StartSucceeds \/ StartRaises
    BY <1>2 DEF Missing, EnterComponent, StartSucceeds, StartRaises, Become
  <1>3. CASE Pop
    BY <1>3 DEF Pop, Become
  <1>4. CASE StopSucceeds \/ StopRaises
    BY <1>4 DEF StopSucceeds, StopRaises, Become
  <1> QED
    BY <1>1, <1>2, <1>3, <1>4 DEF RuntimeNext

(* No component that may still run is listed as created or stopped. *)
THEOREM NoSilentLeakHolds == RuntimeSpec => []NoSilentLeak
  <1>1. RuntimeInit => NoSilentLeak
    BY DEF RuntimeInit, NoSilentLeak
  <1>2. RuntimeInvariant => RuntimeTypeOK /\ MovesFit
    BY DEF RuntimeInvariant
  <1> QED
    BY RuntimeInvariantHolds, LeakStep, <1>1, <1>2, PTL DEF RuntimeSpec

-----------------------------------------------------------------------------
(* stop goes down the plan, so whoever fails now comes before all that     *)
(* failed already, and the first to be blamed is the last in plan order.   *)
BlameFits ==
  Stopping =>
    /\ blamed = 0 <=> failing = {}
    /\ blamed # 0 => blamed \in failing
    /\ \A c \in failing : c <= blamed
    /\ \A c \in failing : \A d \in Component :
         lifecycle[d] \in {"running", "stopping"} => d < c

(* Only the components of the plan are touched. *)
TouchedFits == \A c \in Component : lifecycle[c] # "created" => c \in enabled

TruthInvariant == BlameFits /\ TouchedFits /\ StopTellsTruth

Surroundings == RuntimeTypeOK /\ MovesFit /\ StackSound /\ NoSilentLeak

LEMMA TouchedStep == Surroundings /\ TruthInvariant /\ [RuntimeNext]_runtimeVars => TouchedFits'
  <1> SUFFICES ASSUME Surroundings, TruthInvariant, [RuntimeNext]_runtimeVars PROVE TouchedFits'
    OBVIOUS
  <1> USE DEF Surroundings, RuntimeTypeOK, Component, TruthInvariant, TouchedFits
  <1>1. CASE UNCHANGED runtimeVars \/ CallStart \/ Skip \/ Started \/ CallStop \/ Stopped
    BY <1>1 DEF runtimeVars, plan, CallStart, Skip, Started, CallStop, Stopped
  <1>2. CASE Missing \/ EnterComponent \/ StartSucceeds \/ StartRaises
    BY <1>2 DEF plan, Missing, EnterComponent, StartSucceeds, StartRaises, Become, MovesFit
  <1>3. CASE Pop
    <2>1. Last \in Component /\ Len(started) \in Nat \ {0} /\ Last = started[Len(started)]
      BY <1>3, PopFacts DEF Pop, Last
    <2>2. Last \in enabled
      BY <2>1 DEF StackSound
    <2> QED
      BY <1>3, <2>1, <2>2 DEF plan, Pop, Become
  <1>4. CASE StopSucceeds \/ StopRaises
    BY <1>4 DEF plan, StopSucceeds, StopRaises, Become
  <1> QED
    BY <1>1, <1>2, <1>3, <1>4 DEF RuntimeNext

LEMMA BlameStep == Surroundings /\ TruthInvariant /\ [RuntimeNext]_runtimeVars => BlameFits'
  <1> SUFFICES ASSUME Surroundings, TruthInvariant, [RuntimeNext]_runtimeVars PROVE BlameFits'
    OBVIOUS
  <1> USE DEF Surroundings, RuntimeTypeOK, Component, TruthInvariant
  <1>1. CASE UNCHANGED runtimeVars
    BY <1>1 DEF runtimeVars, BlameFits, Stopping
  <1>2. CASE \/ CallStart \/ Skip \/ EnterComponent \/ StartSucceeds \/ Started \/ Stopped
    BY <1>2 DEF CallStart, Skip, EnterComponent, StartSucceeds, Started, Stopped, BlameFits, Stopping
  <1>3. CASE Missing \/ StartRaises \/ CallStop
    BY <1>3 DEF Missing, StartRaises, CallStop, BlameFits, Stopping
  <1>4. CASE Pop
    <2>1. Last \in Component /\ Len(started) \in Nat \ {0} /\ Last = started[Len(started)]
      BY <1>4, PopFacts DEF Pop, Last
    <2>2. lifecycle[Last] = "running"
      BY <2>1 DEF StackSound
    <2> QED
      BY <1>4, <2>1, <2>2 DEF Pop, Become, BlameFits, Stopping
  <1>5. CASE StopSucceeds
    BY <1>5 DEF StopSucceeds, Become, BlameFits, Stopping
  <1>6. CASE StopRaises
    <2>1. PICK c \in Component :
            /\ lifecycle[c] = "stopping" /\ Become(c, "failed")
            /\ failing' = failing \cup {c}
            /\ blamed' = IF blamed = 0 THEN c ELSE blamed
      BY <1>6 DEF StopRaises
    <2>2. Stopping /\ call' = call
      BY <1>6 DEF StopRaises
    <2>3. \A d \in failing : c < d
      BY <2>1, <2>2 DEF BlameFits
    <2>4. \A d \in Component : lifecycle'[d] \in {"running", "stopping"} => d < c
      <3> SUFFICES ASSUME NEW d \in Component, lifecycle'[d] \in {"running", "stopping"}
                   PROVE  d < c
        OBVIOUS
      <3>1. d # c /\ lifecycle[d] = lifecycle'[d]
        BY <2>1 DEF Become
      <3>2. CASE lifecycle[d] = "running"
        BY <2>1, <3>2 DEF MovesFit
      <3>3. CASE lifecycle[d] = "stopping"
        BY <2>1, <3>1, <3>3 DEF MovesFit
      <3> QED
        BY <3>1, <3>2, <3>3
    <2>5. blamed' # 0 /\ failing' # {} /\ blamed' \in failing'
      BY <2>1, <2>2 DEF BlameFits
    <2>6. \A d \in failing' : d <= blamed'
      BY <2>1, <2>2, <2>3 DEF BlameFits
    <2>7. \A e \in failing : \A d \in Component :
            lifecycle'[d] \in {"running", "stopping"} => d < e
      BY <2>1, <2>2 DEF Become, BlameFits
    <2>8. \A e \in failing' : \A d \in Component :
            lifecycle'[d] \in {"running", "stopping"} => d < e
      BY <2>1, <2>4, <2>7
    <2> QED
      BY <2>5, <2>6, <2>8 DEF BlameFits
  <1> QED
    BY <1>1, <1>2, <1>3, <1>4, <1>5, <1>6 DEF RuntimeNext

LEMMA TruthStep == Surroundings /\ TruthInvariant /\ [RuntimeNext]_runtimeVars => StopTellsTruth'
  <1> SUFFICES ASSUME Surroundings, TruthInvariant, [RuntimeNext]_runtimeVars, call' = "idle"
               PROVE  StopTellsTruth'
    BY DEF StopTellsTruth
  <1> USE DEF Surroundings, RuntimeTypeOK, Component, TruthInvariant
  <1>1. CASE UNCHANGED runtimeVars
    BY <1>1 DEF runtimeVars, plan, StopTellsTruth
  <1>2. CASE CallStart \/ Started
    BY <1>2 DEF CallStart, Started, StopTellsTruth
  <1>3. CASE Stopped
    <2>1. \A c \in Component : lifecycle[c] \notin {"starting", "running", "stopping"}
      BY <1>3 DEF Stopped, StackSound, MovesFit, Stopping
    <2>2. up \subseteq {c \in enabled : lifecycle[c] = "failed"}
      BY <2>1 DEF NoSilentLeak, TouchedFits, Lifecycle
    <2>3. /\ outcome' = "stopped" => failing' = {}
          /\ outcome' = "stop_failed" => blamed' \in failing' /\ \A c \in failing' : c <= blamed'
      BY <1>3 DEF Stopped, BlameFits
    <2>4. UNCHANGED <<up, enabled, lifecycle>>
      BY <1>3 DEF Stopped, plan
    <2> QED
      BY <2>2, <2>3, <2>4 DEF StopTellsTruth
  <1>4. CASE \/ Skip \/ Missing \/ EnterComponent \/ StartSucceeds \/ StartRaises
             \/ CallStop \/ Pop \/ StopSucceeds \/ StopRaises
    BY <1>4 DEF Skip, Missing, EnterComponent, StartSucceeds, StartRaises, CallStop, Pop,
                StopSucceeds, StopRaises, Stopping
  <1> QED
    BY <1>1, <1>2, <1>3, <1>4 DEF RuntimeNext

(* stop raises exactly when something failed to stop, and names the first  *)
(* failure; when it does not raise, only what had failed before may run.   *)
THEOREM StopTellsTruthHolds == RuntimeSpec => []StopTellsTruth
  <1>1. RuntimeInit => TruthInvariant
    BY DEF RuntimeInit, TruthInvariant, BlameFits, Stopping, TouchedFits, StopTellsTruth
  <1>2. RuntimeInvariant => RuntimeTypeOK /\ MovesFit /\ StackSound
    BY DEF RuntimeInvariant
  <1>3. RuntimeTypeOK /\ MovesFit /\ StackSound /\ NoSilentLeak => Surroundings
    BY DEF Surroundings
  <1>4. Surroundings /\ TruthInvariant /\ [RuntimeNext]_runtimeVars => TruthInvariant'
    BY TouchedStep, BlameStep, TruthStep DEF TruthInvariant
  <1>5. TruthInvariant => StopTellsTruth
    BY DEF TruthInvariant
  <1> QED
    BY RuntimeInvariantHolds, NoSilentLeakHolds, <1>1, <1>2, <1>3, <1>4, <1>5, PTL DEF RuntimeSpec

(* Worse reports never make the overall health better. *)
THEOREM ConservativeHolds == RuntimeSpec => []Conservative
  <1>1. Conservative
    <2> SUFFICES ASSUME enabled # {}, NEW reports \in [enabled -> Health], NEW c \in enabled,
                        NEW worse \in Health, Rank[reports[c]] <= Rank[worse]
                 PROVE  Rank[Overall(reports)] <= Rank[Overall([reports EXCEPT ![c] = worse])]
      BY DEF Conservative
    <2> DEFINE after == [reports EXCEPT ![c] = worse]
    <2>1. \A d \in enabled : after[d] = IF d = c THEN worse ELSE reports[d]
      OBVIOUS
    <2>2. /\ Health = {"healthy", "unknown", "degraded", "unhealthy"}
          /\ Rank["healthy"] = 0 /\ Rank["unknown"] = 1
          /\ Rank["degraded"] = 2 /\ Rank["unhealthy"] = 3
      BY DEF Rank, Health
    <2>3. \A d \in enabled : Rank[reports[d]] <= Rank[after[d]] /\ after[d] \in Health
      BY <2>1, <2>2
    <2> HIDE DEF after
    <2> QED
      BY <2>2, <2>3 DEF Overall
  <1> QED
    BY <1>1, PTL

=============================================================================
