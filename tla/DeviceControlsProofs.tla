----------------------- MODULE DeviceControlsProofs -----------------------
(***************************************************************************)
(* Proofs about DeviceControls, for every set of threads, forms, levels,   *)
(* allowlists and limits: type correctness, mutual exclusion on the wire,  *)
(* the uninterrupted ambient sequence, the return of every lock, and what  *)
(* the answer of a sequence says about its children and the devices.  And  *)
(* about ControlPlane, for every set of readers too: it implements its two *)
(* components, and pages show what the controls have verified.             *)
(***************************************************************************)
EXTENDS ControlPlane, TLAPS

InsideGate == {"lock", "wait", "verify", "release"}
InsidePrivate == {"wait", "verify", "release"}

(* Only the ambient service is at its own places, and it has begun a child *)
(* while it is in one.                                                     *)
PlacesFit ==
    \A t \in Thread :
        /\ pc[t] \in AmbientPlace => IsAmbient(t)
        /\ pc[t] = "parent_release" => status[t] \in Answered
        /\ pc[t] \in ServicePlace /\ IsAmbient(t) => step[t] \in 1 .. 3

(* How often t has acquired the gate, told from where t is. *)
HoldsAsParent(t) == InSequence(t)
HoldsAsChild(t) == pc[t] \in InsideGate
Acquisitions(t) == (IF HoldsAsParent(t) THEN 1 ELSE 0) + (IF HoldsAsChild(t) THEN 1 ELSE 0)

GateCounted ==
    /\ \A t \in Thread : HoldsAsParent(t) \/ HoldsAsChild(t) <=> gate_owner = t
    /\ \A t \in Thread : gate_owner = t => gate_depth = Acquisitions(t)
    /\ gate_owner = NoThread => gate_depth = 0

PrivateLocksHeld ==
    \A t \in Thread, s \in Service :
        operation_lock[s] = t <=> pc[t] \in InsidePrivate /\ ServiceOf(command[t].target) = s

LocksFit == PlacesFit /\ GateCounted /\ PrivateLocksHeld
ControlInvariant == ControlTypeOK /\ LocksFit

-----------------------------------------------------------------------------
(* The data the actions copy is of the right kind.                         *)

LEMMA CommandFacts ==
    /\ Set("led", 0) \in Command
    /\ NoForm \in Request
    /\ \A form \in Request : form.command \in Command
    /\ \A c \in Command : c.target \in Target /\ c.value \in Value
    /\ \A x \in Target : ServiceOf(x) \in Service
    /\ \A operation, i : i \in 1 .. 3 => Steps(operation)[i] \in Command
<1> USE DEF Set, Command, Switch
<1>1. Set("led", 0) \in Command
  OBVIOUS
<1>2. NoForm \in Request
  BY DEF Request, NoForm
<1>3. \A form \in Request : form.command \in Command
  BY <1>1 DEF Request
<1>4. \A c \in Command : c.target \in Target /\ c.value \in Value
  BY DEF Target, Value
<1>5. \A x \in Target : ServiceOf(x) \in Service
  BY DEF Service, ServiceOf
<1>6. \A operation, i : i \in 1 .. 3 => Steps(operation)[i] \in Command
  BY DEF Steps
<1>7. QED
  BY <1>1, <1>2, <1>3, <1>4, <1>5, <1>6

LEMMA InitEstablishes == Init => ControlInvariant
<1> SUFFICES ASSUME Init PROVE ControlInvariant
  OBVIOUS
<1> USE DEF Init
<1>1. ThreadTypeOK
  BY CommandFacts DEF ThreadTypeOK, Place, ChildStatus, Answered
<1>2. LockTypeOK
  BY DEF LockTypeOK
<1>3. WorldTypeOK
  <2>1. /\ attempts \in [Limiter -> Nat]
        /\ \A l \in Limiter : attempts[l] <= Limit[l]
        /\ reply \in [Thread -> Value]
        /\ device \in [Target -> Value]
    BY ControlAssumption DEF Value
  <2>2. /\ post \in [Thread -> {"none", "sent", "handled"}]
        /\ late \in SUBSET Command
        /\ disturbed \in BOOLEAN
        /\ overtaken \in SUBSET Target
    OBVIOUS
  <2>3. QED
    BY <2>1, <2>2 DEF WorldTypeOK
<1>4. LocksFit
  BY NoThreadAssumption DEF LocksFit, PlacesFit, GateCounted, PrivateLocksHeld, IsAmbient, NoForm,
     AmbientPlace, ServicePlace, InsideGate, InsidePrivate, HoldsAsParent, HoldsAsChild, InSequence
<1>5. QED
  BY <1>1, <1>2, <1>3, <1>4 DEF ControlInvariant, ControlTypeOK

LEMMA AnswerTypes ==
    ASSUME ThreadTypeOK, NEW t \in Thread, NEW result \in Answered, Answer(t, result)
    PROVE  ThreadTypeOK'
  BY CommandFacts DEF ThreadTypeOK, Answer, Goto, Place, ChildStatus

LEMMA ReturnTypes ==
    ASSUME ThreadTypeOK, NEW t \in Thread, NEW result \in ChildStatus,
           IsAmbient(t) => step[t] \in 1 .. 3, ReturnFromService(t, result)
    PROVE  ThreadTypeOK'
<1>1. CASE IsAmbient(t)
  BY <1>1 DEF ReturnFromService, ThreadTypeOK, Goto, Place, AmbientPlace
<1>2. CASE ~IsAmbient(t)
  BY <1>2, AnswerTypes DEF ReturnFromService, Answered
<1>3. QED
  BY <1>1, <1>2

LEMMA AdapterReturnsTypes ==
    ASSUME ControlTypeOK, NEW t \in Thread, NEW result \in ChildStatus,
           AdapterReturns(t, result), late' \in SUBSET Command
    PROVE  ControlTypeOK'
  BY ControlAssumption DEF ControlTypeOK, ThreadTypeOK, LockTypeOK, WorldTypeOK,
      AdapterReturns, Goto, Place, ServicePlace, lockVars, Value

LEMMA SubmitTypes ==
    ASSUME ControlInvariant, NEW t \in Thread, Submit(t)
    PROVE  ControlTypeOK'
<1> USE DEF Submit, ControlInvariant, ControlTypeOK, LocksFit, Goto, localVars, threadVars, lockVars, worldVars, wireVars
<1>1. ThreadTypeOK'
  BY CommandFacts, ControlAssumption, AnswerTypes, ReturnTypes DEF ThreadTypeOK, Place, AmbientPlace, ServicePlace, PlacesFit, ChildStatus, Answered
<1>2. LockTypeOK'
  BY CommandFacts DEF ThreadTypeOK, LockTypeOK, AcquireGate, ReleaseGate, GateAvailable, GateCounted, Acquisitions, HoldsAsParent, HoldsAsChild, InSequence, InsideGate
<1>3. WorldTypeOK'
  BY CommandFacts, ControlAssumption DEF ThreadTypeOK, WorldTypeOK, TakeAttempt, HasAttempt, Limiter, AcquireGate
<1>4. QED
  BY <1>1, <1>2, <1>3

LEMMA ParentAdmitTypes ==
    ASSUME ControlInvariant, NEW t \in Thread, ParentAdmit(t)
    PROVE  ControlTypeOK'
<1> USE DEF ParentAdmit, ControlInvariant, ControlTypeOK, LocksFit, Goto, localVars, threadVars, lockVars, worldVars, wireVars
<1>1. ThreadTypeOK'
  BY CommandFacts, ControlAssumption, AnswerTypes, ReturnTypes DEF ThreadTypeOK, Place, AmbientPlace, ServicePlace, PlacesFit, ChildStatus, Answered
<1>2. LockTypeOK'
  BY CommandFacts DEF ThreadTypeOK, LockTypeOK, AcquireGate, ReleaseGate, GateAvailable, GateCounted, Acquisitions, HoldsAsParent, HoldsAsChild, InSequence, InsideGate
<1>3. WorldTypeOK'
  BY CommandFacts, ControlAssumption DEF ThreadTypeOK, WorldTypeOK, TakeAttempt, HasAttempt, Limiter, AcquireGate
<1>4. QED
  BY <1>1, <1>2, <1>3

LEMMA ParentTakeGateTypes ==
    ASSUME ControlInvariant, NEW t \in Thread, ParentTakeGate(t)
    PROVE  ControlTypeOK'
<1> USE DEF ParentTakeGate, ControlInvariant, ControlTypeOK, LocksFit, Goto, localVars, threadVars, lockVars, worldVars, wireVars
<1>1. ThreadTypeOK'
  BY CommandFacts, ControlAssumption, AnswerTypes, ReturnTypes DEF ThreadTypeOK, Place, AmbientPlace, ServicePlace, PlacesFit, ChildStatus, Answered
<1>2. LockTypeOK'
  BY CommandFacts DEF ThreadTypeOK, LockTypeOK, AcquireGate, ReleaseGate, GateAvailable, GateCounted, Acquisitions, HoldsAsParent, HoldsAsChild, InSequence, InsideGate
<1>3. WorldTypeOK'
  BY CommandFacts, ControlAssumption DEF ThreadTypeOK, WorldTypeOK, TakeAttempt, HasAttempt, Limiter, AcquireGate
<1>4. QED
  BY <1>1, <1>2, <1>3

LEMMA ParentNextChildTypes ==
    ASSUME ControlInvariant, NEW t \in Thread, ParentNextChild(t)
    PROVE  ControlTypeOK'
<1> USE DEF ParentNextChild, ControlInvariant, ControlTypeOK, LocksFit, Goto, localVars, threadVars, lockVars, worldVars, wireVars
<1>0. step[t] \in 0 .. 2 /\ step[t] + 1 \in 1 .. 3
  BY DEF Continues, ThreadTypeOK
<1>1. ThreadTypeOK'
  BY <1>0, CommandFacts, ControlAssumption, AnswerTypes, ReturnTypes DEF ThreadTypeOK, Place, AmbientPlace, ServicePlace, PlacesFit, ChildStatus, Answered
<1>2. LockTypeOK'
  BY CommandFacts DEF ThreadTypeOK, LockTypeOK, AcquireGate, ReleaseGate, GateAvailable, GateCounted, Acquisitions, HoldsAsParent, HoldsAsChild, InSequence, InsideGate
<1>3. WorldTypeOK'
  BY CommandFacts, ControlAssumption DEF ThreadTypeOK, WorldTypeOK, TakeAttempt, HasAttempt, Limiter, AcquireGate
<1>4. QED
  BY <1>1, <1>2, <1>3

LEMMA ParentFinishTypes ==
    ASSUME ControlInvariant, NEW t \in Thread, ParentFinish(t)
    PROVE  ControlTypeOK'
<1> USE DEF ParentFinish, ControlInvariant, ControlTypeOK, LocksFit, Goto, localVars, threadVars, lockVars, worldVars, wireVars
<1>0. Aggregate(t) \in Answered
  BY DEF Aggregate, Answered, ParentStatus, ChildStatus, ThreadTypeOK
<1>1. ThreadTypeOK'
  BY <1>0, CommandFacts, ControlAssumption, AnswerTypes, ReturnTypes DEF ThreadTypeOK, Place, AmbientPlace, ServicePlace, PlacesFit, ChildStatus, Answered
<1>2. LockTypeOK'
  BY CommandFacts DEF ThreadTypeOK, LockTypeOK, AcquireGate, ReleaseGate, GateAvailable, GateCounted, Acquisitions, HoldsAsParent, HoldsAsChild, InSequence, InsideGate
<1>3. WorldTypeOK'
  BY CommandFacts, ControlAssumption DEF ThreadTypeOK, WorldTypeOK, TakeAttempt, HasAttempt, Limiter, AcquireGate
<1>4. QED
  BY <1>1, <1>2, <1>3

LEMMA ParentReleaseTypes ==
    ASSUME ControlInvariant, NEW t \in Thread, ParentRelease(t)
    PROVE  ControlTypeOK'
<1> USE DEF ParentRelease, ControlInvariant, ControlTypeOK, LocksFit, Goto, localVars, threadVars, lockVars, worldVars, wireVars
<1>0. status[t] \in Answered
  BY DEF PlacesFit
<1>1. ThreadTypeOK'
  BY <1>0, CommandFacts, ControlAssumption, AnswerTypes, ReturnTypes DEF ThreadTypeOK, Place, AmbientPlace, ServicePlace, PlacesFit, ChildStatus, Answered
<1>2. LockTypeOK'
  BY CommandFacts DEF PlacesFit, AmbientPlace, ThreadTypeOK, LockTypeOK, AcquireGate, ReleaseGate, GateAvailable, GateCounted, Acquisitions, HoldsAsParent, HoldsAsChild, InSequence, InsideGate
<1>3. WorldTypeOK'
  BY CommandFacts, ControlAssumption DEF ThreadTypeOK, WorldTypeOK, TakeAttempt, HasAttempt, Limiter, AcquireGate
<1>4. QED
  BY <1>1, <1>2, <1>3

LEMMA AdmitTypes ==
    ASSUME ControlInvariant, NEW t \in Thread, Admit(t)
    PROVE  ControlTypeOK'
<1> USE DEF Admit, ControlInvariant, ControlTypeOK, LocksFit, Goto, localVars, threadVars, lockVars, worldVars, wireVars
<1>1. ThreadTypeOK'
  BY CommandFacts, ControlAssumption, AnswerTypes, ReturnTypes DEF ThreadTypeOK, Place, AmbientPlace, ServicePlace, PlacesFit, ChildStatus, Answered
<1>2. LockTypeOK'
  BY CommandFacts DEF ThreadTypeOK, LockTypeOK, AcquireGate, ReleaseGate, GateAvailable, GateCounted, Acquisitions, HoldsAsParent, HoldsAsChild, InSequence, InsideGate
<1>0. ServiceOf(command[t].target) \in Limiter
  BY CommandFacts DEF ThreadTypeOK, Limiter
<1>3. WorldTypeOK'
  <2>1. /\ attempts' \in [Limiter -> Nat]
        /\ \A l \in Limiter : attempts'[l] <= Limit[l]
    BY <1>0, ControlAssumption DEF WorldTypeOK, TakeAttempt, HasAttempt
  <2>2. QED
    BY <2>1 DEF WorldTypeOK
<1>4. QED
  BY <1>1, <1>2, <1>3

LEMMA TakeGateTypes ==
    ASSUME ControlInvariant, NEW t \in Thread, TakeGate(t)
    PROVE  ControlTypeOK'
<1> USE DEF TakeGate, ControlInvariant, ControlTypeOK, LocksFit, Goto, localVars, threadVars, lockVars, worldVars, wireVars
<1>1. ThreadTypeOK'
  BY CommandFacts, ControlAssumption, AnswerTypes, ReturnTypes DEF ThreadTypeOK, Place, AmbientPlace, ServicePlace, PlacesFit, ChildStatus, Answered
<1>2. LockTypeOK'
  BY CommandFacts DEF ThreadTypeOK, LockTypeOK, AcquireGate, ReleaseGate, GateAvailable, GateCounted, Acquisitions, HoldsAsParent, HoldsAsChild, InSequence, InsideGate
<1>3. WorldTypeOK'
  BY CommandFacts, ControlAssumption DEF ThreadTypeOK, WorldTypeOK, TakeAttempt, HasAttempt, Limiter, AcquireGate
<1>4. QED
  BY <1>1, <1>2, <1>3

LEMMA StartMutationTypes ==
    ASSUME ControlInvariant, NEW t \in Thread, StartMutation(t)
    PROVE  ControlTypeOK'
<1> USE DEF StartMutation, ControlInvariant, ControlTypeOK, LocksFit, Goto, localVars, threadVars, lockVars, worldVars, wireVars
<1>1. ThreadTypeOK'
  BY CommandFacts, ControlAssumption, AnswerTypes, ReturnTypes DEF ThreadTypeOK, Place, AmbientPlace, ServicePlace, PlacesFit, ChildStatus, Answered
<1>2. LockTypeOK'
  BY CommandFacts DEF ThreadTypeOK, LockTypeOK, AcquireGate, ReleaseGate, GateAvailable, GateCounted, Acquisitions, HoldsAsParent, HoldsAsChild, InSequence, InsideGate
<1>3. WorldTypeOK'
  BY CommandFacts, ControlAssumption DEF ThreadTypeOK, WorldTypeOK, TakeAttempt, HasAttempt, Limiter, AcquireGate
<1>4. QED
  BY <1>1, <1>2, <1>3

LEMMA DeviceHandlesTypes ==
    ASSUME ControlInvariant, NEW t \in Thread, DeviceHandles(t)
    PROVE  ControlTypeOK'
<1> USE DEF DeviceHandles, ControlInvariant, ControlTypeOK, LocksFit, Goto, localVars, threadVars, lockVars, worldVars, wireVars
<1>1. ThreadTypeOK'
  BY CommandFacts, ControlAssumption, AnswerTypes, ReturnTypes DEF ThreadTypeOK, Place, AmbientPlace, ServicePlace, PlacesFit, ChildStatus, Answered
<1>2. LockTypeOK'
  BY CommandFacts DEF ThreadTypeOK, LockTypeOK, AcquireGate, ReleaseGate, GateAvailable, GateCounted, Acquisitions, HoldsAsParent, HoldsAsChild, InSequence, InsideGate
<1>3. WorldTypeOK'
  BY CommandFacts, ControlAssumption DEF ThreadTypeOK, WorldTypeOK, TakeAttempt, HasAttempt, Limiter, AcquireGate
<1>4. QED
  BY <1>1, <1>2, <1>3

LEMMA TransportFailsTypes ==
    ASSUME ControlInvariant, NEW t \in Thread, TransportFails(t)
    PROVE  ControlTypeOK'
  BY CommandFacts, AdapterReturnsTypes DEF TransportFails, ControlInvariant, ControlTypeOK, ThreadTypeOK, WorldTypeOK, ChildStatus

LEMMA WLEDAnswersTypes ==
    ASSUME ControlInvariant, NEW t \in Thread, WLEDAnswers(t)
    PROVE  ControlTypeOK'
  BY CommandFacts, AdapterReturnsTypes DEF WLEDAnswers, ControlInvariant, ControlTypeOK, ThreadTypeOK, WorldTypeOK, ChildStatus

LEMMA HyperHDRAnswersTypes ==
    ASSUME ControlInvariant, NEW t \in Thread, HyperHDRAnswers(t)
    PROVE  ControlTypeOK'
<1>1. CASE AdapterReturns(t, "failed")
  BY <1>1, CommandFacts, AdapterReturnsTypes DEF HyperHDRAnswers, ControlInvariant, ControlTypeOK, WorldTypeOK, ChildStatus
<1>2. CASE ~AdapterReturns(t, "failed")
  BY <1>2 DEF HyperHDRAnswers, ControlInvariant, ControlTypeOK, ThreadTypeOK, LockTypeOK, WorldTypeOK, Goto, Place, ServicePlace, localVars, lockVars, wireVars
<1>3. QED
  BY <1>1, <1>2

LEMMA VerifyComponentTypes ==
    ASSUME ControlInvariant, NEW t \in Thread, VerifyComponent(t)
    PROVE  ControlTypeOK'
  BY CommandFacts, AdapterReturnsTypes DEF VerifyComponent, ControlInvariant, ControlTypeOK, ThreadTypeOK, WorldTypeOK, ChildStatus

LEMMA ReleaseTypes ==
    ASSUME ControlInvariant, NEW t \in Thread, Release(t)
    PROVE  ControlTypeOK'
<1> USE DEF Release, ControlInvariant, ControlTypeOK, LocksFit, Goto, localVars, threadVars, lockVars, worldVars, wireVars
<1>1. ThreadTypeOK'
  BY CommandFacts, ControlAssumption, AnswerTypes, ReturnTypes DEF ThreadTypeOK, Place, AmbientPlace, ServicePlace, PlacesFit, ChildStatus, Answered
<1>2. LockTypeOK'
  BY CommandFacts DEF ThreadTypeOK, LockTypeOK, AcquireGate, ReleaseGate, GateAvailable, GateCounted, Acquisitions, HoldsAsParent, HoldsAsChild, InSequence, InsideGate
<1>3. WorldTypeOK'
  BY CommandFacts, ControlAssumption DEF ThreadTypeOK, WorldTypeOK, TakeAttempt, HasAttempt, Limiter, AcquireGate
<1>4. QED
  BY <1>1, <1>2, <1>3

LEMMA ConcludeTypes ==
    ASSUME ControlInvariant, NEW t \in Thread, Conclude(t)
    PROVE  ControlTypeOK'
<1> USE DEF Conclude, ControlInvariant, ControlTypeOK, LocksFit, Goto, localVars, threadVars, lockVars, worldVars, wireVars
<1>1. ThreadTypeOK'
  BY CommandFacts, ControlAssumption, AnswerTypes, ReturnTypes DEF ThreadTypeOK, Place, AmbientPlace, ServicePlace, PlacesFit, ChildStatus, Answered
<1>2. LockTypeOK'
  BY CommandFacts DEF ThreadTypeOK, LockTypeOK, AcquireGate, ReleaseGate, GateAvailable, GateCounted, Acquisitions, HoldsAsParent, HoldsAsChild, InSequence, InsideGate
<1>3. WorldTypeOK'
  BY CommandFacts, ControlAssumption DEF ThreadTypeOK, WorldTypeOK, TakeAttempt, HasAttempt, Limiter, AcquireGate
<1>4. QED
  BY <1>1, <1>2, <1>3

LEMMA WindowSlidesTypes ==
    ASSUME ControlInvariant, NEW l \in Limiter, WindowSlides(l)
    PROVE  ControlTypeOK'
<1> USE DEF WindowSlides, ControlInvariant, ControlTypeOK, Goto, localVars, threadVars, lockVars, worldVars, wireVars
<1>1. ThreadTypeOK' /\ LockTypeOK'
  BY DEF ThreadTypeOK, LockTypeOK
<1>2. WorldTypeOK'
  <2>1. attempts' \in [Limiter -> Nat] /\ \A k \in Limiter : attempts'[k] <= Limit[k]
    <3>1. attempts \in [Limiter -> Nat] /\ Limit \in [Limiter -> Nat]
      BY ControlAssumption DEF WorldTypeOK
    <3>2. \A k \in Limiter : attempts[k] <= Limit[k]
      BY DEF WorldTypeOK
    <3>3. attempts' = [attempts EXCEPT ![l] = @ - 1] /\ attempts[l] > 0
      OBVIOUS
    <3>4. attempts' \in [Limiter -> Nat]
      BY <3>1, <3>3
    <3>5. ASSUME NEW k \in Limiter PROVE attempts'[k] <= Limit[k]
      BY <3>1, <3>2, <3>3
    <3>6. QED
      BY <3>4, <3>5
  <2>2. QED
    BY <2>1 DEF WorldTypeOK
<1>3. QED
  BY <1>1, <1>2

LEMMA OthersTypes ==
    ASSUME ControlInvariant, NEW c \in Command, LateDelivery(c) \/ OutsideChange(c)
    PROVE  ControlTypeOK'
<1> USE DEF LateDelivery, OutsideChange, ControlInvariant, ControlTypeOK, Goto, localVars, threadVars, lockVars, worldVars, wireVars
<1>1. ThreadTypeOK' /\ LockTypeOK'
  BY DEF ThreadTypeOK, LockTypeOK
<1>2. WorldTypeOK'
  BY CommandFacts DEF WorldTypeOK
<1>3. QED
  BY <1>1, <1>2

-----------------------------------------------------------------------------
(* The locks are where the places say.                                     *)

LEMMA SubmitLocks ==
    ASSUME ControlInvariant, NEW t \in Thread, Submit(t)
    PROVE  LocksFit'
<1> USE NoThreadAssumption DEF Submit, ControlInvariant, ControlTypeOK, ThreadTypeOK, LockTypeOK, LocksFit,
      Goto, IsAmbient, AmbientPlace, ServicePlace, InsideGate, InsidePrivate,
      localVars, threadVars, lockVars
<1>1. PlacesFit'
  BY DEF PlacesFit, ReturnFromService, Answer
<1>2. GateCounted'
  BY DEF PlacesFit, GateCounted, HoldsAsParent, HoldsAsChild, InSequence, Acquisitions,
      AcquireGate, ReleaseGate, GateAvailable, ReturnFromService, Answer
<1>3. PrivateLocksHeld'
  BY CommandFacts DEF PrivateLocksHeld, ReturnFromService, Answer
<1>4. QED
  BY <1>1, <1>2, <1>3

LEMMA ParentAdmitLocks ==
    ASSUME ControlInvariant, NEW t \in Thread, ParentAdmit(t)
    PROVE  LocksFit'
<1> USE NoThreadAssumption DEF ParentAdmit, ControlInvariant, ControlTypeOK, ThreadTypeOK, LockTypeOK, LocksFit,
      Goto, IsAmbient, AmbientPlace, ServicePlace, InsideGate, InsidePrivate,
      localVars, threadVars, lockVars
<1>1. PlacesFit'
  BY DEF PlacesFit, ReturnFromService, Answer
<1>2. GateCounted'
  BY DEF PlacesFit, GateCounted, HoldsAsParent, HoldsAsChild, InSequence, Acquisitions,
      AcquireGate, ReleaseGate, GateAvailable, ReturnFromService, Answer
<1>3. PrivateLocksHeld'
  BY CommandFacts DEF PrivateLocksHeld, ReturnFromService, Answer
<1>4. QED
  BY <1>1, <1>2, <1>3

LEMMA ParentTakeGateLocks ==
    ASSUME ControlInvariant, NEW t \in Thread, ParentTakeGate(t)
    PROVE  LocksFit'
<1> USE NoThreadAssumption DEF ParentTakeGate, ControlInvariant, ControlTypeOK, ThreadTypeOK, LockTypeOK, LocksFit,
      Goto, IsAmbient, AmbientPlace, ServicePlace, InsideGate, InsidePrivate,
      localVars, threadVars, lockVars
<1>1. PlacesFit'
  BY DEF PlacesFit, ReturnFromService, Answer
<1>2. GateCounted'
  BY DEF PlacesFit, GateCounted, HoldsAsParent, HoldsAsChild, InSequence, Acquisitions,
      AcquireGate, ReleaseGate, GateAvailable, ReturnFromService, Answer
<1>3. PrivateLocksHeld'
  BY CommandFacts DEF PrivateLocksHeld, ReturnFromService, Answer
<1>4. QED
  BY <1>1, <1>2, <1>3

LEMMA ParentNextChildLocks ==
    ASSUME ControlInvariant, NEW t \in Thread, ParentNextChild(t)
    PROVE  LocksFit'
<1> USE NoThreadAssumption DEF ParentNextChild, ControlInvariant, ControlTypeOK, ThreadTypeOK, LockTypeOK, LocksFit,
      Goto, IsAmbient, AmbientPlace, ServicePlace, InsideGate, InsidePrivate,
      localVars, threadVars, lockVars
<1>0. step[t] + 1 \in 1 .. 3
  BY DEF Continues
<1>1. PlacesFit'
  BY <1>0 DEF PlacesFit, ReturnFromService, Answer
<1>2. GateCounted'
  BY DEF PlacesFit, GateCounted, HoldsAsParent, HoldsAsChild, InSequence, Acquisitions,
      AcquireGate, ReleaseGate, GateAvailable, ReturnFromService, Answer
<1>3. PrivateLocksHeld'
  BY CommandFacts DEF PrivateLocksHeld, ReturnFromService, Answer
<1>4. QED
  BY <1>1, <1>2, <1>3

LEMMA ParentFinishLocks ==
    ASSUME ControlInvariant, NEW t \in Thread, ParentFinish(t)
    PROVE  LocksFit'
<1> USE NoThreadAssumption DEF ParentFinish, ControlInvariant, ControlTypeOK, ThreadTypeOK, LockTypeOK, LocksFit,
      Goto, IsAmbient, AmbientPlace, ServicePlace, InsideGate, InsidePrivate,
      localVars, threadVars, lockVars
<1>0. Aggregate(t) \in Answered
  BY DEF Aggregate, Answered, ParentStatus, ChildStatus
<1>1. PlacesFit'
  BY <1>0 DEF PlacesFit, ReturnFromService, Answer
<1>2. GateCounted'
  BY DEF PlacesFit, GateCounted, HoldsAsParent, HoldsAsChild, InSequence, Acquisitions,
      AcquireGate, ReleaseGate, GateAvailable, ReturnFromService, Answer
<1>3. PrivateLocksHeld'
  BY CommandFacts DEF PrivateLocksHeld, ReturnFromService, Answer
<1>4. QED
  BY <1>1, <1>2, <1>3

LEMMA ParentReleaseLocks ==
    ASSUME ControlInvariant, NEW t \in Thread, ParentRelease(t)
    PROVE  LocksFit'
<1> USE NoThreadAssumption DEF ParentRelease, ControlInvariant, ControlTypeOK, ThreadTypeOK, LockTypeOK, LocksFit,
      Goto, IsAmbient, AmbientPlace, ServicePlace, InsideGate, InsidePrivate,
      localVars, threadVars, lockVars
<1>1. PlacesFit'
  BY DEF PlacesFit, ReturnFromService, Answer
<1>2. GateCounted'
  BY DEF PlacesFit, GateCounted, HoldsAsParent, HoldsAsChild, InSequence, Acquisitions,
      AcquireGate, ReleaseGate, GateAvailable, ReturnFromService, Answer
<1>3. PrivateLocksHeld'
  BY CommandFacts DEF PrivateLocksHeld, ReturnFromService, Answer
<1>4. QED
  BY <1>1, <1>2, <1>3

LEMMA AdmitLocks ==
    ASSUME ControlInvariant, NEW t \in Thread, Admit(t)
    PROVE  LocksFit'
<1> USE NoThreadAssumption DEF Admit, ControlInvariant, ControlTypeOK, ThreadTypeOK, LockTypeOK, LocksFit,
      Goto, IsAmbient, AmbientPlace, ServicePlace, InsideGate, InsidePrivate,
      localVars, threadVars, lockVars
<1>1. PlacesFit'
  BY DEF PlacesFit, ReturnFromService, Answer
<1>2. GateCounted'
  BY DEF PlacesFit, GateCounted, HoldsAsParent, HoldsAsChild, InSequence, Acquisitions,
      AcquireGate, ReleaseGate, GateAvailable, ReturnFromService, Answer
<1>3. PrivateLocksHeld'
  BY CommandFacts DEF PrivateLocksHeld, ReturnFromService, Answer
<1>4. QED
  BY <1>1, <1>2, <1>3

LEMMA TakeGateLocks ==
    ASSUME ControlInvariant, NEW t \in Thread, TakeGate(t)
    PROVE  LocksFit'
<1> USE NoThreadAssumption DEF TakeGate, ControlInvariant, ControlTypeOK, ThreadTypeOK, LockTypeOK, LocksFit,
      Goto, IsAmbient, AmbientPlace, ServicePlace, InsideGate, InsidePrivate,
      localVars, threadVars, lockVars
<1>1. PlacesFit'
  BY DEF PlacesFit, ReturnFromService, Answer
<1>2. GateCounted'
  BY DEF PlacesFit, GateCounted, HoldsAsParent, HoldsAsChild, InSequence, Acquisitions,
      AcquireGate, ReleaseGate, GateAvailable, ReturnFromService, Answer
<1>3. PrivateLocksHeld'
  BY CommandFacts DEF PrivateLocksHeld, ReturnFromService, Answer
<1>4. QED
  BY <1>1, <1>2, <1>3

LEMMA StartMutationLocks ==
    ASSUME ControlInvariant, NEW t \in Thread, StartMutation(t)
    PROVE  LocksFit'
<1> USE NoThreadAssumption DEF StartMutation, ControlInvariant, ControlTypeOK, ThreadTypeOK, LockTypeOK, LocksFit,
      Goto, IsAmbient, AmbientPlace, ServicePlace, InsideGate, InsidePrivate,
      localVars, threadVars, lockVars
<1>1. PlacesFit'
  BY DEF PlacesFit, ReturnFromService, Answer
<1>2. GateCounted'
  BY DEF PlacesFit, GateCounted, HoldsAsParent, HoldsAsChild, InSequence, Acquisitions,
      AcquireGate, ReleaseGate, GateAvailable, ReturnFromService, Answer
<1>3. PrivateLocksHeld'
  BY CommandFacts DEF PrivateLocksHeld, ReturnFromService, Answer
<1>4. QED
  BY <1>1, <1>2, <1>3

LEMMA DeviceHandlesLocks ==
    ASSUME ControlInvariant, NEW t \in Thread, DeviceHandles(t)
    PROVE  LocksFit'
<1> USE NoThreadAssumption DEF DeviceHandles, ControlInvariant, ControlTypeOK, ThreadTypeOK, LockTypeOK, LocksFit,
      Goto, IsAmbient, AmbientPlace, ServicePlace, InsideGate, InsidePrivate,
      localVars, threadVars, lockVars
<1>1. PlacesFit'
  BY DEF PlacesFit, ReturnFromService, Answer
<1>2. GateCounted'
  BY DEF PlacesFit, GateCounted, HoldsAsParent, HoldsAsChild, InSequence, Acquisitions,
      AcquireGate, ReleaseGate, GateAvailable, ReturnFromService, Answer
<1>3. PrivateLocksHeld'
  BY CommandFacts DEF PrivateLocksHeld, ReturnFromService, Answer
<1>4. QED
  BY <1>1, <1>2, <1>3

LEMMA AdapterReturnsLocks ==
    ASSUME ControlInvariant, NEW t \in Thread, OnWire(t), NEW result, AdapterReturns(t, result)
    PROVE  LocksFit'
<1> USE NoThreadAssumption DEF OnWire, AdapterReturns, ControlInvariant, ControlTypeOK,
      ThreadTypeOK, LockTypeOK, LocksFit, Goto, IsAmbient, AmbientPlace, ServicePlace,
      InsideGate, InsidePrivate, lockVars
<1>1. PlacesFit'
  BY DEF PlacesFit
<1>2. GateCounted'
  BY DEF GateCounted, HoldsAsParent, HoldsAsChild, InSequence, Acquisitions
<1>3. PrivateLocksHeld'
  BY DEF PrivateLocksHeld
<1>4. QED
  BY <1>1, <1>2, <1>3

LEMMA AdapterStepLocks ==
    ASSUME ControlInvariant, NEW t \in Thread, AdapterStep(t)
    PROVE  LocksFit'
<1>1. CASE \E result : AdapterReturns(t, result)
  BY <1>1, AdapterReturnsLocks DEF AdapterStep, OnWire, TransportFails, WLEDAnswers,
      HyperHDRAnswers, VerifyComponent
<1>2. CASE HyperHDRAnswers(t) /\ ~AdapterReturns(t, "failed")
  <2> USE <1>2 DEF HyperHDRAnswers, ControlInvariant, ControlTypeOK, ThreadTypeOK, LocksFit, Goto,
      IsAmbient, AmbientPlace, ServicePlace, InsideGate, InsidePrivate, localVars, lockVars
  <2>1. PlacesFit'
    BY DEF PlacesFit
  <2>2. GateCounted'
    BY DEF GateCounted, HoldsAsParent, HoldsAsChild, InSequence, Acquisitions
  <2>3. PrivateLocksHeld'
    BY DEF PrivateLocksHeld
  <2>4. QED
    BY <2>1, <2>2, <2>3
<1>3. QED
  BY <1>1, <1>2 DEF AdapterStep, TransportFails, WLEDAnswers, HyperHDRAnswers, VerifyComponent

LEMMA ReleaseLocks ==
    ASSUME ControlInvariant, NEW t \in Thread, Release(t)
    PROVE  LocksFit'
<1> USE NoThreadAssumption DEF Release, ControlInvariant, ControlTypeOK, ThreadTypeOK, LockTypeOK, LocksFit,
      Goto, IsAmbient, AmbientPlace, ServicePlace, InsideGate, InsidePrivate,
      localVars, threadVars, lockVars
<1>1. PlacesFit'
  BY DEF PlacesFit, ReturnFromService, Answer
<1>2. GateCounted'
  BY DEF PlacesFit, GateCounted, HoldsAsParent, HoldsAsChild, InSequence, Acquisitions,
      AcquireGate, ReleaseGate, GateAvailable, ReturnFromService, Answer
<1>3. PrivateLocksHeld'
  BY CommandFacts DEF PrivateLocksHeld, ReturnFromService, Answer
<1>4. QED
  BY <1>1, <1>2, <1>3

LEMMA ConcludeLocks ==
    ASSUME ControlInvariant, NEW t \in Thread, Conclude(t)
    PROVE  LocksFit'
<1> USE NoThreadAssumption DEF Conclude, ControlInvariant, ControlTypeOK, ThreadTypeOK, LockTypeOK, LocksFit,
      Goto, IsAmbient, AmbientPlace, ServicePlace, InsideGate, InsidePrivate,
      localVars, threadVars, lockVars
<1>1. PlacesFit'
  BY DEF PlacesFit, ReturnFromService, Answer
<1>2. GateCounted'
  BY DEF PlacesFit, GateCounted, HoldsAsParent, HoldsAsChild, InSequence, Acquisitions,
      AcquireGate, ReleaseGate, GateAvailable, ReturnFromService, Answer
<1>3. PrivateLocksHeld'
  BY CommandFacts DEF PrivateLocksHeld, ReturnFromService, Answer
<1>4. QED
  BY <1>1, <1>2, <1>3

LEMMA LocksUntouched ==
    ASSUME LocksFit, UNCHANGED <<threadVars, lockVars>>
    PROVE  LocksFit'
  BY DEF LocksFit, PlacesFit, GateCounted, PrivateLocksHeld, HoldsAsParent, HoldsAsChild,
      InSequence, Acquisitions, IsAmbient, threadVars, localVars, lockVars

LEMMA NextPreserves == ControlInvariant /\ [Next]_controlVars => ControlInvariant'
<1> SUFFICES ASSUME ControlInvariant, [Next]_controlVars
             PROVE  ControlInvariant'
  OBVIOUS
<1> USE DEF ControlInvariant
<1>1. CASE UNCHANGED controlVars
  <2>1. ControlTypeOK'
    BY <1>1 DEF ControlTypeOK, ThreadTypeOK, LockTypeOK, WorldTypeOK, controlVars, threadVars,
        localVars, lockVars, worldVars, wireVars
  <2>2. LocksFit'
    BY <1>1, LocksUntouched DEF controlVars
  <2>3. QED
    BY <2>1, <2>2
<1>2. CASE \E t \in Thread : Submit(t)
  BY <1>2, SubmitTypes, SubmitLocks
<1>3. ASSUME NEW t \in Thread, ThreadStep(t) PROVE ControlInvariant'
  <2>1. CASE ParentAdmit(t)
    BY <2>1, ParentAdmitTypes, ParentAdmitLocks
  <2>2. CASE ParentTakeGate(t)
    BY <2>2, ParentTakeGateTypes, ParentTakeGateLocks
  <2>3. CASE ParentNextChild(t)
    BY <2>3, ParentNextChildTypes, ParentNextChildLocks
  <2>4. CASE ParentFinish(t)
    BY <2>4, ParentFinishTypes, ParentFinishLocks
  <2>5. CASE ParentRelease(t)
    BY <2>5, ParentReleaseTypes, ParentReleaseLocks
  <2>6. CASE Admit(t)
    BY <2>6, AdmitTypes, AdmitLocks
  <2>7. CASE TakeGate(t)
    BY <2>7, TakeGateTypes, TakeGateLocks
  <2>8. CASE StartMutation(t)
    BY <2>8, StartMutationTypes, StartMutationLocks
  <2>9. CASE AdapterStep(t)
    BY <2>9, TransportFailsTypes, WLEDAnswersTypes, HyperHDRAnswersTypes,
        VerifyComponentTypes, AdapterStepLocks DEF AdapterStep
  <2>10. CASE Release(t)
    BY <2>10, ReleaseTypes, ReleaseLocks
  <2>11. CASE Conclude(t)
    BY <2>11, ConcludeTypes, ConcludeLocks
  <2>12. QED
    BY <1>3, <2>1, <2>2, <2>3, <2>4, <2>5, <2>6, <2>7, <2>8, <2>9, <2>10, <2>11
       DEF ThreadStep
<1>4. CASE \E t \in Thread : DeviceHandles(t)
  BY <1>4, DeviceHandlesTypes, DeviceHandlesLocks
<1>5. CASE \E c \in Command : LateDelivery(c) \/ OutsideChange(c)
  <2>1. UNCHANGED <<threadVars, lockVars>>
    BY <1>5 DEF LateDelivery, OutsideChange
  <2>2. QED
    BY <1>5, <2>1, OthersTypes, LocksUntouched
<1>6. CASE \E l \in Limiter : WindowSlides(l)
  <2>1. UNCHANGED <<threadVars, lockVars>>
    BY <1>6 DEF WindowSlides
  <2>2. QED
    BY <1>6, <2>1, WindowSlidesTypes, LocksUntouched
<1>7. late \subseteq Command /\ Outside \subseteq Command
  BY ControlAssumption DEF ControlTypeOK, WorldTypeOK
<1>8. QED
  BY <1>1, <1>2, <1>3, <1>4, <1>5, <1>6, <1>7 DEF Next, DeviceStep

-----------------------------------------------------------------------------
(* The theorems.                                                           *)

THEOREM ControlInvariantHolds == ControlSpec => []ControlInvariant
<1>1. QED
  BY InitEstablishes, NextPreserves, PTL DEF ControlSpec

(* Every variable keeps its type, attempts never exceed a limit and the    *)
(* gate is never taken more than twice.                                    *)
THEOREM ControlTypeCorrect == ControlSpec => []ControlTypeOK
<1>1. ControlInvariant => ControlTypeOK
  BY DEF ControlInvariant
<1>2. QED
  BY <1>1, ControlInvariantHolds, PTL

(* One gate over both services: never two device mutations at a time.      *)
THEOREM SerializedMutationsHold == ControlSpec => []SerializedMutations
<1>1. ControlInvariant => SerializedMutations
  BY DEF ControlInvariant, LocksFit, GateCounted, SerializedMutations, OnWire, HoldsAsChild,
      InsideGate
<1>2. QED
  BY <1>1, ControlInvariantHolds, PTL

(* The parent's acquisition outlives its children's releases: no command   *)
(* of another request comes between the children of an ambient sequence.   *)
THEOREM AmbientUninterruptedHolds == ControlSpec => []AmbientUninterrupted
<1>1. ControlInvariant => AmbientUninterrupted
  BY DEF ControlInvariant, LocksFit, GateCounted, AmbientUninterrupted, OnWire, HoldsAsChild,
      HoldsAsParent, InsideGate
<1>2. QED
  BY <1>1, ControlInvariantHolds, PTL

(* Whatever way a request ends, its thread has given back every lock.      *)
THEOREM LocksReturnedHolds == ControlSpec => []LocksReturned
<1>1. ControlInvariant => LocksReturned
  BY NoThreadAssumption DEF ControlInvariant, ControlTypeOK, LockTypeOK, LocksFit, PlacesFit, GateCounted, PrivateLocksHeld,
      LocksReturned, HoldsAsChild, HoldsAsParent, InSequence, InsideGate, InsidePrivate,
      Acquisitions
<1>2. QED
  BY <1>1, ControlInvariantHolds, PTL

-----------------------------------------------------------------------------
(* The ambient sequences: what the answer of a sequence says about its     *)
(* children and about the devices, and that a refused request touched      *)
(* nothing.                                                                *)

(* Results of a command that was put on the wire. *)
Attempted == {"verified", "failed", "unverified"}

(* Nothing is left from an earlier request. *)
FreshRequest ==
    \A t \in Thread : pc[t] \in {"idle", "parent_execute", "parent_gate"} =>
        step[t] = 0 /\ verified[t] = {} /\ ~sent[t]

AdapterResult ==
    \A t \in Thread : pc[t] \in {"release", "conclude"} => outcome[t] \in Attempted

(* The children begun and verified so far. *)
ChildrenSoFar(t) ==
    /\ verified[t] \subseteq 1 .. step[t]
    /\ request[t].parent = "ambient_on" => \A i \in 1 .. 3 : i < step[t] => i \in verified[t]
    /\ request[t].parent = "ambient_off" => (step[t] > 1 => 1 \in verified[t])

Admitted == \A t \in Thread : pc[t] = "parent_gate" => ~ParentDenied(t)

SequenceFits ==
    \A t \in Thread : InSequence(t) =>
        /\ ~ParentDenied(t)
        /\ ChildrenSoFar(t)
        /\ pc[t] \in ServicePlace =>
               command[t] = Steps(request[t].parent)[step[t]] /\ step[t] \notin verified[t]
        /\ pc[t] \in AmbientPlace /\ step[t] > 0 =>
               /\ step[t] \in verified[t] <=> outcome[t] = "verified"
               /\ outcome[t] \notin {"busy", "denied"}
        /\ pc[t] = "parent_release" =>
               step[t] > 0 /\ ~Continues(t) /\ status[t] = Aggregate(t)

(* Where a thread that sent a command can be. *)
SentFits ==
    \A t \in Thread : sent[t] =>
        \/ pc[t] \in {"wait", "verify", "release", "conclude"}
        \/ /\ InSequence(t)
           /\ \/ verified[t] # {}
              \/ pc[t] \in AmbientPlace /\ step[t] = 1 /\ outcome[t] \in Attempted

(* What is known of the devices while nobody else changes them. *)
DevicesFitFor(t) ==
    ~disturbed =>
        /\ InSequence(t) => \A i \in verified[t] : Applied(Steps(request[t].parent)[i])
        /\ pc[t] = "wait" /\ post[t] = "handled" =>
               reply[t] = device[command[t].target] \/ command[t].target \in overtaken
        /\ pc[t] = "release" \/ (InSequence(t) /\ pc[t] = "conclude") =>
               (outcome[t] = "verified" => Applied(command[t]))
DevicesFit == \A t \in Thread : DevicesFitFor(t)

SequenceInvariant ==
    /\ ControlInvariant
    /\ FreshRequest /\ Admitted /\ AdapterResult /\ SequenceFits /\ SentFits /\ DevicesFit

-----------------------------------------------------------------------------
LEMMA StepFacts ==
    \A operation : \A i \in 1 .. 3 :
        /\ Steps(operation)[i].target \in Switch
        /\ Steps(operation)[i] \in Command
        /\ \A j \in 1 .. 3 : i # j => Steps(operation)[i].target # Steps(operation)[j].target
<1> TAKE operation
<1>1. CASE operation = "ambient_on"
  BY <1>1, CommandFacts DEF Steps, Set, Switch
<1>2. CASE operation # "ambient_on"
  <2>1. Steps(operation) = <<Set("led", 0), Set("grabber", 0), Set("power", 0)>>
    BY <1>2 DEF Steps
  <2>2. \A i \in 1 .. 3 : i = 1 \/ i = 2 \/ i = 3
    OBVIOUS
  <2>3. QED
    BY <2>1, <2>2, CommandFacts DEF Set, Switch
<1>3. QED
  BY <1>1, <1>2

(* The gate has one owner: the thread that is inside. *)
LEMMA OneInside ==
    ASSUME ControlInvariant, NEW t \in Thread
    PROVE  InSequence(t) \/ pc[t] \in InsideGate <=> gate_owner = t
  BY DEF ControlInvariant, LocksFit, GateCounted, HoldsAsParent, HoldsAsChild

LEMMA OthersOutside ==
    ASSUME ControlInvariant, NEW t \in Thread, GateAvailable(t), NEW u \in Thread, u # t
    PROVE  ~InSequence(u) /\ pc[u] \notin InsideGate
  BY OneInside, NoThreadAssumption DEF GateAvailable

(* A thread outside the gate claims nothing of the devices. *)
LEMMA NoClaim ==
    ASSUME NEW u \in Thread, ~InSequence(u), pc[u] \notin InsideGate
    PROVE  DevicesFitFor(u)
  BY DEF DevicesFitFor, InsideGate

(* No check of a service can refuse a child of an admitted sequence. *)
LEMMA ChildAllowed ==
    ASSUME SequenceInvariant, NEW t \in Thread, InSequence(t), pc[t] \in ServicePlace
    PROVE  ~CommandDenied(t)
<1>1. /\ command[t] = Steps(request[t].parent)[step[t]]
      /\ step[t] \in 1 .. 3
      /\ ~ParentDenied(t)
      /\ IsAmbient(t)
  BY DEF SequenceInvariant, SequenceFits, ControlInvariant, LocksFit, PlacesFit, InSequence
<1>2. command[t] \in AllowedCommand /\ command[t].target # "brightness"
  BY <1>1, StepFacts DEF ParentDenied, Switch
<1>3. QED
  BY <1>1, <1>2 DEF CommandDenied, ParentDenied

(* The private lock is free for the thread that holds the gate. *)
LEMMA PrivateLockFree ==
    ASSUME ControlInvariant, NEW t \in Thread, pc[t] = "lock", NEW s \in Service
    PROVE  operation_lock[s] = NoThread
<1>1. ASSUME NEW u \in Thread, operation_lock[s] = u PROVE FALSE
  <2>1. pc[u] \in InsidePrivate
    BY <1>1 DEF ControlInvariant, LocksFit, PrivateLocksHeld
  <2>2. gate_owner = u /\ gate_owner = t
    BY <2>1, OneInside DEF InsidePrivate, InsideGate
  <2>3. QED
    BY <2>1, <2>2 DEF InsidePrivate
<1>2. QED
  BY <1>1 DEF ControlInvariant, ControlTypeOK, LockTypeOK

LEMMA InitFits == Init => SequenceInvariant
  BY InitEstablishes DEF SequenceInvariant, Init, FreshRequest, Admitted, AdapterResult, SequenceFits, SentFits,
      DevicesFit, DevicesFitFor, InSequence, IsAmbient, NoForm

LEMMA SubmitFits ==
    ASSUME SequenceInvariant, NEW t \in Thread, Submit(t)
    PROVE  (FreshRequest /\ Admitted /\ AdapterResult /\ SequenceFits /\ SentFits /\ DevicesFit)'
<1> USE DEF Submit, SequenceInvariant, ControlInvariant, ControlTypeOK, ThreadTypeOK,
      Goto, IsAmbient, AmbientPlace, ServicePlace, InSequence, Attempted,
      localVars, threadVars, lockVars, worldVars, wireVars,
      ReturnFromService, Answer, AdapterReturns
<1>1. (FreshRequest /\ Admitted /\ AdapterResult)'
  BY DEF FreshRequest, Admitted, ParentDenied, AdapterResult, SentFits, SequenceFits, ChildrenSoFar
<1>2. SequenceFits'
  BY StepFacts DEF FreshRequest, Admitted, AdapterResult, SequenceFits, ChildrenSoFar, ParentDenied,
     Continues, Aggregate
<1>3. SentFits'
  BY DEF FreshRequest, AdapterResult, SentFits, SequenceFits, ChildrenSoFar
<1>4. DevicesFit'
  BY StepFacts DEF FreshRequest, DevicesFit, DevicesFitFor, Applied, SequenceFits, ChildrenSoFar,
      LocksFit, GateCounted, HoldsAsParent, HoldsAsChild, InsideGate, AcquireGate, ReleaseGate
<1>5. QED
  BY <1>1, <1>2, <1>3, <1>4

LEMMA ParentAdmitFits ==
    ASSUME SequenceInvariant, NEW t \in Thread, ParentAdmit(t)
    PROVE  (FreshRequest /\ Admitted /\ AdapterResult /\ SequenceFits /\ SentFits /\ DevicesFit)'
<1> USE DEF ParentAdmit, SequenceInvariant, ControlInvariant, ControlTypeOK, ThreadTypeOK,
      Goto, IsAmbient, AmbientPlace, ServicePlace, InSequence, Attempted,
      localVars, threadVars, lockVars, worldVars, wireVars,
      ReturnFromService, Answer, AdapterReturns
<1>1. (FreshRequest /\ Admitted /\ AdapterResult)'
  BY DEF FreshRequest, Admitted, ParentDenied, AdapterResult, SentFits, SequenceFits, ChildrenSoFar
<1>2. SequenceFits'
  BY StepFacts DEF FreshRequest, Admitted, AdapterResult, SequenceFits, ChildrenSoFar, ParentDenied,
     Continues, Aggregate
<1>3. SentFits'
  BY DEF FreshRequest, AdapterResult, SentFits, SequenceFits, ChildrenSoFar
<1>4. DevicesFit'
  BY StepFacts DEF FreshRequest, DevicesFit, DevicesFitFor, Applied, SequenceFits, ChildrenSoFar,
      LocksFit, GateCounted, HoldsAsParent, HoldsAsChild, InsideGate, AcquireGate, ReleaseGate
<1>5. QED
  BY <1>1, <1>2, <1>3, <1>4

LEMMA ParentTakeGateFits ==
    ASSUME SequenceInvariant, NEW t \in Thread, ParentTakeGate(t)
    PROVE  (FreshRequest /\ Admitted /\ AdapterResult /\ SequenceFits /\ SentFits /\ DevicesFit)'
<1> USE DEF ParentTakeGate, SequenceInvariant, ControlInvariant, ControlTypeOK, ThreadTypeOK,
      Goto, IsAmbient, AmbientPlace, ServicePlace, InSequence, Attempted,
      localVars, threadVars, lockVars, worldVars, wireVars,
      ReturnFromService, Answer, AdapterReturns
<1>1. (FreshRequest /\ Admitted /\ AdapterResult)'
  BY DEF FreshRequest, Admitted, ParentDenied, AdapterResult, SentFits, SequenceFits, ChildrenSoFar
<1>2. SequenceFits'
  BY StepFacts DEF FreshRequest, Admitted, AdapterResult, SequenceFits, ChildrenSoFar, ParentDenied,
     Continues, Aggregate
<1>3. SentFits'
  BY DEF FreshRequest, AdapterResult, SentFits, SequenceFits, ChildrenSoFar
<1>4. DevicesFit'
  <2>1. CASE GateAvailable(t)
    <3>1. ASSUME NEW u \in Thread, u # t PROVE DevicesFitFor(u)'
      <4>1. ~InSequence(u)' /\ pc'[u] \notin InsideGate
        BY <2>1, <3>1, OthersOutside DEF InsideGate
      <4>2. QED
        BY <4>1 DEF DevicesFitFor, InsideGate
    <3>2. DevicesFitFor(t)'
      BY <2>1 DEF DevicesFitFor, FreshRequest
    <3>3. QED
      BY <3>1, <3>2 DEF DevicesFit
  <2>2. CASE ~GateAvailable(t)
    BY <2>2 DEF DevicesFit, DevicesFitFor, Applied, FreshRequest
  <2>3. QED
    BY <2>1, <2>2
<1>5. QED
  BY <1>1, <1>2, <1>3, <1>4

LEMMA ParentNextChildFits ==
    ASSUME SequenceInvariant, NEW t \in Thread, ParentNextChild(t)
    PROVE  (FreshRequest /\ Admitted /\ AdapterResult /\ SequenceFits /\ SentFits /\ DevicesFit)'
<1> USE DEF ParentNextChild, SequenceInvariant, ControlInvariant, ControlTypeOK, ThreadTypeOK,
      Goto, IsAmbient, AmbientPlace, ServicePlace, InSequence, Attempted,
      localVars, threadVars, lockVars, worldVars, wireVars,
      ReturnFromService, Answer, AdapterReturns
<1>1. (FreshRequest /\ Admitted /\ AdapterResult)'
  BY DEF FreshRequest, Admitted, ParentDenied, AdapterResult, SentFits, SequenceFits, ChildrenSoFar
<1>2. SequenceFits'
  BY StepFacts DEF FreshRequest, Admitted, AdapterResult, SequenceFits, ChildrenSoFar, ParentDenied,
     Continues, Aggregate
<1>3. SentFits'
  BY DEF Continues, FreshRequest, AdapterResult, SentFits, SequenceFits, ChildrenSoFar
<1>4. DevicesFit'
  BY StepFacts DEF FreshRequest, DevicesFit, DevicesFitFor, Applied, SequenceFits, ChildrenSoFar,
      LocksFit, GateCounted, HoldsAsParent, HoldsAsChild, InsideGate, AcquireGate, ReleaseGate
<1>5. QED
  BY <1>1, <1>2, <1>3, <1>4

LEMMA ParentFinishFits ==
    ASSUME SequenceInvariant, NEW t \in Thread, ParentFinish(t)
    PROVE  (FreshRequest /\ Admitted /\ AdapterResult /\ SequenceFits /\ SentFits /\ DevicesFit)'
<1> USE DEF ParentFinish, SequenceInvariant, ControlInvariant, ControlTypeOK, ThreadTypeOK,
      Goto, IsAmbient, AmbientPlace, ServicePlace, InSequence, Attempted,
      localVars, threadVars, lockVars, worldVars, wireVars,
      ReturnFromService, Answer, AdapterReturns
<1>1. (FreshRequest /\ Admitted /\ AdapterResult)'
  BY DEF FreshRequest, Admitted, ParentDenied, AdapterResult, SentFits, SequenceFits, ChildrenSoFar
<1>2. SequenceFits'
  BY StepFacts DEF FreshRequest, Admitted, AdapterResult, SequenceFits, ChildrenSoFar, ParentDenied,
     Continues, Aggregate
<1>3. SentFits'
  BY DEF FreshRequest, AdapterResult, SentFits, SequenceFits, ChildrenSoFar
<1>4. DevicesFit'
  BY StepFacts DEF FreshRequest, DevicesFit, DevicesFitFor, Applied, SequenceFits, ChildrenSoFar,
      LocksFit, GateCounted, HoldsAsParent, HoldsAsChild, InsideGate, AcquireGate, ReleaseGate
<1>5. QED
  BY <1>1, <1>2, <1>3, <1>4

LEMMA ParentReleaseFits ==
    ASSUME SequenceInvariant, NEW t \in Thread, ParentRelease(t)
    PROVE  (FreshRequest /\ Admitted /\ AdapterResult /\ SequenceFits /\ SentFits /\ DevicesFit)'
<1> USE DEF ParentRelease, SequenceInvariant, ControlInvariant, ControlTypeOK, ThreadTypeOK,
      Goto, IsAmbient, AmbientPlace, ServicePlace, InSequence, Attempted,
      localVars, threadVars, lockVars, worldVars, wireVars,
      ReturnFromService, Answer, AdapterReturns
<1>1. (FreshRequest /\ Admitted /\ AdapterResult)'
  BY DEF FreshRequest, Admitted, ParentDenied, AdapterResult, SentFits, SequenceFits, ChildrenSoFar
<1>2. SequenceFits'
  BY StepFacts DEF FreshRequest, Admitted, AdapterResult, SequenceFits, ChildrenSoFar, ParentDenied,
     Continues, Aggregate
<1>3. SentFits'
  BY DEF FreshRequest, AdapterResult, SentFits, SequenceFits, ChildrenSoFar
<1>4. DevicesFit'
  BY StepFacts DEF FreshRequest, DevicesFit, DevicesFitFor, Applied, SequenceFits, ChildrenSoFar,
      LocksFit, GateCounted, HoldsAsParent, HoldsAsChild, InsideGate, AcquireGate, ReleaseGate
<1>5. QED
  BY <1>1, <1>2, <1>3, <1>4

LEMMA AdmitFits ==
    ASSUME SequenceInvariant, NEW t \in Thread, Admit(t)
    PROVE  (FreshRequest /\ Admitted /\ AdapterResult /\ SequenceFits /\ SentFits /\ DevicesFit)'
<1> USE DEF Admit, SequenceInvariant, ControlInvariant, ControlTypeOK, ThreadTypeOK,
      Goto, IsAmbient, AmbientPlace, ServicePlace, InSequence, Attempted,
      localVars, threadVars, lockVars, worldVars, wireVars,
      ReturnFromService, Answer, AdapterReturns
<1>1. (FreshRequest /\ Admitted /\ AdapterResult)'
  BY DEF FreshRequest, Admitted, ParentDenied, AdapterResult, SentFits, SequenceFits, ChildrenSoFar
<1>2. SequenceFits'
  BY ChildAllowed DEF FreshRequest, Admitted, AdapterResult, SequenceFits, ChildrenSoFar, ParentDenied,
     Continues, Aggregate
<1>3. SentFits'
  BY DEF FreshRequest, AdapterResult, SentFits, SequenceFits, ChildrenSoFar
<1>4. DevicesFit'
  BY StepFacts DEF FreshRequest, DevicesFit, DevicesFitFor, Applied, SequenceFits, ChildrenSoFar,
      LocksFit, GateCounted, HoldsAsParent, HoldsAsChild, InsideGate, AcquireGate, ReleaseGate
<1>5. QED
  BY <1>1, <1>2, <1>3, <1>4

LEMMA TakeGateFits ==
    ASSUME SequenceInvariant, NEW t \in Thread, TakeGate(t)
    PROVE  (FreshRequest /\ Admitted /\ AdapterResult /\ SequenceFits /\ SentFits /\ DevicesFit)'
<1> USE DEF TakeGate, SequenceInvariant, ControlInvariant, ControlTypeOK, ThreadTypeOK,
      Goto, IsAmbient, AmbientPlace, ServicePlace, InSequence, Attempted,
      localVars, threadVars, lockVars, worldVars, wireVars,
      ReturnFromService, Answer, AdapterReturns
<1>1. (FreshRequest /\ Admitted /\ AdapterResult)'
  BY DEF FreshRequest, Admitted, ParentDenied, AdapterResult, SentFits, SequenceFits, ChildrenSoFar
<1>0. InSequence(t) => GateAvailable(t)
  BY OneInside DEF GateAvailable
<1>2. SequenceFits'
  BY <1>0 DEF FreshRequest, Admitted, AdapterResult, SequenceFits, ChildrenSoFar, ParentDenied,
     Continues, Aggregate
<1>3. SentFits'
  BY DEF FreshRequest, AdapterResult, SentFits, SequenceFits, ChildrenSoFar
<1>4. DevicesFit'
  <2>1. CASE GateAvailable(t)
    <3>1. ASSUME NEW u \in Thread, u # t PROVE DevicesFitFor(u)'
      <4>1. ~InSequence(u)' /\ pc'[u] \notin InsideGate
        BY <2>1, <3>1, OthersOutside DEF InsideGate
      <4>2. QED
        BY <4>1 DEF DevicesFitFor, InsideGate
    <3>2. DevicesFitFor(t)'
      <4>1. InSequence(t) => gate_depth = 1
        BY OneInside DEF LocksFit, GateCounted, Acquisitions, HoldsAsParent, HoldsAsChild, InsideGate
      <4>2. InSequence(t) => disturbed' = disturbed /\ overtaken' = overtaken
        BY <2>1, <4>1 DEF AcquireGate, WorldTypeOK
      <4>3. UNCHANGED <<request, verified, device>> /\ pc'[t] = "lock"
        BY <2>1
      <4>4. QED
        BY <4>2, <4>3 DEF DevicesFit, DevicesFitFor, Applied
    <3>3. QED
      BY <3>1, <3>2 DEF DevicesFit
  <2>2. CASE ~GateAvailable(t)
    BY <1>0, <2>2 DEF DevicesFit, DevicesFitFor, Applied
  <2>3. QED
    BY <2>1, <2>2
<1>5. QED
  BY <1>1, <1>2, <1>3, <1>4

LEMMA StartMutationFits ==
    ASSUME SequenceInvariant, NEW t \in Thread, StartMutation(t)
    PROVE  (FreshRequest /\ Admitted /\ AdapterResult /\ SequenceFits /\ SentFits /\ DevicesFit)'
<1> USE DEF StartMutation, SequenceInvariant, ControlInvariant, ControlTypeOK, ThreadTypeOK,
      Goto, IsAmbient, AmbientPlace, ServicePlace, InSequence, Attempted,
      localVars, threadVars, lockVars, worldVars, wireVars,
      ReturnFromService, Answer, AdapterReturns
<1>1. (FreshRequest /\ Admitted /\ AdapterResult)'
  BY DEF FreshRequest, Admitted, ParentDenied, AdapterResult, SentFits, SequenceFits, ChildrenSoFar
<1>0. operation_lock[ServiceOf(command[t].target)] = NoThread
  BY PrivateLockFree, CommandFacts
<1>2. SequenceFits'
  BY <1>0 DEF FreshRequest, Admitted, AdapterResult, SequenceFits, ChildrenSoFar, ParentDenied,
     Continues, Aggregate
<1>3. SentFits'
  BY DEF FreshRequest, AdapterResult, SentFits, SequenceFits, ChildrenSoFar
<1>4. DevicesFit'
  <2>1. ASSUME NEW u \in Thread, u # t PROVE DevicesFitFor(u)'
    BY <1>0, <2>1 DEF DevicesFit, DevicesFitFor, Applied, WorldTypeOK
  <2>2. DevicesFitFor(t)'
    BY <1>0 DEF DevicesFit, DevicesFitFor, Applied, WorldTypeOK
  <2>3. QED
    BY <2>1, <2>2 DEF DevicesFit
<1>5. QED
  BY <1>1, <1>2, <1>3, <1>4

LEMMA DeviceHandlesFits ==
    ASSUME SequenceInvariant, NEW t \in Thread, DeviceHandles(t)
    PROVE  (FreshRequest /\ Admitted /\ AdapterResult /\ SequenceFits /\ SentFits /\ DevicesFit)'
<1> USE DEF DeviceHandles, SequenceInvariant, ControlInvariant, ControlTypeOK, ThreadTypeOK,
      Goto, IsAmbient, AmbientPlace, ServicePlace, InSequence, Attempted,
      localVars, threadVars, lockVars, worldVars, wireVars,
      ReturnFromService, Answer, AdapterReturns
<1>1. (FreshRequest /\ Admitted /\ AdapterResult)'
  BY DEF FreshRequest, Admitted, ParentDenied, AdapterResult, SentFits, SequenceFits, ChildrenSoFar
<1>2. SequenceFits'
  BY StepFacts DEF FreshRequest, Admitted, AdapterResult, SequenceFits, ChildrenSoFar, ParentDenied,
     Continues, Aggregate
<1>3. SentFits'
  BY DEF FreshRequest, AdapterResult, SentFits, SequenceFits, ChildrenSoFar
<1>4. DevicesFit'
  <2>1. GateAvailable(t)
    BY OneInside DEF GateAvailable, InsideGate
  <2>2. ASSUME NEW u \in Thread, u # t PROVE DevicesFitFor(u)'
    <3>1. ~InSequence(u)' /\ pc'[u] \notin InsideGate
      BY <2>1, <2>2, OthersOutside DEF InsideGate
    <3>2. QED
      BY <3>1 DEF DevicesFitFor, InsideGate
  <2>3. DevicesFitFor(t)'
    <3>1. ASSUME InSequence(t)', ~disturbed', NEW i \in verified'[t]
          PROVE  Applied(Steps(request[t].parent)[i])'
      <4>1. /\ i \in 1 .. 3 /\ step[t] \in 1 .. 3 /\ i # step[t]
            /\ command[t] = Steps(request[t].parent)[step[t]]
        BY <3>1 DEF SequenceFits, LocksFit, PlacesFit
      <4>2. Steps(request[t].parent)[i].target # command[t].target
        BY <4>1, StepFacts
      <4>3. Applied(Steps(request[t].parent)[i])
        BY <3>1 DEF DevicesFit, DevicesFitFor
      <4>4. QED
        BY <4>1, <4>2, <4>3, StepFacts DEF Applied, WorldTypeOK, Target
    <3>2. reply'[t] = device'[command[t].target]
      BY DEF WorldTypeOK
    <3>3. QED
      BY <3>1, <3>2 DEF DevicesFitFor
  <2>4. QED
    BY <2>2, <2>3 DEF DevicesFit
<1>5. QED
  BY <1>1, <1>2, <1>3, <1>4

LEMMA TransportFailsFits ==
    ASSUME SequenceInvariant, NEW t \in Thread, TransportFails(t)
    PROVE  (FreshRequest /\ Admitted /\ AdapterResult /\ SequenceFits /\ SentFits /\ DevicesFit)'
<1> USE DEF TransportFails, SequenceInvariant, ControlInvariant, ControlTypeOK, ThreadTypeOK,
      Goto, IsAmbient, AmbientPlace, ServicePlace, InSequence, Attempted,
      localVars, threadVars, lockVars, worldVars, wireVars,
      ReturnFromService, Answer, AdapterReturns
<1>1. (FreshRequest /\ Admitted /\ AdapterResult)'
  BY DEF FreshRequest, Admitted, ParentDenied, AdapterResult, SentFits, SequenceFits, ChildrenSoFar
<1>2. SequenceFits'
  BY StepFacts DEF FreshRequest, Admitted, AdapterResult, SequenceFits, ChildrenSoFar, ParentDenied,
     Continues, Aggregate
<1>3. SentFits'
  BY DEF FreshRequest, AdapterResult, SentFits, SequenceFits, ChildrenSoFar
<1>4. DevicesFit'
  BY StepFacts DEF FreshRequest, DevicesFit, DevicesFitFor, Applied, SequenceFits, ChildrenSoFar,
      LocksFit, GateCounted, HoldsAsParent, HoldsAsChild, InsideGate, AcquireGate, ReleaseGate
<1>5. QED
  BY <1>1, <1>2, <1>3, <1>4

LEMMA WLEDAnswersFits ==
    ASSUME SequenceInvariant, NEW t \in Thread, WLEDAnswers(t)
    PROVE  (FreshRequest /\ Admitted /\ AdapterResult /\ SequenceFits /\ SentFits /\ DevicesFit)'
<1> USE DEF WLEDAnswers, SequenceInvariant, ControlInvariant, ControlTypeOK, ThreadTypeOK,
      Goto, IsAmbient, AmbientPlace, ServicePlace, InSequence, Attempted,
      localVars, threadVars, lockVars, worldVars, wireVars,
      ReturnFromService, Answer, AdapterReturns
<1>1. (FreshRequest /\ Admitted /\ AdapterResult)'
  BY DEF FreshRequest, Admitted, ParentDenied, AdapterResult, SentFits, SequenceFits, ChildrenSoFar
<1>2. SequenceFits'
  BY StepFacts DEF FreshRequest, Admitted, AdapterResult, SequenceFits, ChildrenSoFar, ParentDenied,
     Continues, Aggregate
<1>3. SentFits'
  BY DEF FreshRequest, AdapterResult, SentFits, SequenceFits, ChildrenSoFar
<1>4. DevicesFit'
  BY StepFacts DEF FreshRequest, DevicesFit, DevicesFitFor, Applied, SequenceFits, ChildrenSoFar,
      LocksFit, GateCounted, HoldsAsParent, HoldsAsChild, InsideGate, AcquireGate, ReleaseGate
<1>5. QED
  BY <1>1, <1>2, <1>3, <1>4

LEMMA HyperHDRAnswersFits ==
    ASSUME SequenceInvariant, NEW t \in Thread, HyperHDRAnswers(t)
    PROVE  (FreshRequest /\ Admitted /\ AdapterResult /\ SequenceFits /\ SentFits /\ DevicesFit)'
<1> USE DEF HyperHDRAnswers, SequenceInvariant, ControlInvariant, ControlTypeOK, ThreadTypeOK,
      Goto, IsAmbient, AmbientPlace, ServicePlace, InSequence, Attempted,
      localVars, threadVars, lockVars, worldVars, wireVars,
      ReturnFromService, Answer, AdapterReturns
<1>1. (FreshRequest /\ Admitted /\ AdapterResult)'
  BY DEF FreshRequest, Admitted, ParentDenied, AdapterResult, SentFits, SequenceFits, ChildrenSoFar
<1>2. SequenceFits'
  BY StepFacts DEF FreshRequest, Admitted, AdapterResult, SequenceFits, ChildrenSoFar, ParentDenied,
     Continues, Aggregate
<1>3. SentFits'
  BY DEF FreshRequest, AdapterResult, SentFits, SequenceFits, ChildrenSoFar
<1>4. DevicesFit'
  BY StepFacts DEF FreshRequest, DevicesFit, DevicesFitFor, Applied, SequenceFits, ChildrenSoFar,
      LocksFit, GateCounted, HoldsAsParent, HoldsAsChild, InsideGate, AcquireGate, ReleaseGate
<1>5. QED
  BY <1>1, <1>2, <1>3, <1>4

LEMMA VerifyComponentFits ==
    ASSUME SequenceInvariant, NEW t \in Thread, VerifyComponent(t)
    PROVE  (FreshRequest /\ Admitted /\ AdapterResult /\ SequenceFits /\ SentFits /\ DevicesFit)'
<1> USE DEF VerifyComponent, SequenceInvariant, ControlInvariant, ControlTypeOK, ThreadTypeOK,
      Goto, IsAmbient, AmbientPlace, ServicePlace, InSequence, Attempted,
      localVars, threadVars, lockVars, worldVars, wireVars,
      ReturnFromService, Answer, AdapterReturns
<1>1. (FreshRequest /\ Admitted /\ AdapterResult)'
  BY DEF FreshRequest, Admitted, ParentDenied, AdapterResult, SentFits, SequenceFits, ChildrenSoFar
<1>2. SequenceFits'
  BY StepFacts DEF FreshRequest, Admitted, AdapterResult, SequenceFits, ChildrenSoFar, ParentDenied,
     Continues, Aggregate
<1>3. SentFits'
  BY DEF FreshRequest, AdapterResult, SentFits, SequenceFits, ChildrenSoFar
<1>4. DevicesFit'
  BY StepFacts DEF FreshRequest, DevicesFit, DevicesFitFor, Applied, SequenceFits, ChildrenSoFar,
      LocksFit, GateCounted, HoldsAsParent, HoldsAsChild, InsideGate, AcquireGate, ReleaseGate
<1>5. QED
  BY <1>1, <1>2, <1>3, <1>4

LEMMA ReleaseFits ==
    ASSUME SequenceInvariant, NEW t \in Thread, Release(t)
    PROVE  (FreshRequest /\ Admitted /\ AdapterResult /\ SequenceFits /\ SentFits /\ DevicesFit)'
<1> USE DEF Release, SequenceInvariant, ControlInvariant, ControlTypeOK, ThreadTypeOK,
      Goto, IsAmbient, AmbientPlace, ServicePlace, InSequence, Attempted,
      localVars, threadVars, lockVars, worldVars, wireVars,
      ReturnFromService, Answer, AdapterReturns
<1>1. (FreshRequest /\ Admitted /\ AdapterResult)'
  BY DEF FreshRequest, Admitted, ParentDenied, AdapterResult, SentFits, SequenceFits, ChildrenSoFar
<1>2. SequenceFits'
  BY StepFacts DEF FreshRequest, Admitted, AdapterResult, SequenceFits, ChildrenSoFar, ParentDenied,
     Continues, Aggregate
<1>3. SentFits'
  BY DEF FreshRequest, AdapterResult, SentFits, SequenceFits, ChildrenSoFar
<1>4. DevicesFit'
  BY StepFacts DEF FreshRequest, DevicesFit, DevicesFitFor, Applied, SequenceFits, ChildrenSoFar,
      LocksFit, GateCounted, HoldsAsParent, HoldsAsChild, InsideGate, AcquireGate, ReleaseGate
<1>5. QED
  BY <1>1, <1>2, <1>3, <1>4

LEMMA ConcludeFits ==
    ASSUME SequenceInvariant, NEW t \in Thread, Conclude(t)
    PROVE  (FreshRequest /\ Admitted /\ AdapterResult /\ SequenceFits /\ SentFits /\ DevicesFit)'
<1> USE DEF Conclude, SequenceInvariant, ControlInvariant, ControlTypeOK, ThreadTypeOK,
      Goto, IsAmbient, AmbientPlace, ServicePlace, InSequence, Attempted,
      localVars, threadVars, lockVars, worldVars, wireVars,
      ReturnFromService, Answer, AdapterReturns
<1>1. (FreshRequest /\ Admitted /\ AdapterResult)'
  BY DEF FreshRequest, Admitted, ParentDenied, AdapterResult, SentFits, SequenceFits, ChildrenSoFar
<1>2. SequenceFits'
  <2>1. CASE IsAmbient(t)
    <3>1. InSequence(t) /\ step[t] \in 1 .. 3 /\ outcome[t] \in Attempted
      BY <2>1 DEF LocksFit, PlacesFit, AdapterResult
    <3>2. QED
      <4>1. /\ pc' = [pc EXCEPT ![t] = "parent_next"]
            /\ UNCHANGED <<request, command, step, status, outcome>>
            /\ verified' = IF outcome[t] = "verified"
                           THEN [verified EXCEPT ![t] = @ \union {step[t]}]
                           ELSE verified
        BY <2>1
      <4>2. ASSUME NEW u \in Thread, u # t, InSequence(u)'
            PROVE  /\ InSequence(u) /\ pc'[u] = pc[u] /\ verified'[u] = verified[u]
        BY <4>1, <4>2
      <4>3. ChildrenSoFar(t)'
        BY <3>1, <4>1 DEF SequenceFits, ChildrenSoFar
      <4>4. step[t] \in verified'[t] <=> outcome[t] = "verified"
        BY <3>1, <4>1 DEF SequenceFits
      <4>5. QED
        BY <2>1, <3>1, <4>1, <4>2, <4>3, <4>4
           DEF SequenceFits, ChildrenSoFar, ParentDenied, Continues, Aggregate
  <2>2. CASE ~IsAmbient(t)
    BY <2>2 DEF SequenceFits, ChildrenSoFar, ParentDenied, Continues, Aggregate, NoForm
  <2>3. QED
    BY <2>1, <2>2
<1>3. SentFits'
  <2>1. CASE IsAmbient(t)
    <3>1. InSequence(t) /\ step[t] \in 1 .. 3 /\ outcome[t] \in Attempted
      BY <2>1 DEF LocksFit, PlacesFit, AdapterResult
    <3>2. step[t] > 1 => verified[t] # {}
      <4>1. ChildrenSoFar(t) /\ request[t].parent \in {"ambient_on", "ambient_off"}
        BY <3>1, ControlAssumption DEF SequenceFits, ParentDenied, AmbientOperation
      <4>2. step[t] > 1 => 1 \in verified[t]
        BY <4>1, <3>1 DEF ChildrenSoFar
      <4>3. QED
        BY <4>2
    <3>3. QED
      BY <2>1, <3>1, <3>2 DEF SentFits, SequenceFits, ChildrenSoFar
  <2>2. CASE ~IsAmbient(t)
    BY <2>2 DEF SentFits
  <2>3. QED
    BY <2>1, <2>2
<1>4. DevicesFit'
  BY StepFacts DEF FreshRequest, DevicesFit, DevicesFitFor, Applied, SequenceFits, ChildrenSoFar,
      LocksFit, GateCounted, HoldsAsParent, HoldsAsChild, InsideGate, AcquireGate, ReleaseGate
<1>5. QED
  BY <1>1, <1>2, <1>3, <1>4

(* Somebody else's change under the gate lifts every claim; a late POST    *)
(* only those about the target it sets; under a free gate nobody has one.  *)
LEMMA OthersFit ==
    ASSUME SequenceInvariant, NEW c \in Command, LateDelivery(c) \/ OutsideChange(c)
    PROVE  (FreshRequest /\ Admitted /\ AdapterResult /\ SequenceFits /\ SentFits /\ DevicesFit)'
<1>1. UNCHANGED <<threadVars, wireVars>>
  BY DEF LateDelivery, OutsideChange
<1>2. (FreshRequest /\ Admitted /\ AdapterResult /\ SequenceFits /\ SentFits)'
  BY <1>1 DEF SequenceInvariant, threadVars, localVars, FreshRequest, Admitted, AdapterResult,
      SequenceFits, SentFits, ChildrenSoFar, ParentDenied, Continues, Aggregate, InSequence,
      IsAmbient
<1>3. ASSUME NEW t \in Thread PROVE DevicesFitFor(t)'
  <2>1. CASE gate_owner = t /\ OutsideChange(c)
    <3>1. disturbed'
      BY <2>1, NoThreadAssumption DEF OutsideChange
    <3>2. QED
      BY <3>1 DEF DevicesFitFor
  <2>2. CASE gate_owner = t /\ LateDelivery(c)
    <3>1. /\ overtaken' = overtaken \union {c.target}
          /\ disturbed' = disturbed
          /\ device' = [device EXCEPT ![c.target] = c.value]
      BY <2>2, NoThreadAssumption DEF LateDelivery
    <3>2. device \in [Target -> Value] /\ c.target \in Target
      BY CommandFacts DEF SequenceInvariant, ControlInvariant, ControlTypeOK, WorldTypeOK
    <3>3. \A x : x \notin overtaken' => x \notin overtaken /\ device'[x] = device[x]
      BY <3>1, <3>2
    <3>4. \A d : Applied(d) => Applied(d)'
      BY <3>3 DEF Applied
    <3>5. DevicesFitFor(t)
      BY DEF SequenceInvariant, DevicesFit
    <3>6. UNCHANGED <<pc, request, command, outcome, step, verified, post, reply>>
      BY <1>1 DEF threadVars, localVars, wireVars
    <3>7. InSequence(t)' <=> InSequence(t)
      BY <3>6 DEF InSequence, IsAmbient
    <3>8. QED
      BY <3>1, <3>3, <3>4, <3>5, <3>6, <3>7 DEF DevicesFitFor, Applied
  <2>3. CASE gate_owner # t
    <3>1. ~InSequence(t)' /\ pc'[t] \notin InsideGate
      BY <1>1, <2>3, OneInside DEF SequenceInvariant, InSequence, IsAmbient, threadVars, localVars
    <3>2. QED
      BY <3>1 DEF DevicesFitFor, InsideGate
  <2>4. QED
    BY <2>1, <2>2, <2>3
<1>4. QED
  BY <1>2, <1>3 DEF DevicesFit

LEMMA NothingSeenFits ==
    ASSUME SequenceInvariant, UNCHANGED <<threadVars, worldVars, wireVars>>
    PROVE  (FreshRequest /\ Admitted /\ AdapterResult /\ SequenceFits /\ SentFits /\ DevicesFit)'
  BY DEF SequenceInvariant, threadVars, localVars, worldVars, wireVars, FreshRequest, Admitted,
      AdapterResult, SequenceFits, SentFits, DevicesFit, DevicesFitFor, Applied, ChildrenSoFar,
      ParentDenied, Continues, Aggregate, InSequence, IsAmbient

LEMMA StepFits ==
    ASSUME SequenceInvariant, [Next]_controlVars
    PROVE  SequenceInvariant'
<1>1. ControlInvariant'
  BY NextPreserves DEF SequenceInvariant
<1> DEFINE Fits == FreshRequest /\ Admitted /\ AdapterResult /\ SequenceFits /\ SentFits
                   /\ DevicesFit
<1>2. CASE UNCHANGED controlVars \/ \E l \in Limiter : WindowSlides(l)
  <2>1. UNCHANGED <<threadVars, worldVars, wireVars>>
    BY <1>2 DEF controlVars, WindowSlides
  <2>2. Fits'
    BY <2>1, NothingSeenFits
  <2>3. QED
    BY <1>1, <2>2 DEF SequenceInvariant
<1>3. ASSUME NEW t \in Thread, ThreadStep(t) PROVE Fits'
  BY <1>3, ParentAdmitFits, ParentTakeGateFits, ParentNextChildFits, ParentFinishFits,
     ParentReleaseFits, AdmitFits, TakeGateFits, StartMutationFits, TransportFailsFits,
     WLEDAnswersFits, HyperHDRAnswersFits, VerifyComponentFits, ReleaseFits, ConcludeFits
     DEF ThreadStep, AdapterStep
<1>4. ASSUME NEW t \in Thread, Submit(t) \/ DeviceHandles(t) PROVE Fits'
  BY <1>4, SubmitFits, DeviceHandlesFits
<1>5. ASSUME NEW c \in Command, LateDelivery(c) \/ OutsideChange(c) PROVE Fits'
  BY <1>5, OthersFit
<1>6. late \subseteq Command /\ Outside \subseteq Command
  BY ControlAssumption DEF SequenceInvariant, ControlInvariant, ControlTypeOK, WorldTypeOK
<1>7. CASE Next /\ ~\E l \in Limiter : WindowSlides(l)
  <2>1. Fits'
    BY <1>3, <1>4, <1>5, <1>6, <1>7 DEF Next, DeviceStep
  <2>2. QED
    BY <1>1, <2>1 DEF SequenceInvariant
<1>8. QED
  BY <1>2, <1>7

-----------------------------------------------------------------------------
THEOREM SequenceInvariantHolds == ControlSpec => []SequenceInvariant
<1>1. SequenceInvariant /\ [Next]_controlVars => SequenceInvariant'
  BY StepFits
<1>2. QED
  BY <1>1, InitFits, PTL DEF ControlSpec

(* The order of the children is a safety boundary: LED output is off while *)
(* ambient off works on the rest, and is enabled only over a running       *)
(* grabber and a powered WLED, unless somebody else or a late POST has     *)
(* changed just that under the gate.                                       *)
THEOREM SafetyBoundaryHolds == ControlSpec => []SafetyBoundary
<1>1. ASSUME SequenceInvariant, NEW t \in Thread, OnWire(t), ~disturbed, IsAmbient(t)
      PROVE  /\ step[t] \in 1 .. 3
             /\ command[t] = Steps(request[t].parent)[step[t]]
             /\ ChildrenSoFar(t)
             /\ \A i \in verified[t] : Applied(Steps(request[t].parent)[i])
  <2>1. InSequence(t) /\ pc[t] \in ServicePlace
    BY <1>1 DEF OnWire, InSequence, ServicePlace
  <2>2. QED
    BY <1>1, <2>1 DEF SequenceInvariant, ControlInvariant, LocksFit, PlacesFit, SequenceFits,
        DevicesFit, DevicesFitFor
<1>2. ASSUME SequenceInvariant, NEW t \in Thread, OnWire(t), ~disturbed,
             request[t].parent = "ambient_off", command[t].target # "led"
      PROVE  Applied(Set("led", 0))
  <2>1. Steps("ambient_off")[1] = Set("led", 0) /\ IsAmbient(t)
    BY <1>2 DEF Steps, IsAmbient
  <2>2. step[t] # 1
    BY <1>1, <1>2, <2>1 DEF Set
  <2>3. 1 \in verified[t]
    BY <1>1, <1>2, <2>1, <2>2 DEF ChildrenSoFar
  <2>4. QED
    BY <1>1, <1>2, <2>1, <2>3
<1>3. ASSUME SequenceInvariant, NEW t \in Thread, OnWire(t), ~disturbed,
             request[t].parent = "ambient_on", command[t].target = "led"
      PROVE  Applied(Set("grabber", 1)) /\ Applied(Set("power", 1))
  <2>1. /\ Steps("ambient_on")[1] = Set("grabber", 1)
        /\ Steps("ambient_on")[2] = Set("power", 1)
        /\ IsAmbient(t)
    BY <1>3 DEF Steps, IsAmbient
  <2>2. step[t] = 3
    BY <1>1, <1>3, <2>1 DEF Set
  <2>3. 1 \in verified[t] /\ 2 \in verified[t]
    BY <1>1, <1>3, <2>1, <2>2 DEF ChildrenSoFar
  <2>4. QED
    BY <1>1, <1>3, <2>1, <2>3
<1>4. SequenceInvariant => SafetyBoundary
  BY <1>2, <1>3 DEF SafetyBoundary
<1>5. QED
  BY <1>4, SequenceInvariantHolds, PTL

(* "verified" and "completed" are true of the devices when the locks are   *)
(* released, except of targets that a late POST of Aurora set meanwhile,   *)
(* and if nobody else used the devices.                                    *)
THEOREM VerifiedMeansAppliedHolds == ControlSpec => []VerifiedMeansApplied
<1>1. ASSUME SequenceInvariant, NEW t \in Thread, ~disturbed,
             pc[t] = "parent_release", status[t] = "completed", NEW i \in 1 .. 3
      PROVE  Applied(Steps(request[t].parent)[i])
  <2>1. InSequence(t)
    BY <1>1 DEF SequenceInvariant, ControlInvariant, LocksFit, PlacesFit, AmbientPlace, InSequence
  <2>2. Aggregate(t) = "completed" /\ outcome[t] \in ChildStatus
    BY <1>1, <2>1 DEF SequenceInvariant, SequenceFits, ControlInvariant, ControlTypeOK, ThreadTypeOK
  <2>3. verified[t] = 1 .. 3
    BY <2>2 DEF Aggregate, ChildStatus
  <2>4. QED
    BY <1>1, <2>1, <2>3 DEF SequenceInvariant, DevicesFit, DevicesFitFor
<1>2. SequenceInvariant => VerifiedMeansApplied
  BY <1>1 DEF VerifiedMeansApplied, Applied, SequenceInvariant, DevicesFit, DevicesFitFor
<1>3. QED
  BY <1>2, SequenceInvariantHolds, PTL

(* The aggregate status says exactly what the children did.                *)
THEOREM HonestAggregateHolds == ControlSpec => []HonestAggregate
<1>1. ASSUME SequenceInvariant, NEW t \in Thread, pc[t] = "parent_release"
      PROVE  /\ InSequence(t) /\ step[t] \in 1 .. 3 /\ verified[t] \subseteq 1 .. 3
             /\ outcome[t] \in ChildStatus /\ status[t] = Aggregate(t)
             /\ ChildrenSoFar(t) /\ ~Continues(t)
             /\ step[t] \in verified[t] <=> outcome[t] = "verified"
             /\ request[t].parent \in {"ambient_on", "ambient_off"}
  <2>1. InSequence(t) /\ pc[t] \in AmbientPlace
    BY <1>1 DEF SequenceInvariant, ControlInvariant, LocksFit, PlacesFit, AmbientPlace, InSequence
  <2>2. request[t].parent \in {"ambient_on", "ambient_off"}
    <3>1. ~ParentDenied(t)
      BY <1>1, <2>1 DEF SequenceInvariant, SequenceFits
    <3>2. QED
      BY <3>1, ControlAssumption DEF ParentDenied, AmbientOperation
  <2>3. QED
    BY <1>1, <2>1, <2>2 DEF SequenceInvariant, SequenceFits, ControlInvariant, ControlTypeOK,
        ThreadTypeOK
<1>2. ASSUME SequenceInvariant, NEW t \in Thread, pc[t] = "parent_release"
      PROVE  /\ status[t] = "completed" <=> verified[t] = 1 .. 3
             /\ status[t] = "partially_completed" <=> verified[t] \notin {{}, 1 .. 3}
  BY <1>1, <1>2 DEF Aggregate, ChildStatus
<1>3. ASSUME SequenceInvariant, NEW t \in Thread, pc[t] = "parent_release"
      PROVE  /\ verified[t] \subseteq 1 .. step[t]
             /\ 1 \notin verified[t] => step[t] = 1
             /\ request[t].parent = "ambient_on" => 1 .. (step[t] - 1) \subseteq verified[t]
             /\ request[t].parent = "ambient_off" /\ 1 \in verified[t] => step[t] = 3
  BY <1>1, <1>3 DEF ChildrenSoFar, Continues
<1>4. SequenceInvariant => HonestAggregate
  BY <1>2, <1>3 DEF HonestAggregate
<1>5. QED
  BY <1>4, SequenceInvariantHolds, PTL

(* Only its limiter or the device can stop a child of a sequence.          *)
THEOREM ChildNotRefusedHolds == ControlSpec => []ChildNotRefused
<1>1. SequenceInvariant => ChildNotRefused
  BY DEF SequenceInvariant, SequenceFits, ChildNotRefused, AmbientPlace
<1>2. QED
  BY <1>1, SequenceInvariantHolds, PTL

(* A request answered denied, rate limited or busy sent no command.        *)
THEOREM RefusedMeansUntouchedHolds == ControlSpec => RefusedMeansUntouched
<1> DEFINE Untouched == \A t \in Thread :
               pc[t] # "idle" /\ pc'[t] = "idle"
                   /\ status'[t] \in {"denied", "rate_limited", "busy"} => ~sent[t]
<1>1. ASSUME SequenceInvariant, Next, NEW t \in Thread, pc[t] # "idle", pc'[t] = "idle",
             status'[t] \in {"denied", "rate_limited", "busy"}, sent[t]
      PROVE  FALSE
  <2>1. ParentAdmit(t) \/ ParentTakeGate(t) \/ ParentRelease(t) \/ Admit(t) \/ TakeGate(t)
        \/ StartMutation(t) \/ Conclude(t)
    BY <1>1 DEF Next, ThreadStep, DeviceStep, AdapterStep, SequenceInvariant, ControlInvariant,
        ControlTypeOK, ThreadTypeOK, Submit, ParentAdmit, ParentTakeGate, ParentNextChild,
        ParentFinish, ParentRelease, Admit, TakeGate, StartMutation, DeviceHandles,
        TransportFails, WLEDAnswers, HyperHDRAnswers, VerifyComponent, AdapterReturns, Release,
        Conclude, WindowSlides, LateDelivery, OutsideChange, ReturnFromService, Answer, Goto,
        threadVars
  <2> USE DEF Goto, Answer, ReturnFromService, localVars
  <2>2. CASE ParentAdmit(t) \/ ParentTakeGate(t)
    BY <1>1, <2>2 DEF ParentAdmit, ParentTakeGate, SequenceInvariant, FreshRequest
  <2>3. CASE Admit(t) \/ TakeGate(t) \/ StartMutation(t)
    <3>1. pc[t] \in {"execute", "gate", "lock"}
      BY <2>3 DEF Admit, TakeGate, StartMutation
    <3>2. InSequence(t)
      BY <1>1, <3>1 DEF SequenceInvariant, SentFits
    <3>3. ~IsAmbient(t)
      BY <1>1, <2>3, <3>1 DEF Admit, TakeGate, StartMutation, SequenceInvariant, ControlInvariant,
          ControlTypeOK, ThreadTypeOK
    <3>4. QED
      BY <3>2, <3>3 DEF InSequence
  <2>4. CASE Conclude(t)
    <3>1. outcome[t] \in Attempted /\ status'[t] = outcome[t]
      BY <1>1, <2>4 DEF Conclude, SequenceInvariant, AdapterResult, ControlInvariant,
          ControlTypeOK, ThreadTypeOK
    <3>2. QED
      BY <1>1, <3>1 DEF Attempted
  <2>5. CASE ParentRelease(t)
    <3>1. pc[t] = "parent_release" /\ status'[t] = status[t]
      BY <2>5 DEF ParentRelease, SequenceInvariant, ControlInvariant, ControlTypeOK, ThreadTypeOK
    <3>2. InSequence(t) /\ status[t] = Aggregate(t)
      BY <1>1, <3>1 DEF SequenceInvariant, SequenceFits, ControlInvariant, LocksFit, PlacesFit,
          AmbientPlace, InSequence
    <3>3. verified[t] = {} /\ outcome[t] \notin Attempted
      BY <1>1, <3>1, <3>2 DEF Aggregate, Attempted
    <3>4. QED
      BY <1>1, <3>1, <3>3 DEF SequenceInvariant, SentFits
  <2>6. QED
    BY <2>1, <2>2, <2>3, <2>4, <2>5
<1>2. SequenceInvariant /\ [Next]_controlVars => [Untouched]_controlVars
  BY <1>1
<1>3. QED
  BY <1>2, SequenceInvariantHolds, PTL DEF ControlSpec, RefusedMeansUntouched

-----------------------------------------------------------------------------
(* The dashboard process: ControlPlane implements DeviceControls and       *)
(* HealthCache, and a page requested after a verified result shows it.     *)

(* A thread that carries the version its verification saw. *)
Reporting == {"wait", "verify", "release", "conclude"}

LinkTypeOK ==
    /\ version \in [Service -> Nat]
    /\ confirmed \in [Service -> Nat]
    /\ phase \in [Reader -> {"idle", "waiting", "sweeping"}]
    /\ sweep_generation \in [Reader -> Nat]
    /\ invalidation_generation \in Nat
    /\ draft \in [Reader -> Health!Report]
    /\ answer \in [Reader -> Health!Report]
    /\ cached_report \in Health!Report \union {NoReport}
    /\ seen \in [Thread -> Nat]
    /\ told \in [Service -> Nat]
    /\ expected \in [Reader -> [Service -> Nat]]

(* What was seen existed, and nothing is left from an earlier command. *)
SeenFits ==
    \A t \in Thread : /\ seen[t] <= version[ServiceOf(command[t].target)]
                      /\ pc[t] \notin Reporting => seen[t] = 0

(* The cache is told of a verified result before the browser is, and a     *)
(* reader expects what browsers were told before it asked.                 *)
ToldFits ==
    /\ \A s \in Service : told[s] <= confirmed[s] /\ confirmed[s] <= version[s]
    /\ \A r \in Reader, s \in Service : expected[r][s] <= told[s]

(* Whoever is served the cached report gets what it expects. *)
CachedFits ==
    cached_report # NoReport =>
        \A s \in Service : \/ cached_report[s] = Health!Unavailable
                           \/ confirmed[s] <= cached_report[s]

(* The observations of a sweep satisfy the reader it runs for, and every   *)
(* reader as long as nothing was invalidated since it began.               *)
SweepFits ==
    \A r \in Reader :
        /\ phase[r] # "sweeping" => draft[r] = Health!NoObservation
        /\ phase[r] = "sweeping" => sweep_generation[r] <= invalidation_generation
        /\ phase[r] = "sweeping" =>
               \A s \in Service : draft[r][s] # Health!Unavailable =>
                   /\ expected[r][s] <= draft[r][s]
                   /\ sweep_generation[r] = invalidation_generation =>
                          confirmed[s] <= draft[r][s]

PlaneInvariant ==
    ControlInvariant /\ LinkTypeOK /\ SeenFits /\ ToldFits /\ CachedFits /\ SweepFits

-----------------------------------------------------------------------------
(* ControlPlane only adds steps of the health service: every step of the   *)
(* dashboard process is a step of the controls, or none of theirs.         *)
LEMMA PlaneStepControls == [PlaneNext]_planeVars => [Next]_controlVars
<1> SUFFICES ASSUME PlaneNext
             PROVE  [Next]_controlVars
  BY DEF planeVars
<1>1. ASSUME NEW t \in Thread,
             PlaneSubmit(t) \/ PlaneDeviceHandles(t) \/ PlaneVerify(t) \/ PlaneConclude(t)
                 \/ PlaneControlStep(t)
      PROVE  Next
  <2>1. Submit(t) \/ DeviceHandles(t) \/ ThreadStep(t)
    BY <1>1 DEF PlaneSubmit, PlaneDeviceHandles, PlaneVerify, PlaneConclude, PlaneControlStep,
        ThreadStep, AdapterStep
  <2>2. QED
    BY <2>1 DEF Next, DeviceStep
<1>2. CASE PlaneOthers
  BY <1>2 DEF PlaneOthers, Next, DeviceStep
<1>3. CASE PlaneWindow
  BY <1>3 DEF PlaneWindow, Next
<1>4. CASE PlaneCacheAges \/ \E r \in Reader : PlaneCall(r) \/ PlaneGetHealth(r)
  BY <1>4 DEF PlaneCacheAges, PlaneCall, PlaneGetHealth
<1>5. QED
  BY <1>1, <1>2, <1>3, <1>4 DEF PlaneNext

LEMMA PlaneInitFits == PlaneInit => PlaneInvariant
<1> SUFFICES ASSUME PlaneInit
             PROVE  PlaneInvariant
  OBVIOUS
<1> USE DEF PlaneInit, Health!HealthInit, Health!NoObservation, Health!Unavailable
<1>1. ControlInvariant
  BY InitEstablishes
<1>2. LinkTypeOK
  BY DEF LinkTypeOK, Health!Report, Health!Observation
<1>3. SeenFits
  BY CommandFacts DEF SeenFits, Init, Set
<1>4. ToldFits /\ CachedFits /\ SweepFits
  BY DEF ToldFits, CachedFits, SweepFits
<1>5. QED
  BY <1>1, <1>2, <1>3, <1>4 DEF PlaneInvariant

LEMMA ServiceOfCommand ==
    ASSUME ControlInvariant, NEW t \in Thread
    PROVE  ServiceOf(command[t].target) \in Service
  BY DEF ServiceOf, Service

-----------------------------------------------------------------------------
(* A step of thread t that concerns neither the devices nor the health     *)
(* service leaves the other threads alone, and t's report in its place.    *)
KeepsReport(t) ==
    /\ \A u \in Thread : u # t => pc'[u] = pc[u] /\ command'[u] = command[u]
    /\ pc[t] \in Reporting => pc'[t] \in Reporting /\ command'[t] = command[t]

LEMMA QuietStepFits ==
    ASSUME ControlTypeOK, NEW t \in Thread, Submit(t) \/ PlaneControlStep(t)
    PROVE  KeepsReport(t)
<1> USE DEF KeepsReport, Reporting, Goto, ControlTypeOK, ThreadTypeOK, ReturnFromService, Answer,
    localVars, threadVars
<1>1. CASE Submit(t)
  BY <1>1 DEF Submit
<1>2. CASE ParentAdmit(t) \/ ParentTakeGate(t)
  BY <1>2 DEF ParentAdmit, ParentTakeGate
<1>3. CASE ParentNextChild(t) \/ ParentFinish(t) \/ ParentRelease(t)
  BY <1>3 DEF ParentNextChild, ParentFinish, ParentRelease
<1>4. CASE Admit(t)
  BY <1>4 DEF Admit
<1>5. CASE TakeGate(t)
  BY <1>5 DEF TakeGate
<1>6. CASE StartMutation(t)
  BY <1>6 DEF StartMutation
<1>7. CASE TransportFails(t) \/ WLEDAnswers(t) \/ HyperHDRAnswers(t)
  BY <1>7 DEF TransportFails, WLEDAnswers, HyperHDRAnswers, AdapterReturns
<1>8. CASE Release(t)
  BY <1>8 DEF Release
<1>9. QED
  BY <1>1, <1>2, <1>3, <1>4, <1>5, <1>6, <1>7, <1>8 DEF PlaneControlStep

LEMMA QuietPreserves ==
    ASSUME PlaneInvariant, ControlInvariant', NEW t \in Thread, KeepsReport(t),
           UNCHANGED <<healthState, seen, told, expected>>
    PROVE  PlaneInvariant'
<1> USE DEF PlaneInvariant, healthState
<1>1. LinkTypeOK' /\ ToldFits' /\ CachedFits' /\ SweepFits'
  BY DEF LinkTypeOK, ToldFits, CachedFits, SweepFits, Health!NoObservation
<1>2. ASSUME NEW u \in Thread
      PROVE  /\ seen[u] <= version[ServiceOf(command'[u].target)]
             /\ pc'[u] \notin Reporting => seen[u] = 0
  <2>1. CASE u # t \/ pc[t] \in Reporting
    BY <2>1 DEF KeepsReport, SeenFits
  <2>2. CASE u = t /\ pc[t] \notin Reporting
    <3>1. seen[u] = 0
      BY <2>2 DEF SeenFits
    <3>2. ServiceOf(command'[u].target) \in Service
      BY DEF ControlInvariant, ControlTypeOK, ThreadTypeOK, ServiceOf, Service
    <3>3. QED
      BY <3>1, <3>2 DEF LinkTypeOK
  <2>3. QED
    BY <2>1, <2>2
<1>3. SeenFits'
  BY <1>2 DEF SeenFits
<1>4. QED
  BY <1>1, <1>3

-----------------------------------------------------------------------------
(* A device changes: a new version, which nobody has seen or been told of. *)
LEMMA NewVersionFits ==
    ASSUME PlaneInvariant, NEW s \in Service,
           UNCHANGED healthState \/ Health!Change(s),
           UNCHANGED <<told, expected>>, seen' \in [Thread -> Nat]
    PROVE  /\ LinkTypeOK' /\ ToldFits' /\ CachedFits' /\ SweepFits'
           /\ \A x \in Service : version[x] <= version'[x]
<1> USE DEF PlaneInvariant, healthState, Health!Change, Health!cacheVars, Health!sweepVars,
    Health!askVars
<1>1. version' \in [Service -> Nat] /\ \A x \in Service : version[x] <= version'[x]
  <2>1. CASE version' = version
    BY <2>1 DEF LinkTypeOK
  <2>2. CASE version' = [version EXCEPT ![s] = @ + 1]
    BY <2>2 DEF LinkTypeOK
  <2>3. QED
    BY <2>1, <2>2
<1>2. LinkTypeOK'
  BY <1>1 DEF LinkTypeOK
<1>3. ToldFits'
  <2>1. UNCHANGED <<told, expected, confirmed>>
    OBVIOUS
  <2>2. QED
    BY <1>1, <2>1 DEF ToldFits, LinkTypeOK
<1>4. CachedFits' /\ SweepFits'
  BY DEF CachedFits, SweepFits, Health!NoObservation
<1>5. QED
  BY <1>1, <1>2, <1>3, <1>4

LEMMA DeviceHandlesPreserves ==
    ASSUME PlaneInvariant, ControlInvariant', NEW t \in Thread, PlaneDeviceHandles(t)
    PROVE  PlaneInvariant'
<1> DEFINE s == ServiceOf(command[t].target)
<1> USE DEF PlaneInvariant, PlaneDeviceHandles
<1>1. s \in Service
  BY ServiceOfCommand
<1>2. UNCHANGED healthState \/ Health!Change(s)
  BY DEF ChangesVersion
<1>3. version' \in [Service -> Nat]
  BY <1>1, <1>2 DEF LinkTypeOK, healthState, Health!Change
<1>4. seen' \in [Thread -> Nat] /\ seen' = [seen EXCEPT ![t] = version'[s]]
  BY <1>1, <1>3 DEF LinkTypeOK
<1>5. /\ LinkTypeOK' /\ ToldFits' /\ CachedFits' /\ SweepFits'
      /\ \A x \in Service : version[x] <= version'[x]
  BY <1>1, <1>2, <1>4, NewVersionFits
<1>6. SeenFits'
  <2>1. UNCHANGED <<pc, command>> /\ pc[t] \in Reporting
    BY DEF DeviceHandles, threadVars, localVars, Reporting
  <2>2. ASSUME NEW u \in Thread, u # t
        PROVE  /\ seen'[u] <= version'[ServiceOf(command'[u].target)]
               /\ pc'[u] \notin Reporting => seen'[u] = 0
    <3>1. ServiceOf(command[u].target) \in Service
      BY ServiceOfCommand
    <3>2. seen'[u] = seen[u]
      BY <2>2, <1>4 DEF LinkTypeOK
    <3>3. QED
      BY <1>3, <1>5, <2>1, <3>1, <3>2 DEF SeenFits, LinkTypeOK
  <2>3. seen'[t] = version'[s]
    BY <1>4 DEF LinkTypeOK
  <2>4. seen'[t] <= version'[ServiceOf(command'[t].target)] /\ pc'[t] \in Reporting
    BY <1>1, <1>3, <2>1, <2>3
  <2>5. QED
    BY <2>2, <2>4 DEF SeenFits
<1>7. QED
  BY <1>5, <1>6

LEMMA OthersPreserve ==
    ASSUME PlaneInvariant, ControlInvariant', PlaneOthers
    PROVE  PlaneInvariant'
<1> USE DEF PlaneInvariant
<1>1. PICK c \in Command : /\ LateDelivery(c) \/ OutsideChange(c)
                           /\ ChangesVersion(ServiceOf(c.target))
  BY ControlAssumption DEF PlaneOthers, ControlInvariant, ControlTypeOK, WorldTypeOK
<1>2. ServiceOf(c.target) \in Service
  BY DEF ServiceOf, Service
<1>3. UNCHANGED healthState \/ Health!Change(ServiceOf(c.target))
  BY <1>1 DEF ChangesVersion
<1>4. UNCHANGED <<seen, told, expected>> /\ UNCHANGED <<pc, command>>
  BY <1>1 DEF PlaneOthers, linkVars, LateDelivery, OutsideChange, threadVars, localVars
<1>5. seen' \in [Thread -> Nat]
  BY <1>4 DEF LinkTypeOK
<1>6. /\ LinkTypeOK' /\ ToldFits' /\ CachedFits' /\ SweepFits'
      /\ \A x \in Service : version[x] <= version'[x]
  BY <1>2, <1>3, <1>4, <1>5, NewVersionFits
<1>7. ASSUME NEW u \in Thread
      PROVE  /\ seen'[u] <= version'[ServiceOf(command'[u].target)]
             /\ pc'[u] \notin Reporting => seen'[u] = 0
  <2>1. ServiceOf(command[u].target) \in Service
    BY ServiceOfCommand
  <2>2. QED
    BY <1>4, <1>6, <2>1 DEF SeenFits, LinkTypeOK
<1>8. QED
  BY <1>6, <1>7 DEF SeenFits

LEMMA VerifyPreserves ==
    ASSUME PlaneInvariant, ControlInvariant', NEW t \in Thread, PlaneVerify(t)
    PROVE  PlaneInvariant'
<1> DEFINE s == ServiceOf(command[t].target)
<1> USE DEF PlaneInvariant, PlaneVerify, healthState
<1>1. s \in Service /\ version[s] \in Nat
  BY ServiceOfCommand DEF LinkTypeOK
<1>2. LinkTypeOK' /\ ToldFits' /\ CachedFits' /\ SweepFits'
  BY <1>1 DEF LinkTypeOK, ToldFits, CachedFits, SweepFits, Health!NoObservation
<1>3. /\ UNCHANGED command
      /\ pc'[t] \in Reporting
      /\ \A u \in Thread : u # t => pc'[u] = pc[u]
  BY DEF VerifyComponent, AdapterReturns, Goto, Reporting, ControlInvariant, ControlTypeOK,
      ThreadTypeOK
<1>4. SeenFits'
  BY <1>1, <1>3 DEF SeenFits, LinkTypeOK
<1>5. QED
  BY <1>2, <1>4

(* The service invalidates the cache before it returns, so `confirmed` is  *)
(* never behind what a browser was told.                                   *)
LEMMA ConcludePreserves ==
    ASSUME PlaneInvariant, ControlInvariant', NEW t \in Thread, PlaneConclude(t)
    PROVE  PlaneInvariant'
<1> DEFINE s == ServiceOf(command[t].target)
<1> USE DEF PlaneInvariant, healthState, Health!sweepVars, Health!askVars
<1>1. s \in Service /\ seen[t] \in Nat /\ seen[t] <= version[s]
  BY ServiceOfCommand DEF LinkTypeOK, SeenFits
<1>2. UNCHANGED <<version, phase, sweep_generation, draft, answer, expected>>
  BY DEF PlaneConclude, Health!Invalidate
<1>3. SeenFits'
  <2>1. \A u \in Thread : u # t => pc'[u] = pc[u] /\ command'[u] = command[u]
    BY DEF PlaneConclude, Conclude, ReturnFromService, Answer, Goto, ControlInvariant,
        ControlTypeOK, ThreadTypeOK
  <2>2. seen' = [seen EXCEPT ![t] = 0]
    BY DEF PlaneConclude
  <2>3. ServiceOf(command'[t].target) \in Service
    BY DEF ServiceOf, Service
  <2>4. QED
    BY <1>2, <2>1, <2>2, <2>3 DEF SeenFits, LinkTypeOK
<1>4. CASE outcome[t] = "verified"
  <2>1. /\ cached_report' = NoReport
        /\ invalidation_generation' = invalidation_generation + 1
        /\ confirmed' = [confirmed EXCEPT ![s] = IF seen[t] > @ THEN seen[t] ELSE @]
        /\ told' = IF seen[t] > told[s] THEN [told EXCEPT ![s] = seen[t]] ELSE told
    BY <1>4 DEF PlaneConclude, InvalidatesCache, Health!Invalidate
  <2>2. confirmed' \in [Service -> Nat] /\ told' \in [Service -> Nat]
    BY <1>1, <2>1 DEF LinkTypeOK
  <2>3. LinkTypeOK'
    BY <1>2, <2>1, <2>2 DEF LinkTypeOK, PlaneConclude
  <2>4. ToldFits'
    <3>1. \A x \in Service : told'[x] <= confirmed'[x] /\ confirmed'[x] <= version'[x]
      BY <1>1, <1>2, <2>1 DEF ToldFits, LinkTypeOK
    <3>2. \A x \in Service : told[x] <= told'[x]
      BY <1>1, <2>1 DEF LinkTypeOK
    <3>3. \A r \in Reader, x \in Service : expected'[r][x] <= told'[x]
      BY <1>2, <2>2, <3>2 DEF ToldFits, LinkTypeOK
    <3>4. QED
      BY <3>1, <3>3 DEF ToldFits
  <2>5. CachedFits'
    BY <2>1 DEF CachedFits
  <2>6. SweepFits'
    BY <1>2, <2>1 DEF SweepFits, LinkTypeOK, Health!NoObservation
  <2>7. QED
    BY <1>3, <2>3, <2>4, <2>5, <2>6
<1>5. CASE outcome[t] # "verified"
  <2>1. UNCHANGED <<told, confirmed, cached_report, invalidation_generation>>
    BY <1>5 DEF PlaneConclude, InvalidatesCache
  <2>2. LinkTypeOK' /\ ToldFits' /\ CachedFits' /\ SweepFits'
    BY <1>2, <2>1 DEF PlaneConclude, LinkTypeOK, ToldFits, CachedFits, SweepFits,
        Health!NoObservation
  <2>3. QED
    BY <1>3, <2>2
<1>6. QED
  BY <1>4, <1>5

-----------------------------------------------------------------------------
(* get_health.                                                             *)
LEMMA CallPreserves ==
    ASSUME PlaneInvariant, ControlInvariant', NEW r \in Reader, PlaneCall(r)
    PROVE  PlaneInvariant'
<1> USE DEF PlaneInvariant, PlaneCall, Health!Call, Health!cacheVars, Health!sweepVars,
    controlVars, threadVars, localVars
<1>1. LinkTypeOK'
  BY DEF LinkTypeOK
<1>2. SeenFits' /\ CachedFits'
  BY DEF SeenFits, CachedFits
<1>3. ToldFits'
  BY DEF ToldFits, LinkTypeOK
<1>4. SweepFits'
  BY DEF SweepFits, LinkTypeOK, Health!NoObservation
<1>5. QED
  BY <1>1, <1>2, <1>3, <1>4

(* What a reader expects is forgotten once it has an answer. *)
LEMMA ExpectedFits ==
    ASSUME PlaneInvariant, NEW r \in Reader, PlaneGetHealth(r)
    PROVE  /\ expected' \in [Reader -> [Service -> Nat]]
           /\ \A q \in Reader, s \in Service : expected'[q][s] <= expected[q][s]
  BY DEF PlaneInvariant, PlaneGetHealth, LinkTypeOK

LEMMA GetHealthPreserves ==
    ASSUME PlaneInvariant, ControlInvariant', NEW r \in Reader, PlaneGetHealth(r)
    PROVE  PlaneInvariant'
<1> USE DEF PlaneInvariant, Health!cacheVars, Health!sweepVars, Health!askVars
<1>1. /\ UNCHANGED <<pc, command, seen, told>>
      /\ Health!GetHealth(r)
  BY DEF PlaneGetHealth, controlVars, threadVars, localVars
<1>2. /\ expected' \in [Reader -> [Service -> Nat]]
      /\ \A q \in Reader, s \in Service : expected'[q][s] <= expected[q][s]
  BY ExpectedFits
<1>3. UNCHANGED <<version, confirmed, invalidation_generation>>
  BY <1>1 DEF Health!GetHealth, Health!ServeCached, Health!StartSweep, Health!Poll, Health!Publish
<1>4. SeenFits'
  BY <1>1, <1>3 DEF SeenFits
<1>5. ToldFits'
  BY <1>1, <1>2, <1>3 DEF ToldFits, LinkTypeOK
<1>6. CASE Health!ServeCached(r)
  <2>1. UNCHANGED <<cached_report, sweep_generation, draft>>
        /\ cached_report \in Health!Report
        /\ phase' = [phase EXCEPT ![r] = "idle"]
        /\ answer' = [answer EXCEPT ![r] = cached_report]
        /\ phase[r] = "waiting"
    BY <1>6 DEF Health!ServeCached, Health!CacheUsable, Health!Return, LinkTypeOK
  <2>2. LinkTypeOK'
    BY <1>1, <1>2, <1>3, <2>1 DEF LinkTypeOK
  <2>3. CachedFits'
    BY <1>3, <2>1 DEF CachedFits
  <2>4. SweepFits'
    <3>1. \A q \in Reader : phase'[q] = "sweeping" <=> phase[q] = "sweeping"
      BY <2>1 DEF LinkTypeOK
    <3>2. \A q \in Reader, s \in Service :
              /\ draft[q][s] \in Int /\ expected[q][s] \in Int /\ expected'[q][s] \in Int
              /\ expected'[q][s] <= expected[q][s]
      BY <1>2 DEF LinkTypeOK, Health!Report, Health!Observation
    <3>3. QED
      BY <1>3, <2>1, <3>1, <3>2 DEF SweepFits, Health!NoObservation
  <2>5. QED
    BY <1>4, <1>5, <2>2, <2>3, <2>4
<1>7. CASE Health!StartSweep(r)
  <2>1. /\ UNCHANGED <<cached_report, draft, answer>>
        /\ phase' = [phase EXCEPT ![r] = "sweeping"]
        /\ sweep_generation' = [sweep_generation EXCEPT ![r] = invalidation_generation]
        /\ phase[r] = "waiting"
    BY <1>7 DEF Health!StartSweep
  <2>2. LinkTypeOK'
    BY <1>1, <1>2, <1>3, <2>1 DEF LinkTypeOK
  <2>3. CachedFits'
    BY <1>3, <2>1 DEF CachedFits
  <2>4. SweepFits'
    <3>1. draft[r] = Health!NoObservation
      BY <2>1 DEF SweepFits
    <3>2. ASSUME NEW q \in Reader, q # r
          PROVE  phase'[q] = phase[q] /\ sweep_generation'[q] = sweep_generation[q]
      BY <2>1, <3>2 DEF LinkTypeOK
    <3>3. phase'[r] = "sweeping" /\ sweep_generation'[r] = invalidation_generation
      BY <2>1 DEF LinkTypeOK
    <3>4. \A s \in Service : draft'[r][s] = Health!Unavailable
      BY <2>1, <3>1 DEF Health!NoObservation
    <3>5. QED
      BY <1>2, <1>3, <2>1, <3>2, <3>3, <3>4 DEF SweepFits, LinkTypeOK, Health!NoObservation,
          Health!Report, Health!Observation
  <2>5. QED
    BY <1>4, <1>5, <2>2, <2>3, <2>4
<1>8. ASSUME NEW c \in Service, Health!Poll(r, c) PROVE PlaneInvariant'
  <2>1. PICK observation \in {version[c], Health!Unavailable} :
            draft' = [draft EXCEPT ![r][c] = observation]
    BY <1>8 DEF Health!Poll
  <2>2. UNCHANGED <<cached_report, sweep_generation, phase, answer>> /\ phase[r] = "sweeping"
    BY <1>8 DEF Health!Poll
  <2>3. observation \in Int
    BY DEF LinkTypeOK, Health!Unavailable
  <2>4. draft' \in [Reader -> Health!Report]
    BY <2>1, <2>3 DEF LinkTypeOK, Health!Report, Health!Observation
  <2>5. LinkTypeOK'
    BY <1>1, <1>2, <1>3, <2>2, <2>4 DEF LinkTypeOK
  <2>6. CachedFits'
    BY <1>3, <2>2 DEF CachedFits
  <2>7. SweepFits'
    <3>1. \A q \in Reader : q # r => draft'[q] = draft[q]
      BY <2>1 DEF LinkTypeOK
    <3>2. \A s \in Service : s # c => draft'[r][s] = draft[r][s]
      BY <2>1 DEF LinkTypeOK, Health!Report
    <3>3. draft'[r][c] = observation
      BY <2>1 DEF LinkTypeOK, Health!Report
    <3>4. observation # Health!Unavailable =>
              expected[r][c] <= observation /\ confirmed[c] <= observation
      BY DEF ToldFits, LinkTypeOK
    <3>5. ASSUME NEW q \in Reader, phase[q] = "sweeping", NEW s \in Service,
                 draft'[q][s] # Health!Unavailable
          PROVE  /\ expected[q][s] <= draft'[q][s]
                 /\ sweep_generation[q] = invalidation_generation => confirmed[s] <= draft'[q][s]
      <4>1. CASE q = r /\ s = c
        BY <4>1, <3>3, <3>4, <3>5
      <4>2. CASE ~(q = r /\ s = c)
        BY <4>2, <3>1, <3>2, <3>5 DEF SweepFits
      <4>3. QED
        BY <4>1, <4>2
    <3>6. \A q \in Reader, s \in Service :
              /\ expected[q][s] \in Int /\ expected'[q][s] \in Int /\ draft'[q][s] \in Int
              /\ expected'[q][s] <= expected[q][s]
      BY <1>2, <2>4 DEF LinkTypeOK, Health!Report, Health!Observation
    <3>7. \A q \in Reader, s \in Service :
              phase[q] = "sweeping" /\ draft'[q][s] # Health!Unavailable =>
                  expected'[q][s] <= draft'[q][s]
      BY <3>5, <3>6
    <3>8. \A q \in Reader : phase'[q] # "sweeping" => draft'[q] = Health!NoObservation
      BY <2>2, <3>1 DEF SweepFits
    <3>9. QED
      BY <1>3, <2>2, <3>5, <3>7, <3>8 DEF SweepFits, Health!NoObservation
  <2>8. QED
    BY <1>4, <1>5, <2>5, <2>6, <2>7
<1>9. CASE Health!Publish(r)
  <2>1. /\ phase[r] = "sweeping"
        /\ phase' = [phase EXCEPT ![r] = "idle"]
        /\ answer' = [answer EXCEPT ![r] = draft[r]]
        /\ sweep_generation' = [sweep_generation EXCEPT ![r] = 0]
        /\ draft' = [draft EXCEPT ![r] = Health!NoObservation]
        /\ \/ sweep_generation[r] = invalidation_generation /\ cached_report' = draft[r]
           \/ cached_report' = cached_report
    BY <1>9 DEF Health!Publish, Health!Return, Health!StillCurrent, Health!ForgetSweep
  <2>2. Health!NoObservation \in Health!Report /\ draft[r] \in Health!Report
    BY DEF Health!NoObservation, Health!Report, Health!Observation, Health!Unavailable, LinkTypeOK
  <2>3. LinkTypeOK'
    BY <1>1, <1>2, <1>3, <2>1, <2>2 DEF LinkTypeOK
  <2>4. CachedFits'
    BY <1>3, <2>1 DEF CachedFits, SweepFits
  <2>5. SweepFits'
    <3>1. ASSUME NEW q \in Reader, q # r
          PROVE  /\ phase'[q] = phase[q] /\ draft'[q] = draft[q]
                 /\ sweep_generation'[q] = sweep_generation[q]
      BY <2>1, <3>1 DEF LinkTypeOK
    <3>2. phase'[r] = "idle" /\ draft'[r] = Health!NoObservation
      BY <2>1 DEF LinkTypeOK
    <3>3. \A q \in Reader, s \in Service : draft[q][s] \in Int /\ expected[q][s] \in Int
                                           /\ expected'[q][s] \in Int
      BY <1>2 DEF LinkTypeOK, Health!Report, Health!Observation
    <3>4. QED
      BY <1>2, <1>3, <3>1, <3>2, <3>3 DEF SweepFits, Health!NoObservation
  <2>6. QED
    BY <1>4, <1>5, <2>3, <2>4, <2>5
<1>10. QED
  BY <1>1, <1>6, <1>7, <1>8, <1>9 DEF Health!GetHealth

LEMMA CacheAgesPreserves ==
    ASSUME PlaneInvariant, ControlInvariant', PlaneCacheAges
    PROVE  PlaneInvariant'
  BY DEF PlaneInvariant, PlaneCacheAges, Health!CacheAges, Health!sweepVars, Health!askVars,
      controlVars, threadVars, localVars, linkVars, LinkTypeOK, SeenFits, ToldFits, CachedFits,
      SweepFits, Health!NoObservation

LEMMA PlaneNextPreserves == PlaneInvariant /\ [PlaneNext]_planeVars => PlaneInvariant'
<1> SUFFICES ASSUME PlaneInvariant, [PlaneNext]_planeVars
             PROVE  PlaneInvariant'
  OBVIOUS
<1>1. ControlInvariant'
  BY PlaneStepControls, NextPreserves DEF PlaneInvariant
<1>2. CASE UNCHANGED planeVars
  BY <1>1, <1>2 DEF planeVars, PlaneInvariant, controlVars, threadVars, localVars, healthState,
      linkVars, LinkTypeOK, SeenFits, ToldFits, CachedFits, SweepFits, Health!NoObservation
<1>3. ASSUME NEW t \in Thread, PlaneSubmit(t) \/ PlaneControlStep(t) PROVE PlaneInvariant'
  <2>1. UNCHANGED <<healthState, seen, told, expected>>
    BY <1>3 DEF PlaneSubmit, PlaneControlStep, linkVars
  <2>2. KeepsReport(t)
    BY <1>3, QuietStepFits DEF PlaneSubmit, PlaneInvariant, ControlInvariant
  <2>3. QED
    BY <1>1, <2>1, <2>2, QuietPreserves
<1>4. CASE PlaneWindow
  BY <1>1, <1>4 DEF PlaneWindow, WindowSlides, PlaneInvariant, threadVars, localVars, healthState,
      linkVars, LinkTypeOK, SeenFits, ToldFits, CachedFits, SweepFits, Health!NoObservation
<1>5. ASSUME NEW t \in Thread, PlaneDeviceHandles(t) \/ PlaneVerify(t) \/ PlaneConclude(t)
      PROVE  PlaneInvariant'
  BY <1>1, <1>5, DeviceHandlesPreserves, VerifyPreserves, ConcludePreserves
<1>6. ASSUME NEW r \in Reader, PlaneCall(r) \/ PlaneGetHealth(r) PROVE PlaneInvariant'
  BY <1>1, <1>6, CallPreserves, GetHealthPreserves
<1>7. CASE PlaneOthers \/ PlaneCacheAges
  BY <1>1, <1>7, OthersPreserve, CacheAgesPreserves
<1>8. QED
  BY <1>2, <1>3, <1>4, <1>5, <1>6, <1>7 DEF PlaneNext

(* The inductive invariant of the composition, for any number of threads,  *)
(* readers, changes and forms.                                             *)
THEOREM PlaneInvariantHolds == PlaneSpec => []PlaneInvariant
<1>1. QED
  BY PlaneInitFits, PlaneNextPreserves, PTL DEF PlaneSpec

(* The dashboard process runs the controls as DeviceControls specifies     *)
(* them: everything proved of the controls holds in it.                    *)
THEOREM PlaneImplementsControls == PlaneSpec => ControlSpec
<1>1. PlaneInit => Init
  BY DEF PlaneInit
<1>2. QED
  BY <1>1, PlaneStepControls, PTL DEF PlaneSpec, ControlSpec

(* And the health service as HealthCache does: the control services call   *)
(* invalidate() only with a state their devices have been in.              *)
THEOREM PlaneImplementsHealth == PlaneSpec => Health!HealthSpec
<1>1. PlaneInit => Health!HealthInit
  BY DEF PlaneInit
<1>2. ASSUME PlaneInvariant, PlaneNext
      PROVE  Health!HealthNext \/ UNCHANGED healthState
  <2>1. ASSUME NEW t \in Thread, PlaneSubmit(t) \/ PlaneVerify(t) \/ PlaneControlStep(t)
        PROVE  UNCHANGED healthState
    BY <2>1 DEF PlaneSubmit, PlaneVerify, PlaneControlStep
  <2>2. ASSUME NEW t \in Thread, PlaneDeviceHandles(t)
        PROVE  Health!HealthNext \/ UNCHANGED healthState
    <3>1. ServiceOf(command[t].target) \in Service
      BY <1>2, ServiceOfCommand DEF PlaneInvariant
    <3>2. QED
      BY <2>2, <3>1 DEF PlaneDeviceHandles, ChangesVersion, Health!HealthNext
  <2>3. ASSUME NEW t \in Thread, PlaneConclude(t)
        PROVE  Health!HealthNext \/ UNCHANGED healthState
    <3>1. ServiceOf(command[t].target) \in Service
      BY <1>2, ServiceOfCommand DEF PlaneInvariant
    <3>2. seen[t] \in 0 .. version[ServiceOf(command[t].target)]
      BY <1>2, <3>1 DEF PlaneInvariant, SeenFits, LinkTypeOK
    <3>3. Health!Invalidate(ServiceOf(command[t].target), seen[t]) \/ UNCHANGED healthState
      BY <2>3 DEF PlaneConclude
    <3>4. QED
      BY <3>1, <3>2, <3>3 DEF Health!HealthNext
  <2>4. CASE PlaneOthers
    <3>1. PICK c : ChangesVersion(ServiceOf(c.target))
      BY <2>4 DEF PlaneOthers
    <3>2. ServiceOf(c.target) \in Service
      BY DEF ServiceOf, Service
    <3>3. QED
      BY <3>1, <3>2 DEF ChangesVersion, Health!HealthNext
  <2>5. CASE PlaneWindow
    BY <2>5 DEF PlaneWindow
  <2>6. ASSUME NEW r \in Reader, PlaneCall(r) \/ PlaneGetHealth(r)
        PROVE  Health!HealthNext
    BY <2>6 DEF PlaneCall, PlaneGetHealth, Health!HealthNext
  <2>7. CASE PlaneCacheAges
    BY <2>7 DEF PlaneCacheAges, Health!HealthNext
  <2>8. QED
    BY <1>2, <2>1, <2>2, <2>3, <2>4, <2>5, <2>6, <2>7 DEF PlaneNext
<1>3. healthState = Health!healthVars
  BY DEF healthState, Health!healthVars
<1>4. PlaneInvariant /\ [PlaneNext]_planeVars => [Health!HealthNext]_(Health!healthVars)
  BY <1>2, <1>3 DEF planeVars, healthState, Health!healthVars
<1>5. QED
  BY <1>1, <1>4, PlaneInvariantHolds, PTL DEF PlaneSpec, Health!HealthSpec

(* A page requested after a verified result never shows an older state of  *)
(* the component than the one the result was about.                        *)
THEOREM PageShowsMutationHolds == PlaneSpec => PageShowsMutation
<1> DEFINE Shows ==
        \A r \in Reader : phase[r] # "idle" /\ phase'[r] = "idle" =>
            \A s \in Service : \/ answer'[r][s] = Health!Unavailable
                               \/ answer'[r][s] >= expected[r][s]
<1>1. ASSUME PlaneInvariant, PlaneNext, NEW r \in Reader, phase[r] # "idle", phase'[r] = "idle",
             NEW s \in Service, answer'[r][s] # Health!Unavailable
      PROVE  answer'[r][s] >= expected[r][s]
  <2> USE <1>1 DEF PlaneInvariant
  <2>1. Health!ServeCached(r) \/ Health!Publish(r)
    <3>1. phase' # phase
      OBVIOUS
    <3>2. PICK q \in Reader : Health!Call(q) \/ Health!GetHealth(q)
      <4>1. ASSUME NEW t \in Thread, PlaneSubmit(t) \/ PlaneDeviceHandles(t) \/ PlaneVerify(t)
                       \/ PlaneConclude(t) \/ PlaneControlStep(t)
            PROVE  FALSE
        BY <3>1, <4>1 DEF PlaneSubmit, PlaneDeviceHandles, PlaneVerify, PlaneConclude,
            PlaneControlStep, ChangesVersion, Health!Change, Health!Invalidate, Health!askVars,
            healthState
      <4>2. ~PlaneOthers /\ ~PlaneWindow /\ ~PlaneCacheAges
        BY <3>1 DEF PlaneOthers, PlaneWindow, PlaneCacheAges, ChangesVersion, Health!Change,
            Health!CacheAges, Health!askVars, healthState
      <4>3. QED
        BY <4>1, <4>2 DEF PlaneNext, PlaneCall, PlaneGetHealth
    <3>3. CASE q # r
      BY <3>2, <3>3 DEF LinkTypeOK, Health!Call, Health!GetHealth, Health!ServeCached,
          Health!StartSweep, Health!Poll, Health!Publish, Health!Return, Health!askVars
    <3>4. CASE q = r
      BY <3>2, <3>4 DEF LinkTypeOK, Health!Call, Health!GetHealth, Health!StartSweep, Health!Poll,
          Health!askVars
    <3>5. QED
      BY <3>3, <3>4
  <2>2. CASE Health!ServeCached(r)
    <3>1. answer'[r] = cached_report /\ cached_report # NoReport
      BY <2>2 DEF Health!ServeCached, Health!CacheUsable, Health!Return, LinkTypeOK
    <3>2. confirmed[s] <= cached_report[s] /\ cached_report[s] \in Int
      BY <3>1 DEF CachedFits, LinkTypeOK, Health!Report, Health!Observation
    <3>3. QED
      BY <3>1, <3>2 DEF ToldFits, LinkTypeOK
  <2>3. CASE Health!Publish(r)
    <3>1. phase[r] = "sweeping" /\ answer'[r] = draft[r]
      BY <2>3 DEF Health!Publish, Health!Return, LinkTypeOK
    <3>2. expected[r][s] <= draft[r][s] /\ draft[r][s] \in Int
      BY <3>1 DEF SweepFits, LinkTypeOK, Health!Report, Health!Observation
    <3>3. QED
      BY <3>1, <3>2 DEF LinkTypeOK
  <2>4. QED
    BY <2>1, <2>2, <2>3
<1>2. PlaneInvariant /\ [PlaneNext]_planeVars => [Shows]_planeVars
  BY <1>1
<1>3. QED
  BY <1>2, PlaneInvariantHolds, PTL DEF PlaneSpec, PageShowsMutation

=============================================================================
