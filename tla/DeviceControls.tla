--------------------------- MODULE DeviceControls ---------------------------
(***************************************************************************)
(* The device controls of the control plane: request threads that change   *)
(* WLED and HyperHDR through WLEDControlService, HyperHDRControlService    *)
(* and AmbientControlService (src/aurora_core/control_plane).              *)
(*                                                                         *)
(* A command sets a target to a value: "grabber" and "led" are the         *)
(* HyperHDR components VIDEOGRABBER and LEDDEVICE, "power" is WLED's `on`, *)
(* "brightness" WLED's `bri`; 1 is enable / on, 0 is disable / off.  An    *)
(* ambient request runs three commands in the thread that posted it, under *)
(* one reentrant mutation gate that it shares with the component requests. *)
(* Every acquisition is nonblocking: contention is answered with "busy".   *)
(*                                                                         *)
(* The network may lose a POST, answer it wrongly or not at all, or hand   *)
(* it to the device after the sender's timeout (`late`), when another      *)
(* request may hold the gate: the gate orders requests, not what is still  *)
(* on its way to a device.  And the devices may be changed by somebody     *)
(* else at any time (OutsideChange).                                       *)
(***************************************************************************)
EXTENDS Integers, Sequences, FiniteSets

CONSTANTS Thread,             \* request threads of the dashboard server
          NoThread,           \* "nobody holds the lock"
          Offered,            \* the requests the browsers post
          AllowedCommand,     \* component commands whose operation is allowlisted
          AllowedAmbient,     \* allowlisted ambient operations
          Level,              \* brightness levels
          MaximumBrightness,  \* controls.maximum_brightness
          Limit,              \* Limit[l]: attempts limiter l grants per window
          MaxLate,            \* bound: POSTs that may still be delivered late
          Outside             \* commands others give the devices

Switch == {"grabber", "led", "power"}
Target == Switch \union {"brightness"}
Command == [target : Switch, value : {0, 1}] \union
           [target : {"brightness"}, value : Level]
Value == {0, 1} \union Level

Service == {"wled", "hyperhdr"}
ServiceOf(target) == IF target \in {"power", "brightness"} THEN "wled" ELSE "hyperhdr"
Limiter == Service \union {"ambient"}

AmbientOperation == {"ambient_on", "ambient_off"}
Set(target, value) == [target |-> target, value |-> value]

(* The children of the two composite operations, in the order they run. *)
Steps(operation) ==
    IF operation = "ambient_on"
    THEN <<Set("grabber", 1), Set("power", 1), Set("led", 1)>>
    ELSE <<Set("led", 0), Set("grabber", 0), Set("power", 0)>>

(* A posted form: an ambient operation, or a component command.            *)
(* `authorized`: valid session and CSRF token; `confirmed`: the dedicated  *)
(* confirmation field was sent with its fixed value.                       *)
Request ==
    [parent : AmbientOperation, command : {Set("led", 0)},
     authorized : BOOLEAN, confirmed : BOOLEAN] \union
    [parent : {"none"}, command : Command,
     authorized : BOOLEAN, confirmed : BOOLEAN]

ASSUME NoThreadAssumption == NoThread \notin Thread
ASSUME ControlAssumption ==
    /\ Level \subseteq Nat
    /\ MaximumBrightness \in Nat
    /\ Offered \subseteq Request
    /\ AllowedCommand \subseteq Command
    /\ AllowedAmbient \subseteq AmbientOperation
    /\ Limit \in [Limiter -> Nat]
    /\ MaxLate \in Nat
    /\ Outside \subseteq Command

ChildStatus == {"verified", "denied", "rate_limited", "busy", "failed", "unverified"}
ParentStatus == (ChildStatus \ {"verified"}) \union {"completed", "partially_completed"}
Answered == ChildStatus \union ParentStatus

(* Where a thread is: in the ambient service, or in a component service. *)
AmbientPlace == {"parent_execute", "parent_gate", "parent_next", "parent_release"}
ServicePlace == {"execute", "gate", "lock", "wait", "verify", "release", "conclude"}
Place == {"idle"} \union AmbientPlace \union ServicePlace

VARIABLES
    pc,              \* pc[t]: where thread t is
    request,         \* request[t]: the form t handles
    command,         \* command[t]: the component command t runs
    outcome,         \* outcome[t]: status of t's last component command
    step,            \* step[t]: ambient children begun (attempted_steps)
    verified,        \* verified[t]: the steps that verified (verified_steps)
    status,          \* status[t]: the answer of t's request, once there is one
    sent,            \* ghost: t's request put a command on the wire
    gate_owner, gate_depth,  \* ControlMutationGate: the RLock
    operation_lock,  \* operation_lock[s]: private lock of service s
    attempts,        \* attempts[l]: attempts in limiter l's window
    post,            \* post[t]: t's POST is "none", "sent" or "handled"
    reply,           \* reply[t]: the target's value in the device's answer
    device,          \* device[x]: the real value of target x
    late,            \* commands the network may still deliver
    disturbed,       \* ghost: somebody else changed a device under the gate
    overtaken        \* ghost: targets last set, under the gate, by a late POST

localVars == <<request, command, outcome, step, verified, sent>>
threadVars == <<pc, localVars, status>>
lockVars == <<gate_owner, gate_depth, operation_lock>>
worldVars == <<device, late, disturbed, overtaken>>
wireVars == <<post, reply>>
controlVars == <<threadVars, lockVars, attempts, worldVars, wireVars>>

NoForm == [parent |-> "none", command |-> Set("led", 0),
           authorized |-> FALSE, confirmed |-> FALSE]

Init ==
    /\ pc = [t \in Thread |-> "idle"]
    /\ request = [t \in Thread |-> NoForm]
    /\ command = [t \in Thread |-> Set("led", 0)]
    /\ outcome = [t \in Thread |-> "denied"]
    /\ step = [t \in Thread |-> 0]
    /\ verified = [t \in Thread |-> {}]
    /\ status = [t \in Thread |-> "none"]
    /\ sent = [t \in Thread |-> FALSE]
    /\ gate_owner = NoThread
    /\ gate_depth = 0
    /\ operation_lock = [s \in Service |-> NoThread]
    /\ attempts = [l \in Limiter |-> 0]
    /\ post = [t \in Thread |-> "none"]
    /\ reply = [t \in Thread |-> 0]
    /\ device = [x \in Target |-> 0]
    /\ late = {}
    /\ disturbed = FALSE
    /\ overtaken = {}

-----------------------------------------------------------------------------
(* Helpers                                                                 *)

Goto(t, place) == pc' = [pc EXCEPT ![t] = place]

IsAmbient(t) == request[t].parent # "none"

(* The request is answered: the thread is free, its locals are gone. *)
Answer(t, answer) ==
    /\ Goto(t, "idle")
    /\ status' = [status EXCEPT ![t] = answer]
    /\ request' = [request EXCEPT ![t] = NoForm]
    /\ command' = [command EXCEPT ![t] = Set("led", 0)]
    /\ outcome' = [outcome EXCEPT ![t] = "denied"]
    /\ step' = [step EXCEPT ![t] = 0]
    /\ verified' = [verified EXCEPT ![t] = {}]
    /\ sent' = [sent EXCEPT ![t] = FALSE]

(* A component service returns `result`: to the browser, or to the ambient *)
(* service that called it.                                                 *)
ReturnFromService(t, result) ==
    \/ /\ IsAmbient(t)
       /\ Goto(t, "parent_next")
       /\ outcome' = [outcome EXCEPT ![t] = result]
       /\ verified' = IF result = "verified"
                      THEN [verified EXCEPT ![t] = @ \union {step[t]}]
                      ELSE verified
       /\ UNCHANGED <<request, command, step, sent, status>>
    \/ /\ ~IsAmbient(t)
       /\ Answer(t, result)

(* begin_attempt of limiter l: room in the window, and take it. *)
HasAttempt(l) == attempts[l] < Limit[l]
TakeAttempt(l) == attempts' = [attempts EXCEPT ![l] = @ + 1]

(* Bugs: no gate, the services rely on their private locks; a plain Lock.   *)
GateAlwaysAvailable(t) == TRUE
GateNotReentrant(t) == gate_owner = NoThread

GateAvailable(t) == gate_owner \in {NoThread, t}

AcquireGate(t) ==
    /\ gate_owner' = t
    /\ gate_depth' = gate_depth + 1
    /\ disturbed' = (disturbed /\ gate_depth > 0)
    /\ overtaken' = IF gate_depth > 0 THEN overtaken ELSE {}

(* Bug: a child's release gives up what its parent acquired. *)
ReleaseGateEntirely ==
    /\ gate_depth' = gate_depth - 1
    /\ gate_owner' = NoThread

ReleaseGate ==
    /\ gate_depth' = gate_depth - 1
    /\ gate_owner' = IF gate_depth = 1 THEN NoThread ELSE gate_owner

-----------------------------------------------------------------------------
(* A browser posts a form.                                                 *)

Submit(t) ==
    /\ pc[t] = "idle"
    /\ \E form \in Offered :
           /\ request' = [request EXCEPT ![t] = form]
           /\ command' = [command EXCEPT ![t] = form.command]
           /\ Goto(t, IF form.parent = "none" THEN "execute" ELSE "parent_execute")
    /\ status' = [status EXCEPT ![t] = "none"]
    /\ UNCHANGED <<outcome, step, verified, sent, lockVars, attempts, worldVars, wireVars>>

-----------------------------------------------------------------------------
(* AmbientControlService                                                   *)

(* Bug: the children's allowlist entries are left to the children. *)
ParentIgnoresChildren(t) ==
    \/ ~request[t].authorized
    \/ request[t].parent \notin AllowedAmbient
    \/ request[t].parent = "ambient_off" /\ ~request[t].confirmed

ParentDenied(t) ==
    \/ ~request[t].authorized
    \/ request[t].parent \notin AllowedAmbient
    \/ \E i \in 1 .. 3 : Steps(request[t].parent)[i] \notin AllowedCommand
    \/ request[t].parent = "ambient_off" /\ ~request[t].confirmed

(* The checks of _execute in their order, ending with the limiter. *)
ParentAdmit(t) ==
    /\ pc[t] = "parent_execute"
    /\ \/ /\ ParentDenied(t)
          /\ Answer(t, "denied")
          /\ UNCHANGED attempts
       \/ /\ ~ParentDenied(t) /\ ~HasAttempt("ambient")
          /\ Answer(t, "rate_limited")
          /\ UNCHANGED attempts
       \/ /\ ~ParentDenied(t) /\ HasAttempt("ambient")
          /\ TakeAttempt("ambient")
          /\ Goto(t, "parent_gate")
          /\ UNCHANGED <<localVars, status>>
    /\ UNCHANGED <<lockVars, worldVars, wireVars>>

ParentTakeGate(t) ==
    /\ pc[t] = "parent_gate"
    /\ \/ /\ GateAvailable(t)
          /\ AcquireGate(t)
          /\ Goto(t, "parent_next")
          /\ UNCHANGED <<localVars, status>>
       \/ /\ ~GateAvailable(t)
          /\ Answer(t, "busy")
          /\ UNCHANGED <<gate_owner, gate_depth, disturbed, overtaken>>
    /\ UNCHANGED <<operation_lock, attempts, device, late, wireVars>>

(* Bug: a failed child does not stop the sequence. *)
AlwaysContinues(t) == step[t] < 3

(* Does the sequence go on after `step[t]` children?  Ambient on stops at  *)
(* the first child that did not verify; ambient off only at the first one. *)
Continues(t) ==
    /\ step[t] < 3
    /\ \/ step[t] = 0
       \/ outcome[t] = "verified"
       \/ request[t].parent = "ambient_off" /\ step[t] = 2

(* Bug: the last child decides. *)
AggregateOfLast(t) ==
    IF outcome[t] = "verified" THEN "completed"
    ELSE IF verified[t] # {} THEN "partially_completed"
    ELSE outcome[t]

(* The status of a sequence that is over. *)
Aggregate(t) ==
    IF verified[t] = 1 .. 3 THEN "completed"
    ELSE IF verified[t] # {} THEN "partially_completed"
    ELSE outcome[t]

ParentNextChild(t) ==
    /\ pc[t] = "parent_next"
    /\ Continues(t)
    /\ step' = [step EXCEPT ![t] = @ + 1]
    /\ command' = [command EXCEPT ![t] = Steps(request[t].parent)[step[t] + 1]]
    /\ Goto(t, "execute")
    /\ UNCHANGED <<request, outcome, verified, status, sent, lockVars, attempts,
                   worldVars, wireVars>>

ParentFinish(t) ==
    /\ pc[t] = "parent_next"
    /\ ~Continues(t)
    /\ status' = [status EXCEPT ![t] = Aggregate(t)]
    /\ Goto(t, "parent_release")
    /\ UNCHANGED <<request, command, outcome, step, verified, sent, lockVars, attempts,
                   worldVars, wireVars>>

ParentRelease(t) ==
    /\ pc[t] = "parent_release"
    /\ ReleaseGate
    /\ Answer(t, status[t])
    /\ UNCHANGED <<operation_lock, attempts, worldVars, wireVars>>

-----------------------------------------------------------------------------
(* WLEDControlService and HyperHDRControlService: _execute                 *)

(* The ambient service supplies the children's confirmations itself. *)
NeedsConfirmation(c) == c.target \in Switch /\ c.value = 0

CommandDenied(t) ==
    \/ ~request[t].authorized
    \/ command[t] \notin AllowedCommand
    \/ NeedsConfirmation(command[t]) /\ ~IsAmbient(t) /\ ~request[t].confirmed
    \/ command[t].target = "brightness" /\ command[t].value > MaximumBrightness

Admit(t) ==
    LET service == ServiceOf(command[t].target) IN
    /\ pc[t] = "execute"
    /\ \/ /\ CommandDenied(t)
          /\ ReturnFromService(t, "denied")
          /\ UNCHANGED attempts
       \/ /\ ~CommandDenied(t) /\ ~HasAttempt(service)
          /\ ReturnFromService(t, "rate_limited")
          /\ UNCHANGED attempts
       \/ /\ ~CommandDenied(t) /\ HasAttempt(service)
          /\ TakeAttempt(service)
          /\ Goto(t, "gate")
          /\ UNCHANGED <<localVars, status>>
    /\ UNCHANGED <<lockVars, worldVars, wireVars>>

(* Bug: a blocking acquisition. *)
TakeGateBlocking(t) ==
    /\ pc[t] = "gate"
    /\ GateAvailable(t)
    /\ AcquireGate(t)
    /\ Goto(t, "lock")
    /\ UNCHANGED <<localVars, status, operation_lock, attempts, device, late, wireVars>>

TakeGate(t) ==
    /\ pc[t] = "gate"
    /\ \/ /\ GateAvailable(t)
          /\ AcquireGate(t)
          /\ Goto(t, "lock")
          /\ UNCHANGED <<localVars, status>>
       \/ /\ ~GateAvailable(t)
          /\ ReturnFromService(t, "busy")
          /\ UNCHANGED <<gate_owner, gate_depth, disturbed, overtaken>>
    /\ UNCHANGED <<operation_lock, attempts, device, late, wireVars>>

(* The private lock of the service; the adapter then sends its one POST. *)
StartMutation(t) ==
    LET service == ServiceOf(command[t].target) IN
    /\ pc[t] = "lock"
    /\ \/ /\ operation_lock[service] = NoThread
          /\ operation_lock' = [operation_lock EXCEPT ![service] = t]
          /\ post' = [post EXCEPT ![t] = "sent"]
          /\ sent' = [sent EXCEPT ![t] = TRUE]
          /\ Goto(t, "wait")
          /\ UNCHANGED <<gate_owner, gate_depth, request, command, outcome, step,
                         verified, status>>
       \/ /\ operation_lock[service] # NoThread
          /\ ReleaseGate
          /\ ReturnFromService(t, "busy")
          /\ UNCHANGED <<operation_lock, post>>
    /\ UNCHANGED <<attempts, worldVars, reply>>

(* The device processes t's POST: it obeys, or refuses or ignores it. *)
DeviceHandles(t) ==
    LET target == command[t].target IN
    /\ pc[t] = "wait" /\ post[t] = "sent"
    /\ \/ /\ device' = [device EXCEPT ![target] = command[t].value]
          /\ overtaken' = overtaken \ {target}
       \/ UNCHANGED <<device, overtaken>>
    /\ reply' = [reply EXCEPT ![t] = device'[target]]
    /\ post' = [post EXCEPT ![t] = "handled"]
    /\ UNCHANGED <<threadVars, lockVars, attempts, late, disturbed>>

(* The adapter's call ends with `result`. *)
AdapterReturns(t, result) ==
    /\ outcome' = [outcome EXCEPT ![t] = result]
    /\ post' = [post EXCEPT ![t] = "none"]
    /\ reply' = [reply EXCEPT ![t] = 0]
    /\ Goto(t, "release")
    /\ UNCHANGED <<request, command, step, verified, status, sent, lockVars, attempts,
                   device, disturbed, overtaken>>

(* A refused connection, a timeout, an HTTP error or an oversized answer: a *)
(* POST that was not yet handled is lost, or is delivered late.            *)
TransportFails(t) ==
    /\ pc[t] = "wait"
    /\ AdapterReturns(t, "failed")
    /\ \/ UNCHANGED late
       \/ /\ post[t] = "sent" /\ Cardinality(late) < MaxLate
          /\ late' = late \union {command[t]}

(* Bug: any well-formed answer of WLED is taken for the requested state. *)
WLEDAnswersUnchecked(t) ==
    /\ pc[t] = "wait" /\ post[t] = "handled"
    /\ ServiceOf(command[t].target) = "wled"
    /\ AdapterReturns(t, "verified")
    /\ UNCHANGED late

(* WLED's answer to the POST carries the state it is in: it is compared    *)
(* with the requested one; a malformed answer counts as unverified.        *)
WLEDAnswers(t) ==
    /\ pc[t] = "wait" /\ post[t] = "handled"
    /\ ServiceOf(command[t].target) = "wled"
    /\ \/ reply[t] = command[t].value /\ AdapterReturns(t, "verified")
       \/ AdapterReturns(t, "unverified")
    /\ UNCHANGED late

(* HyperHDR only acknowledges the POST; the adapter then reads the state   *)
(* back.  An answer that is no acknowledgement is a failure.               *)
HyperHDRAnswers(t) ==
    /\ pc[t] = "wait" /\ post[t] = "handled"
    /\ ServiceOf(command[t].target) = "hyperhdr"
    /\ \/ /\ Goto(t, "verify")
          /\ UNCHANGED <<localVars, status, lockVars, attempts, device, disturbed,
                         overtaken, wireVars>>
       \/ AdapterReturns(t, "failed")
    /\ UNCHANGED late

(* The verification GET: it may fail, show another state or the right one. *)
VerifyComponent(t) ==
    /\ pc[t] = "verify"
    /\ \/ /\ device[command[t].target] = command[t].value
          /\ AdapterReturns(t, "verified")
       \/ AdapterReturns(t, "unverified")
    /\ UNCHANGED late

(* The two finally blocks: the private lock, then the gate. *)
Release(t) ==
    /\ pc[t] = "release"
    /\ operation_lock' = [operation_lock EXCEPT ![ServiceOf(command[t].target)] = NoThread]
    /\ ReleaseGate
    /\ Goto(t, "conclude")
    /\ UNCHANGED <<localVars, status, attempts, worldVars, wireVars>>

(* After the locks are gone: a verified result invalidates the health      *)
(* cache (the module ControlPlane does so in this step) and is returned.   *)
Conclude(t) ==
    /\ pc[t] = "conclude"
    /\ ReturnFromService(t, outcome[t])
    /\ UNCHANGED <<lockVars, attempts, worldVars, wireVars>>

-----------------------------------------------------------------------------
(* The environment                                                         *)

(* The oldest attempt of limiter l leaves its window. *)
WindowSlides(l) ==
    /\ attempts[l] > 0
    /\ attempts' = [attempts EXCEPT ![l] = @ - 1]
    /\ UNCHANGED <<threadVars, lockVars, worldVars, wireVars>>

(* A POST whose sender has given up arrives, whoever holds the gate now. *)
LateDelivery(c) ==
    /\ c \in late
    /\ late' = late \ {c}
    /\ device' = [device EXCEPT ![c.target] = c.value]
    /\ overtaken' = IF gate_owner = NoThread THEN overtaken ELSE overtaken \union {c.target}
    /\ UNCHANGED <<disturbed, threadVars, lockVars, attempts, wireVars>>

OutsideChange(c) ==
    /\ device[c.target] # c.value
    /\ device' = [device EXCEPT ![c.target] = c.value]
    /\ disturbed' = (gate_owner # NoThread)
    /\ UNCHANGED <<threadVars, lockVars, attempts, late, overtaken, wireVars>>

-----------------------------------------------------------------------------
AdapterStep(t) ==
    TransportFails(t) \/ WLEDAnswers(t) \/ HyperHDRAnswers(t) \/ VerifyComponent(t)

(* What a thread does by itself once a form is posted. *)
ThreadStep(t) ==
    \/ ParentAdmit(t) \/ ParentTakeGate(t) \/ ParentNextChild(t)
    \/ ParentFinish(t) \/ ParentRelease(t)
    \/ Admit(t) \/ TakeGate(t) \/ StartMutation(t) \/ AdapterStep(t)
    \/ Release(t) \/ Conclude(t)

DeviceStep ==
    \/ \E t \in Thread : DeviceHandles(t)
    \/ \E c \in late : LateDelivery(c)
    \/ \E c \in Outside : OutsideChange(c)

Next ==
    \/ \E t \in Thread : Submit(t) \/ ThreadStep(t)
    \/ DeviceStep
    \/ \E l \in Limiter : WindowSlides(l)

ControlSpec == Init /\ [][Next]_controlVars

(* Threads run, and a call of the network ends by its timeout; the devices *)
(* and the browsers promise nothing.                                       *)
FairControlSpec == ControlSpec /\ \A t \in Thread : WF_controlVars(ThreadStep(t))

-----------------------------------------------------------------------------
(* Properties                                                              *)

OnWire(t) == pc[t] \in {"wait", "verify"}

(* Between taking and releasing the gate as the ambient service. *)
InSequence(t) == IsAmbient(t) /\ pc[t] \notin {"idle", "parent_execute", "parent_gate"}

(* Types of the variables: of the threads, the locks and the rest. *)
ThreadTypeOK ==
    /\ pc \in [Thread -> Place]
    /\ request \in [Thread -> Request]
    /\ command \in [Thread -> Command]
    /\ outcome \in [Thread -> ChildStatus]
    /\ step \in [Thread -> 0 .. 3]
    /\ verified \in [Thread -> SUBSET (1 .. 3)]
    /\ status \in [Thread -> Answered \union {"none"}]
    /\ sent \in [Thread -> BOOLEAN]
LockTypeOK ==
    /\ gate_owner \in Thread \union {NoThread}
    /\ gate_depth \in 0 .. 2
    /\ operation_lock \in [Service -> Thread \union {NoThread}]
WorldTypeOK ==
    /\ attempts \in [Limiter -> Nat]
    /\ \A l \in Limiter : attempts[l] <= Limit[l]
    /\ post \in [Thread -> {"none", "sent", "handled"}]
    /\ reply \in [Thread -> Value]
    /\ device \in [Target -> Value]
    /\ late \in SUBSET Command
    /\ disturbed \in BOOLEAN
    /\ overtaken \in SUBSET Target
ControlTypeOK == ThreadTypeOK /\ LockTypeOK /\ WorldTypeOK

(* Aurora never has two device mutations under way, not even one of WLED   *)
(* and one of HyperHDR, whose private locks differ (the shared gate).      *)
SerializedMutations ==
    \A t, u \in Thread : OnWire(t) /\ OnWire(u) => t = u

(* No command of another request comes between the children of an ambient  *)
(* sequence: the parent keeps the gate when a child releases its           *)
(* acquisition (AmbientControlService._execute over a reentrant gate).     *)
AmbientUninterrupted ==
    \A t, u \in Thread : InSequence(t) /\ OnWire(u) => t = u

(* The target of c is as c wants it, unless a late POST of an earlier      *)
(* request has been the last to set it under this gate.                    *)
Applied(c) == device[c.target] = c.value \/ c.target \in overtaken

(* The order of the children is a safety boundary: while ambient off       *)
(* turns the grabber or WLED off, LED output is off; while ambient on      *)
(* enables LED output, the grabber runs and WLED is on (_run_ambient_on,   *)
(* _run_ambient_off).  Exempt are what somebody else does under the gate,  *)
(* and a target that a late POST of Aurora itself has set under it: that   *)
(* a failed or skipped step, another request or any order of the steps     *)
(* breaks it is not exempt.                                                *)
SafetyBoundary ==
    \A t \in Thread : OnWire(t) /\ ~disturbed =>
        /\ request[t].parent = "ambient_off" /\ command[t].target # "led" =>
               Applied(Set("led", 0))
        /\ request[t].parent = "ambient_on" /\ command[t].target = "led" =>
               Applied(Set("grabber", 1)) /\ Applied(Set("power", 1))

(* Without the second exemption it is what docs/hyperhdr-controls.md:124   *)
(* and docs/ambient-controls.md:55 say: no standalone operation interleaves *)
(* with a sequence, and what follows the verified LED isolation is safe.   *)
(* The code does not keep it: the POST of a request that was answered      *)
(* "failed" after its timeout may reach HyperHDR in the middle.            *)
IsolationKept ==
    \A t \in Thread :
        OnWire(t) /\ ~disturbed /\ request[t].parent = "ambient_off"
            /\ command[t].target # "led" => device["led"] = 0

(* "verified" and "completed" are true of the devices when the locks are   *)
(* released, with the same two exemptions: a change by somebody else under *)
(* the gate, and a target set under it by a late POST.  An answer that     *)
(* came from another state than the requested one is not exempt.           *)
VerifiedMeansApplied ==
    \A t \in Thread : ~disturbed =>
        /\ pc[t] = "release" /\ outcome[t] = "verified" => Applied(command[t])
        /\ pc[t] = "parent_release" /\ status[t] = "completed" =>
               \A i \in 1 .. 3 : Applied(Steps(request[t].parent)[i])

(* The aggregate of an ambient sequence says exactly what its children     *)
(* did: completed iff all verified, partial iff some but not all, and no   *)
(* child after the first is tried unless the sequence allows it.           *)
HonestAggregate ==
    \A t \in Thread : pc[t] = "parent_release" =>
        /\ status[t] = "completed" <=> verified[t] = 1 .. 3
        /\ status[t] = "partially_completed" <=> verified[t] \notin {{}, 1 .. 3}
        /\ verified[t] \subseteq 1 .. step[t]
        /\ 1 \notin verified[t] => step[t] = 1
        /\ request[t].parent = "ambient_on" => 1 .. (step[t] - 1) \subseteq verified[t]
        /\ request[t].parent = "ambient_off" /\ 1 \in verified[t] => step[t] = 3

(* Inside an ambient sequence a child is never refused by the gate or a    *)
(* private lock its own thread or another one holds, nor by an allowlist   *)
(* the parent already checked: only its limiter or the device can stop it. *)
ChildNotRefused ==
    \A t \in Thread : InSequence(t) /\ pc[t] = "parent_next" /\ step[t] > 0 =>
        outcome[t] \notin {"busy", "denied"}

(* A request that ends with the answer denied, rate limited or busy - an   *)
(* ambient one too - has sent no command to any device.                    *)
RefusedMeansUntouched ==
    [][\A t \in Thread :
          pc[t] # "idle" /\ pc'[t] = "idle"
              /\ status'[t] \in {"denied", "rate_limited", "busy"} => ~sent[t]]_controlVars

(* A thread that has answered, or not yet reached the gate, holds neither  *)
(* the gate nor a private lock, whatever failed on its way (the finally    *)
(* blocks), and the gate is free iff nobody is inside.                     *)
LocksReturned ==
    /\ \A t \in Thread : pc[t] \in {"idle", "parent_execute", "parent_gate"} =>
           gate_owner # t /\ \A s \in Service : operation_lock[s] # t
    /\ gate_owner = NoThread <=> gate_depth = 0

(* Every posted form is answered: nobody waits for a lock, and a thread    *)
(* does not wait for itself when an ambient child takes the gate again.    *)
EveryRequestAnswered == \A t \in Thread : pc[t] # "idle" ~> pc[t] = "idle"
=============================================================================
