------------------------ MODULE SessionControlProofs ------------------------
(***************************************************************************)
(* Proofs about the session store and the attempt limiter for any number   *)
(* of threads, clients, sessions and attempts: a session that is over      *)
(* stays over, the store never holds more than it may, what it throws out  *)
(* is the oldest, and no client and not all of them together have more     *)
(* passwords compared within a window than the limits allow.               *)
(***************************************************************************)
EXTENDS SessionControl, FiniteSetTheorems, WellFoundedInduction, TLAPS

(* What a thread carries was issued.                                       *)
RequestsFit ==
  /\ \A i \in Threads : stage[i] # "idle" =>
       request[i] \in Request /\ request[i].cookie \in Issued \cup {NoToken}
  /\ \A i \in Threads : stage[i] = "granted" => session[i] \in Issued

(* What a browser is about to be told is over has left the store.          *)
AlreadyGone ==
  \A i \in Threads : stage[i] \in {"create", "granted", "left"} => request[i].cookie \notin held

StoreInvariant ==
  /\ SessionTypeOK
  /\ RequestsFit
  /\ AlreadyGone
  /\ OverIsOver
  /\ SessionCap

-----------------------------------------------------------------------------
LEMMA InitStore == SessionInit => StoreInvariant
  <1> SUFFICES ASSUME SessionInit PROVE StoreInvariant
    OBVIOUS
  <1>1. SessionTypeOK /\ RequestsFit /\ AlreadyGone /\ OverIsOver
    BY SessionAssumption
       DEF SessionInit, SessionTypeOK, RequestsFit, AlreadyGone, OverIsOver, Issued, Stage
  <1>2. SessionCap
    BY SessionAssumption, FS_EmptySet DEF SessionInit, SessionCap
  <1> QED
    BY <1>1, <1>2 DEF StoreInvariant

(* A set of numbers that is not empty has a least one.                     *)
LEMMA Least ==
  ASSUME NEW T \in SUBSET Nat, T # {}
  PROVE  \E t \in T : \A u \in T : t <= u
  <1>1. PICK t \in T : \A u \in T : ~ (<<u, t>> \in OpToRel(<, Nat))
    BY NatLessThanWellFounded, WFMin
  <1>2. \A u \in T : ~ (u < t)
    BY <1>1 DEF OpToRel
  <1> QED
    BY <1>2

(* The store makes room for one more session.                              *)
LEMMA RoomIsMade ==
  ASSUME NEW U \in SUBSET Nat, IsFiniteSet(U)
  PROVE  /\ RoomFor(U) \subseteq U /\ IsFiniteSet(RoomFor(U))
         /\ Cardinality(RoomFor(U)) < MaximumSessions
  <1>1. RoomFor(U) \subseteq U
    BY DEF RoomFor
  <1>2. IsFiniteSet(RoomFor(U)) /\ Cardinality(RoomFor(U)) \in Nat
    BY <1>1, FS_Subset, FS_CardinalityType
  <1>3. CASE RoomFor(U) = {}
    BY <1>1, <1>2, <1>3, FS_EmptySet, SessionAssumption
  <1>4. CASE RoomFor(U) # {}
    <2>1. PICK t \in RoomFor(U) : \A u \in RoomFor(U) : t <= u
      BY <1>1, <1>4, Least
    <2> DEFINE newer == {u \in U : t < u}
    <2>2. Cardinality(newer) + 1 < MaximumSessions
      BY DEF RoomFor
    <2>3. IsFiniteSet(newer) /\ Cardinality(newer) \in Nat
      BY FS_Subset, FS_CardinalityType
    <2>4. RoomFor(U) \ {t} \subseteq newer
      <3> SUFFICES ASSUME NEW u \in RoomFor(U), u # t PROVE u \in newer
        OBVIOUS
      <3>1. u \in U /\ t \in U /\ t <= u
        BY <1>1, <2>1
      <3>2. t < u
        BY <3>1
      <3> QED
        BY <3>1, <3>2
    <2>5. Cardinality(RoomFor(U) \ {t}) = Cardinality(RoomFor(U)) - 1
      BY <1>2, FS_RemoveElement
    <2>6. Cardinality(RoomFor(U) \ {t}) <= Cardinality(newer)
      BY <2>3, <2>4, FS_Subset
    <2> HIDE DEF newer
    <2> QED
      BY <1>1, <1>2, <2>2, <2>3, <2>5, <2>6, SessionAssumption
  <1> QED
    BY <1>1, <1>2, <1>3, <1>4

(* What has to go from a store that is not too full is its oldest session, *)
(* and only if the store is full.                                          *)
LEMMA OldestGoes ==
  ASSUME NEW U \in SUBSET Nat, IsFiniteSet(U), Cardinality(U) <= MaximumSessions,
         NEW t \in U \ RoomFor(U)
  PROVE  Cardinality(U) >= MaximumSessions /\ \A u \in U : t <= u
  <1> DEFINE newer == {u \in U : t < u}
  <1>1. IsFiniteSet(newer) /\ Cardinality(newer) \in Nat /\ Cardinality(U) \in Nat
    BY FS_Subset, FS_CardinalityType
  <1>2. ~ (Cardinality(newer) + 1 < MaximumSessions)
    BY DEF RoomFor
  <1>3. t \notin newer /\ newer \cup {t} \in SUBSET U
    OBVIOUS
  <1> HIDE DEF newer
  <1>4. Cardinality(newer \cup {t}) = Cardinality(newer) + 1
    BY <1>1, <1>3, FS_AddElement
  <1>5. /\ Cardinality(newer \cup {t}) <= Cardinality(U)
        /\ Cardinality(U) = Cardinality(newer \cup {t}) => U = newer \cup {t}
    BY <1>3, FS_Subset
  <1>6. Cardinality(U) >= MaximumSessions /\ U = newer \cup {t}
    BY <1>1, <1>2, <1>4, <1>5, SessionAssumption
  <1> QED
    BY <1>6 DEF newer

-----------------------------------------------------------------------------
LEMMA StoreStutter ==
  ASSUME StoreInvariant, UNCHANGED <<store, thread, cookie, ended>>
  PROVE  StoreInvariant'
  BY DEF store, thread, StoreInvariant, SessionTypeOK, Issued, RequestsFit, AlreadyGone, OverIsOver,
         SessionCap

LEMMA HeldIsFinite ==
  ASSUME SessionTypeOK
  PROVE  /\ held \in SUBSET Nat /\ IsFiniteSet(held) /\ Cardinality(held) \in Nat
         /\ Unexpired(held) \in SUBSET held /\ IsFiniteSet(Unexpired(held))
  <1>1. IsFiniteSet(Issued) /\ Issued \subseteq Nat
    BY FS_Interval DEF SessionTypeOK, Issued
  <1>2. held \in SUBSET Nat /\ IsFiniteSet(held)
    BY <1>1, FS_Subset DEF SessionTypeOK
  <1>3. Unexpired(held) \in SUBSET held
    BY DEF Unexpired
  <1> QED
    BY <1>2, <1>3, FS_Subset, FS_CardinalityType

(* A step that only takes sessions out of the store keeps to its size.     *)
LEMMA FewerFit ==
  ASSUME SessionTypeOK, SessionCap, held' \subseteq held
  PROVE  SessionCap'
  <1>1. Cardinality(held') <= Cardinality(held) /\ IsFiniteSet(held')
    BY HeldIsFinite, FS_Subset
  <1> QED
    BY <1>1, HeldIsFinite, FS_CardinalityType, SessionAssumption DEF SessionCap

LEMMA CapStep ==
  ASSUME StoreInvariant, NEW i \in Threads, Step(i)
  PROVE  SessionCap'
  <1> SessionTypeOK /\ SessionCap
    BY DEF StoreInvariant
  <1>1. CASE Create(i)
    <2>1. PICK room : /\ room = RoomFor(Unexpired(held)) /\ IsFiniteSet(room)
                      /\ Cardinality(room) < MaximumSessions
      BY HeldIsFinite, RoomIsMade
    <2>2. held' = room \cup {sequence + 1}
      BY <1>1, <2>1 DEF Create
    <2>3. Cardinality(room) \in Nat
      BY <2>1, FS_CardinalityType
    <2>4. Cardinality(held') = IF sequence + 1 \in room THEN Cardinality(room)
                               ELSE Cardinality(room) + 1
      BY <2>1, <2>2, FS_AddElement
    <2> QED
      BY <2>1, <2>3, <2>4, SessionAssumption DEF SessionCap
  <1>2. CASE ~Create(i)
    <2>1. held' \subseteq held
      BY <1>2 DEF Step, store, Receive, ResolveSession, Unexpired, SubmitForm, Invalidate,
         BeginAttempt,
         Reject, Clear, Rotate, Deliver
    <2> QED
      BY <2>1, FewerFit
  <1> QED
    BY <1>1, <1>2

(* The steps that only move a thread along, or answer it.                  *)
LEMMA ThreadStep ==
  ASSUME StoreInvariant, NEW i \in Threads, UNCHANGED <<store, cookie, ended>>,
         \/ Answer(i)
         \/ /\ stage[i] # "idle" /\ UNCHANGED <<request, session>>
            /\ \E p \in {"leave", "verify", "rotate"} : Goto(i, p)
  PROVE  StoreInvariant'
  <1>1. SessionTypeOK'
    BY DEF store, StoreInvariant, SessionTypeOK, Issued, Answer, Goto, Stage
  <1>2. RequestsFit'
    BY DEF store, StoreInvariant, SessionTypeOK, RequestsFit, Issued, Answer, Goto
  <1>3. AlreadyGone'
    BY DEF store, StoreInvariant, SessionTypeOK, AlreadyGone, Answer, Goto
  <1>4. OverIsOver' /\ SessionCap'
    BY DEF store, StoreInvariant, OverIsOver, SessionCap
  <1> QED
    BY <1>1, <1>2, <1>3, <1>4 DEF StoreInvariant

LEMMA ReceiveStep ==
  ASSUME StoreInvariant, NEW i \in Threads, Receive(i)
  PROVE  StoreInvariant'
  <1> PICK r \in Request : r.cookie = cookie[r.client] /\ request' = [request EXCEPT ![i] = r]
    BY DEF Receive
  <1>1. UNCHANGED <<store, session, cookie, ended>> /\ stage' = [stage EXCEPT ![i] = "resolve"]
    BY DEF Receive, Goto, history
  <1>2. r.cookie \in Issued \cup {NoToken}
    BY DEF Request, StoreInvariant, SessionTypeOK
  <1>3. SessionTypeOK'
    BY <1>1 DEF store, StoreInvariant, SessionTypeOK, Issued, Stage
  <1>4. RequestsFit'
    BY <1>1, <1>2 DEF store, StoreInvariant, SessionTypeOK, RequestsFit, Issued
  <1>5. AlreadyGone'
    BY <1>1 DEF store, StoreInvariant, SessionTypeOK, AlreadyGone
  <1>6. OverIsOver' /\ SessionCap'
    BY <1>1 DEF store, StoreInvariant, OverIsOver, SessionCap
  <1> QED
    BY <1>3, <1>4, <1>5, <1>6 DEF StoreInvariant

LEMMA ResolveStep ==
  ASSUME StoreInvariant, NEW i \in Threads, ResolveSession(i)
  PROVE  StoreInvariant'
  <1> DEFINE c == request[i].cookie
  <1>1. UNCHANGED <<sequence, cookie, ended>> /\ held' \subseteq held /\ stage[i] = "resolve"
    BY DEF ResolveSession, Unexpired, history
  <1>2. \/ UNCHANGED <<request, session>> /\ Goto(i, "attempt")
        \/ /\ c \in held /\ UNCHANGED request /\ Goto(i, "form")
           /\ session' = [session EXCEPT ![i] = c]
        \/ Answer(i)
        \/ UNCHANGED <<request, session>> /\ Goto(i, "left") /\ c \notin held'
    <2>1. NoToken \notin held
      <3>1. NoToken \notin Nat
        BY SessionAssumption
      <3> QED
        BY <3>1, HeldIsFinite DEF StoreInvariant
    <2> QED
      BY <2>1 DEF ResolveSession, Unexpired
  <1>3. SessionTypeOK'
    <2>1. SessionTypeOK /\ held \in SUBSET Nat
      BY HeldIsFinite DEF StoreInvariant
    <2>2. request' \in [Threads -> Request \cup {NoRequest}] /\ session' \in [Threads -> Nat \cup {NoToken}]
      BY <1>2, <2>1 DEF SessionTypeOK, Answer
    <2>3. stage' \in [Threads -> Stage]
      BY <1>2, <2>1 DEF SessionTypeOK, Answer, Goto, Stage
    <2> QED
      BY <1>1, <2>1, <2>2, <2>3 DEF SessionTypeOK, Issued
  <1>4. RequestsFit'
    BY <1>1, <1>2 DEF StoreInvariant, SessionTypeOK, RequestsFit, Issued, Answer, Goto
  <1>5. AlreadyGone'
    BY <1>1, <1>2 DEF StoreInvariant, SessionTypeOK, AlreadyGone, Answer, Goto
  <1>6. OverIsOver'
    BY <1>1 DEF StoreInvariant, OverIsOver
  <1> QED
    BY <1>3, <1>4, <1>5, <1>6, CapStep DEF StoreInvariant, Step

(* invalidate and rotate take the presented session out.                   *)
LEMMA RemoveStep ==
  ASSUME StoreInvariant, NEW i \in Threads, Invalidate(i) \/ Rotate(i)
  PROVE  StoreInvariant'
  <1>1. /\ UNCHANGED <<sequence, request, session, cookie, ended>> /\ stage[i] # "idle"
        /\ held' = held \ {request[i].cookie}
        /\ Goto(i, "left") \/ Goto(i, "create")
    BY DEF Invalidate, Rotate, history
  <1>2. SessionTypeOK'
    BY <1>1 DEF StoreInvariant, SessionTypeOK, Issued, Goto, Stage
  <1>3. RequestsFit'
    BY <1>1 DEF StoreInvariant, SessionTypeOK, RequestsFit, Issued, Goto
  <1>4. AlreadyGone'
    BY <1>1 DEF StoreInvariant, SessionTypeOK, AlreadyGone, Goto
  <1>5. OverIsOver'
    BY <1>1 DEF StoreInvariant, OverIsOver
  <1> QED
    BY <1>2, <1>3, <1>4, <1>5, CapStep DEF StoreInvariant, Step

(* A new session is none that was ever issued.                             *)
LEMMA CreateStep ==
  ASSUME StoreInvariant, NEW i \in Threads, Create(i)
  PROVE  StoreInvariant'
  <1> DEFINE token == sequence + 1
  <1>1. /\ UNCHANGED <<request, cookie, ended>> /\ sequence' = token /\ stage[i] = "create"
        /\ session' = [session EXCEPT ![i] = token] /\ stage' = [stage EXCEPT ![i] = "granted"]
        /\ held' \subseteq held \cup {token}
    BY DEF Create, Goto, RoomFor, Unexpired
  <1>2. token \in Nat /\ token \notin Issued /\ token # NoToken
        /\ Issued' = Issued \cup {token}
    BY <1>1, SessionAssumption DEF StoreInvariant, SessionTypeOK, Issued
  <1> HIDE DEF token
  <1>3. SessionTypeOK'
    BY <1>1, <1>2 DEF StoreInvariant, SessionTypeOK, Stage
  <1>4. RequestsFit'
    BY <1>1, <1>2 DEF StoreInvariant, SessionTypeOK, RequestsFit
  <1>5. AlreadyGone'
    BY <1>1, <1>2 DEF StoreInvariant, SessionTypeOK, RequestsFit, AlreadyGone
  <1>6. OverIsOver'
    BY <1>1, <1>2 DEF StoreInvariant, SessionTypeOK, OverIsOver
  <1> QED
    BY <1>3, <1>4, <1>5, <1>6, CapStep DEF StoreInvariant, Step

LEMMA DeliverStep ==
  ASSUME StoreInvariant, NEW i \in Threads, Deliver(i)
  PROVE  StoreInvariant'
  <1>1. /\ UNCHANGED <<sequence, held>> /\ stage[i] \in {"granted", "left"} /\ Answer(i)
        /\ ended' = ended \cup ({request[i].cookie} \ {NoToken})
        /\ \E token \in Issued \cup {NoToken} :
             cookie' = [cookie EXCEPT ![request[i].client] = token]
    BY DEF Deliver, store, StoreInvariant, RequestsFit
  <1>2. request[i].cookie \in Issued \cup {NoToken} /\ request[i].cookie \notin held
    BY <1>1 DEF StoreInvariant, RequestsFit, AlreadyGone
  <1>3. SessionTypeOK'
    BY <1>1, <1>2 DEF StoreInvariant, SessionTypeOK, Issued, Answer, Goto, Stage
  <1>4. RequestsFit'
    BY <1>1 DEF StoreInvariant, SessionTypeOK, RequestsFit, Issued, Answer, Goto
  <1>5. AlreadyGone'
    BY <1>1 DEF StoreInvariant, SessionTypeOK, AlreadyGone, Answer, Goto
  <1>6. OverIsOver'
    BY <1>1, <1>2 DEF StoreInvariant, OverIsOver
  <1>7. SessionCap'
    BY <1>1 DEF StoreInvariant, SessionCap
  <1> QED
    BY <1>3, <1>4, <1>5, <1>6, <1>7 DEF StoreInvariant

LEMMA StoreStep == StoreInvariant /\ [SessionNext]_sessionVars => StoreInvariant'
  <1> SUFFICES ASSUME StoreInvariant, [SessionNext]_sessionVars PROVE StoreInvariant'
    OBVIOUS
  <1>1. CASE UNCHANGED sessionVars
    BY <1>1, StoreStutter DEF sessionVars, history
  <1>2. CASE Tick
    BY <1>2, StoreStutter DEF Tick, history
  <1>3. ASSUME NEW i \in Threads, Step(i) PROVE StoreInvariant'
    <2>1. CASE SubmitForm(i) \/ Reject(i)
      BY <2>1, ThreadStep DEF SubmitForm, Reject, history
    <2>2. CASE BeginAttempt(i)
      <3>1. UNCHANGED <<store, cookie, ended>> /\ stage[i] # "idle"
            /\ (Answer(i) \/ (Goto(i, "verify") /\ UNCHANGED <<request, session>>))
        BY <2>2 DEF BeginAttempt
      <3> QED
        BY <3>1, ThreadStep
    <2>3. CASE Clear(i)
      <3>1. UNCHANGED <<store, cookie, ended, request, session>> /\ stage[i] # "idle"
            /\ Goto(i, "rotate")
        BY <2>3 DEF Clear
      <3> QED
        BY <3>1, ThreadStep
    <2> QED
      BY <1>3, <2>1, <2>2, <2>3, ReceiveStep, ResolveStep, RemoveStep, CreateStep,
         DeliverStep DEF Step
  <1> QED
    BY <1>1, <1>2, <1>3 DEF SessionNext

LEMMA StoreInvariantHolds == SessionSpec => []StoreInvariant
  BY InitStore, StoreStep, PTL DEF SessionSpec

-----------------------------------------------------------------------------
(* Whatever the store holds, a browser holds or a thread carries was       *)
(* issued, and every variable of them keeps its type.                      *)
THEOREM SessionTypeCorrect == SessionSpec => []SessionTypeOK
  <1>1. StoreInvariant => SessionTypeOK
    BY DEF StoreInvariant
  <1> QED
    BY <1>1, StoreInvariantHolds, PTL

(* However logins, logouts and operations interleave, a session a browser  *)
(* was told is over is never in the store again.                           *)
THEOREM OverIsOverHolds == SessionSpec => []OverIsOver
  <1>1. StoreInvariant => OverIsOver
    BY DEF StoreInvariant
  <1> QED
    BY <1>1, StoreInvariantHolds, PTL

(* A session that has not expired goes by logout or rotation, or as the    *)
(* oldest of a full store.                                                 *)
THEOREM EvictsOnlyTheOldestHolds == SessionSpec => EvictsOnlyTheOldest
  <1> DEFINE Justified(t) ==
        \/ \E i \in Threads : stage[i] \in {"leave", "rotate"} /\ request[i].cookie = t
        \/ /\ Cardinality(Unexpired(held)) >= MaximumSessions
           /\ \A u \in Unexpired(held) : t <= u
  <1>1. StoreInvariant /\ [SessionNext]_sessionVars
          => [\A t \in Unexpired(held) \ held' : Justified(t)]_sessionVars
    <2> SUFFICES ASSUME StoreInvariant, SessionNext, NEW t \in Unexpired(held) \ held'
                 PROVE  Justified(t)
      OBVIOUS
    <2>1. t \in held
      BY DEF Unexpired
    <2>2. ASSUME NEW i \in Threads, Invalidate(i) \/ Rotate(i) PROVE Justified(t)
      <3>1. stage[i] \in {"leave", "rotate"} /\ held' = held \ {request[i].cookie}
        BY <2>2 DEF Invalidate, Rotate
      <3> QED
        BY <2>1, <3>1
    <2>3. ASSUME NEW i \in Threads, Create(i) PROVE Justified(t)
      <3>1. t \notin RoomFor(Unexpired(held))
        BY <2>3 DEF Create
      <3>2. /\ Unexpired(held) \in SUBSET Nat /\ IsFiniteSet(Unexpired(held))
            /\ Cardinality(Unexpired(held)) <= MaximumSessions
        <4>1. SessionTypeOK /\ SessionCap
          BY DEF StoreInvariant
        <4>2. Cardinality(Unexpired(held)) <= Cardinality(held)
          BY <4>1, HeldIsFinite, FS_Subset
        <4> QED
          BY <4>1, <4>2, HeldIsFinite, FS_CardinalityType, SessionAssumption DEF SessionCap
      <3> QED
        BY <3>1, <3>2, OldestGoes
    (* Whatever else a request does, it leaves the unexpired ones.         *)
    <2>4. ASSUME NEW i \in Threads, Step(i), ~Invalidate(i), ~Rotate(i), ~Create(i) PROVE FALSE
      BY <2>1, <2>4 DEF Step, store, Receive, ResolveSession, SubmitForm, BeginAttempt, Reject,
         Clear, Deliver
    <2>5. CASE Tick
      BY <2>1, <2>5 DEF Tick, store
    <2> QED
      BY <2>2, <2>3, <2>4, <2>5 DEF SessionNext
  <1> QED
    BY <1>1, StoreInvariantHolds, PTL DEF SessionSpec, EvictsOnlyTheOldest

-----------------------------------------------------------------------------
(* The limiter.  What is on record for a client is at least what counts    *)
(* against it, so that a bound on the record bounds the comparisons; the   *)
(* record of all clients holds every attempt of the window, forgotten or   *)
(* not.                                                                    *)

LimiterTypeOK ==
  /\ now \in Nat /\ stamp \in Seq(Nat)
  /\ tracked \subseteq Clients
  /\ client_attempts \in [Clients -> SUBSET DOMAIN stamp]
  /\ guesses \in [Clients -> SUBSET DOMAIN stamp]
  /\ global_attempts \in SUBSET DOMAIN stamp

OnRecord ==
  /\ \A c \in Clients : Recent(guesses[c]) \subseteq client_attempts[c]
  /\ \A c \in Clients \ tracked : client_attempts[c] = {}
  /\ Recent(DOMAIN stamp) \subseteq global_attempts

RecordsBounded ==
  /\ \A c \in Clients : Cardinality(client_attempts[c]) <= AttemptLimit
  /\ Cardinality(global_attempts) <= GlobalLimit

LimiterInvariant == LimiterTypeOK /\ OnRecord /\ RecordsBounded

LEMMA InitLimiter == SessionInit => LimiterInvariant
  <1> SUFFICES ASSUME SessionInit PROVE LimiterInvariant
    OBVIOUS
  <1>1. now = 0 /\ stamp = <<>> /\ DOMAIN stamp = {}
    BY DEF SessionInit
  <1>2. LimiterTypeOK
    BY <1>1 DEF SessionInit, LimiterTypeOK
  <1>3. OnRecord
    BY <1>1 DEF SessionInit, OnRecord, Recent
  <1>4. RecordsBounded
    BY SessionAssumption, FS_EmptySet DEF SessionInit, RecordsBounded
  <1> QED
    BY <1>2, <1>3, <1>4 DEF LimiterInvariant

LEMMA LimiterStutter ==
  ASSUME LimiterInvariant, UNCHANGED <<now, limiter, guesses>>
  PROVE  LimiterInvariant'
  BY DEF LimiterInvariant, limiter, LimiterTypeOK, OnRecord, RecordsBounded, Recent

(* A part of a record is no larger than the record.                        *)
LEMMA PartsAreFinite ==
  ASSUME NEW list \in Seq(Nat), NEW whole \in SUBSET DOMAIN list, NEW part \in SUBSET whole
  PROVE  /\ IsFiniteSet(whole) /\ Cardinality(whole) \in Nat
         /\ IsFiniteSet(part) /\ Cardinality(part) \in Nat
         /\ Cardinality(part) <= Cardinality(whole)
  <1>1. DOMAIN list = 1 .. Len(list) /\ Len(list) \in Nat
    OBVIOUS
  <1>2. IsFiniteSet(DOMAIN list)
    BY <1>1, FS_Interval
  <1> QED
    BY <1>2, FS_Subset, FS_CardinalityType

(* Time passes: fewer attempts are recent.                                 *)
LEMMA TickLimiter ==
  ASSUME LimiterInvariant, Tick
  PROVE  LimiterInvariant'
  <1>1. now \in Nat /\ now' = now + 1 /\ UNCHANGED <<limiter, guesses>>
    BY DEF Tick, history, LimiterInvariant, LimiterTypeOK
  <1>2. LimiterTypeOK' /\ RecordsBounded'
    BY <1>1 DEF limiter, LimiterInvariant, LimiterTypeOK, RecordsBounded
  <1>3. ASSUME NEW list \in SUBSET DOMAIN stamp
        PROVE  {n \in list : stamp[n] + Window > now'} \subseteq Recent(list)
    BY <1>1, SessionAssumption DEF Recent, LimiterInvariant, LimiterTypeOK
  <1>4. OnRecord'
    <2>1. \A c \in Clients : Recent(guesses[c])' \subseteq client_attempts[c]
      BY <1>1, <1>3 DEF limiter, LimiterInvariant, LimiterTypeOK, OnRecord, Recent
    <2>2. Recent(DOMAIN stamp)' \subseteq global_attempts
      BY <1>1, <1>3 DEF limiter, LimiterInvariant, OnRecord, Recent
    <2> QED
      BY <1>1, <2>1, <2>2 DEF limiter, LimiterInvariant, OnRecord
  <1> QED
    BY <1>2, <1>4 DEF LimiterInvariant

LEMMA ClearLimiter ==
  ASSUME LimiterInvariant, NEW i \in Threads, Clear(i)
  PROVE  LimiterInvariant'
  <1> DEFINE c == request[i].client
  <1>1. /\ tracked' = tracked \ {c} /\ client_attempts' = [client_attempts EXCEPT ![c] = {}]
        /\ guesses' = Forgotten({c}) /\ UNCHANGED <<now, stamp, global_attempts>>
    BY DEF Clear
  <1> HIDE DEF c
  <1>2. LimiterTypeOK'
    BY <1>1 DEF LimiterInvariant, LimiterTypeOK, Forgotten
  <1>3. OnRecord'
    BY <1>1 DEF LimiterInvariant, LimiterTypeOK, OnRecord, Forgotten, Recent
  <1>4. RecordsBounded'
    BY <1>1, FS_EmptySet, SessionAssumption DEF LimiterInvariant, LimiterTypeOK, RecordsBounded
  <1> QED
    BY <1>2, <1>3, <1>4 DEF LimiterInvariant

(* A new attempt is the only one that comes to be recent.                  *)
LEMMA OneMoreRecent ==
  ASSUME LimiterTypeOK, stamp' = Append(stamp, now), now' = now
  PROVE  /\ Len(stamp) + 1 \notin DOMAIN stamp
         /\ DOMAIN stamp' = DOMAIN stamp \cup {Len(stamp) + 1} /\ stamp' \in Seq(Nat)
         /\ \A list \in SUBSET DOMAIN stamp :
              {n \in list : stamp'[n] + Window > now} = Recent(list)
  <1>1. /\ DOMAIN stamp = 1 .. Len(stamp) /\ DOMAIN stamp' = 1 .. Len(stamp') /\ Len(stamp) \in Nat
        /\ Len(stamp') = Len(stamp) + 1 /\ stamp' \in Seq(Nat)
        /\ \A n \in 1 .. Len(stamp) : stamp'[n] = stamp[n]
    BY DEF LimiterTypeOK
  <1> QED
    BY <1>1 DEF Recent

LEMMA BeginLimiter ==
  ASSUME StoreInvariant, LimiterInvariant, NEW i \in Threads, BeginAttempt(i)
  PROVE  LimiterInvariant'
  <1> DEFINE new == Len(stamp) + 1
             all == Recent(global_attempts)
             Own(d) == IF d \in Remembered THEN Recent(client_attempts[d]) ELSE {}
             Kept(clients) ==
               [d \in Clients |-> IF d \in clients THEN Recent(client_attempts[d]) ELSE {}]
  <1> PICK c \in Clients : c = request[i].client
    BY DEF BeginAttempt, StoreInvariant, RequestsFit, Request
  <1>1. /\ now' = now /\ Remembered \subseteq tracked /\ tracked \subseteq Clients
        /\ \A d \in Clients : Recent(client_attempts[d]) \in SUBSET client_attempts[d]
                              /\ Recent(guesses[d]) \subseteq Own(d)
        /\ all \in SUBSET global_attempts /\ Recent(DOMAIN stamp) \subseteq all
    BY DEF BeginAttempt, LimiterInvariant, LimiterTypeOK, OnRecord, Remembered, Recent
  (* Whatever part of the clients is kept, its records stay in bounds.     *)
  <1>2. \A d \in Clients : \A s \in SUBSET client_attempts[d] :
          /\ s \subseteq DOMAIN stamp
          /\ IsFiniteSet(s) /\ Cardinality(s) \in Nat /\ Cardinality(s) <= AttemptLimit
    BY PartsAreFinite, SessionAssumption DEF LimiterInvariant, LimiterTypeOK, RecordsBounded
  <1>3. all \subseteq DOMAIN stamp /\ IsFiniteSet(all) /\ Cardinality(all) \in Nat
        /\ Cardinality(all) <= GlobalLimit
    <2>1. Cardinality(global_attempts) <= GlobalLimit /\ stamp \in Seq(Nat)
          /\ global_attempts \in SUBSET DOMAIN stamp
      BY DEF LimiterInvariant, LimiterTypeOK, RecordsBounded
    <2> QED
      BY <1>1, <2>1, PartsAreFinite, SessionAssumption
  <1> HIDE DEF all
  (* No attempt is granted.                                                *)
  <1>4. ASSUME NEW gone \in SUBSET Clients, tracked' \subseteq Clients,
               Remembered \ gone \subseteq tracked', client_attempts' = Kept(Remembered \ gone),
               global_attempts' = all, guesses' = Forgotten(gone), stamp' = stamp
        PROVE  LimiterInvariant'
    <2>1. \A d \in Clients : client_attempts'[d] \in SUBSET client_attempts[d] /\ client_attempts'[d] \in SUBSET DOMAIN stamp
      BY <1>1, <1>2, <1>4
    <2>2. LimiterTypeOK'
      BY <1>1, <1>3, <1>4, <2>1 DEF LimiterInvariant, LimiterTypeOK, Forgotten
    <2>3. RecordsBounded'
      BY <1>2, <1>3, <1>4, <2>1 DEF RecordsBounded
    <2>4. OnRecord'
      <3>1. \A d \in Clients : Recent(guesses[d])' \subseteq client_attempts'[d]
        BY <1>1, <1>4 DEF Recent, Forgotten
      <3>2. \A d \in Clients \ tracked' : client_attempts'[d] = {}
        BY <1>4
      <3>3. Recent(DOMAIN stamp)' \subseteq global_attempts'
        BY <1>1, <1>4 DEF Recent
      <3> QED
        BY <3>1, <3>2, <3>3 DEF OnRecord
    <2> QED
      BY <2>2, <2>3, <2>4 DEF LimiterInvariant
  (* An attempt is granted.                                                *)
  <1>5. ASSUME NEW gone \in SUBSET Clients, c \notin gone \/ c \notin Remembered,
               tracked' = (Remembered \ gone) \cup {c},
               Cardinality(all) < GlobalLimit, Cardinality(Own(c)) < AttemptLimit,
               stamp' = Append(stamp, now),
               client_attempts' = [Kept(Remembered \ gone) EXCEPT ![c] = Own(c) \cup {new}],
               global_attempts' = all \cup {new},
               guesses' = [Forgotten(gone) EXCEPT ![c] = @ \cup {new}]
        PROVE  LimiterInvariant'
    <2>1. /\ new \notin DOMAIN stamp /\ DOMAIN stamp' = DOMAIN stamp \cup {new}
          /\ stamp' \in Seq(Nat)
          /\ \A list \in SUBSET DOMAIN stamp : {n \in list : stamp'[n] + Window > now} = Recent(list)
      BY <1>1, <1>5, OneMoreRecent DEF LimiterInvariant
    <2>2. \A d \in Clients : guesses[d] \in SUBSET DOMAIN stamp
      BY DEF LimiterInvariant, LimiterTypeOK
    <2>3. /\ client_attempts'[c] = Own(c) \cup {new}
          /\ \A d \in Clients \ {c} :
               client_attempts'[d] = IF d \in Remembered \ gone THEN Recent(client_attempts[d]) ELSE {}
      BY <1>5
    <2>4. Own(c) \in SUBSET client_attempts[c] /\ \A d \in Clients \ {c} : client_attempts'[d] \in SUBSET client_attempts[d]
      BY <1>1, <2>3
    <2> HIDE DEF new
    <2>5. /\ guesses'[c] \in {{new}, guesses[c] \cup {new}}
          /\ \A d \in Clients \ {c} : guesses'[d] = IF d \in gone THEN {} ELSE guesses[d]
          /\ DOMAIN guesses' = Clients /\ DOMAIN client_attempts' = Clients
      BY <1>5 DEF Forgotten
    <2>6. LimiterTypeOK'
      <3>1. client_attempts' \in [Clients -> SUBSET DOMAIN stamp']
        <4>1. \A d \in Clients : client_attempts'[d] \in SUBSET DOMAIN stamp'
          BY <1>2, <2>1, <2>3, <2>4
        <4>2. client_attempts' = [d \in Clients |-> client_attempts'[d]]
          BY <1>5
        <4> QED
          BY <4>1, <4>2
      <3>2. guesses' \in [Clients -> SUBSET DOMAIN stamp']
        BY <1>5, <2>1, <2>2 DEF Forgotten
      <3> QED
        BY <1>1, <1>3, <1>5, <2>1, <3>1, <3>2 DEF LimiterInvariant, LimiterTypeOK
    <2>7. RecordsBounded'
      <3>1. IsFiniteSet(Own(c)) /\ Cardinality(Own(c)) \in Nat /\ new \notin Own(c) /\ new \notin all
        BY <1>2, <1>3, <2>1, <2>4
      <3>2. Cardinality(Own(c) \cup {new}) = Cardinality(Own(c)) + 1
        BY <3>1, FS_AddElement
      <3>3. Cardinality(all \cup {new}) = Cardinality(all) + 1
        BY <1>3, <3>1, FS_AddElement
      <3> HIDE DEF Own
      <3>4. Cardinality(client_attempts'[c]) <= AttemptLimit /\ Cardinality(global_attempts') <= GlobalLimit
        BY <1>3, <1>5, <2>3, <3>1, <3>2, <3>3, SessionAssumption
      <3> QED
        BY <1>2, <2>4, <3>4 DEF RecordsBounded
    <2>8. OnRecord'
      <3>1. Recent(guesses[c])' \subseteq client_attempts'[c]
        <4>1. {n \in guesses[c] : stamp'[n] + Window > now} \subseteq Own(c)
          BY <1>1, <2>1, <2>2
        <4> QED
          BY <1>1, <2>3, <2>5, <4>1 DEF Recent
      <3>2. ASSUME NEW d \in Clients \ {c} PROVE Recent(guesses[d])' \subseteq client_attempts'[d]
        <4>1. CASE d \in gone
          BY <2>5, <4>1 DEF Recent
        <4>2. CASE d \notin gone
          BY <1>1, <2>1, <2>2, <2>3, <2>5, <4>2 DEF Recent
        <4> QED
          BY <4>1, <4>2
      <3>3. \A d \in Clients \ tracked' : client_attempts'[d] = {}
        BY <1>5, <2>3
      <3>4. Recent(DOMAIN stamp)' \subseteq global_attempts'
        BY <1>1, <1>5, <2>1 DEF Recent
      <3> QED
        BY <3>1, <3>2, <3>3, <3>4 DEF OnRecord
    <2> QED
      BY <2>6, <2>7, <2>8 DEF LimiterInvariant
  <1>6. Own(c) = IF c \in Remembered THEN Recent(client_attempts[c]) ELSE {}
    OBVIOUS
  <1> QED
    <2>1. CASE Cardinality(Recent(global_attempts)) >= GlobalLimit
      <3>1. /\ tracked' = Remembered /\ client_attempts' = Kept(Remembered) /\ global_attempts' = all
            /\ UNCHANGED <<stamp, guesses>>
        BY <1>3, <2>1, SessionAssumption DEF BeginAttempt, all
      <3>2. Forgotten({}) = guesses /\ Remembered \ {} = Remembered
        BY DEF Forgotten, LimiterInvariant, LimiterTypeOK
      <3> QED
        BY <1>1, <1>4, <3>1, <3>2
    <2>2. CASE Cardinality(Recent(global_attempts)) < GlobalLimit
      <3>0. \E gone \in IF c \notin Remembered /\ Cardinality(Remembered) >= MaximumClients
                        THEN {{d} : d \in Evictable(Remembered)} ELSE {{}} :
              /\ tracked' = (Remembered \ gone) \cup {c}
              /\ \/ /\ client_attempts' = Kept(Remembered \ gone) /\ global_attempts' = all
                    /\ guesses' = Forgotten(gone) /\ stamp' = stamp
                 \/ /\ ~ClientFull(Own(c)) /\ stamp' = Append(stamp, now)
                    /\ client_attempts' = [Kept(Remembered \ gone) EXCEPT ![c] = Own(c) \cup {new}]
                    /\ global_attempts' = all \cup {new}
                    /\ guesses' = [Forgotten(gone) EXCEPT ![c] = @ \cup {new}]
        <4>1. ~ (Cardinality(all) >= GlobalLimit)
          BY <1>3, <2>2, SessionAssumption DEF all
        <4> QED
          BY <4>1, Zenon DEF BeginAttempt, all
      <3> HIDE DEF Own, Kept, new
      <3>1. PICK gone \in {{}} \cup {{d} : d \in Evictable(Remembered)} :
              /\ gone = {} \/ c \notin Remembered
              /\ tracked' = (Remembered \ gone) \cup {c}
              /\ \/ /\ client_attempts' = Kept(Remembered \ gone) /\ global_attempts' = all
                    /\ guesses' = Forgotten(gone) /\ stamp' = stamp
                 \/ /\ ~ClientFull(Own(c)) /\ stamp' = Append(stamp, now)
                    /\ client_attempts' = [Kept(Remembered \ gone) EXCEPT ![c] = Own(c) \cup {new}]
                    /\ global_attempts' = all \cup {new}
                    /\ guesses' = [Forgotten(gone) EXCEPT ![c] = @ \cup {new}]
        BY <3>0
      <3>2. gone \in SUBSET Clients /\ (c \notin gone \/ c \notin Remembered)
        BY <1>1, <3>1 DEF Evictable
      <3>3. ~ClientFull(Own(c)) => Cardinality(Own(c)) < AttemptLimit
        <4>1. Own(c) \in SUBSET client_attempts[c]
          BY <1>1 DEF Own
        <4>2. Cardinality(Own(c)) \in Nat
          BY <1>2, <4>1
        <4> QED
          BY <4>2, SessionAssumption DEF ClientFull
      <3>4. Cardinality(all) < GlobalLimit
        BY <2>2 DEF all
      <3> QED
        BY <1>1, <1>4, <1>5, <3>1, <3>2, <3>3, <3>4
    <2> QED
      BY <1>3, <2>1, <2>2, SessionAssumption DEF all

LEMMA LimiterStep == StoreInvariant /\ LimiterInvariant /\ [SessionNext]_sessionVars => LimiterInvariant'
  <1> SUFFICES ASSUME StoreInvariant, LimiterInvariant, [SessionNext]_sessionVars PROVE LimiterInvariant'
    OBVIOUS
  <1>1. CASE UNCHANGED sessionVars
    BY <1>1, LimiterStutter DEF sessionVars, history
  <1>2. CASE Tick
    BY <1>2, TickLimiter
  <1>3. ASSUME NEW i \in Threads, Step(i) PROVE LimiterInvariant'
    <2>1. CASE BeginAttempt(i)
      BY <2>1, BeginLimiter
    <2>2. CASE Clear(i)
      BY <2>2, ClearLimiter
    <2>3. CASE ~BeginAttempt(i) /\ ~Clear(i)
      <3>1. UNCHANGED <<now, limiter, guesses>>
        BY <1>3, <2>3 DEF Step, Receive, ResolveSession, SubmitForm, Invalidate, Reject, Rotate,
           Create,
           Deliver, history
      <3> QED
        BY <3>1, LimiterStutter
    <2> QED
      BY <2>1, <2>2, <2>3
  <1> QED
    BY <1>1, <1>2, <1>3 DEF SessionNext

LEMMA LimiterInvariantHolds == SessionSpec => []LimiterInvariant
  BY InitLimiter, LimiterStep, StoreInvariantHolds, PTL DEF SessionSpec

(* However many threads serve a client, and however logins, evictions from *)
(* the client table and the clock interleave, the limits of the limiter    *)
(* and of the store hold.                                                  *)
THEOREM LimitsAlwaysHold == SessionSpec => []LimitsHold
  <1>1. LimiterInvariant => ClientBound
    <2> SUFFICES ASSUME LimiterInvariant, NEW c \in Clients
                 PROVE  Cardinality(Recent(guesses[c])) <= AttemptLimit
      BY DEF ClientBound
    <2>1. /\ stamp \in Seq(Nat) /\ client_attempts[c] \in SUBSET DOMAIN stamp
          /\ Recent(guesses[c]) \in SUBSET client_attempts[c]
          /\ Cardinality(client_attempts[c]) <= AttemptLimit
      BY DEF LimiterInvariant, LimiterTypeOK, OnRecord, RecordsBounded
    <2> QED
      BY <2>1, PartsAreFinite, SessionAssumption
  <1>2. LimiterInvariant => GlobalBound
    <2> SUFFICES ASSUME LimiterInvariant PROVE Cardinality(Recent(DOMAIN stamp)) <= GlobalLimit
      BY DEF GlobalBound
    <2>1. /\ stamp \in Seq(Nat) /\ global_attempts \in SUBSET DOMAIN stamp
          /\ Recent(DOMAIN stamp) \in SUBSET global_attempts
          /\ Cardinality(global_attempts) <= GlobalLimit
      BY DEF LimiterInvariant, LimiterTypeOK, OnRecord, RecordsBounded
    <2> QED
      BY <2>1, PartsAreFinite, SessionAssumption
  <1>3. StoreInvariant => SessionCap
    BY DEF StoreInvariant
  <1> QED
    BY <1>1, <1>2, <1>3, StoreInvariantHolds, LimiterInvariantHolds, PTL DEF LimitsHold

=============================================================================
