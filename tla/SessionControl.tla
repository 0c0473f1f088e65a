--------------------------- MODULE SessionControl ---------------------------
(***************************************************************************)
(* Operator authentication of the dashboard                                *)
(* (aurora_core/control_plane/{service,sessions,limiter}.py and the login, *)
(* logout and operation handlers of dashboard/server.py): the session      *)
(* store and the attempt limiter, each behind a lock of its own, and       *)
(* request threads that call them one after the other with nothing held in *)
(* between.                                                                *)
(*                                                                         *)
(* A token stands for the opaque cookie value, its digest and the CSRF     *)
(* token made with it; the n-th session gets token n, which is also its    *)
(* sequence number.  A stamp is a reading of the monotonic clock; the n-th *)
(* attempt that the limiter grants is attempt n, and a list of stamps is   *)
(* the set of the attempts they belong to.                                 *)
(***************************************************************************)
EXTENDS Naturals, Sequences, FiniteSets

CONSTANTS Threads,          \* request threads of the HTTP server
          Clients,          \* client identifiers; each is one browser
          Lifetime,         \* session_ttl_minutes, in ticks
          MaximumSessions,  \* maximum_sessions
          Window,           \* login_attempt_window_seconds, in ticks
          AttemptLimit,     \* login_attempt_limit
          GlobalLimit,      \* AttemptLimit * GLOBAL_ATTEMPT_MULTIPLIER
          MaximumClients,   \* MAX_TRACKED_CLIENTS
          MaxTime,          \* bound: ticks of the clock
          MaxRequests,      \* bound: requests received
          NoToken, NoRequest

ASSUME SessionAssumption ==
  /\ Lifetime \in Nat \ {0} /\ MaximumSessions \in Nat \ {0}
  /\ Window \in Nat \ {0} /\ AttemptLimit \in Nat \ {0} /\ GlobalLimit \in Nat \ {0}
  /\ MaximumClients \in Nat \ {0} /\ MaxTime \in Nat /\ MaxRequests \in Nat
  /\ NoToken \notin Nat /\ IsFiniteSet(Clients)

VARIABLES now,
          held, expires, sequence,       \* SessionStore
          tracked, client_attempts,      \* LoginAttemptLimiter: one per client
          last_seen,
          global_attempts,               \* LoginAttemptLimiter: all clients
          stamp,                         \* when the limiter granted each attempt
          stage, request, session,       \* a thread: its request and the session found
          cookie,                        \* what a browser holds
          ended,                         \* history: sessions reported as over
          guesses,                       \* history: attempts that count against a client
          requests

store    == <<held, expires, sequence>>
limiter  == <<tracked, client_attempts, last_seen, global_attempts, stamp>>
thread   == <<stage, request, session>>
history  == <<ended, guesses>>
sessionVars == <<now, store, limiter, thread, cookie, history, requests>>

Token   == 1 .. MaxRequests
Request == [kind : {"login", "logout", "operate"}, client : Clients,
            cookie : Token \cup {NoToken}]
Stage == {"idle", "resolve", "form", "attempt", "verify", "rotate", "create",
          "granted", "leave", "left"}
Issued == 1 .. sequence

(* What the store holds, a browser holds or a thread carries was issued.   *)
SessionTypeOK ==
  /\ sequence \in Nat /\ held \subseteq Issued /\ ended \subseteq Issued
  /\ cookie \in [Clients -> Issued \cup {NoToken}]
  /\ stage \in [Threads -> Stage]
  /\ request \in [Threads -> Request \cup {NoRequest}]
  /\ session \in [Threads -> Nat \cup {NoToken}]

SessionInit ==
  /\ now = 0
  /\ held = {} /\ expires = [t \in Token |-> 0] /\ sequence = 0
  /\ tracked = {} /\ client_attempts = [c \in Clients |-> {}]
  /\ last_seen = [c \in Clients |-> 0] /\ global_attempts = {} /\ stamp = <<>>
  /\ stage = [i \in Threads |-> "idle"]
  /\ request = [i \in Threads |-> NoRequest]
  /\ session = [i \in Threads |-> NoToken]
  /\ cookie = [c \in Clients |-> NoToken]
  /\ ended = {} /\ guesses = [c \in Clients |-> {}]
  /\ requests = 0

-----------------------------------------------------------------------------
(* The session store.                                                      *)

Unexpired(tokens) == {t \in tokens : now < expires[t]}

\* Bug: the newest session makes room.
RoomFromNewest(tokens) ==
  {t \in tokens : Cardinality({u \in tokens : u < t}) + 1 < MaximumSessions}

\* create: as long as the store is full its oldest session goes.
RoomFor(tokens) ==
  {t \in tokens : Cardinality({u \in tokens : t < u}) + 1 < MaximumSessions}

(* The limiter.                                                            *)

Recent(list) == {n \in list : stamp[n] + Window > now}

\* _cleanup: a client without a recent attempt is forgotten.
Remembered == {c \in tracked : Recent(client_attempts[c]) # {}}

\* Bug: one comparison too many.
ClientFullLate(own) == Cardinality(own) > AttemptLimit

ClientFull(own) == Cardinality(own) >= AttemptLimit

\* A full table loses a client that was seen longest ago.
Evictable(clients) == {c \in clients : \A d \in clients : last_seen[c] <= last_seen[d]}

-----------------------------------------------------------------------------
(* A request.                                                              *)

Goto(i, p) == stage' = [stage EXCEPT ![i] = p]

Answer(i) ==
  /\ Goto(i, "idle")
  /\ request' = [request EXCEPT ![i] = NoRequest]
  /\ session' = [session EXCEPT ![i] = NoToken]

Receive(i) ==
  /\ stage[i] = "idle" /\ requests < MaxRequests
  /\ \E r \in Request :
       /\ r.cookie = cookie[r.client]
       /\ request' = [request EXCEPT ![i] = r]
  /\ requests' = requests + 1
  /\ Goto(i, "resolve")
  /\ UNCHANGED <<now, store, limiter, session, cookie, history>>

\* resolve_session: the only look at the store that a request gets; a login
\* goes on without a session, an operation is redirected to the login page,
\* and a logout is answered with a cleared cookie.
ResolveSession(i) ==
  /\ stage[i] = "resolve"
  /\ LET presented == request[i].cookie
         found     == presented \in Unexpired(held)
     IN /\ held' = IF presented = NoToken THEN held ELSE Unexpired(held)
        /\ \/ /\ request[i].kind = "login"
              /\ Goto(i, "attempt") /\ UNCHANGED <<request, session>>
           \/ /\ request[i].kind # "login" /\ found
              /\ session' = [session EXCEPT ![i] = presented]
              /\ Goto(i, "form") /\ UNCHANGED request
           \/ request[i].kind = "operate" /\ ~found /\ Answer(i)
           \/ /\ request[i].kind = "logout" /\ ~found
              /\ Goto(i, "left") /\ UNCHANGED <<request, session>>
  /\ UNCHANGED <<now, expires, sequence, limiter, cookie, history, requests>>

\* The form is read, then its CSRF token compared with that of the session
\* found before; an operation goes on to its device service from here.
SubmitForm(i) ==
  /\ stage[i] = "form"
  /\ \/ /\ request[i].kind = "logout"
        /\ Goto(i, "leave") /\ UNCHANGED <<request, session>>
     \/ Answer(i)  \* an operation; or no token, another session's, a malformed form
  /\ UNCHANGED <<now, store, limiter, cookie, history, requests>>

Invalidate(i) ==
  /\ stage[i] = "leave"
  /\ held' = held \ {request[i].cookie}
  /\ Goto(i, "left")
  /\ UNCHANGED <<now, expires, sequence, limiter, request, session, cookie, history,
                 requests>>

\* What was compared for these clients no longer counts against them.
Forgotten(clients) == [c \in Clients |-> IF c \in clients THEN {} ELSE guesses[c]]

\* begin_attempt reserves the attempt before the password is looked at.
BeginAttempt(i) ==
  /\ stage[i] = "attempt"
  /\ LET c == request[i].client
         all == Recent(global_attempts)
         own == IF c \in Remembered THEN Recent(client_attempts[c]) ELSE {}
         new == Len(stamp) + 1
         Kept(clients) ==
           [d \in Clients |-> IF d \in clients THEN Recent(client_attempts[d]) ELSE {}]
     IN \/ /\ Cardinality(all) >= GlobalLimit
           /\ tracked' = Remembered
           /\ client_attempts' = Kept(Remembered)
           /\ global_attempts' = all
           /\ Answer(i)
           /\ UNCHANGED <<last_seen, stamp, guesses>>
        \/ /\ Cardinality(all) < GlobalLimit
           /\ last_seen' = [last_seen EXCEPT ![c] = now]
           /\ \E gone \in IF c \notin Remembered /\ Cardinality(Remembered) >= MaximumClients
                          THEN {{d} : d \in Evictable(Remembered)} ELSE {{}} :
                /\ tracked' = (Remembered \ gone) \cup {c}
                /\ \/ /\ ClientFull(own)
                      /\ client_attempts' = Kept(Remembered \ gone)
                      /\ global_attempts' = all
                      /\ guesses' = Forgotten(gone)
                      /\ Answer(i) /\ UNCHANGED stamp
                   \/ /\ ~ClientFull(own)
                      /\ stamp' = Append(stamp, now)
                      /\ client_attempts' = [Kept(Remembered \ gone) EXCEPT ![c] = own \cup {new}]
                      /\ global_attempts' = all \cup {new}
                      /\ guesses' = [Forgotten(gone) EXCEPT ![c] = @ \cup {new}]
                      /\ Goto(i, "verify") /\ UNCHANGED <<request, session>>
  /\ UNCHANGED <<now, store, cookie, ended, requests>>

\* The slow comparison runs with no lock held; a wrong password ends it here.
Reject(i) ==
  /\ stage[i] = "verify"
  /\ Answer(i)
  /\ UNCHANGED <<now, store, limiter, cookie, history, requests>>

\* clear forgets the client, not what it added to the global window.
Clear(i) ==
  /\ stage[i] = "verify"
  /\ LET c == request[i].client IN
       /\ tracked' = tracked \ {c}
       /\ client_attempts' = [client_attempts EXCEPT ![c] = {}]
       /\ guesses' = Forgotten({c})
  /\ Goto(i, "rotate")
  /\ UNCHANGED <<now, store, last_seen, global_attempts, stamp, request, session, cookie,
                 ended, requests>>

\* Bug: the session that was presented lives on.
RotateNothing(i) ==
  /\ stage[i] = "rotate" /\ Goto(i, "create")
  /\ UNCHANGED <<now, store, limiter, request, session, cookie, history, requests>>

Rotate(i) ==
  /\ stage[i] = "rotate"
  /\ held' = held \ {request[i].cookie}
  /\ Goto(i, "create")
  /\ UNCHANGED <<now, expires, sequence, limiter, request, session, cookie, history,
                 requests>>

Create(i) ==
  /\ stage[i] = "create"
  /\ LET token == sequence + 1 IN
       /\ sequence' = token
       /\ held' = RoomFor(Unexpired(held)) \cup {token}
       /\ expires' = [expires EXCEPT ![token] = now + Lifetime]
       /\ session' = [session EXCEPT ![i] = token]
  /\ Goto(i, "granted")
  /\ UNCHANGED <<now, limiter, request, cookie, ended, guesses, requests>>

\* The browser takes the cookie of the answer, or drops the one it has; the
\* session it presented with the request is over for it.
Deliver(i) ==
  /\ stage[i] \in {"granted", "left"}
  /\ LET r == request[i] IN
       /\ cookie' = [cookie EXCEPT ![r.client] =
                       IF stage[i] = "granted" THEN session[i] ELSE NoToken]
       /\ ended' = ended \cup ({r.cookie} \ {NoToken})
  /\ Answer(i)
  /\ UNCHANGED <<now, store, limiter, guesses, requests>>

\* The clock.
Tick ==
  /\ now < MaxTime /\ now' = now + 1
  /\ UNCHANGED <<store, limiter, thread, cookie, history, requests>>

Step(i) ==
  \/ Receive(i) \/ ResolveSession(i) \/ SubmitForm(i) \/ Invalidate(i)
  \/ BeginAttempt(i) \/ Reject(i) \/ Clear(i) \/ Rotate(i) \/ Create(i) \/ Deliver(i)

SessionNext == Tick \/ \E i \in Threads : Step(i)

SessionSpec == SessionInit /\ [][SessionNext]_sessionVars

-----------------------------------------------------------------------------
(* Properties.                                                             *)

\* A browser that was told its session is over, by a logout or by the login
\* that rotated it, never finds it accepted again.
OverIsOver == held \cap ended = {}

\* A session that has not expired goes by logout or rotation, or because the
\* store is full of such sessions and it is the oldest of them.
EvictsOnlyTheOldest ==
  [][\A t \in Unexpired(held) \ held' :
       \/ \E i \in Threads : stage[i] \in {"leave", "rotate"} /\ request[i].cookie = t
       \/ /\ Cardinality(Unexpired(held)) >= MaximumSessions
          /\ \A u \in Unexpired(held) : t <= u]_sessionVars

\* However many threads serve a client at once, no more than AttemptLimit
\* passwords are compared for it within a window, unless one of them is right
\* or a full table forgets the client; all clients together never get more
\* than GlobalLimit, forgotten or logged in; and however logins interleave
\* the store has room for what it keeps.
ClientBound == \A c \in Clients : Cardinality(Recent(guesses[c])) <= AttemptLimit
GlobalBound == Cardinality(Recent(DOMAIN stamp)) <= GlobalLimit
SessionCap  == Cardinality(held) <= MaximumSessions
LimitsHold  == ClientBound /\ GlobalBound /\ SessionCap

=============================================================================
