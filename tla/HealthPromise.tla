--------------------------- MODULE HealthPromise ---------------------------
(***************************************************************************)
(* What the shared health snapshot promises to a caller, with no cache, no *)
(* lock and no sweep: a request for health is answered with one            *)
(* observation per component, and an observation is                        *)
(*   - never older than a change that had been confirmed (a mutation       *)
(*     reported VERIFIED) when the request was made;                       *)
(*   - never older than an observation some caller already received;       *)
(*   - never newer than the component itself.                              *)
(* A component's history is a version number that grows with every change. *)
(***************************************************************************)
EXTENDS Integers

CONSTANTS Reader,      \* the callers of get_health
          Component    \* the observed components

VARIABLES version,     \* version[c]: the state component c is really in
          confirmed,   \* confirmed[c]: newest version a verified mutation saw
          asked,       \* the callers that wait for an answer
          need,        \* need[r]: confirmed when r asked
          answer,      \* answer[r]: the observations r received last
          latest       \* latest[c]: newest observation of c handed out so far

promiseVars == <<version, confirmed, asked, need, answer, latest>>

Unavailable == -1      \* the observation of a poll that failed

(* An observation that may answer a caller that needs at least `least`. *)
Acceptable(observation, least, newest, current) ==
    \/ observation = Unavailable
    \/ /\ least <= observation
       /\ newest <= observation
       /\ observation <= current

PromiseInit ==
    /\ version = [c \in Component |-> 0]
    /\ confirmed = [c \in Component |-> 0]
    /\ asked = {}
    /\ need = [r \in Reader |-> [c \in Component |-> 0]]
    /\ answer = [r \in Reader |-> [c \in Component |-> Unavailable]]
    /\ latest = [c \in Component |-> 0]

Change(c) ==
    /\ version' = [version EXCEPT ![c] = @ + 1]
    /\ UNCHANGED <<confirmed, asked, need, answer, latest>>

Confirm ==
    /\ \A c \in Component : confirmed[c] <= confirmed'[c] /\ confirmed'[c] <= version[c]
    /\ confirmed' = [c \in Component |-> confirmed'[c]]
    /\ UNCHANGED <<version, asked, need, answer, latest>>

Ask(r) ==
    /\ r \notin asked
    /\ asked' = asked \union {r}
    /\ need' = [need EXCEPT ![r] = confirmed]
    /\ UNCHANGED <<version, confirmed, answer, latest>>

Answer(r) ==
    /\ r \in asked
    /\ asked' = asked \ {r}
    /\ \A c \in Component :
           Acceptable(answer'[r][c], need[r][c], latest[c], version[c])
    /\ answer' = [answer EXCEPT ![r] = answer'[r]]
    /\ latest' = [c \in Component |->
                      IF answer'[r][c] = Unavailable THEN latest[c] ELSE answer'[r][c]]
    /\ UNCHANGED <<version, confirmed, need>>

PromiseNext ==
    \/ \E c \in Component : Change(c)
    \/ Confirm
    \/ \E r \in Reader : Ask(r) \/ Answer(r)

PromiseSpec == PromiseInit /\ [][PromiseNext]_promiseVars
=============================================================================
