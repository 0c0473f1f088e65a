----------------------------- MODULE DDPOutput -----------------------------
(***************************************************************************)
(* The operator's DDP output test (aurora_core/hardware/                   *)
(* {ddp_output,ddp_output_probe}.py): one UDP socket, one dim test frame,  *)
(* one blackout frame, close, and a report about it all.  A lease owns the *)
(* socket; its exit runs the blackout and the close.                       *)
(*                                                                         *)
(* The send deadline may pass between any two steps, every send may fail   *)
(* or be cut short, and Ctrl-C raises KeyboardInterrupt wherever the       *)
(* interpreter looks for signals: at the entry of every function, after    *)
(* every call of a built-in one and at every loop.                         *)
(***************************************************************************)
EXTENDS Naturals, Sequences

CONSTANTS MaxDatagrams,   \* DDP_MAX_DATAGRAMS_PER_FRAME
          MaxAttempts,    \* DDP_MAX_SEND_ATTEMPTS
          MaxInterrupts   \* bound: times the operator presses Ctrl-C

ASSUME OutputAssumption ==
  /\ MaxDatagrams \in Nat \ {0} /\ MaxInterrupts \in Nat
  /\ MaxAttempts \in Nat /\ MaxAttempts >= 2 * MaxDatagrams

VARIABLES place,              \* where the command is
          planned,            \* datagrams of a frame
          expired,            \* the send deadline has passed
          next, attempts,     \* the packet to send next, sends so far
          test_sent, blackout_sent, test_reason, blackout_reason,
          blackout_attempted, \* _SocketUseState
          acquired,           \* the lease holds the socket
          closed, close_attempts,
          pending,            \* an interrupt to raise at the end
          report, reason,     \* of the validation service
          wire,               \* external: datagrams handed to the network
          interrupts,
          late                \* history: an interrupt hit the cleanup's own code

state == <<next, attempts, test_sent, blackout_sent, test_reason, blackout_reason,
           blackout_attempted>>
lease == <<acquired, closed, close_attempts>>
answer == <<report, reason>>
vars  == <<place, planned, expired, state, lease, pending, answer, wire, interrupts, late>>

Packet  == {"test", "blackout"} \X (1 .. MaxDatagrams)
Failure == {"deadline", "budget", "failed", "partial", "unexpected"}
Reason  == ({"test", "blackout"} \X (Failure \ {"budget", "unexpected"}))
           \cup ({"before"} \X {"destination", "socket"})
           \cup ({"none"} \X {"validated", "cleanup_unconfirmed", "unexpected", "open"})
Final   == {"ended", "raised"}

OutputTypeOK ==
  /\ place \in {"resolve", "enter", "test", "exit", "blackout", "close", "report"} \cup Final
  /\ planned \in 1 .. MaxDatagrams /\ expired \in BOOLEAN
  /\ next \in 1 .. planned + 1 /\ attempts \in 0 .. MaxAttempts
  /\ test_sent \in 0 .. planned /\ blackout_sent \in 0 .. planned
  /\ test_reason \in Failure \cup {"none"} /\ blackout_reason \in Failure \cup {"none"}
  /\ blackout_attempted \in BOOLEAN
  /\ acquired \in BOOLEAN /\ closed \in BOOLEAN /\ close_attempts \in 0 .. 1
  /\ pending \in BOOLEAN
  /\ report \in {"none", "healthy", "degraded", "unhealthy"} /\ reason \in Reason
  /\ wire \in Seq(Packet)
  /\ interrupts \in 0 .. MaxInterrupts /\ late \in BOOLEAN

Init ==
  /\ place = "resolve" /\ planned \in 1 .. MaxDatagrams /\ expired = FALSE
  /\ next = 1 /\ attempts = 0 /\ test_sent = 0 /\ blackout_sent = 0
  /\ test_reason = "none" /\ blackout_reason = "none" /\ blackout_attempted = FALSE
  /\ acquired = FALSE /\ closed = FALSE /\ close_attempts = 0
  /\ pending = FALSE /\ report = "none" /\ reason = <<"none", "open">>
  /\ wire = <<>> /\ interrupts = 0 /\ late = FALSE

\* The deadline is set before the resolution and does not interrupt it.
Expire ==
  /\ ~expired /\ place \notin Final
  /\ expired' = TRUE
  /\ UNCHANGED <<place, planned, state, lease, pending, answer, wire, interrupts, late>>

EndWithoutSocket(cause) ==
  /\ place' = "ended" /\ report' = "unhealthy" /\ reason' = <<"before", cause>>
  /\ UNCHANGED <<planned, expired, state, lease, pending, wire, interrupts, late>>

Resolve ==
  /\ place = "resolve"
  /\ \/ EndWithoutSocket("destination")
     \/ /\ place' = "enter"
        /\ UNCHANGED <<planned, expired, state, lease, pending, answer, wire, interrupts, late>>

Enter ==
  /\ place = "enter"
  /\ \/ EndWithoutSocket("socket")
     \/ /\ acquired' = TRUE /\ place' = "test"
        /\ UNCHANGED <<planned, expired, state, closed, close_attempts, pending, answer, wire,
                       interrupts, late>>

-----------------------------------------------------------------------------
(* _send_once: the outcome of one send of a packet.                        *)

\* Bug: a datagram that was cut short counts as sent.
SendLenient(packet, outcome) ==
  \/ /\ outcome = "deadline" /\ expired /\ UNCHANGED <<attempts, wire>>
  \/ /\ outcome = "budget" /\ ~expired /\ attempts >= MaxAttempts /\ UNCHANGED <<attempts, wire>>
  \/ /\ ~expired /\ attempts < MaxAttempts
     /\ \/ /\ outcome \in {"failed", "unexpected"}
           /\ attempts' \in {attempts, attempts + 1} /\ UNCHANGED wire
        \/ outcome = "sent" /\ attempts' = attempts + 1 /\ UNCHANGED wire
        \/ outcome = "sent" /\ attempts' = attempts + 1 /\ wire' = Append(wire, packet)

\* settimeout or sendto raise, sendto says less than all, or the datagram is out.
Send(packet, outcome) ==
  \/ /\ outcome = "deadline" /\ expired /\ UNCHANGED <<attempts, wire>>
  \/ /\ outcome = "budget" /\ ~expired /\ attempts >= MaxAttempts /\ UNCHANGED <<attempts, wire>>
  \/ /\ ~expired /\ attempts < MaxAttempts
     /\ \/ /\ outcome \in {"failed", "unexpected"}
           /\ attempts' \in {attempts, attempts + 1} /\ UNCHANGED wire
        \/ outcome = "partial" /\ attempts' = attempts + 1 /\ UNCHANGED wire
        \/ outcome = "sent" /\ attempts' = attempts + 1 /\ wire' = Append(wire, packet)

\* A send that Ctrl-C breaks off, before or after the datagram is out.
SendInterrupted(packet) ==
  \/ UNCHANGED <<attempts, wire>>
  \/ /\ ~expired /\ attempts < MaxAttempts /\ attempts' = attempts + 1
     /\ wire' \in {wire, Append(wire, packet)}

\* The datagram is out, and Ctrl-C comes before that is written down.
SendForgotten(packet) ==
  /\ ~expired /\ attempts < MaxAttempts
  /\ wire' = Append(wire, packet) /\ UNCHANGED attempts

-----------------------------------------------------------------------------
(* The test frame.                                                         *)

\* Bug: after a failed test packet the lease just closes.
SendTestThenClose ==
  /\ place = "test" /\ next <= planned
  /\ \E outcome \in Failure \cup {"sent"} :
       /\ Send(<<"test", next>>, outcome)
       /\ \/ /\ outcome = "sent"
             /\ test_sent' = test_sent + 1 /\ next' = next + 1
             /\ UNCHANGED <<place, test_reason>>
          \/ /\ outcome # "sent"
             /\ test_reason' = outcome /\ place' = "close"
             /\ UNCHANGED <<test_sent, next>>
  /\ UNCHANGED <<planned, expired, blackout_sent, blackout_reason, blackout_attempted, lease,
                 pending, answer, interrupts, late>>

\* The first failure ends the test frame.
SendTest ==
  /\ place = "test" /\ next <= planned
  /\ \E outcome \in Failure \cup {"sent"} :
       /\ Send(<<"test", next>>, outcome)
       /\ \/ /\ outcome = "sent"
             /\ test_sent' = test_sent + 1 /\ next' = next + 1
             /\ UNCHANGED <<place, test_reason>>
          \/ /\ outcome # "sent"
             /\ test_reason' = outcome /\ place' = "exit"
             /\ UNCHANGED <<test_sent, next>>
  /\ UNCHANGED <<planned, expired, blackout_sent, blackout_reason, blackout_attempted, lease,
                 pending, answer, interrupts, late>>

TestSent ==
  /\ place = "test" /\ next > planned
  /\ place' = "exit"
  /\ UNCHANGED <<planned, expired, state, lease, pending, answer, wire, interrupts, late>>

(* The exit of the lease: blackout, then close.                            *)

BeginBlackout ==
  /\ place = "exit"
  /\ place' = "blackout" /\ blackout_attempted' = TRUE /\ next' = 1
  /\ UNCHANGED <<planned, expired, attempts, test_sent, blackout_sent, test_reason,
                 blackout_reason, lease, pending, answer, wire, interrupts, late>>

\* A failed packet does not keep the next from being sent; the deadline does.
SendBlackout ==
  /\ place = "blackout" /\ next <= planned
  /\ \E outcome \in Failure \cup {"sent"} :
       /\ Send(<<"blackout", next>>, outcome)
       /\ blackout_sent' = IF outcome = "sent" THEN blackout_sent + 1 ELSE blackout_sent
       /\ blackout_reason' = IF outcome # "sent" /\ blackout_reason = "none"
                             THEN outcome ELSE blackout_reason
       /\ next' = next + 1
       /\ place' = IF outcome \in {"deadline", "budget"} THEN "close" ELSE place
  /\ UNCHANGED <<planned, expired, test_sent, test_reason, blackout_attempted, lease, pending,
                 answer, interrupts, late>>

BlackoutSent ==
  /\ place = "blackout" /\ next > planned
  /\ place' = "close"
  /\ UNCHANGED <<planned, expired, state, lease, pending, answer, wire, interrupts, late>>

\* The sole close; what it raises is swallowed.
Close ==
  /\ place = "close"
  /\ close_attempts' = close_attempts + 1 /\ closed' \in BOOLEAN
  /\ place' = IF pending THEN "raised" ELSE "report"
  /\ UNCHANGED <<planned, expired, state, acquired, pending, answer, wire, interrupts, late>>

-----------------------------------------------------------------------------
(* Ctrl-C.                                                                 *)

\* Bug: the interrupted packet is sent once more.
InterruptBlackoutRetries ==
  /\ place = "blackout"
  /\ \/ /\ next <= planned /\ SendInterrupted(<<"blackout", next>>)
        /\ UNCHANGED <<place, next>>
     \/ /\ place' = "close"
        /\ \/ next <= planned /\ SendForgotten(<<"blackout", next>>)
           \/ UNCHANGED <<attempts, wire>>
        /\ UNCHANGED next
  /\ UNCHANGED <<test_sent, blackout_sent, test_reason, blackout_reason, blackout_attempted,
                 lease, late>>

\* In a send it costs that packet; between two sends it costs the rest.
InterruptBlackout ==
  /\ place = "blackout"
  /\ \/ /\ next <= planned /\ SendInterrupted(<<"blackout", next>>)
        /\ next' = next + 1
        /\ UNCHANGED place
     \/ /\ place' = "close"
        /\ \/ next <= planned /\ SendForgotten(<<"blackout", next>>)
           \/ UNCHANGED <<attempts, wire>>
        /\ UNCHANGED next
  /\ UNCHANGED <<test_sent, blackout_sent, test_reason, blackout_reason, blackout_attempted,
                 lease, late>>

InterruptTest ==
  /\ place = "test"
  /\ \/ /\ next <= planned
        /\ SendInterrupted(<<"test", next>>) \/ SendForgotten(<<"test", next>>)
     \/ UNCHANGED <<attempts, wire>>
  /\ place' = "exit"
  /\ UNCHANGED <<next, test_sent, blackout_sent, test_reason, blackout_reason,
                 blackout_attempted, lease, late>>

\* socket() may have returned, and the lease may have stored what it returned.
InterruptEnter ==
  /\ place = "enter"
  /\ \/ place' = "raised" /\ UNCHANGED acquired
     \/ place' = "exit" /\ acquired' = TRUE
  /\ UNCHANGED <<state, closed, close_attempts, wire, late>>

\* At the entry of __exit__ nothing catches it; a little later _finish does,
\* which goes on to the close.
InterruptExit ==
  /\ place = "exit"
  /\ place' \in {"raised", "close"}
  /\ late' = TRUE
  /\ UNCHANGED <<state, lease, wire>>

\* Before the attempt, or in it.
InterruptClose ==
  /\ place = "close"
  /\ place' = "raised"
  /\ \/ late' = TRUE /\ UNCHANGED lease
     \/ close_attempts' = close_attempts + 1 /\ UNCHANGED <<acquired, closed, late>>
  /\ UNCHANGED <<state, wire>>

InterruptElsewhere ==
  /\ place \in {"resolve", "report"}
  /\ place' = "raised"
  /\ UNCHANGED <<state, lease, wire, late>>

Interrupt ==
  /\ interrupts < MaxInterrupts
  /\ interrupts' = interrupts + 1 /\ pending' = TRUE
  /\ \/ InterruptElsewhere \/ InterruptEnter \/ InterruptTest \/ InterruptExit
     \/ InterruptBlackout \/ InterruptClose
  /\ UNCHANGED <<planned, expired, answer>>

-----------------------------------------------------------------------------
(* The result of the probe and the service's verdict on it.                *)

Phase(phase, failure) == IF failure \in {"budget", "unexpected"} THEN <<"none", "unexpected">> ELSE <<phase, failure>>

TestCompleted == test_sent = planned
BlackoutCompleted == blackout_sent = planned

ResultReason ==
  IF blackout_reason # "none" THEN Phase("blackout", blackout_reason)
  ELSE IF TestCompleted /\ BlackoutCompleted /\ ~closed THEN <<"none", "cleanup_unconfirmed">>
  ELSE IF test_reason # "none" /\ BlackoutCompleted THEN Phase("test", test_reason)
  ELSE IF TestCompleted /\ BlackoutCompleted /\ closed THEN <<"none", "validated">>
  ELSE <<"none", "unexpected">>

Complete == TestCompleted /\ BlackoutCompleted /\ blackout_attempted /\ acquired

\* _consistent_result, for a probe that had a socket.
Consistent(why) ==
  /\ blackout_attempted = acquired
  /\ closed => acquired
  /\ why = <<"none", "validated">> => Complete /\ closed
  /\ why = <<"none", "cleanup_unconfirmed">> => Complete /\ ~closed
  /\ why[1] = "test" => acquired /\ ~TestCompleted /\ BlackoutCompleted
  /\ why[1] = "blackout" => acquired /\ ~BlackoutCompleted
  /\ why = <<"none", "unexpected">> => ~acquired \/ ~TestCompleted \/ ~BlackoutCompleted

Report ==
  /\ place = "report"
  /\ place' = "ended"
  /\ reason' = IF Consistent(ResultReason) THEN ResultReason ELSE <<"none", "unexpected">>
  /\ report' = CASE reason' = <<"none", "validated">>           -> "healthy"
                 [] reason' = <<"none", "cleanup_unconfirmed">> -> "degraded"
                 [] OTHER                                       -> "unhealthy"
  /\ UNCHANGED <<planned, expired, state, lease, pending, wire, interrupts, late>>

Next ==
  \/ Expire \/ Resolve \/ Enter \/ SendTest \/ TestSent
  \/ BeginBlackout \/ SendBlackout \/ BlackoutSent \/ Close \/ Report
  \/ Interrupt

Spec == Init /\ [][Next]_vars

-----------------------------------------------------------------------------
(* Properties.                                                             *)

Position(frame, packet) == IF packet[1] = "test" THEN packet[2] ELSE frame + packet[2]

InOrder(frame, packets) ==
  \A m, n \in 1 .. Len(packets) :
    m < n => Position(frame, packets[m]) < Position(frame, packets[n])

\* Every datagram goes out at most once, in order, and no test datagram
\* after the first of the blackout, wherever sends fail or are broken off.
NeverRetried == InOrder(planned, wire)

\* A command that does not blame the blackout has put all of it on the wire:
\* what it tells of the lights rests on datagrams, not on its counters.
GoodReportMeansBlackout ==
  place = "ended" /\ (report \in {"healthy", "degraded"} \/ reason[1] = "test") =>
    \A k \in 1 .. planned : \E n \in 1 .. Len(wire) : wire[n] = <<"blackout", k>>

\* The validation service never turns down a result of its own probe: the
\* precedence of the probe's reasons agrees with the service's rules.
ProbeAccepted == place = "report" => Consistent(ResultReason)

\* Whoever pressed Ctrl-C gets the interrupt, never a report.
InterruptSurfaces == place = "ended" => interrupts = 0

\* A command that got a socket ends with the blackout phase and the one
\* close behind it, unless Ctrl-C hits the very code that does both.
CleansUp ==
  place \in Final /\ acquired /\ ~late => blackout_attempted /\ close_attempts = 1

\* "Once the socket exists, the blackout phase is always entered"
\* (docs/ddp-output-validation.md), also when Ctrl-C hits the exit of the lease.
BlackoutAlwaysEntered == place \in Final /\ acquired => blackout_attempted

=============================================================================
