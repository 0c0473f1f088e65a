--------------------------- MODULE HardwareProofs ---------------------------
(***************************************************************************)
(* Proofs about the operator's two hardware commands, which share nothing: *)
(* the DDP output test, for frames of any number of datagrams and any      *)
(* number of interrupts, and the capture of one frame, for every budget of *)
(* ioctls and every bound on polls and reads.                              *)
(***************************************************************************)
EXTENDS DDPOutput, CaptureFrame, TLAPS

-----------------------------------------------------------------------------
(* The output test.  The inductive invariant says, for every place the     *)
(* command can be at, what it has put on the wire, what its counters say   *)
(* of that, and what it still owes to the socket.                          *)


\* The position, in the order of both frames, of the datagram to send next.
Cursor ==
  IF place \in {"resolve", "enter", "test"} THEN next
  ELSE IF place = "exit" THEN planned + 1
  ELSE IF place = "blackout" THEN planned + next
  ELSE 2 * planned + 1

Preceding(frame, packets, cursor) ==
  \A n \in 1 .. Len(packets) :
    /\ packets[n] \in {"test", "blackout"} \X (1 .. frame)
    /\ Position(frame, packets[n]) < cursor

\* What is on the wire came before the cursor.
WireFits == Preceding(planned, wire, Cursor)

\* An interrupt is pending from the test frame to the close, never beyond.
PendingFits ==
  /\ interrupts > 0 => pending
  /\ pending => place \in {"exit", "blackout", "close", "raised"}
  /\ late => pending

\* What the command owes to a socket it holds.
OwedFits ==
  /\ place \in {"resolve", "enter"} => ~acquired
  /\ place \in {"test", "exit", "blackout", "close", "report"} => acquired
  /\ place \in {"resolve", "enter", "test", "exit", "blackout", "close"} => close_attempts = 0
  /\ place = "report" => close_attempts = 1
  /\ closed => acquired
  /\ place = "blackout" => blackout_attempted
  /\ place \in {"close", "report"} => blackout_attempted \/ late
  /\ CleansUp

\* Blackout datagrams that had their turn.
Turns == IF place \in {"resolve", "enter", "test", "exit"} THEN 0
         ELSE IF place = "blackout" THEN next - 1
         ELSE planned

OnWire(k) == \E n \in 1 .. Len(wire) : wire[n] = <<"blackout", k>>

\* The counters never say more than the wire.
CountersFit ==
  /\ blackout_sent <= Turns
  /\ blackout_reason # "none" => blackout_sent < Turns
  /\ blackout_sent = Turns => \A k \in 1 .. Turns : OnWire(k)
  /\ test_reason # "none" => test_sent < planned
  /\ place \in {"resolve", "enter", "test"} => test_sent = next - 1 /\ test_reason = "none"

OutputInvariant ==
  /\ OutputTypeOK /\ NeverRetried /\ WireFits /\ PendingFits /\ OwedFits /\ CountersFit
  /\ GoodReportMeansBlackout

-----------------------------------------------------------------------------
(* Types.                                                                  *)

LEMMA SendTypes ==
  ASSUME OutputTypeOK, NEW packet \in Packet, NEW outcome, Send(packet, outcome)
  PROVE  attempts' \in 0 .. MaxAttempts /\ wire' \in Seq(Packet)
BY OutputAssumption DEF OutputTypeOK, Send

LEMMA InterruptedSendTypes ==
  ASSUME OutputTypeOK, NEW packet \in Packet,
         SendInterrupted(packet) \/ SendForgotten(packet)
  PROVE  attempts' \in 0 .. MaxAttempts /\ wire' \in Seq(Packet)
BY OutputAssumption DEF OutputTypeOK, SendInterrupted, SendForgotten

\* The verdict of the service is one of its reasons.
LEMMA ResultReasonType ==
  ASSUME OutputTypeOK
  PROVE  ResultReason \in Reason
<1>1. \A phase \in {"test", "blackout"} : \A failure \in Failure : Phase(phase, failure) \in Reason
  BY DEF Phase, Failure, Reason
<1>2. <<"none", "validated">> \in Reason /\ <<"none", "cleanup_unconfirmed">> \in Reason
      /\ <<"none", "unexpected">> \in Reason
  BY DEF Reason
<1> QED
  BY <1>1, <1>2 DEF OutputTypeOK, ResultReason

LEMMA TypeStep ==
  ASSUME OutputTypeOK, OwedFits, CountersFit, [Next]_vars
  PROVE  OutputTypeOK'
<1> USE OutputAssumption DEF OutputTypeOK
<1>1. CASE Expire
  BY <1>1 DEF Expire, state, lease, answer
<1>2. CASE Resolve
  <2>1. ASSUME NEW cause \in {"destination", "socket"}, EndWithoutSocket(cause)
        PROVE  OutputTypeOK'
    BY <2>1 DEF EndWithoutSocket, Reason, Final, state, lease
  <2> QED
    BY <1>2, <2>1 DEF Resolve, state, lease, answer
<1>3. CASE Enter
  <2>1. ASSUME NEW cause \in {"destination", "socket"}, EndWithoutSocket(cause)
        PROVE  OutputTypeOK'
    BY <2>1 DEF EndWithoutSocket, Reason, Final, state, lease
  <2> QED
    BY <1>3, <2>1 DEF Enter, state, answer
<1>4. CASE SendTest
  <2>1. PICK outcome \in Failure \cup {"sent"} :
          /\ Send(<<"test", next>>, outcome)
          /\ \/ /\ outcome = "sent"
                /\ test_sent' = test_sent + 1 /\ next' = next + 1
                /\ UNCHANGED <<place, test_reason>>
             \/ /\ outcome # "sent"
                /\ test_reason' = outcome /\ place' = "exit"
                /\ UNCHANGED <<test_sent, next>>
    BY <1>4 DEF SendTest
  <2>2. <<"test", next>> \in Packet /\ next <= planned /\ test_sent = next - 1
    BY <1>4 DEF SendTest, Packet, CountersFit
  <2>3. attempts' \in 0 .. MaxAttempts /\ wire' \in Seq(Packet)
    BY <2>1, <2>2, SendTypes
  <2>4. next' \in 1 .. planned + 1 /\ test_sent' \in 0 .. planned
        /\ test_reason' \in Failure \cup {"none"} /\ place' \in {"test", "exit"}
    BY <1>4, <2>1, <2>2 DEF SendTest
  <2> QED
    BY <1>4, <2>3, <2>4 DEF SendTest, lease, answer
<1>5. CASE TestSent
  BY <1>5 DEF TestSent, state, lease, answer
<1>6. CASE BeginBlackout
  BY <1>6 DEF BeginBlackout, lease, answer
<1>7. CASE SendBlackout
  <2>1. PICK outcome \in Failure \cup {"sent"} :
          /\ Send(<<"blackout", next>>, outcome)
          /\ blackout_sent' = IF outcome = "sent" THEN blackout_sent + 1 ELSE blackout_sent
          /\ blackout_reason' = IF outcome # "sent" /\ blackout_reason = "none"
                                THEN outcome ELSE blackout_reason
          /\ next' = next + 1
          /\ place' = IF outcome \in {"deadline", "budget"} THEN "close" ELSE place
    BY <1>7 DEF SendBlackout
  <2>2. <<"blackout", next>> \in Packet /\ next <= planned /\ blackout_sent <= next - 1
    BY <1>7 DEF SendBlackout, Packet, CountersFit, Turns
  <2>3. attempts' \in 0 .. MaxAttempts /\ wire' \in Seq(Packet)
    BY <2>1, <2>2, SendTypes
  <2>4. next' \in 1 .. planned + 1 /\ blackout_sent' \in 0 .. planned
        /\ blackout_reason' \in Failure \cup {"none"} /\ place' \in {"blackout", "close"}
    BY <1>7, <2>1, <2>2 DEF SendBlackout
  <2> QED
    BY <1>7, <2>3, <2>4 DEF SendBlackout, lease, answer
<1>8. CASE BlackoutSent
  BY <1>8 DEF BlackoutSent, state, lease, answer
<1>9. CASE Close
  BY <1>9 DEF Close, OwedFits, Final, state, answer
<1>10. CASE Report
  <2>1. reason' \in Reason
    BY <1>10, ResultReasonType DEF Report, Reason
  <2>2. report' \in {"healthy", "degraded", "unhealthy"}
    BY <1>10 DEF Report
  <2> QED
    BY <1>10, <2>1, <2>2 DEF Report, Final, state, lease
<1>11. CASE Interrupt
  <2> USE <1>11 DEF Interrupt, answer
  <2>0. interrupts' \in 0 .. MaxInterrupts /\ pending' \in BOOLEAN /\ planned' = planned
        /\ UNCHANGED <<expired, report, reason>>
    OBVIOUS
  <2>1. CASE InterruptElsewhere
    BY <2>0, <2>1 DEF InterruptElsewhere, Final, state, lease
  <2>2. CASE InterruptEnter
    BY <2>0, <2>2 DEF InterruptEnter, Final, state
  <2>3. CASE InterruptTest
    <3>1. attempts' \in 0 .. MaxAttempts /\ wire' \in Seq(Packet)
      <4>1. next <= planned => <<"test", next>> \in Packet
        BY DEF Packet
      <4> QED
        BY <2>3, <4>1, InterruptedSendTypes DEF InterruptTest
    <3> QED
      BY <2>0, <2>3, <3>1 DEF InterruptTest, lease
  <2>4. CASE InterruptExit
    BY <2>0, <2>4 DEF InterruptExit, Final, state, lease
  <2>5. CASE InterruptBlackout
    <3>1. attempts' \in 0 .. MaxAttempts /\ wire' \in Seq(Packet)
      <4>1. next <= planned => <<"blackout", next>> \in Packet
        BY DEF Packet
      <4> QED
        BY <2>5, <4>1, InterruptedSendTypes DEF InterruptBlackout
    <3>2. next' \in 1 .. planned + 1 /\ place' \in {"blackout", "close"}
      BY <2>5 DEF InterruptBlackout
    <3> QED
      BY <2>0, <2>5, <3>1, <3>2 DEF InterruptBlackout, lease
  <2>6. CASE InterruptClose
    <3>1. close_attempts' \in 0 .. 1
      <4>1. close_attempts = 0
        BY <2>6 DEF InterruptClose, OwedFits
      <4>2. close_attempts' \in {close_attempts, close_attempts + 1}
        BY <2>6 DEF InterruptClose, lease
      <4> QED
        BY <4>1, <4>2
    <3>2. acquired' = acquired /\ closed' = closed /\ late' \in BOOLEAN /\ place' = "raised"
      BY <2>6 DEF InterruptClose, lease
    <3> QED
      BY <2>0, <2>6, <3>1, <3>2 DEF InterruptClose, Final, state
  <2> QED
    BY <2>1, <2>2, <2>3, <2>4, <2>5, <2>6
<1>12. CASE UNCHANGED vars
  BY <1>12 DEF vars, state, lease, answer
<1> QED
  BY <1>1, <1>2, <1>3, <1>4, <1>5, <1>6, <1>7, <1>8, <1>9, <1>10, <1>11, <1>12 DEF Next

-----------------------------------------------------------------------------
(* The wire.                                                               *)

\* A datagram put on the wire at the cursor.
LEMMA AppendInOrder ==
  ASSUME NEW frame \in Nat, NEW packets \in Seq(Packet), NEW cursor \in Nat,
         InOrder(frame, packets), Preceding(frame, packets, cursor),
         NEW packet \in {"test", "blackout"} \X (1 .. frame), Position(frame, packet) = cursor,
         NEW later \in Nat, later > cursor
  PROVE  /\ InOrder(frame, Append(packets, packet))
         /\ Preceding(frame, Append(packets, packet), later)
<1> DEFINE longer == Append(packets, packet)
<1>1. Len(longer) = Len(packets) + 1 /\ longer[Len(packets) + 1] = packet
      /\ \A n \in 1 .. Len(packets) : longer[n] = packets[n]
  OBVIOUS
<1>2. Len(packets) \in Nat
  OBVIOUS
<1>3. \A n \in 1 .. Len(packets) :
        /\ Position(frame, packets[n]) \in Nat /\ Position(frame, packets[n]) < cursor
        /\ packets[n] \in {"test", "blackout"} \X (1 .. frame)
  BY DEF Preceding, Position
<1>4. \A n \in 1 .. Len(longer) : n \in 1 .. Len(packets) \/ n = Len(packets) + 1
  BY <1>1, <1>2
<1> HIDE DEF longer
<1>5. Preceding(frame, longer, later)
  <2> SUFFICES ASSUME NEW n \in 1 .. Len(longer)
               PROVE  /\ longer[n] \in {"test", "blackout"} \X (1 .. frame)
                      /\ Position(frame, longer[n]) < later
    BY DEF Preceding
  <2>1. CASE n \in 1 .. Len(packets)
    <3>1. /\ longer[n] = packets[n] /\ Position(frame, packets[n]) \in Nat
          /\ Position(frame, packets[n]) < cursor
          /\ packets[n] \in {"test", "blackout"} \X (1 .. frame)
      BY <1>1, <1>3, <2>1
    <3> QED
      BY <3>1
  <2>2. CASE n = Len(packets) + 1
    BY <1>1, <2>2
  <2> QED
    BY <1>4, <2>1, <2>2
<1>6. InOrder(frame, longer)
  <2> SUFFICES ASSUME NEW m \in 1 .. Len(longer), NEW n \in 1 .. Len(longer), m < n
               PROVE  Position(frame, longer[m]) < Position(frame, longer[n])
    BY DEF InOrder
  <2>1. m \in 1 .. Len(packets)
    BY <1>1, <1>2, <1>4
  <2>2. CASE n \in 1 .. Len(packets)
    BY <1>1, <2>1, <2>2 DEF InOrder
  <2>3. CASE n = Len(packets) + 1
    BY <1>1, <1>3, <2>1, <2>3
  <2> QED
    BY <1>4, <2>2, <2>3
<1> QED
  BY <1>5, <1>6 DEF longer

LEMMA LaterBefore ==
  ASSUME NEW frame \in Nat, NEW packets \in Seq(Packet), NEW cursor \in Nat,
         Preceding(frame, packets, cursor), NEW later \in Nat, later >= cursor
  PROVE  Preceding(frame, packets, later)
BY DEF Preceding, Position

LEMMA WireGrows ==
  ASSUME OutputTypeOK, WireFits, NeverRetried, planned' = planned,
         NEW packet \in {"test", "blackout"} \X (1 .. planned), wire' = Append(wire, packet),
         Cursor \in Nat, Cursor' \in Nat, Position(planned, packet) = Cursor, Cursor' > Cursor
  PROVE  WireFits' /\ NeverRetried'
<1>1. planned \in Nat /\ wire \in Seq(Packet)
  BY OutputAssumption DEF OutputTypeOK
<1>2. /\ InOrder(planned, Append(wire, packet))
      /\ Preceding(planned, Append(wire, packet), Cursor')
  BY <1>1, AppendInOrder DEF WireFits, NeverRetried
<1> QED
  BY <1>2 DEF WireFits, NeverRetried

LEMMA WireStays ==
  ASSUME OutputTypeOK, WireFits, NeverRetried, planned' = planned, wire' = wire,
         Cursor \in Nat, Cursor' \in Nat, Cursor' >= Cursor
  PROVE  WireFits' /\ NeverRetried'
<1>1. planned \in Nat /\ wire \in Seq(Packet)
  BY OutputAssumption DEF OutputTypeOK
<1>2. Preceding(planned, wire, Cursor')
  BY <1>1, LaterBefore DEF WireFits
<1> QED
  BY <1>2 DEF WireFits, NeverRetried

LEMMA BrokenOffSend ==
  ASSUME NEW packet, SendInterrupted(packet) \/ SendForgotten(packet)
  PROVE  wire' = wire \/ wire' = Append(wire, packet)
BY DEF SendInterrupted, SendForgotten

LEMMA CursorType ==
  ASSUME OutputTypeOK
  PROVE  Cursor \in Nat /\ Cursor <= 2 * planned + 1
BY OutputAssumption DEF OutputTypeOK, Cursor

LEMMA NextCursorType ==
  ASSUME OutputTypeOK'
  PROVE  Cursor' \in Nat
<1>1. planned' \in Nat /\ next' \in Nat
  BY OutputAssumption DEF OutputTypeOK
<1>2. \A p, n \in Nat : p + 1 \in Nat /\ p + n \in Nat /\ 2 * p + 1 \in Nat
  OBVIOUS
<1>3. /\ planned' + 1 \in Nat /\ planned' + next' \in Nat /\ 2 * planned' + 1 \in Nat
  BY <1>1, <1>2
<1> QED
  BY <1>1, <1>3 DEF Cursor

LEMMA WireStep ==
  ASSUME OutputTypeOK, OutputTypeOK', WireFits, NeverRetried, [Next]_vars
  PROVE  WireFits' /\ NeverRetried'
<1>0. Cursor \in Nat /\ Cursor' \in Nat /\ Cursor <= 2 * planned + 1
  BY CursorType, NextCursorType
<1>n. planned \in Nat \ {0} /\ next \in 1 .. planned + 1
  BY OutputAssumption DEF OutputTypeOK
<1>a. ASSUME NEW frame \in {"test", "blackout"}, next <= planned
      PROVE  <<frame, next>> \in {"test", "blackout"} \X (1 .. planned)
  BY <1>n, <1>a
<1>1. CASE SendTest
  <2>1. next <= planned /\ place = "test" /\ planned' = planned
    BY <1>1 DEF SendTest
  <2>2. \/ next' = next + 1 /\ place' = "test"
        \/ wire' = wire /\ next' = next /\ place' = "exit"
    BY <1>1, <2>1 DEF SendTest, Send
  <2>3. wire' = wire \/ (wire' = Append(wire, <<"test", next>>) /\ place' = "test")
    BY <1>1, <2>1 DEF SendTest, Send
  <2>4. /\ Cursor = next /\ Position(planned, <<"test", next>>) = Cursor /\ Cursor' >= Cursor
        /\ place' = "test" => Cursor' > Cursor \/ wire' = wire
    BY <1>n, <2>1, <2>2 DEF Cursor, Position
  <2> QED
    BY <1>0, <1>a, <2>1, <2>3, <2>4, WireGrows, WireStays
<1>2. CASE SendBlackout
  <2>1. /\ next <= planned /\ place = "blackout" /\ planned' = planned
        /\ next' = next + 1 /\ place' \in {"blackout", "close"}
    BY <1>2 DEF SendBlackout
  <2>2. /\ Cursor = planned + next /\ Position(planned, <<"blackout", next>>) = Cursor
        /\ Cursor' > Cursor
    BY <1>n, <2>1 DEF Cursor, Position
  <2>3. wire' = wire \/ wire' = Append(wire, <<"blackout", next>>)
    BY <1>2 DEF SendBlackout, Send
  <2> QED
    BY <1>0, <1>a, <2>1, <2>2, <2>3, WireGrows, WireStays
<1>3. CASE Interrupt /\ InterruptTest
  <2>1. place = "test" /\ place' = "exit" /\ planned' = planned
    BY <1>3 DEF InterruptTest, Interrupt
  <2>2. Cursor = next /\ Cursor' = planned + 1 /\ Position(planned, <<"test", next>>) = Cursor
    BY <2>1 DEF Cursor, Position
  <2>3. wire' = wire \/ (next <= planned /\ wire' = Append(wire, <<"test", next>>))
    BY <1>3, BrokenOffSend DEF InterruptTest
  <2>4. CASE wire' = wire
    BY <1>0, <1>n, <2>1, <2>2, <2>4, WireStays
  <2>5. CASE next <= planned /\ wire' = Append(wire, <<"test", next>>)
    BY <1>0, <1>n, <1>a, <2>1, <2>2, <2>5, WireGrows
  <2> QED
    BY <2>3, <2>4, <2>5
<1>4. CASE Interrupt /\ InterruptBlackout
  <2>1. place = "blackout" /\ place' \in {"blackout", "close"} /\ planned' = planned
    BY <1>4 DEF InterruptBlackout, Interrupt
  <2>2. place' = "blackout" => next <= planned /\ next' = next + 1
    BY <1>4 DEF InterruptBlackout
  <2>3. /\ Cursor = planned + next /\ Position(planned, <<"blackout", next>>) = Cursor
        /\ Cursor' >= Cursor
        /\ next <= planned => Cursor' > Cursor
    BY <1>n, <2>1, <2>2 DEF Cursor, Position
  <2>4. wire' = wire \/ (next <= planned /\ wire' = Append(wire, <<"blackout", next>>))
    BY <1>4, BrokenOffSend DEF InterruptBlackout, SendForgotten
  <2>5. CASE wire' = wire
    BY <1>0, <2>1, <2>3, <2>5, WireStays
  <2>6. CASE next <= planned /\ wire' = Append(wire, <<"blackout", next>>)
    BY <1>0, <1>a, <2>1, <2>3, <2>6, WireGrows
  <2> QED
    BY <2>4, <2>5, <2>6
<1>5. ASSUME planned' = planned, wire' = wire, Cursor' >= Cursor
      PROVE  WireFits' /\ NeverRetried'
  BY <1>0, <1>5, WireStays
<1>6. CASE Expire \/ TestSent \/ BeginBlackout \/ UNCHANGED vars
  BY <1>n, <1>5, <1>6 DEF Expire, TestSent, BeginBlackout, vars, state, Cursor
<1>7. CASE Resolve \/ Enter
  <2>1. /\ planned' = planned /\ wire' = wire /\ next' = next
        /\ place \in {"resolve", "enter"} /\ place' \in {"enter", "test", "ended"}
    BY <1>7 DEF Resolve, Enter, EndWithoutSocket, state
  <2> QED
    BY <1>n, <1>5, <2>1 DEF Cursor
<1>8. CASE BlackoutSent \/ Close \/ Report
  BY <1>0, <1>5, <1>8 DEF BlackoutSent, Close, Report, Cursor
<1>9. CASE Interrupt /\ (InterruptElsewhere \/ InterruptEnter \/ InterruptExit \/ InterruptClose)
  <2>1. /\ planned' = planned /\ wire' = wire /\ next' = next
        /\ place' \in {"raised", "close"} \/ (place' = "exit" /\ place = "enter")
    BY <1>9 DEF Interrupt, InterruptElsewhere, InterruptEnter, InterruptExit, InterruptClose, state
  <2> QED
    BY <1>0, <1>n, <1>5, <2>1 DEF Cursor
<1> QED
  BY <1>1, <1>2, <1>3, <1>4, <1>6, <1>7, <1>8, <1>9 DEF Next, Interrupt

-----------------------------------------------------------------------------
(* Interrupts and the clean-up.                                            *)

LEMMA PendingStep ==
  ASSUME OutputTypeOK, PendingFits, [Next]_vars
  PROVE  PendingFits'
<1>0. interrupts \in Nat
  BY OutputAssumption DEF OutputTypeOK
<1> USE DEF PendingFits
<1>1. CASE Expire \/ TestSent \/ BeginBlackout \/ BlackoutSent \/ UNCHANGED vars
  BY <1>1 DEF Expire, TestSent, BeginBlackout, BlackoutSent, vars
<1>2. CASE Resolve \/ Enter
  BY <1>2 DEF Resolve, Enter, EndWithoutSocket
<1>3. CASE SendTest
  BY <1>3 DEF SendTest
<1>4. CASE SendBlackout
  <2>1. /\ place' \in {"blackout", "close"} /\ pending' = pending
        /\ interrupts' = interrupts /\ late' = late
    BY <1>4 DEF SendBlackout
  <2> QED
    BY <2>1
<1>5. CASE Close \/ Report
  BY <1>5 DEF Close, Report
<1>6. CASE Interrupt
  <2>1. place' \in {"exit", "blackout", "close", "raised"}
    BY <1>6 DEF Interrupt, InterruptElsewhere, InterruptEnter, InterruptTest, InterruptExit,
                InterruptBlackout, InterruptClose
  <2> QED
    BY <1>6, <2>1 DEF Interrupt
<1> QED
  BY <1>1, <1>2, <1>3, <1>4, <1>5, <1>6 DEF Next

LEMMA OwedStep ==
  ASSUME OutputTypeOK, PendingFits, OwedFits, [Next]_vars
  PROVE  OwedFits'
<1> USE DEF OwedFits, CleansUp, Final
<1>1. CASE Expire \/ UNCHANGED vars
  BY <1>1 DEF Expire, vars, state, lease
<1>2. CASE Resolve
  BY <1>2 DEF Resolve, EndWithoutSocket, state, lease
<1>3. CASE Enter
  BY <1>3 DEF Enter, EndWithoutSocket, state, lease
<1>4. CASE SendTest \/ TestSent
  BY <1>4 DEF SendTest, TestSent, state, lease
<1>5. CASE BeginBlackout \/ SendBlackout \/ BlackoutSent
  <2>1. /\ place \in {"exit", "blackout"} /\ place' \in {"blackout", "close"}
        /\ blackout_attempted' = TRUE /\ acquired' = acquired /\ closed' = closed
        /\ close_attempts' = close_attempts /\ late' = late
    BY <1>5 DEF BeginBlackout, SendBlackout, BlackoutSent, state, lease, OutputTypeOK
  <2> QED
    BY <2>1
<1>6. CASE Close
  <2>1. close_attempts' = 1
    BY <1>6 DEF Close
  <2>2. /\ place = "close" /\ place' \in {"raised", "report"} /\ acquired' = acquired
        /\ blackout_attempted' = blackout_attempted /\ late' = late
    BY <1>6 DEF Close, state
  <2> QED
    BY <2>1, <2>2
<1>7. CASE Report
  BY <1>7 DEF Report, state, lease
<1>8. CASE Interrupt
  <2>1. CASE InterruptElsewhere
    BY <2>1 DEF InterruptElsewhere, state, lease
  <2>2. CASE InterruptEnter
    BY <2>2 DEF InterruptEnter, state
  <2>3. CASE InterruptTest
    BY <2>3 DEF InterruptTest, lease
  <2>4. CASE InterruptExit
    BY <2>4 DEF InterruptExit, state, lease
  <2>5. CASE InterruptBlackout
    BY <2>5 DEF InterruptBlackout, lease
  <2>6. CASE InterruptClose
    <3>1. /\ place = "close" /\ place' = "raised" /\ acquired' = acquired /\ closed' = closed
          /\ blackout_attempted' = blackout_attempted
          /\ late' \/ (late' = late /\ close_attempts' = close_attempts + 1)
      BY <2>6 DEF InterruptClose, state, lease
    <3>2. close_attempts = 0
      BY <3>1
    <3> QED
      BY <3>1, <3>2
  <2> QED
    BY <1>8, <2>1, <2>2, <2>3, <2>4, <2>5, <2>6 DEF Interrupt
<1> QED
  BY <1>1, <1>2, <1>3, <1>4, <1>5, <1>6, <1>7, <1>8 DEF Next

-----------------------------------------------------------------------------
(* The counters against the wire.                                          *)

LEMMA OnWireStays ==
  ASSUME OutputTypeOK, NEW packet \in Packet, wire' = wire \/ wire' = Append(wire, packet),
         NEW k, OnWire(k)
  PROVE  OnWire(k)'
<1>1. PICK n \in 1 .. Len(wire) : wire[n] = <<"blackout", k>>
  BY DEF OnWire
<1>2. n \in 1 .. Len(wire') /\ wire'[n] = wire[n]
  BY <1>1 DEF OutputTypeOK
<1> QED
  BY <1>1, <1>2 DEF OnWire

LEMMA OnWireComes ==
  ASSUME OutputTypeOK, NEW k, <<"blackout", k>> \in Packet,
         wire' = Append(wire, <<"blackout", k>>)
  PROVE  OnWire(k)'
<1>1. Len(wire') \in 1 .. Len(wire') /\ wire'[Len(wire')] = <<"blackout", k>>
  BY DEF OutputTypeOK
<1> QED
  BY <1>1 DEF OnWire

\* A step that leaves the blackout's counters alone and lets datagrams have
\* no more turns keeps what they say.
LEMMA CountersStay ==
  ASSUME OutputTypeOK, CountersFit, planned' = planned,
         blackout_sent' = blackout_sent, blackout_reason' = blackout_reason,
         Turns' = Turns, NEW packet \in Packet, wire' = wire \/ wire' = Append(wire, packet)
  PROVE  /\ blackout_sent' <= Turns'
         /\ blackout_reason' # "none" => blackout_sent' < Turns'
         /\ blackout_sent' = Turns' => \A k \in 1 .. Turns' : OnWire(k)'
BY OnWireStays DEF CountersFit

\* A datagram whose turn passes without being counted.
LEMMA TurnPasses ==
  ASSUME OutputTypeOK, CountersFit, planned' = planned,
         blackout_sent' = blackout_sent, Turns \in Nat, Turns' \in Nat, Turns' > Turns
  PROVE  /\ blackout_sent' <= Turns'
         /\ blackout_reason' # "none" => blackout_sent' < Turns'
         /\ blackout_sent' = Turns' => \A k \in 1 .. Turns' : OnWire(k)'
<1>1. blackout_sent \in Nat /\ blackout_sent <= Turns
  BY OutputAssumption DEF OutputTypeOK, CountersFit
<1> QED
  BY <1>1

LEMMA CountersStep ==
  ASSUME OutputTypeOK, OutputTypeOK', CountersFit, [Next]_vars
  PROVE  CountersFit'
<1>0. /\ planned \in 1 .. MaxDatagrams /\ planned \in Nat \ {0} /\ next \in 1 .. planned + 1
      /\ test_sent \in Nat /\ blackout_sent \in Nat /\ <<"test", 1>> \in Packet
  BY OutputAssumption DEF OutputTypeOK, Packet
<1>t. Turns \in Nat
  BY <1>0 DEF Turns
<1>p. ASSUME next <= planned
      PROVE  <<"test", next>> \in Packet /\ <<"blackout", next>> \in Packet
  <2>1. MaxDatagrams \in Nat
    BY OutputAssumption
  <2>2. next \in 1 .. MaxDatagrams
    BY <1>0, <1>p, <2>1
  <2> QED
    BY <2>2 DEF Packet
<1>1. CASE Expire \/ UNCHANGED vars
  <2>1. Turns' = Turns
    BY <1>1 DEF Expire, vars, state, Turns
  <2> QED
    BY <1>0, <1>1, <2>1, CountersStay DEF Expire, vars, state, CountersFit
<1>2. CASE Resolve \/ Enter
  <2>1. /\ place \in {"resolve", "enter"} /\ place' \in {"enter", "test", "ended"}
        /\ UNCHANGED <<planned, wire, state>>
    BY <1>2 DEF Resolve, Enter, EndWithoutSocket
  <2>2. blackout_sent = 0 /\ blackout_reason = "none" /\ test_sent = next - 1 /\ test_reason = "none"
    BY <1>0, <2>1 DEF CountersFit, Turns
  <2>3. Turns' \in {0, planned}
    BY <2>1 DEF Turns, state
  <2> QED
    BY <1>0, <2>1, <2>2, <2>3 DEF CountersFit, state
<1>3. CASE SendTest
  <2>1. /\ planned' = planned /\ place' \in {"test", "exit"} /\ place = "test"
        /\ blackout_sent' = blackout_sent /\ blackout_reason' = blackout_reason
        /\ next <= planned /\ test_sent = next - 1 /\ test_reason = "none"
        /\ Turns = 0 /\ Turns' = 0
    BY <1>3 DEF SendTest, CountersFit, Turns
  <2>2. wire' = wire \/ wire' = Append(wire, <<"test", next>>)
    BY <1>3 DEF SendTest, Send
  <2>3. \/ /\ test_sent' = test_sent + 1 /\ next' = next + 1
           /\ place' = place /\ test_reason' = test_reason
        \/ place' = "exit" /\ test_sent' = test_sent
    BY <1>3 DEF SendTest
  <2>4. /\ test_reason' # "none" => test_sent' < planned
        /\ place' \in {"resolve", "enter", "test"} => test_sent' = next' - 1 /\ test_reason' = "none"
    BY <1>0, <2>1, <2>3
  <2> QED
    BY <1>p, <2>1, <2>2, <2>4, CountersStay DEF CountersFit
<1>4. CASE TestSent
  <2>1. Turns = 0 /\ Turns' = 0
    BY <1>4 DEF TestSent, Turns
  <2> QED
    BY <1>0, <1>4, <2>1, CountersStay DEF TestSent, state, CountersFit
<1>5. CASE BeginBlackout
  <2>1. Turns = 0 /\ Turns' = 0
    BY <1>5 DEF BeginBlackout, Turns
  <2> QED
    BY <1>0, <1>5, <2>1, CountersStay DEF BeginBlackout, CountersFit
<1>6. CASE SendBlackout
  <2>1. PICK outcome \in Failure \cup {"sent"} :
          /\ Send(<<"blackout", next>>, outcome)
          /\ blackout_sent' = IF outcome = "sent" THEN blackout_sent + 1 ELSE blackout_sent
          /\ blackout_reason' = IF outcome # "sent" /\ blackout_reason = "none"
                                THEN outcome ELSE blackout_reason
          /\ next' = next + 1
          /\ place' = IF outcome \in {"deadline", "budget"} THEN "close" ELSE place
    BY <1>6 DEF SendBlackout
  <2>2. /\ planned' = planned /\ place = "blackout" /\ next <= planned
        /\ test_sent' = test_sent /\ test_reason' = test_reason /\ Turns = next - 1
    BY <1>6 DEF SendBlackout, Turns
  <2>3. Turns' = IF outcome \in {"deadline", "budget"} THEN planned ELSE next
    BY <1>0, <2>1, <2>2 DEF Turns
  <2>4. CASE outcome # "sent"
    BY <1>0, <1>t, <2>1, <2>2, <2>3, <2>4, TurnPasses DEF CountersFit
  <2>5. CASE outcome = "sent"
    <3>1. wire' = Append(wire, <<"blackout", next>>)
      BY <2>1, <2>5 DEF Send
    <3>2. /\ Turns' = next /\ blackout_sent' = blackout_sent + 1
          /\ blackout_reason' = blackout_reason /\ place' = "blackout"
      BY <2>1, <2>2, <2>3, <2>5
    <3>3. /\ blackout_sent' <= Turns'
          /\ blackout_reason' # "none" => blackout_sent' < Turns'
      BY <1>0, <2>2, <3>2 DEF CountersFit
    <3>4. ASSUME blackout_sent' = Turns', NEW k \in 1 .. Turns'
          PROVE  OnWire(k)'
      <4>1. CASE k = next
        BY <1>p, <2>2, <3>1, <4>1, OnWireComes
      <4>2. CASE k # next
        <5>1. blackout_sent = Turns /\ k \in 1 .. Turns
          BY <1>0, <2>2, <3>2, <3>4, <4>2
        <5> QED
          BY <1>p, <2>2, <3>1, <5>1, OnWireStays DEF CountersFit
      <4> QED
        BY <4>1, <4>2
    <3> QED
      BY <2>2, <3>2, <3>3, <3>4 DEF CountersFit
  <2> QED
    BY <2>4, <2>5
<1>7. CASE BlackoutSent \/ Close \/ Report
  <2>1. /\ place \in {"blackout", "close", "report"} /\ place' \in {"close", "report", "raised", "ended"}
        /\ planned' = planned /\ wire' = wire /\ UNCHANGED state
        /\ place = "blackout" => next > planned
    BY <1>7 DEF BlackoutSent, Close, Report
  <2>2. Turns' = Turns
    BY <1>0, <2>1 DEF Turns
  <2> QED
    BY <1>0, <2>1, <2>2, CountersStay DEF state, CountersFit
<1>8. CASE Interrupt
  <2>0. planned' = planned
    BY <1>8 DEF Interrupt
  <2>a. ASSUME place \in {"resolve", "enter", "test", "exit"}, place' \in {"exit", "raised", "close"},
               NEW packet \in Packet, wire' = wire \/ wire' = Append(wire, packet),
               blackout_sent' = blackout_sent, blackout_reason' = blackout_reason,
               test_sent' = test_sent, test_reason' = test_reason
        PROVE  CountersFit'
    <3>1. blackout_sent = 0 /\ blackout_reason = "none" /\ Turns' \in {0, planned}
      BY <1>0, <2>0, <2>a DEF CountersFit, Turns
    <3> QED
      BY <1>0, <2>0, <2>a, <3>1 DEF CountersFit
  <2>1. CASE InterruptElsewhere /\ place = "resolve"
    BY <1>0, <2>a, <2>1 DEF InterruptElsewhere, state
  <2>2. CASE InterruptEnter \/ InterruptExit
    BY <1>0, <2>a, <2>2 DEF InterruptEnter, InterruptExit, state
  <2>3. CASE InterruptTest
    <3>1. wire' = wire \/ (next <= planned /\ wire' = Append(wire, <<"test", next>>))
      BY <2>3, BrokenOffSend DEF InterruptTest
    <3>2. /\ place = "test" /\ place' = "exit" /\ blackout_sent' = blackout_sent
          /\ blackout_reason' = blackout_reason /\ test_sent' = test_sent
          /\ test_reason' = test_reason
      BY <2>3 DEF InterruptTest
    <3> QED
      BY <1>0, <1>p, <2>a, <3>1, <3>2
  <2>4. CASE InterruptBlackout
    <3>1. /\ place = "blackout" /\ place' \in {"blackout", "close"} /\ Turns = next - 1
          /\ blackout_sent' = blackout_sent /\ blackout_reason' = blackout_reason
          /\ test_sent' = test_sent /\ test_reason' = test_reason
      BY <2>4 DEF InterruptBlackout, Turns
    <3>2. wire' = wire \/ (next <= planned /\ wire' = Append(wire, <<"blackout", next>>))
      BY <2>4, BrokenOffSend DEF InterruptBlackout
    <3>3. \/ place' = "blackout" /\ next <= planned /\ next' = next + 1
          \/ place' = "close"
      BY <2>4 DEF InterruptBlackout
    <3>4. Turns' = IF place' = "blackout" THEN next ELSE planned
      BY <1>0, <2>0, <3>1, <3>3 DEF Turns
    <3>5. CASE Turns' > Turns
      BY <1>0, <1>t, <2>0, <3>1, <3>4, <3>5, TurnPasses DEF CountersFit
    <3>6. CASE Turns' = Turns
      <4>1. next > planned
        BY <1>0, <3>1, <3>3, <3>4, <3>6
      <4> QED
        BY <1>0, <2>0, <3>1, <3>2, <3>6, <4>1, CountersStay DEF CountersFit
    <3> QED
      BY <1>0, <3>1, <3>3, <3>4, <3>5, <3>6
  <2>5. CASE InterruptClose \/ (InterruptElsewhere /\ place = "report")
    <3>1. /\ place \in {"close", "report"} /\ place' = "raised"
          /\ wire' = wire /\ UNCHANGED state
      BY <2>5 DEF InterruptClose, InterruptElsewhere
    <3>2. Turns' = Turns
      BY <2>0, <3>1 DEF Turns
    <3> QED
      BY <1>0, <2>0, <3>1, <3>2, CountersStay DEF state, CountersFit
  <2> QED
    BY <1>8, <2>1, <2>2, <2>3, <2>4, <2>5 DEF Interrupt, InterruptElsewhere
<1> QED
  BY <1>1, <1>2, <1>3, <1>4, <1>5, <1>6, <1>7, <1>8 DEF Next

-----------------------------------------------------------------------------
(* The report.                                                             *)

\* What the probe concludes is what its counters allow the service to accept.
LEMMA AcceptedReason ==
  ASSUME OutputTypeOK, PendingFits, OwedFits, CountersFit, place = "report"
  PROVE  Consistent(ResultReason)
<1>1. acquired = TRUE /\ blackout_attempted = TRUE
  BY DEF OutputTypeOK, PendingFits, OwedFits
<1>2. /\ planned \in Nat /\ test_sent \in Nat /\ blackout_sent \in Nat
      /\ Turns = planned
  BY OutputAssumption DEF OutputTypeOK, Turns
<1>3. /\ blackout_reason # "none" => ~BlackoutCompleted
      /\ test_reason # "none" => ~TestCompleted
  BY <1>2 DEF CountersFit, BlackoutCompleted, TestCompleted
<1>4. \A phase \in {"test", "blackout"}, failure \in Failure :
        Phase(phase, failure) = <<"none", "unexpected">> \/ Phase(phase, failure) = <<phase, failure>>
  BY DEF Phase
<1>5. CASE blackout_reason # "none"
  <2>1. \/ ResultReason = <<"none", "unexpected">>
        \/ ResultReason = <<"blackout", blackout_reason>>
    BY <1>4, <1>5 DEF ResultReason, OutputTypeOK
  <2> QED
    BY <1>1, <1>3, <1>5, <2>1 DEF Consistent
<1>6. CASE blackout_reason = "none" /\ test_reason # "none"
  <2>1. \/ ResultReason = <<"none", "unexpected">>
        \/ ResultReason = <<"test", test_reason>> /\ BlackoutCompleted
    BY <1>3, <1>4, <1>6 DEF ResultReason, OutputTypeOK
  <2> QED
    BY <1>1, <1>3, <1>6, <2>1 DEF Consistent
<1>7. CASE blackout_reason = "none" /\ test_reason = "none"
  <2>1. ResultReason = IF TestCompleted /\ BlackoutCompleted
                       THEN <<"none", IF closed THEN "validated" ELSE "cleanup_unconfirmed">>
                       ELSE <<"none", "unexpected">>
    BY <1>7 DEF ResultReason
  <2> QED
    BY <1>1, <2>1 DEF Consistent, Complete, OutputTypeOK
<1> QED
  BY <1>5, <1>6, <1>7

LEMMA ReportStep ==
  ASSUME OutputInvariant, OutputTypeOK', [Next]_vars
  PROVE  GoodReportMeansBlackout'
<1> USE DEF OutputInvariant
<1>1. CASE Report
  <2>1. Consistent(ResultReason) /\ reason' = ResultReason /\ UNCHANGED <<planned, wire>>
    BY <1>1, AcceptedReason DEF Report
  <2>2. \/ report' = "healthy" /\ reason' = <<"none", "validated">>
        \/ report' = "degraded" /\ reason' = <<"none", "cleanup_unconfirmed">>
        \/ report' = "unhealthy"
    BY <1>1 DEF Report
  <2>3. ASSUME report' \in {"healthy", "degraded"} \/ reason'[1] = "test"
        PROVE  BlackoutCompleted
    BY <2>1, <2>2, <2>3 DEF Consistent, Complete
  <2>4. BlackoutCompleted => \A k \in 1 .. planned : OnWire(k)
    BY <1>1 DEF Report, BlackoutCompleted, CountersFit, Turns
  <2> QED
    BY <2>1, <2>3, <2>4 DEF GoodReportMeansBlackout, OnWire
<1>2. CASE Resolve \/ Enter
  <2>1. place' # "ended" \/ (report' = "unhealthy" /\ reason'[1] = "before")
    BY <1>2 DEF Resolve, Enter, EndWithoutSocket
  <2> QED
    BY <2>1 DEF GoodReportMeansBlackout
<1>3. CASE Expire \/ UNCHANGED vars
  BY <1>3 DEF Expire, vars, answer, GoodReportMeansBlackout
<1>4. CASE SendTest \/ TestSent \/ BeginBlackout \/ SendBlackout \/ BlackoutSent \/ Close \/ Interrupt
  <2>1. place' # "ended"
    BY <1>4 DEF SendTest, TestSent, BeginBlackout, SendBlackout, BlackoutSent, Close, Interrupt,
       InterruptElsewhere, InterruptEnter, InterruptTest, InterruptExit, InterruptBlackout,
       InterruptClose
  <2> QED
    BY <2>1 DEF GoodReportMeansBlackout
<1> QED
  BY <1>1, <1>2, <1>3, <1>4 DEF Next

-----------------------------------------------------------------------------
(* The invariant and what follows from it.                                 *)

LEMMA InitOutput == Init => OutputInvariant
<1> SUFFICES ASSUME Init PROVE OutputInvariant
  OBVIOUS
<1>1. OutputTypeOK
  <2>1. planned \in 1 .. MaxDatagrams /\ 1 \in 1 .. planned + 1 /\ 0 \in 0 .. planned
        /\ 0 \in 0 .. MaxAttempts /\ 0 \in 0 .. MaxInterrupts /\ 0 \in 0 .. 1
    BY OutputAssumption DEF Init
  <2>2. reason \in Reason
    BY DEF Init, Reason
  <2>3. wire \in Seq(Packet)
    BY DEF Init
  <2> QED
    BY <2>1, <2>2, <2>3 DEF Init, OutputTypeOK
<1>2. NeverRetried /\ WireFits /\ PendingFits /\ OwedFits /\ GoodReportMeansBlackout
  BY DEF Init, NeverRetried, InOrder, WireFits, Preceding, PendingFits, OwedFits, CleansUp, Final,
     GoodReportMeansBlackout
<1>3. CountersFit
  BY DEF Init, CountersFit, Turns
<1> QED
  BY <1>1, <1>2, <1>3 DEF OutputInvariant

LEMMA NextKeeps == OutputInvariant /\ [Next]_vars => OutputInvariant'
<1> SUFFICES ASSUME OutputInvariant, [Next]_vars PROVE OutputInvariant'
  OBVIOUS
<1>1. OutputTypeOK'
  BY TypeStep DEF OutputInvariant
<1>2. WireFits' /\ NeverRetried'
  BY <1>1, WireStep DEF OutputInvariant
<1>3. PendingFits'
  BY PendingStep DEF OutputInvariant
<1>4. OwedFits'
  BY OwedStep DEF OutputInvariant
<1>5. CountersFit'
  BY <1>1, CountersStep DEF OutputInvariant
<1>6. GoodReportMeansBlackout'
  BY <1>1, ReportStep
<1> QED
  BY <1>1, <1>2, <1>3, <1>4, <1>5, <1>6 DEF OutputInvariant

\* The places of the command, its counters and the wire agree, always.
THEOREM OutputInvariantHolds == Spec => []OutputInvariant
BY InitOutput, NextKeeps, PTL DEF Spec

\* Every counter of the probe stays in its bound, whatever fails: in
\* particular no frame sends more than was planned, and no close is tried twice.
THEOREM OutputTypeCorrect == Spec => []OutputTypeOK
<1>1. OutputInvariant => OutputTypeOK
  BY DEF OutputInvariant
<1> QED
  BY <1>1, OutputInvariantHolds, PTL

\* No datagram goes out twice or out of order: the probe never sends again.
THEOREM NeverRetriedHolds == Spec => []NeverRetried
<1>1. OutputInvariant => NeverRetried
  BY DEF OutputInvariant
<1> QED
  BY <1>1, OutputInvariantHolds, PTL

\* A report that does not blame the blackout has all of it on the wire.
THEOREM GoodReportMeansBlackoutHolds == Spec => []GoodReportMeansBlackout
<1>1. OutputInvariant => GoodReportMeansBlackout
  BY DEF OutputInvariant
<1> QED
  BY <1>1, OutputInvariantHolds, PTL

\* The service accepts every result its probe can come to.
THEOREM ProbeAcceptedHolds == Spec => []ProbeAccepted
<1>1. OutputInvariant => ProbeAccepted
  BY AcceptedReason DEF OutputInvariant, ProbeAccepted
<1> QED
  BY <1>1, OutputInvariantHolds, PTL

\* An interrupted command never ends with a report.
THEOREM InterruptSurfacesHolds == Spec => []InterruptSurfaces
<1>1. OutputInvariant => InterruptSurfaces
  BY OutputAssumption DEF OutputInvariant, OutputTypeOK, PendingFits, InterruptSurfaces
<1> QED
  BY <1>1, OutputInvariantHolds, PTL

\* With a socket, the blackout phase and the one close come before the end,
\* unless an interrupt hits the code of both.
THEOREM CleansUpHolds == Spec => []CleansUp
<1>1. OutputInvariant => CleansUp
  BY DEF OutputInvariant, OwedFits
<1> QED
  BY <1>1, OutputInvariantHolds, PTL

-----------------------------------------------------------------------------
(* The capture of a frame.  The service sees only the flags of a result,   *)
(* the promise is about the kernel: the inductive invariant ties the flags *)
(* to what the kernel has for the process, step by step.                   *)


CaptureTypeOK ==
    /\ probe \in {"readwrite", "mmap"}
    /\ device \in [open : {0, 1}, buffers : BOOLEAN, mapping : BOOLEAN, queued : BOOLEAN,
                   streaming : BOOLEAN, frame : BOOLEAN]

(* The steps of one acquisition, and what has happened when a step begins. *)
Basis == {"opened", "capability", "format", "sized"}
ReadSteps   == {"allocate", "read"}
StreamSteps == {"negotiate", "query", "map", "queue", "start", "dequeue"}
Acquisition == {"open", "inspect", "capability", "format", "poll"} \union ReadSteps \union StreamSteps

Past ==
    CASE step = "open"                   -> {}
      [] step \in {"inspect", "capability"} -> {"opened"}
      [] step = "format"                 -> {"opened", "capability"}
      [] step \in {"allocate", "negotiate"} -> Basis
      [] step = "read"                   -> Basis \union {"allocated", "polled"}
      [] step \in {"query", "map"}       -> Basis \union {"negotiated"}
      [] step = "queue"                  -> Basis \union {"negotiated", "mapped"}
      [] step = "start"                  -> Basis \union {"negotiated", "mapped", "queued"}
      [] step = "poll" /\ probe = "readwrite" -> Basis \union {"allocated"}
      [] step = "poll" /\ probe = "mmap" ->
             Basis \union {"negotiated", "mapped", "queued", "started"}
      [] step = "dequeue" ->
             Basis \union {"negotiated", "mapped", "queued", "started", "polled"}

(* An interrupted attempt leaves the flag of its own step behind.          *)
Retried ==
    CASE step = "poll" -> {"polled"} [] step = "read" -> {"read"}
      [] step = "dequeue" -> {"dequeued"} [] OTHER -> {}

AcquisitionFits ==
    step \in Acquisition =>
        /\ Past \subseteq events /\ events \subseteq Past \union Retried
        /\ step \in ReadSteps => probe = "readwrite"
        /\ step \in StreamSteps => probe = "mmap"
        /\ why = "open" /\ bytes = "none"
        /\ device.open = IF step = "open" THEN 0 ELSE 1

(* Which flags of the clean-up cannot be set yet.                          *)
NotYet ==
    CASE step \in Acquisition \union {"stop"} ->
             {"stopped", "closed", "wiped", "unmapped", "released"}
      [] step = "wipe"    -> {"wiped", "unmapped", "released"}
      [] step = "unmap"   -> {"unmapped", "released"}
      [] step = "release" -> {"released"}
      [] OTHER            -> {}
CleanUpFits ==
    /\ events \intersect NotYet = {}
    /\ Has("stopped") => Has("started")
    /\ Has("unmapped") => Has("mapped")
    /\ Has("released") => Has("negotiated")
    /\ Has("wiped") => Buffered

(* The flags and the kernel.                                               *)
DeviceFits ==
    /\ device.open = 1  => Has("opened") /\ ~Has("closed")
    /\ device.mapping   => Has("mapped") /\ ~Has("unmapped")
    /\ device.streaming => Has("started") /\ ~Has("stopped")
    /\ device.queued    => Has("queued") /\ ~Has("received")
    /\ device.buffers   => Has("negotiated") /\ (Has("released") => device.mapping)
    /\ device.frame     => Buffered
    /\ device.frame /\ Has("wiped") => Has("started") /\ ~Has("stopped")
    /\ device.open = 0 /\ ~device.mapping =>
           ~device.buffers /\ ~device.queued /\ ~device.streaming

(* What a received frame says of the way that led to it.                   *)
ReceivedFits ==
    Has("received") =>
        /\ why = "validated" /\ bytes = "fits" /\ step \notin Acquisition
        /\ \/ /\ Basis \union {"allocated", "polled", "read"} \subseteq events
              /\ events \intersect Streaming = {}
           \/ /\ Basis \union {"negotiated", "mapped", "queued", "started", "polled", "dequeued"}
                     \subseteq events
              /\ ~Has("allocated") /\ ~Has("read")

(* A device that cannot be read has been asked for nothing yet.            *)
UnreadFits ==
    why = "readwrite_io_not_supported" =>
        Has("opened") /\ events \subseteq {"opened", "capability", "closed"}

VerdictFits ==
    /\ verdict[1] = "degraded" => step = "reported" /\ Degraded

CaptureInvariant ==
    /\ CaptureTypeOK /\ AcquisitionFits /\ CleanUpFits /\ DeviceFits
    /\ ReceivedFits /\ UnreadFits /\ VerdictFits

-----------------------------------------------------------------------------
(* A close that raises may have closed; the driver lets go with the last   *)
(* descriptor or mapping.                                                  *)
LEMMA Closing ==
  ASSUME CaptureTypeOK, CloseFrom(device)
  PROVE  /\ CaptureTypeOK' <=> probe' \in {"readwrite", "mmap"}
         /\ device'.mapping = device.mapping /\ device'.frame = device.frame
         /\ events' \in {events, events \union {"closed"}}
         /\ \/ device' = device /\ events' = events
            \/ /\ device'.open = 0
               /\ device'.buffers <=> device.buffers /\ device.mapping
               /\ device'.queued <=> device.queued /\ device.mapping
               /\ device'.streaming <=> device.streaming /\ device.mapping
  <1> DEFINE shut == [device EXCEPT !.open = @ - 1]
  <1>1. CASE device' = device /\ events' = events
    BY <1>1 DEF CaptureTypeOK
  <1>2. CASE device.open > 0 /\ device' = Left(shut)
    <2>1. shut \in [open : {0}, buffers : BOOLEAN, mapping : BOOLEAN, queued : BOOLEAN,
                     streaming : BOOLEAN, frame : BOOLEAN]
          /\ shut.buffers = device.buffers /\ shut.mapping = device.mapping
          /\ shut.queued = device.queued /\ shut.streaming = device.streaming
          /\ shut.frame = device.frame
      BY <1>2 DEF CaptureTypeOK
    <2> HIDE DEF shut
    <2> QED
      BY <1>2, <2>1 DEF CaptureTypeOK, CloseFrom, Left, Sets
  <1> QED
    BY <1>1, <1>2 DEF CloseFrom, Sets

-----------------------------------------------------------------------------
(* The acquisition, step by step.                                          *)

LEMMA OpenKeeps == CaptureInvariant /\ Open => CaptureInvariant'
  <1> SUFFICES ASSUME CaptureInvariant, Open PROVE CaptureInvariant'
    OBVIOUS
  <1> USE DEF Open, To, Sets, Has, Buffered, Fails
  <1>1. CaptureTypeOK'
    BY DEF CaptureInvariant, CaptureTypeOK, AcquisitionFits, Past, Retried, Acquisition,
       ReadSteps, StreamSteps, Basis
  <1>2. AcquisitionFits'
    BY DEF CaptureInvariant, CaptureTypeOK, AcquisitionFits, Past, Retried, Acquisition,
       ReadSteps, StreamSteps, Basis
  <1>3. CleanUpFits'
    BY DEF CaptureInvariant, AcquisitionFits, Past, Retried, Acquisition,
       ReadSteps, StreamSteps, Basis,
       CleanUpFits, NotYet
  <1>4. DeviceFits'
    BY DEF CaptureInvariant, CaptureTypeOK, AcquisitionFits, Past, Retried, Acquisition,
       ReadSteps, StreamSteps, Basis,
       DeviceFits, CleanUpFits, NotYet, ReceivedFits, Streaming
  <1>5. ReceivedFits'
    BY DEF CaptureInvariant, AcquisitionFits, Past, Retried, Acquisition,
       ReadSteps, StreamSteps, Basis,
       ReceivedFits, Streaming
  <1>6. UnreadFits'
    BY DEF CaptureInvariant, AcquisitionFits, Past, Retried, Acquisition,
       ReadSteps, StreamSteps, Basis, UnreadFits
  <1>7. VerdictFits'
    BY DEF CaptureInvariant, VerdictFits, Acquisition, ReadSteps, StreamSteps
  <1> QED
    BY <1>1, <1>2, <1>3, <1>4, <1>5, <1>6, <1>7 DEF CaptureInvariant

LEMMA InspectKeeps == CaptureInvariant /\ Inspect => CaptureInvariant'
  <1> SUFFICES ASSUME CaptureInvariant, Inspect PROVE CaptureInvariant'
    OBVIOUS
  <1> USE DEF Inspect, To, Sets, Has, Buffered, Fails
  <1>1. CaptureTypeOK'
    BY DEF CaptureInvariant, CaptureTypeOK
  <1>2. AcquisitionFits'
    BY DEF CaptureInvariant, CaptureTypeOK, AcquisitionFits, Past, Retried, Acquisition,
       ReadSteps, StreamSteps, Basis
  <1>3. CleanUpFits'
    BY DEF CaptureInvariant, AcquisitionFits, Past, Retried, Acquisition,
       ReadSteps, StreamSteps, Basis,
       CleanUpFits, NotYet
  <1>4. DeviceFits'
    BY DEF CaptureInvariant, CaptureTypeOK, AcquisitionFits, Past, Retried, Acquisition,
       ReadSteps, StreamSteps, Basis,
       DeviceFits, CleanUpFits, NotYet, ReceivedFits, Streaming
  <1>5. ReceivedFits'
    BY DEF CaptureInvariant, AcquisitionFits, Past, Retried, Acquisition,
       ReadSteps, StreamSteps, Basis,
       ReceivedFits, Streaming
  <1>6. UnreadFits'
    BY DEF CaptureInvariant, AcquisitionFits, Past, Retried, Acquisition,
       ReadSteps, StreamSteps, Basis, UnreadFits
  <1>7. VerdictFits'
    BY DEF CaptureInvariant, VerdictFits, Acquisition, ReadSteps, StreamSteps
  <1> QED
    BY <1>1, <1>2, <1>3, <1>4, <1>5, <1>6, <1>7 DEF CaptureInvariant

LEMMA CapabilityKeeps == CaptureInvariant /\ Capability => CaptureInvariant'
  <1> SUFFICES ASSUME CaptureInvariant, Capability PROVE CaptureInvariant'
    OBVIOUS
  <1> USE DEF Capability, To, Sets, Has, Buffered, Fails, Ioctl, Again
  <1>1. CaptureTypeOK'
    BY DEF CaptureInvariant, CaptureTypeOK
  <1>2. AcquisitionFits'
    BY DEF CaptureInvariant, CaptureTypeOK, AcquisitionFits, Past, Retried, Acquisition,
       ReadSteps, StreamSteps, Basis
  <1>3. CleanUpFits'
    BY DEF CaptureInvariant, AcquisitionFits, Past, Retried, Acquisition,
       ReadSteps, StreamSteps, Basis,
       CleanUpFits, NotYet
  <1>4. DeviceFits'
    BY DEF CaptureInvariant, CaptureTypeOK, AcquisitionFits, Past, Retried, Acquisition,
       ReadSteps, StreamSteps, Basis,
       DeviceFits, CleanUpFits, NotYet, ReceivedFits, Streaming
  <1>5. ReceivedFits'
    BY DEF CaptureInvariant, AcquisitionFits, Past, Retried, Acquisition,
       ReadSteps, StreamSteps, Basis,
       ReceivedFits, Streaming
  <1>6. UnreadFits'
    BY DEF CaptureInvariant, AcquisitionFits, Past, Retried, Acquisition,
       ReadSteps, StreamSteps, Basis, UnreadFits
  <1>7. VerdictFits'
    BY DEF CaptureInvariant, VerdictFits, Acquisition, ReadSteps, StreamSteps
  <1> QED
    BY <1>1, <1>2, <1>3, <1>4, <1>5, <1>6, <1>7 DEF CaptureInvariant

LEMMA FormatKeeps == CaptureInvariant /\ Format => CaptureInvariant'
  <1> SUFFICES ASSUME CaptureInvariant, Format PROVE CaptureInvariant'
    OBVIOUS
  <1> USE DEF Format, To, Sets, Has, Buffered, Fails, Ioctl, Again
  <1>1. CaptureTypeOK'
    BY DEF CaptureInvariant, CaptureTypeOK
  <1>2. AcquisitionFits'
    BY DEF CaptureInvariant, CaptureTypeOK, AcquisitionFits, Past, Retried, Acquisition,
       ReadSteps, StreamSteps, Basis
  <1>3. CleanUpFits'
    BY DEF CaptureInvariant, AcquisitionFits, Past, Retried, Acquisition,
       ReadSteps, StreamSteps, Basis,
       CleanUpFits, NotYet
  <1>4. DeviceFits'
    BY DEF CaptureInvariant, CaptureTypeOK, AcquisitionFits, Past, Retried, Acquisition,
       ReadSteps, StreamSteps, Basis,
       DeviceFits, CleanUpFits, NotYet, ReceivedFits, Streaming
  <1>5. ReceivedFits'
    BY DEF CaptureInvariant, AcquisitionFits, Past, Retried, Acquisition,
       ReadSteps, StreamSteps, Basis,
       ReceivedFits, Streaming
  <1>6. UnreadFits'
    BY DEF CaptureInvariant, AcquisitionFits, Past, Retried, Acquisition,
       ReadSteps, StreamSteps, Basis, UnreadFits
  <1>7. VerdictFits'
    BY DEF CaptureInvariant, VerdictFits, Acquisition, ReadSteps, StreamSteps
  <1> QED
    BY <1>1, <1>2, <1>3, <1>4, <1>5, <1>6, <1>7 DEF CaptureInvariant

LEMMA AllocateKeeps == CaptureInvariant /\ Allocate => CaptureInvariant'
  <1> SUFFICES ASSUME CaptureInvariant, Allocate PROVE CaptureInvariant'
    OBVIOUS
  <1> USE DEF Allocate, To, Sets, Has, Buffered, Fails
  <1>1. CaptureTypeOK'
    BY DEF CaptureInvariant, CaptureTypeOK
  <1>2. AcquisitionFits'
    BY DEF CaptureInvariant, CaptureTypeOK, AcquisitionFits, Past, Retried, Acquisition,
       ReadSteps, StreamSteps, Basis
  <1>3. CleanUpFits'
    BY DEF CaptureInvariant, AcquisitionFits, Past, Retried, Acquisition,
       ReadSteps, StreamSteps, Basis,
       CleanUpFits, NotYet
  <1>4. DeviceFits'
    BY DEF CaptureInvariant, CaptureTypeOK, AcquisitionFits, Past, Retried, Acquisition,
       ReadSteps, StreamSteps, Basis,
       DeviceFits, CleanUpFits, NotYet, ReceivedFits, Streaming
  <1>5. ReceivedFits'
    BY DEF CaptureInvariant, AcquisitionFits, Past, Retried, Acquisition,
       ReadSteps, StreamSteps, Basis,
       ReceivedFits, Streaming
  <1>6. UnreadFits'
    BY DEF CaptureInvariant, AcquisitionFits, Past, Retried, Acquisition,
       ReadSteps, StreamSteps, Basis, UnreadFits
  <1>7. VerdictFits'
    BY DEF CaptureInvariant, VerdictFits, Acquisition, ReadSteps, StreamSteps
  <1> QED
    BY <1>1, <1>2, <1>3, <1>4, <1>5, <1>6, <1>7 DEF CaptureInvariant

LEMMA PollKeeps == CaptureInvariant /\ Poll => CaptureInvariant'
  <1> SUFFICES ASSUME CaptureInvariant, Poll PROVE CaptureInvariant'
    OBVIOUS
  <1> USE DEF Poll, To, Sets, Has, Buffered, Fails, Bounded, Again
  <1>1. CaptureTypeOK'
    BY DEF CaptureInvariant, CaptureTypeOK
  <1>2. AcquisitionFits'
    BY DEF CaptureInvariant, CaptureTypeOK, AcquisitionFits, Past, Retried, Acquisition,
       ReadSteps, StreamSteps, Basis
  <1>3. CleanUpFits'
    BY DEF CaptureInvariant, AcquisitionFits, Past, Retried, Acquisition,
       ReadSteps, StreamSteps, Basis,
       CleanUpFits, NotYet
  <1>4. DeviceFits'
    BY DEF CaptureInvariant, CaptureTypeOK, AcquisitionFits, Past, Retried, Acquisition,
       ReadSteps, StreamSteps, Basis,
       DeviceFits, CleanUpFits, NotYet, ReceivedFits, Streaming
  <1>5. ReceivedFits'
    BY DEF CaptureInvariant, AcquisitionFits, Past, Retried, Acquisition,
       ReadSteps, StreamSteps, Basis,
       ReceivedFits, Streaming
  <1>6. UnreadFits'
    BY DEF CaptureInvariant, AcquisitionFits, Past, Retried, Acquisition,
       ReadSteps, StreamSteps, Basis, UnreadFits
  <1>7. VerdictFits'
    BY DEF CaptureInvariant, VerdictFits, Acquisition, ReadSteps, StreamSteps
  <1> QED
    BY <1>1, <1>2, <1>3, <1>4, <1>5, <1>6, <1>7 DEF CaptureInvariant

LEMMA ReadKeeps == CaptureInvariant /\ Read => CaptureInvariant'
  <1> SUFFICES ASSUME CaptureInvariant, Read PROVE CaptureInvariant'
    OBVIOUS
  <1> USE DEF Read, To, Sets, Has, Buffered, Fails, Bounded, Again
  <1>1. CaptureTypeOK'
    BY DEF CaptureInvariant, CaptureTypeOK
  <1>2. AcquisitionFits'
    BY DEF CaptureInvariant, CaptureTypeOK, AcquisitionFits, Past, Retried, Acquisition,
       ReadSteps, StreamSteps, Basis
  <1>3. CleanUpFits'
    BY DEF CaptureInvariant, AcquisitionFits, Past, Retried, Acquisition,
       ReadSteps, StreamSteps, Basis,
       CleanUpFits, NotYet
  <1>4. DeviceFits'
    BY DEF CaptureInvariant, CaptureTypeOK, AcquisitionFits, Past, Retried, Acquisition,
       ReadSteps, StreamSteps, Basis,
       DeviceFits, CleanUpFits, NotYet, ReceivedFits, Streaming
  <1>5. ReceivedFits'
    BY DEF CaptureInvariant, AcquisitionFits, Past, Retried, Acquisition,
       ReadSteps, StreamSteps, Basis,
       ReceivedFits, Streaming
  <1>6. UnreadFits'
    BY DEF CaptureInvariant, AcquisitionFits, Past, Retried, Acquisition,
       ReadSteps, StreamSteps, Basis, UnreadFits
  <1>7. VerdictFits'
    BY DEF CaptureInvariant, VerdictFits, Acquisition, ReadSteps, StreamSteps
  <1> QED
    BY <1>1, <1>2, <1>3, <1>4, <1>5, <1>6, <1>7 DEF CaptureInvariant

LEMMA NegotiateKeeps == CaptureInvariant /\ Negotiate => CaptureInvariant'
  <1> SUFFICES ASSUME CaptureInvariant, Negotiate PROVE CaptureInvariant'
    OBVIOUS
  <1> USE DEF Negotiate, To, Sets, Has, Buffered, Fails, Ioctl, Again
  <1>1. CaptureTypeOK'
    BY DEF CaptureInvariant, CaptureTypeOK
  <1>2. AcquisitionFits'
    BY DEF CaptureInvariant, CaptureTypeOK, AcquisitionFits, Past, Retried, Acquisition,
       ReadSteps, StreamSteps, Basis
  <1>3. CleanUpFits'
    BY DEF CaptureInvariant, AcquisitionFits, Past, Retried, Acquisition,
       ReadSteps, StreamSteps, Basis,
       CleanUpFits, NotYet
  <1>4. DeviceFits'
    BY DEF CaptureInvariant, CaptureTypeOK, AcquisitionFits, Past, Retried, Acquisition,
       ReadSteps, StreamSteps, Basis,
       DeviceFits, CleanUpFits, NotYet, ReceivedFits, Streaming
  <1>5. ReceivedFits'
    BY DEF CaptureInvariant, AcquisitionFits, Past, Retried, Acquisition,
       ReadSteps, StreamSteps, Basis,
       ReceivedFits, Streaming
  <1>6. UnreadFits'
    BY DEF CaptureInvariant, AcquisitionFits, Past, Retried, Acquisition,
       ReadSteps, StreamSteps, Basis, UnreadFits
  <1>7. VerdictFits'
    BY DEF CaptureInvariant, VerdictFits, Acquisition, ReadSteps, StreamSteps
  <1> QED
    BY <1>1, <1>2, <1>3, <1>4, <1>5, <1>6, <1>7 DEF CaptureInvariant

LEMMA QueryKeeps == CaptureInvariant /\ Query => CaptureInvariant'
  <1> SUFFICES ASSUME CaptureInvariant, Query PROVE CaptureInvariant'
    OBVIOUS
  <1> USE DEF Query, To, Sets, Has, Buffered, Fails, Ioctl, Again
  <1>1. CaptureTypeOK'
    BY DEF CaptureInvariant, CaptureTypeOK
  <1>2. AcquisitionFits'
    BY DEF CaptureInvariant, CaptureTypeOK, AcquisitionFits, Past, Retried, Acquisition,
       ReadSteps, StreamSteps, Basis
  <1>3. CleanUpFits'
    BY DEF CaptureInvariant, AcquisitionFits, Past, Retried, Acquisition,
       ReadSteps, StreamSteps, Basis,
       CleanUpFits, NotYet
  <1>4. DeviceFits'
    BY DEF CaptureInvariant, CaptureTypeOK, AcquisitionFits, Past, Retried, Acquisition,
       ReadSteps, StreamSteps, Basis,
       DeviceFits, CleanUpFits, NotYet, ReceivedFits, Streaming
  <1>5. ReceivedFits'
    BY DEF CaptureInvariant, AcquisitionFits, Past, Retried, Acquisition,
       ReadSteps, StreamSteps, Basis,
       ReceivedFits, Streaming
  <1>6. UnreadFits'
    BY DEF CaptureInvariant, AcquisitionFits, Past, Retried, Acquisition,
       ReadSteps, StreamSteps, Basis, UnreadFits
  <1>7. VerdictFits'
    BY DEF CaptureInvariant, VerdictFits, Acquisition, ReadSteps, StreamSteps
  <1> QED
    BY <1>1, <1>2, <1>3, <1>4, <1>5, <1>6, <1>7 DEF CaptureInvariant

LEMMA MapKeeps == CaptureInvariant /\ Map => CaptureInvariant'
  <1> SUFFICES ASSUME CaptureInvariant, Map PROVE CaptureInvariant'
    OBVIOUS
  <1> USE DEF Map, To, Sets, Has, Buffered, Fails
  <1>1. CaptureTypeOK'
    BY DEF CaptureInvariant, CaptureTypeOK
  <1>2. AcquisitionFits'
    BY DEF CaptureInvariant, CaptureTypeOK, AcquisitionFits, Past, Retried, Acquisition,
       ReadSteps, StreamSteps, Basis
  <1>3. CleanUpFits'
    BY DEF CaptureInvariant, AcquisitionFits, Past, Retried, Acquisition,
       ReadSteps, StreamSteps, Basis,
       CleanUpFits, NotYet
  <1>4. DeviceFits'
    BY DEF CaptureInvariant, CaptureTypeOK, AcquisitionFits, Past, Retried, Acquisition,
       ReadSteps, StreamSteps, Basis,
       DeviceFits, CleanUpFits, NotYet, ReceivedFits, Streaming
  <1>5. ReceivedFits'
    BY DEF CaptureInvariant, AcquisitionFits, Past, Retried, Acquisition,
       ReadSteps, StreamSteps, Basis,
       ReceivedFits, Streaming
  <1>6. UnreadFits'
    BY DEF CaptureInvariant, AcquisitionFits, Past, Retried, Acquisition,
       ReadSteps, StreamSteps, Basis, UnreadFits
  <1>7. VerdictFits'
    BY DEF CaptureInvariant, VerdictFits, Acquisition, ReadSteps, StreamSteps
  <1> QED
    BY <1>1, <1>2, <1>3, <1>4, <1>5, <1>6, <1>7 DEF CaptureInvariant

LEMMA QueueKeeps == CaptureInvariant /\ Queue => CaptureInvariant'
  <1> SUFFICES ASSUME CaptureInvariant, Queue PROVE CaptureInvariant'
    OBVIOUS
  <1> USE DEF Queue, To, Sets, Has, Buffered, Fails, Ioctl, Again
  <1>1. CaptureTypeOK'
    BY DEF CaptureInvariant, CaptureTypeOK
  <1>2. AcquisitionFits'
    BY DEF CaptureInvariant, CaptureTypeOK, AcquisitionFits, Past, Retried, Acquisition,
       ReadSteps, StreamSteps, Basis
  <1>3. CleanUpFits'
    BY DEF CaptureInvariant, AcquisitionFits, Past, Retried, Acquisition,
       ReadSteps, StreamSteps, Basis,
       CleanUpFits, NotYet
  <1>4. DeviceFits'
    BY DEF CaptureInvariant, CaptureTypeOK, AcquisitionFits, Past, Retried, Acquisition,
       ReadSteps, StreamSteps, Basis,
       DeviceFits, CleanUpFits, NotYet, ReceivedFits, Streaming
  <1>5. ReceivedFits'
    BY DEF CaptureInvariant, AcquisitionFits, Past, Retried, Acquisition,
       ReadSteps, StreamSteps, Basis,
       ReceivedFits, Streaming
  <1>6. UnreadFits'
    BY DEF CaptureInvariant, AcquisitionFits, Past, Retried, Acquisition,
       ReadSteps, StreamSteps, Basis, UnreadFits
  <1>7. VerdictFits'
    BY DEF CaptureInvariant, VerdictFits, Acquisition, ReadSteps, StreamSteps
  <1> QED
    BY <1>1, <1>2, <1>3, <1>4, <1>5, <1>6, <1>7 DEF CaptureInvariant

LEMMA StartKeeps == CaptureInvariant /\ Start => CaptureInvariant'
  <1> SUFFICES ASSUME CaptureInvariant, Start PROVE CaptureInvariant'
    OBVIOUS
  <1> USE DEF Start, To, Sets, Has, Buffered, Fails, Ioctl, Again
  <1>1. CaptureTypeOK'
    BY DEF CaptureInvariant, CaptureTypeOK
  <1>2. AcquisitionFits'
    BY DEF CaptureInvariant, CaptureTypeOK, AcquisitionFits, Past, Retried, Acquisition,
       ReadSteps, StreamSteps, Basis
  <1>3. CleanUpFits'
    BY DEF CaptureInvariant, AcquisitionFits, Past, Retried, Acquisition,
       ReadSteps, StreamSteps, Basis,
       CleanUpFits, NotYet
  <1>4. DeviceFits'
    BY DEF CaptureInvariant, CaptureTypeOK, AcquisitionFits, Past, Retried, Acquisition,
       ReadSteps, StreamSteps, Basis,
       DeviceFits, CleanUpFits, NotYet, ReceivedFits, Streaming
  <1>5. ReceivedFits'
    BY DEF CaptureInvariant, AcquisitionFits, Past, Retried, Acquisition,
       ReadSteps, StreamSteps, Basis,
       ReceivedFits, Streaming
  <1>6. UnreadFits'
    BY DEF CaptureInvariant, AcquisitionFits, Past, Retried, Acquisition,
       ReadSteps, StreamSteps, Basis, UnreadFits
  <1>7. VerdictFits'
    BY DEF CaptureInvariant, VerdictFits, Acquisition, ReadSteps, StreamSteps
  <1> QED
    BY <1>1, <1>2, <1>3, <1>4, <1>5, <1>6, <1>7 DEF CaptureInvariant

LEMMA DequeueKeeps == CaptureInvariant /\ Dequeue => CaptureInvariant'
  <1> SUFFICES ASSUME CaptureInvariant, Dequeue PROVE CaptureInvariant'
    OBVIOUS
  <1> USE DEF Dequeue, To, Sets, Has, Buffered, Fails, Ioctl, Again
  <1>1. CaptureTypeOK'
    BY DEF CaptureInvariant, CaptureTypeOK
  <1>2. AcquisitionFits'
    BY DEF CaptureInvariant, CaptureTypeOK, AcquisitionFits, Past, Retried, Acquisition,
       ReadSteps, StreamSteps, Basis
  <1>3. CleanUpFits'
    BY DEF CaptureInvariant, AcquisitionFits, Past, Retried, Acquisition,
       ReadSteps, StreamSteps, Basis,
       CleanUpFits, NotYet
  <1>4. DeviceFits'
    <2>1. CASE UNCHANGED device /\ "received" \notin events'
      BY <2>1 DEF CaptureInvariant, DeviceFits
    <2>2. CASE device' = [device EXCEPT !.queued = FALSE, !.frame = TRUE]
      <3>1. /\ device'.open = 1 /\ device'.frame /\ ~device'.queued
            /\ device'.mapping = device.mapping /\ device'.buffers = device.buffers
            /\ device'.streaming = device.streaming
        BY <2>2 DEF CaptureInvariant, CaptureTypeOK, AcquisitionFits, Past, Retried, Acquisition,
       ReadSteps, StreamSteps, Basis
      <3> QED
        BY <3>1 DEF CaptureInvariant, AcquisitionFits, Past, Retried, Acquisition,
       ReadSteps, StreamSteps, Basis,
           DeviceFits, CleanUpFits, NotYet
    <2> QED
      BY <2>1, <2>2 DEF CaptureInvariant, AcquisitionFits, Past, Retried, Acquisition,
       ReadSteps, StreamSteps, Basis
  <1>5. ReceivedFits'
    BY DEF CaptureInvariant, AcquisitionFits, Past, Retried, Acquisition,
       ReadSteps, StreamSteps, Basis,
       ReceivedFits, Streaming
  <1>6. UnreadFits'
    BY DEF CaptureInvariant, AcquisitionFits, Past, Retried, Acquisition,
       ReadSteps, StreamSteps, Basis, UnreadFits
  <1>7. VerdictFits'
    BY DEF CaptureInvariant, VerdictFits, Acquisition, ReadSteps, StreamSteps
  <1> QED
    BY <1>1, <1>2, <1>3, <1>4, <1>5, <1>6, <1>7 DEF CaptureInvariant

-----------------------------------------------------------------------------
(* The clean-up, step by step.                                             *)

LEMMA StopKeeps == CaptureInvariant /\ Stop => CaptureInvariant'
  <1> SUFFICES ASSUME CaptureInvariant, Stop PROVE CaptureInvariant'
    OBVIOUS
  <1> USE DEF Stop, To, Sets, Has, Buffered, Onward
  <1>0. CASE Has("started") /\ CloseFrom(device)
    <2>1. /\ CaptureTypeOK' /\ device'.mapping = device.mapping /\ device'.frame = device.frame
          /\ events' \in {events, events \union {"closed"}}
          /\ \/ device' = device /\ events' = events
             \/ /\ device'.open = 0
                /\ device'.buffers <=> device.buffers /\ device.mapping
                /\ device'.queued <=> device.queued /\ device.mapping
                /\ device'.streaming <=> device.streaming /\ device.mapping
      BY <1>0, Closing DEF CaptureInvariant, CaptureTypeOK
    <2>2. step = "stop" /\ step' = "wipe" /\ UNCHANGED <<probe, overdue, verdict, bytes, why>>
      BY <1>0
    <2>3. AcquisitionFits'
      BY <1>0, <2>1, <2>2 DEF CaptureInvariant, CaptureTypeOK, AcquisitionFits, Past, Retried, Acquisition,
       ReadSteps, StreamSteps, Basis
    <2>4. CleanUpFits'
      BY <1>0, <2>1, <2>2 DEF CaptureInvariant, AcquisitionFits, Past, Retried, Acquisition,
       ReadSteps, StreamSteps, Basis,
       CleanUpFits, NotYet
    <2>5. DeviceFits'
      BY <1>0, <2>1, <2>2 DEF CaptureInvariant, CaptureTypeOK, AcquisitionFits, Past, Retried, Acquisition,
       ReadSteps, StreamSteps, Basis,
       DeviceFits, CleanUpFits, NotYet, ReceivedFits, Streaming
    <2>6. ReceivedFits'
      BY <1>0, <2>1, <2>2 DEF CaptureInvariant, AcquisitionFits, Past, Retried, Acquisition,
       ReadSteps, StreamSteps, Basis,
       ReceivedFits, Streaming
    <2>7. UnreadFits'
      BY <1>0, <2>1, <2>2 DEF CaptureInvariant, AcquisitionFits, Past, Retried, Acquisition,
       ReadSteps, StreamSteps, Basis, UnreadFits
    <2>8. VerdictFits'
      BY <1>0, <2>1, <2>2 DEF CaptureInvariant, VerdictFits, Acquisition, ReadSteps, StreamSteps
    <2> QED
      BY <2>1, <2>3, <2>4, <2>5, <2>6, <2>7, <2>8 DEF CaptureInvariant
  <1> SUFFICES ASSUME ~(Has("started") /\ CloseFrom(device)) PROVE CaptureInvariant'
    BY <1>0
  <1>1. CaptureTypeOK'
    BY DEF CaptureInvariant, CaptureTypeOK
  <1>2. AcquisitionFits'
    BY DEF CaptureInvariant, CaptureTypeOK, AcquisitionFits, Past, Retried, Acquisition,
       ReadSteps, StreamSteps, Basis
  <1>3. CleanUpFits'
    BY DEF CaptureInvariant, AcquisitionFits, Past, Retried, Acquisition,
       ReadSteps, StreamSteps, Basis,
       CleanUpFits, NotYet
  <1>4. DeviceFits'
    BY DEF CaptureInvariant, CaptureTypeOK, AcquisitionFits, Past, Retried, Acquisition,
       ReadSteps, StreamSteps, Basis,
       DeviceFits, CleanUpFits, NotYet, ReceivedFits, Streaming
  <1>5. ReceivedFits'
    BY DEF CaptureInvariant, AcquisitionFits, Past, Retried, Acquisition,
       ReadSteps, StreamSteps, Basis,
       ReceivedFits, Streaming
  <1>6. UnreadFits'
    BY DEF CaptureInvariant, AcquisitionFits, Past, Retried, Acquisition,
       ReadSteps, StreamSteps, Basis, UnreadFits
  <1>7. VerdictFits'
    BY DEF CaptureInvariant, VerdictFits, Acquisition, ReadSteps, StreamSteps
  <1> QED
    BY <1>1, <1>2, <1>3, <1>4, <1>5, <1>6, <1>7 DEF CaptureInvariant

LEMMA WipeKeeps == CaptureInvariant /\ Wipe => CaptureInvariant'
  <1> SUFFICES ASSUME CaptureInvariant, Wipe PROVE CaptureInvariant'
    OBVIOUS
  <1> USE DEF Wipe, To, Sets, Has, Buffered, Onward, SafeToWipe
  <1>1. CaptureTypeOK'
    BY DEF CaptureInvariant, CaptureTypeOK
  <1>2. AcquisitionFits'
    BY DEF CaptureInvariant, CaptureTypeOK, AcquisitionFits, Past, Retried, Acquisition,
       ReadSteps, StreamSteps, Basis
  <1>3. CleanUpFits'
    BY DEF CaptureInvariant, AcquisitionFits, Past, Retried, Acquisition,
       ReadSteps, StreamSteps, Basis,
       CleanUpFits, NotYet
  <1>4. DeviceFits'
    BY DEF CaptureInvariant, CaptureTypeOK, AcquisitionFits, Past, Retried, Acquisition,
       ReadSteps, StreamSteps, Basis,
       DeviceFits, CleanUpFits, NotYet, ReceivedFits, Streaming
  <1>5. ReceivedFits'
    BY DEF CaptureInvariant, AcquisitionFits, Past, Retried, Acquisition,
       ReadSteps, StreamSteps, Basis,
       ReceivedFits, Streaming
  <1>6. UnreadFits'
    BY DEF CaptureInvariant, AcquisitionFits, Past, Retried, Acquisition,
       ReadSteps, StreamSteps, Basis, UnreadFits
  <1>7. VerdictFits'
    BY DEF CaptureInvariant, VerdictFits, Acquisition, ReadSteps, StreamSteps
  <1> QED
    BY <1>1, <1>2, <1>3, <1>4, <1>5, <1>6, <1>7 DEF CaptureInvariant

LEMMA UnmapKeeps == CaptureInvariant /\ Unmap => CaptureInvariant'
  <1> SUFFICES ASSUME CaptureInvariant, Unmap PROVE CaptureInvariant'
    OBVIOUS
  <1> USE DEF Unmap, To, Sets, Has, Buffered, Onward, Left
  <1>1. CaptureTypeOK'
    BY DEF CaptureInvariant, CaptureTypeOK
  <1>2. AcquisitionFits'
    BY DEF CaptureInvariant, CaptureTypeOK, AcquisitionFits, Past, Retried, Acquisition,
       ReadSteps, StreamSteps, Basis
  <1>3. CleanUpFits'
    BY DEF CaptureInvariant, AcquisitionFits, Past, Retried, Acquisition,
       ReadSteps, StreamSteps, Basis,
       CleanUpFits, NotYet
  <1>4. DeviceFits'
    BY DEF CaptureInvariant, CaptureTypeOK, AcquisitionFits, Past, Retried, Acquisition,
       ReadSteps, StreamSteps, Basis,
       DeviceFits, CleanUpFits, NotYet, ReceivedFits, Streaming
  <1>5. ReceivedFits'
    BY DEF CaptureInvariant, AcquisitionFits, Past, Retried, Acquisition,
       ReadSteps, StreamSteps, Basis,
       ReceivedFits, Streaming
  <1>6. UnreadFits'
    BY DEF CaptureInvariant, AcquisitionFits, Past, Retried, Acquisition,
       ReadSteps, StreamSteps, Basis, UnreadFits
  <1>7. VerdictFits'
    BY DEF CaptureInvariant, VerdictFits, Acquisition, ReadSteps, StreamSteps
  <1> QED
    BY <1>1, <1>2, <1>3, <1>4, <1>5, <1>6, <1>7 DEF CaptureInvariant

LEMMA ReleaseKeeps == CaptureInvariant /\ Release => CaptureInvariant'
  <1> SUFFICES ASSUME CaptureInvariant, Release PROVE CaptureInvariant'
    OBVIOUS
  <1> USE DEF Release, To, Sets, Has, Buffered, Onward
  <1>1. CaptureTypeOK'
    BY DEF CaptureInvariant, CaptureTypeOK
  <1>2. AcquisitionFits'
    BY DEF CaptureInvariant, CaptureTypeOK, AcquisitionFits, Past, Retried, Acquisition,
       ReadSteps, StreamSteps, Basis
  <1>3. CleanUpFits'
    BY DEF CaptureInvariant, AcquisitionFits, Past, Retried, Acquisition,
       ReadSteps, StreamSteps, Basis,
       CleanUpFits, NotYet
  <1>4. DeviceFits'
    BY DEF CaptureInvariant, CaptureTypeOK, AcquisitionFits, Past, Retried, Acquisition,
       ReadSteps, StreamSteps, Basis,
       DeviceFits, CleanUpFits, NotYet, ReceivedFits, Streaming
  <1>5. ReceivedFits'
    BY DEF CaptureInvariant, AcquisitionFits, Past, Retried, Acquisition,
       ReadSteps, StreamSteps, Basis,
       ReceivedFits, Streaming
  <1>6. UnreadFits'
    BY DEF CaptureInvariant, AcquisitionFits, Past, Retried, Acquisition,
       ReadSteps, StreamSteps, Basis, UnreadFits
  <1>7. VerdictFits'
    BY DEF CaptureInvariant, VerdictFits, Acquisition, ReadSteps, StreamSteps
  <1> QED
    BY <1>1, <1>2, <1>3, <1>4, <1>5, <1>6, <1>7 DEF CaptureInvariant

LEMMA CloseDeviceKeeps == CaptureInvariant /\ CloseDevice => CaptureInvariant'
  <1> SUFFICES ASSUME CaptureInvariant, CloseDevice PROVE CaptureInvariant'
    OBVIOUS
  <1> USE DEF CloseDevice, To, Sets, Has, Buffered, Onward
  <1>0. CASE ~Has("closed") /\ CloseFrom(device)
    <2>1. /\ CaptureTypeOK' /\ device'.mapping = device.mapping /\ device'.frame = device.frame
          /\ events' \in {events, events \union {"closed"}}
          /\ \/ device' = device /\ events' = events
             \/ /\ device'.open = 0
                /\ device'.buffers <=> device.buffers /\ device.mapping
                /\ device'.queued <=> device.queued /\ device.mapping
                /\ device'.streaming <=> device.streaming /\ device.mapping
      BY <1>0, Closing DEF CaptureInvariant, CaptureTypeOK
    <2>2. step = "close" /\ step' = "judge" /\ UNCHANGED <<probe, overdue, verdict, bytes, why>>
      BY <1>0
    <2>3. AcquisitionFits'
      BY <1>0, <2>1, <2>2 DEF CaptureInvariant, CaptureTypeOK, AcquisitionFits, Past, Retried, Acquisition,
       ReadSteps, StreamSteps, Basis
    <2>4. CleanUpFits'
      BY <1>0, <2>1, <2>2 DEF CaptureInvariant, AcquisitionFits, Past, Retried, Acquisition,
       ReadSteps, StreamSteps, Basis,
       CleanUpFits, NotYet
    <2>5. DeviceFits'
      BY <1>0, <2>1, <2>2 DEF CaptureInvariant, CaptureTypeOK, AcquisitionFits, Past, Retried, Acquisition,
       ReadSteps, StreamSteps, Basis,
       DeviceFits, CleanUpFits, NotYet, ReceivedFits, Streaming
    <2>6. ReceivedFits'
      BY <1>0, <2>1, <2>2 DEF CaptureInvariant, AcquisitionFits, Past, Retried, Acquisition,
       ReadSteps, StreamSteps, Basis,
       ReceivedFits, Streaming
    <2>7. UnreadFits'
      BY <1>0, <2>1, <2>2 DEF CaptureInvariant, AcquisitionFits, Past, Retried, Acquisition,
       ReadSteps, StreamSteps, Basis, UnreadFits
    <2>8. VerdictFits'
      BY <1>0, <2>1, <2>2 DEF CaptureInvariant, VerdictFits, Acquisition, ReadSteps, StreamSteps
    <2> QED
      BY <2>1, <2>3, <2>4, <2>5, <2>6, <2>7, <2>8 DEF CaptureInvariant
  <1> SUFFICES ASSUME ~(~Has("closed") /\ CloseFrom(device)) PROVE CaptureInvariant'
    BY <1>0
  <1>1. CaptureTypeOK'
    BY DEF CaptureInvariant, CaptureTypeOK
  <1>2. AcquisitionFits'
    BY DEF CaptureInvariant, CaptureTypeOK, AcquisitionFits, Past, Retried, Acquisition,
       ReadSteps, StreamSteps, Basis
  <1>3. CleanUpFits'
    BY DEF CaptureInvariant, AcquisitionFits, Past, Retried, Acquisition,
       ReadSteps, StreamSteps, Basis,
       CleanUpFits, NotYet
  <1>4. DeviceFits'
    BY DEF CaptureInvariant, CaptureTypeOK, AcquisitionFits, Past, Retried, Acquisition,
       ReadSteps, StreamSteps, Basis,
       DeviceFits, CleanUpFits, NotYet, ReceivedFits, Streaming
  <1>5. ReceivedFits'
    BY DEF CaptureInvariant, AcquisitionFits, Past, Retried, Acquisition,
       ReadSteps, StreamSteps, Basis,
       ReceivedFits, Streaming
  <1>6. UnreadFits'
    BY DEF CaptureInvariant, AcquisitionFits, Past, Retried, Acquisition,
       ReadSteps, StreamSteps, Basis, UnreadFits
  <1>7. VerdictFits'
    BY DEF CaptureInvariant, VerdictFits, Acquisition, ReadSteps, StreamSteps
  <1> QED
    BY <1>1, <1>2, <1>3, <1>4, <1>5, <1>6, <1>7 DEF CaptureInvariant

-----------------------------------------------------------------------------
(* The other steps                                                         *)

LEMMA DeadlineKeeps == CaptureInvariant /\ Deadline => CaptureInvariant'
  BY DEF Deadline, CaptureInvariant, CaptureTypeOK, AcquisitionFits, Past, Retried, Acquisition,
         ReadSteps, StreamSteps, CleanUpFits, NotYet, DeviceFits, ReceivedFits, UnreadFits,
         VerdictFits, Has, Buffered, Streaming

(* The device writes while it streams, so the flags know of a buffer; if   *)
(* that was wiped the stream was not stopped.                              *)
LEMMA DeviceWritesKeeps == CaptureInvariant /\ DeviceWrites => CaptureInvariant'
  <1> SUFFICES ASSUME CaptureInvariant, DeviceWrites PROVE CaptureInvariant'
    OBVIOUS
  <1> USE DEF DeviceWrites, attempt
  <1>1. CaptureTypeOK' /\ DeviceFits'
    BY DEF CaptureInvariant, CaptureTypeOK, DeviceFits, Has, Buffered
  <1>2. AcquisitionFits'
    BY DEF CaptureInvariant, CaptureTypeOK, AcquisitionFits, Past, Retried
  <1>3. CleanUpFits' /\ ReceivedFits' /\ UnreadFits'
    BY DEF CaptureInvariant, CleanUpFits, NotYet, ReceivedFits, UnreadFits, Has, Buffered
  <1>4. VerdictFits'
    BY DEF CaptureInvariant, VerdictFits, Degraded, Got, Path, Method, ResultCode, Has, Buffered
  <1> QED
    BY <1>1, <1>2, <1>3, <1>4 DEF CaptureInvariant

(* The second probe finds nothing of the first.                            *)
LEMMA NothingIsLeft ==
  ASSUME CaptureInvariant, CannotRead
  PROVE  device = NoDevice
  <1>1. why = "readwrite_io_not_supported" /\ (Has("opened") => Has("closed"))
    BY DEF CannotRead, ResultCode
  <1>2. device.open = 0 /\ ~device.mapping /\ ~device.frame
    BY <1>1 DEF CaptureInvariant, CaptureTypeOK, UnreadFits, DeviceFits, Has, Buffered
  <1>3. ~device.buffers /\ ~device.queued /\ ~device.streaming
    BY <1>2 DEF CaptureInvariant, DeviceFits
  <1> QED
    BY <1>2, <1>3 DEF CaptureInvariant, CaptureTypeOK, NoDevice

LEMMA FallBackKeeps == CaptureInvariant /\ FallBack => CaptureInvariant'
  <1> SUFFICES ASSUME CaptureInvariant, FallBack PROVE CaptureInvariant'
    OBVIOUS
  <1>1. device' = NoDevice /\ events' = {} /\ step' = "open" /\ probe' = "mmap"
        /\ why' = "open" /\ bytes' = "none" /\ verdict' = verdict
    BY NothingIsLeft DEF FallBack
  <1>2. CaptureTypeOK' /\ DeviceFits'
    BY <1>1 DEF CaptureTypeOK, DeviceFits, NoDevice, Has, Buffered
  <1>3. AcquisitionFits'
    BY <1>1 DEF AcquisitionFits, Past, Retried, Acquisition, ReadSteps, StreamSteps, NoDevice
  <1>4. CleanUpFits' /\ ReceivedFits' /\ UnreadFits'
    BY <1>1 DEF CleanUpFits, ReceivedFits, UnreadFits, Has, Buffered
  <1>5. VerdictFits'
    BY <1>1 DEF CaptureInvariant, VerdictFits, FallBack
  <1> QED
    BY <1>2, <1>3, <1>4, <1>5 DEF CaptureInvariant

LEMMA JudgeKeeps == CaptureInvariant /\ Judge => CaptureInvariant'
  <1> SUFFICES ASSUME CaptureInvariant, Judge PROVE CaptureInvariant'
    OBVIOUS
  <1>1. UNCHANGED <<probe, events, bytes, why, device>> /\ step = "judge" /\ step' = "reported"
    BY DEF Judge
  <1>2. CaptureTypeOK' /\ DeviceFits'
    BY <1>1 DEF CaptureInvariant, CaptureTypeOK, DeviceFits, Has, Buffered
  <1>3. AcquisitionFits' /\ CleanUpFits'
    BY <1>1 DEF CaptureInvariant, AcquisitionFits, Acquisition, ReadSteps, StreamSteps,
       CleanUpFits, NotYet, Has, Buffered
  <1>4. ReceivedFits' /\ UnreadFits'
    BY <1>1 DEF CaptureInvariant, ReceivedFits, UnreadFits, Acquisition, ReadSteps, StreamSteps, Has
  <1>5. VerdictFits'
    <2>1. verdict'[1] = "degraded" => Degraded
      BY DEF Judge
    <2>2. Degraded' <=> Degraded
      BY <1>1 DEF Degraded, Got, Path, Method, ResultCode,
         Has, Buffered
    <2> QED
      BY <1>1, <2>1, <2>2 DEF VerdictFits
  <1> QED
    BY <1>2, <1>3, <1>4, <1>5 DEF CaptureInvariant

LEMMA InitCapture == CaptureInit => CaptureInvariant
  <1> SUFFICES ASSUME CaptureInit PROVE CaptureInvariant
    OBVIOUS
  <1>1. CaptureTypeOK /\ DeviceFits
    BY DEF CaptureInit, CaptureTypeOK, DeviceFits, NoDevice, Has, Buffered
  <1>2. AcquisitionFits
    BY DEF CaptureInit, AcquisitionFits, Past, Retried, Acquisition, ReadSteps, StreamSteps,
       NoDevice
  <1>3. CleanUpFits /\ ReceivedFits /\ UnreadFits /\ VerdictFits
    BY DEF CaptureInit, CleanUpFits, ReceivedFits, UnreadFits, VerdictFits, Has, Buffered
  <1> QED
    BY <1>1, <1>2, <1>3 DEF CaptureInvariant

LEMMA CaptureStep == CaptureInvariant /\ [CaptureNext]_captureVars => CaptureInvariant'
  <1> SUFFICES ASSUME CaptureInvariant, [CaptureNext]_captureVars PROVE CaptureInvariant'
    OBVIOUS
  <1>1. CASE UNCHANGED captureVars
    <2>1. UNCHANGED <<probe, step, events, bytes, why, device, verdict>>
      BY <1>1 DEF captureVars
    <2>2. CaptureTypeOK' /\ DeviceFits' /\ CleanUpFits' /\ ReceivedFits' /\ UnreadFits'
      BY <2>1 DEF CaptureInvariant, CaptureTypeOK, DeviceFits, CleanUpFits, NotYet, ReceivedFits,
         UnreadFits, Has, Buffered
    <2>3. AcquisitionFits'
      BY <2>1 DEF CaptureInvariant, AcquisitionFits, Past, Retried
    <2>4. VerdictFits'
      BY <2>1 DEF CaptureInvariant, VerdictFits, Degraded, Got, Path, Method, ResultCode,
         Has, Buffered
    <2> QED
      BY <2>2, <2>3, <2>4 DEF CaptureInvariant
  <1>2. CASE CaptureNext
    BY <1>2, OpenKeeps, InspectKeeps, CapabilityKeeps, FormatKeeps, AllocateKeeps, PollKeeps,
       ReadKeeps, NegotiateKeeps, QueryKeeps, MapKeeps, QueueKeeps, StartKeeps, DequeueKeeps,
       StopKeeps, WipeKeeps, UnmapKeeps, ReleaseKeeps, CloseDeviceKeeps, FallBackKeeps, JudgeKeeps,
       DeadlineKeeps, DeviceWritesKeeps DEF CaptureNext
  <1> QED
    BY <1>1, <1>2

-----------------------------------------------------------------------------
(* What holds                                                              *)

(* The flags of the probes and what the kernel has for the process agree   *)
(* at every step, however the steps fail, are interrupted or come late.    *)
THEOREM CaptureInvariantHolds == CaptureSpec => []CaptureInvariant
  BY InitCapture, CaptureStep, PTL DEF CaptureSpec

(* The second probe opens the device only when the first has closed it.    *)
THEOREM OneDescriptorHolds == CaptureSpec => []OneDescriptor
  <1>1. CaptureInvariant => OneDescriptor
    BY DEF CaptureInvariant, CaptureTypeOK, OneDescriptor
  <1> QED
    BY <1>1, CaptureInvariantHolds, PTL

(* A clean-up that is reported complete left nothing with the kernel, and  *)
(* one that is reported in doubt at most the device itself.                *)
THEOREM CleanMeansCleanHolds == CaptureSpec => []CleanMeansClean
  <1>1. CaptureInvariant /\ Cleaned => device = NoDevice
    <2> SUFFICES ASSUME CaptureInvariant, Cleaned PROVE device = NoDevice
      OBVIOUS
    <2>1. device.open = 0 /\ ~device.mapping /\ ~device.frame
      BY DEF CaptureInvariant, CaptureTypeOK, DeviceFits, Cleaned
    <2>2. ~device.buffers /\ ~device.queued /\ ~device.streaming
      BY <2>1 DEF CaptureInvariant, DeviceFits
    <2> QED
      BY <2>1, <2>2 DEF CaptureInvariant, CaptureTypeOK, NoDevice
  <1>2. CaptureInvariant /\ Degraded => device \in {NoDevice, [NoDevice EXCEPT !.open = 1]}
    <2> SUFFICES ASSUME CaptureInvariant, Degraded
                 PROVE  device \in {NoDevice, [NoDevice EXCEPT !.open = 1]}
      OBVIOUS
    <2>1. /\ Has("wiped") /\ Has("received") /\ (Has("started") => Has("stopped"))
          /\ (Has("mapped") => Has("unmapped")) /\ (Has("negotiated") => Has("released"))
      BY DEF Degraded, Got, ResultCode
    <2>2. ~device.mapping /\ ~device.frame /\ ~device.buffers /\ ~device.queued /\ ~device.streaming
      BY <2>1 DEF CaptureInvariant, DeviceFits
    <2>3. device.open = 0 => device = NoDevice
      BY <2>2 DEF CaptureInvariant, CaptureTypeOK, NoDevice
    <2> DEFINE onlyOpen == [NoDevice EXCEPT !.open = 1]
               Only(d) == /\ d \in [open : {0, 1}, buffers : BOOLEAN, mapping : BOOLEAN,
                                    queued : BOOLEAN, streaming : BOOLEAN, frame : BOOLEAN]
                          /\ d.open = 1 /\ ~d.buffers /\ ~d.mapping /\ ~d.queued
                          /\ ~d.streaming /\ ~d.frame
               written == [open |-> 1, buffers |-> FALSE, mapping |-> FALSE, queued |-> FALSE,
                           streaming |-> FALSE, frame |-> FALSE]
    <2>4. Only(onlyOpen)
      BY DEF NoDevice
    <2>5. device.open = 1 => Only(device)
      BY <2>2 DEF CaptureInvariant, CaptureTypeOK
    <2>6. ASSUME NEW d, Only(d) PROVE d = written
      BY <2>6
    <2> HIDE DEF onlyOpen, Only, written
    <2>7. device.open \in {0, 1}
      BY DEF CaptureInvariant, CaptureTypeOK
    <2>8. device.open = 1 => device = onlyOpen
      BY <2>4, <2>5, <2>6
    <2> QED
      BY <2>3, <2>7, <2>8 DEF onlyOpen
  <1>3. CaptureInvariant => CleanMeansClean
    BY <1>1, <1>2 DEF CleanMeansClean, CaptureInvariant, VerdictFits
  <1> QED
    BY <1>3, CaptureInvariantHolds, PTL

(* The order of the probe's reasons agrees with the service's rules, so a  *)
(* frame that was received is never called unexpected.                     *)
THEOREM FrameAccountedHolds == CaptureSpec => []FrameAccounted
  <1>1. ASSUME CaptureInvariant, step = "judge", Has("received")
        PROVE  ConsistentResult
    <2>1. why = "validated" /\ bytes = "fits" /\ Basis \subseteq events /\ Has("polled") /\ Buffered
      BY <1>1 DEF CaptureInvariant, ReceivedFits, Basis, Has, Buffered
    <2>2. Ordered
      BY <1>1, <2>1 DEF CaptureInvariant, ReceivedFits, CleanUpFits, Ordered, Before, Basis, Has,
         Buffered, Streaming
    <2>3. ASSUME Has("wiped"), Cleaned \/ ResultCode = "frame_received_cleanup_unconfirmed"
          PROVE  Got /\ Path
      <3>1. (Has("started") => Has("stopped")) /\ (Has("mapped") => Has("unmapped"))
            /\ (Has("negotiated") => Has("released"))
        BY <2>3 DEF Cleaned, ResultCode
      <3> QED
        BY <1>1, <2>1, <2>3, <3>1 DEF CaptureInvariant, ReceivedFits, Got, Path, Method, Streaming,
           Basis, Has
    <2>4. ResultCode = "validated" => Healthy
      <3> SUFFICES ASSUME ResultCode = "validated" PROVE Healthy
        OBVIOUS
      <3>1. Cleaned /\ Has("wiped") /\ Has("closed")
        BY <2>1 DEF ResultCode, Cleaned, Basis, Has
      <3> QED
        BY <3>1, <2>3 DEF Healthy
    <2>5. ResultCode = "frame_received_cleanup_unconfirmed" => Degraded
      <3> SUFFICES ASSUME ResultCode = "frame_received_cleanup_unconfirmed" PROVE Degraded
        OBVIOUS
      <3>1. Has("wiped") /\ ~Has("closed")
        BY <2>1 DEF ResultCode
      <3> QED
        BY <3>1, <2>3 DEF Degraded
    <2>6. ResultCode \in CleanUpReasons => ~Cleaned
      BY <2>1 DEF ResultCode, CleanUpReasons, Cleaned
    <2>7. ResultCode \notin CleanUpReasons \union {"validated", "frame_received_cleanup_unconfirmed"}
          => ResultCode = "frame_buffer_wipe_failed" /\ ~Has("wiped")
      BY <1>1, <2>1 DEF ResultCode, CleanUpReasons
    <2> QED
      BY <1>1, <2>1, <2>2, <2>4, <2>5, <2>6, <2>7 DEF ConsistentResult, CleanUpReasons
  <1>2. CaptureInvariant => FrameAccounted
    BY <1>1 DEF FrameAccounted
  <1> QED
    BY <1>2, CaptureInvariantHolds, PTL
=============================================================================
