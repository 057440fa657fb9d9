-------------------------- MODULE TransportProofs --------------------------
(***************************************************************************)
(* Theorems about Transport for every choice of its constants: any window, *)
(* train length, number of flows and launches, any loss, duplication and   *)
(* receive errors.  Each invariant rests on the ones before it.            *)
(***************************************************************************)
EXTENDS Transport, FiniteSetTheorems, TLAPS

-----------------------------------------------------------------------------
(* Arithmetic of trains *)

LEMMA DivMod ==
    ASSUME NEW B \in Nat \ {0}, NEW s \in Nat
    PROVE  /\ s % B \in 0..(B - 1)
           /\ s \div B \in Nat
           /\ s = (B * (s \div B)) + (s % B)
  BY SMTT(30)

\* A multiple of B strictly between -B and B is zero.
LEMMA SmallMultiple ==
    ASSUME NEW B \in Nat \ {0}, NEW d \in Int, B * d > -B, B * d < B
    PROVE  d = 0
<1>1. d <= -1 => B * d <= -B
  BY SMTT(20)
<1>2. d >= 1 => B * d >= B
  BY SMTT(20)
<1> QED
  BY <1>1, <1>2

\* The position in the train advances by one and wraps at its end.
LEMMA NextInTrain ==
    ASSUME NEW B \in Nat \ {0}, NEW s \in Nat
    PROVE  (s + 1) % B = IF s % B = B - 1 THEN 0 ELSE (s % B) + 1
<1> DEFINE q == s \div B
           p == (s + 1) \div B
           r == s % B
           t == (s + 1) % B
<1>1. r \in 0..(B - 1) /\ q \in Nat /\ s = (B * q) + r
  BY DivMod
<1>2. t \in 0..(B - 1) /\ p \in Nat /\ s + 1 = (B * p) + t
  BY DivMod, s + 1 \in Nat
<1> HIDE DEF q, p, r, t
<1>3. B * (p - q) = r + 1 - t
  BY <1>1, <1>2, SMTT(20)
<1>4. CASE r = B - 1
  <2>1. B * (p - q - 1) = -t
    BY <1>3, <1>4, <1>1, <1>2, SMTT(20)
  <2>2. p - q - 1 = 0
    BY <2>1, <1>1, <1>2, SmallMultiple
  <2>3. t = 0
    BY <2>1, <2>2, <1>2, <1>1
  <2> QED
    BY <2>3, <1>4 DEF r, t
<1>5. CASE r # B - 1
  <2>1. p - q = 0
    BY <1>3, <1>5, <1>1, <1>2, SmallMultiple
  <2>2. t = r + 1
    BY <1>3, <2>1, <1>2, <1>1
  <2> QED
    BY <2>2, <1>5 DEF r, t
<1> QED
  BY <1>4, <1>5

LEMMA TrainStart == ASSUME NEW B \in Nat \ {0} PROVE 0 % B = 0
  BY SMTT(30)

-----------------------------------------------------------------------------
(* The controller: what the transport calls leaves it in CongType *)

LEMMA ClearedWindows == RttWinClear(RttWinNew) = RttWinNew
  BY DEF RttWinClear, RttWinNew

LEMMA NewControllerType == EyenetNew \in CongType
  BY TransportConstants DEF EyenetNew, Fresh, CongType

LEMMA InitializeType ==
    ASSUME cong \in CongType
    PROVE  Initialize(cong) \in CongType /\ Initialize(cong).cwnd = Nprobe
<1>1. cong.rtt = RttWinNew
  BY DEF CongType
<1>2. RttWinClear(cong.rtt) = RttWinNew
  BY <1>1, ClearedWindows
<1> QED
  BY <1>2, TransportConstants, EyenetConstants DEF Initialize, Fresh, CongType

LEMMA OnPktSentType ==
    ASSUME cong \in CongType, NEW s \in Nat
    PROVE  OnPktSent(cong, s) \in CongType /\ OnPktSent(cong, s).cwnd = cong.cwnd
<1> DEFINE c1 == [cong EXCEPT !.unacked = cong.unacked \cup {s}]
           c2 == [c1 EXCEPT !.nsent = c1.nsent + 1]
<1>1. c1 \in CongType /\ c1.cwnd = cong.cwnd /\ c1.nsent = cong.nsent
  BY DEF CongType
<1>2. OnPktSent(cong, s) = c2
  BY <1>1 DEF OnPktSent
<1> HIDE DEF c1
<1>3. c2 \in CongType /\ c2.cwnd = c1.cwnd
  BY <1>1 DEF CongType
<1> QED
  BY <1>1, <1>2, <1>3

\* bn_train is positive, so the call of on_ack is never made.
LEMMA AckLeavesController == ASSUME NEW h PROVE CongAfterAck(h) = {cong}
  BY TransportConstants DEF CongAfterAck

-----------------------------------------------------------------------------
(* Types *)

LEMMA HeaderFields ==
    ASSUME NEW m \in Message
    PROVE  /\ m.seq \in Int /\ m.sid \in Int /\ m.fid \in Int
           /\ m # HandshakeHdr => m.seq \in Nat
  BY DEF Message, HandshakeHdr, NEG

LEMMA TypeInit == Init => TypeOK
  BY NewControllerType DEF Init, TypeOK, Message, NEG

LEMMA ReceiveType ==
    ASSUME TypeOK, NEW m, Receive(m)
    PROVE  /\ m \in Message /\ buf' \in Message
           /\ toReceiver' \subseteq Message /\ toSender' \subseteq Message
           /\ acked' \subseteq Message
  BY DEF Receive, Take, TypeOK

LEMMA ProcessAckType ==
    ASSUME TypeOK, NEW h \in Message, ProcessAck(h)
    PROVE  /\ pc' = "head"
           /\ sid' = sid /\ fid' = fid /\ fsz' = fsz /\ seq_num' = seq_num
           /\ largest_ack' \in Int /\ npkts' \in Nat
           /\ last_s_ts' = last_s_ts /\ now' = now
           /\ last_ack_ts' \in Nat /\ curr_ts' \in Nat
           /\ cong' = cong
  BY AckLeavesController, HeaderFields
     DEF ProcessAck, TypeOK, flow, NewBase, LargerOf

LEMMA TypeStep == TypeOK /\ [Next]_vars => TypeOK'
<1> SUFFICES ASSUME TypeOK, [Next]_vars PROVE TypeOK'
  OBVIOUS
<1> USE DEF TypeOK, flow, clocks, net, sender
<1>1. CASE StartFlow \/ Exit
  <2>1. CASE StartFlow
    BY <2>1, TransportConstants DEF StartFlow, NEG
  <2>2. CASE Exit
    BY <2>2 DEF Exit
  <2> QED
    BY <1>1, <2>1, <2>2
<1>2. CASE HsSend
  BY <1>2 DEF HsSend, Transmit, Message
<1>3. CASE HsTimeout
  BY <1>3 DEF HsTimeout
<1>4. CASE Begin
  BY <1>4, InitializeType DEF Begin
<1>5. CASE FinishFlow \/ LoopTop \/ PollTimeout
  BY <1>5 DEF FinishFlow, LoopTop, PollTimeout
<1>6. CASE AckTimeoutReset
  BY <1>6, InitializeType DEF AckTimeoutReset, ResetBase
<1>7. CASE SendPkt
  <2>1. cong' \in CongType
    BY <1>7, OnPktSentType, DivMod, TransportConstants DEF SendPkt
  <2>2. last_s_ts' \in Nat
    BY <1>7 DEF SendPkt, CongType
  <2> QED
    BY <1>7, <2>1, <2>2 DEF SendPkt, Transmit, Header, Message
<1>8. CASE EndBurst
  BY <1>8 DEF EndBurst
<1>9. ASSUME NEW m \in toSender, HsRecv(m) PROVE TypeOK'
  BY <1>9, ReceiveType DEF HsRecv, HsContinue
<1>10. ASSUME NEW m \in toSender, PollPacket(m) PROVE TypeOK'
  <2>1. m \in Message
    OBVIOUS
  <2> QED
    BY <1>10, <2>1, ReceiveType, ProcessAckType DEF PollPacket
<1>11. CASE HsError
  BY <1>11 DEF HsError, ReceiveError, HsContinue
<1>12. CASE PollError
  BY <1>12, ProcessAckType DEF PollError, ReceiveError
<1>13. ASSUME NEW m \in toReceiver, ReceiverAck(m) PROVE TypeOK'
  BY <1>13 DEF ReceiverAck, Take
<1>14. ASSUME NEW m, LoseData(m) \/ LoseAck(m) PROVE TypeOK'
  BY <1>14 DEF LoseData, LoseAck
<1>15. CASE Relaunch
  BY <1>15, NewControllerType DEF Relaunch, NewSid, Message, NEG
<1>16. CASE Tick
  BY <1>16 DEF Tick
<1>17. CASE UNCHANGED vars
  BY <1>17 DEF vars
<1> QED
  BY <1>1, <1>2, <1>3, <1>4, <1>5, <1>6, <1>7, <1>8, <1>9, <1>10, <1>11,
     <1>12, <1>13, <1>14, <1>15, <1>16, <1>17 DEF Next, SenderStep

\* The type invariant: in particular the controller never leaves its initial
\* window and pacing, because eyenet::on_ack is never called.
THEOREM TypeCorrect == Spec => []TypeOK
<1> QED
  BY TypeInit, TypeStep, PTL DEF Spec

-----------------------------------------------------------------------------
(* Every header is transmitted once *)

LEMMA FreshInit == Init => HeadersAreFresh
  BY DEF Init, HeadersAreFresh, IsOlder

\* Receiving moves a header; it adds none.
LEMMA ReceiveAddsNone ==
    ASSUME NEW m, Receive(m)
    PROVE  /\ buf' \in toSender
           /\ toReceiver' = toReceiver /\ toSender' \subseteq toSender
           /\ acked' = acked
  BY DEF Receive, Take

LEMMA FreshStep == TypeOK /\ HeadersAreFresh /\ [Next]_vars => HeadersAreFresh'
<1> SUFFICES ASSUME TypeOK, HeadersAreFresh, [Next]_vars
             PROVE  HeadersAreFresh'
  OBVIOUS
<1> USE DEF HeadersAreFresh, IsOlder, InFlow, flow, clocks, net, sender
<1>1. CASE StartFlow
  BY <1>1 DEF StartFlow
<1>2. CASE Exit
  BY <1>2 DEF Exit
<1>3. CASE HsSend
  BY <1>3 DEF HsSend, Transmit
<1>4. CASE HsTimeout
  BY <1>4 DEF HsTimeout
<1>5. CASE Begin
  BY <1>5 DEF Begin
<1>6. CASE FinishFlow
  BY <1>6 DEF FinishFlow, TypeOK, Message, NEG
<1>7. CASE LoopTop \/ PollTimeout
  BY <1>7 DEF LoopTop, PollTimeout
<1>8. CASE AckTimeoutReset
  BY <1>8 DEF AckTimeoutReset
<1>9. CASE SendPkt
  <2> PICK h : h = Header
    OBVIOUS
  <2>1. /\ toReceiver' = toReceiver \cup {h} /\ buf' = h
        /\ toSender' = toSender /\ acked' = acked
        /\ sid' = sid /\ fid' = fid /\ seq_num' = seq_num + 1
        /\ pc' = "burst" /\ pc = "burst"
    BY <1>9 DEF SendPkt, Transmit
  <2>2. ASSUME NEW m \in toReceiver \cup toSender \cup acked \cup {buf}
        PROVE  IsOlder(m)'
    <3>1. IsOlder(m)
      OBVIOUS
    <3>2. m \in Message
      BY DEF TypeOK
    <3> QED
      BY <3>1, <3>2, <2>1 DEF TypeOK, Message, NEG
  <2>3. IsOlder(h)'
    BY <2>1 DEF Header, TypeOK
  <2> QED
    BY <2>1, <2>2, <2>3
<1>10. CASE EndBurst
  BY <1>10 DEF EndBurst
<1>11. ASSUME NEW m \in toSender, HsRecv(m) PROVE HeadersAreFresh'
  BY <1>11, ReceiveAddsNone DEF HsRecv, HsContinue
<1>12. ASSUME NEW m \in toSender, PollPacket(m) PROVE HeadersAreFresh'
  BY <1>12, ReceiveAddsNone DEF PollPacket, ProcessAck
<1>13. CASE HsError
  BY <1>13 DEF HsError, ReceiveError, HsContinue
<1>14. CASE PollError
  BY <1>14 DEF PollError, ReceiveError, ProcessAck
<1>15. ASSUME NEW m \in toReceiver, ReceiverAck(m) PROVE HeadersAreFresh'
  BY <1>15 DEF ReceiverAck, Take
<1>16. ASSUME NEW m, LoseData(m) \/ LoseAck(m) PROVE HeadersAreFresh'
  BY <1>16 DEF LoseData, LoseAck
<1>17. CASE Relaunch
  <2>1. /\ toReceiver' = toReceiver /\ toSender' = toSender
        /\ acked' = acked /\ buf' = HandshakeHdr /\ sid' = sid + 1
    BY <1>17 DEF Relaunch, NewSid
  <2>2. ASSUME NEW m \in toReceiver \cup toSender \cup acked \cup {buf}
        PROVE  IsOlder(m)'
    <3>1. m \in Message /\ sid \in Nat
      BY DEF TypeOK
    <3>2. CASE m = HandshakeHdr
      BY <3>2
    <3>3. CASE m.sid < sid \/ m.sid = sid
      <4>1. m.sid \in Int
        BY <3>1, HeaderFields
      <4> QED
        BY <3>3, <3>1, <2>1, <4>1
    <3> QED
      BY <3>2, <3>3
  <2>3. IsOlder(HandshakeHdr)'
    OBVIOUS
  <2> QED
    BY <2>1, <2>2, <2>3
<1>18. CASE Tick
  BY <1>18 DEF Tick
<1>19. CASE UNCHANGED vars
  BY <1>19 DEF vars
<1> QED
  BY <1>1, <1>2, <1>3, <1>4, <1>5, <1>6, <1>7, <1>8, <1>9, <1>10, <1>11,
     <1>12, <1>13, <1>14, <1>15, <1>16, <1>17, <1>18, <1>19
     DEF Next, SenderStep

\* No header that is under way, logged or buffered is one the sender has yet to
\* send, over all flows, launches, losses, duplicates and receive errors.
THEOREM HeadersFresh == Spec => []HeadersAreFresh
<1>1. Init => TypeOK /\ HeadersAreFresh
  BY TypeInit, FreshInit
<1>2. (TypeOK /\ HeadersAreFresh) /\ [Next]_vars => (TypeOK /\ HeadersAreFresh)'
  BY TypeStep, FreshStep
<1> QED
  BY <1>1, <1>2, PTL DEF Spec

-----------------------------------------------------------------------------
(* The window *)

\* The position in the current train, counted 1..BnTrain.
InTrain == IF seq_num % BnTrain = 0 THEN BnTrain ELSE seq_num % BnTrain

\* What strengthens WindowBound to an inductive invariant: a flow starts with an
\* empty window, trains are complete except while they are sent, and the train
\* in progress began inside the window.
FlowInv ==
    /\ pc \in {"hs_send", "hs_wait", "start"} => seq_num = 0 /\ largest_ack = NEG
    /\ InFlow => cong.cwnd = Nprobe
    /\ pc \in {"head", "poll"} => seq_num % BnTrain = 0
    /\ InFlow => largest_ack <= seq_num
    /\ InFlow => seq_num <= largest_ack + Nprobe + InTrain

LEMMA FlowInit == Init => FlowInv
  BY DEF Init, FlowInv, InFlow

\* An acknowledgement that counts is of a packet this flow has sent.
LEMMA AckMovesWindow ==
    ASSUME TypeOK, HeadersAreFresh, FlowInv, InFlow,
           NEW h \in toSender \cup {buf}, ProcessAck(h)
    PROVE  /\ largest_ack' \in Int /\ largest_ack' >= largest_ack
           /\ largest_ack' <= seq_num
           /\ seq_num' = seq_num /\ cong' = cong /\ pc' = "head"
<1>1. h \in Message /\ IsOlder(h)
  BY DEF TypeOK, HeadersAreFresh
<1>2. CASE h.sid = sid /\ h.fid = fid
  <2>1. h # HandshakeHdr
    BY <1>2 DEF TypeOK, HandshakeHdr, NEG
  <2>2. h.seq < seq_num
    BY <1>1, <1>2, <2>1 DEF IsOlder, TypeOK
  <2>3. largest_ack' = LargerOf(largest_ack, h.seq + 1)
    BY <1>2 DEF ProcessAck, IsMine, NewBase
  <2>4. h.seq \in Int /\ seq_num \in Int /\ largest_ack \in Int
    BY <1>1, HeaderFields DEF TypeOK
  <2>5. /\ largest_ack' \in Int /\ largest_ack' >= largest_ack
        /\ largest_ack' <= seq_num
    BY <2>2, <2>3, <2>4 DEF LargerOf, FlowInv
  <2> QED
    BY <2>5, <1>1, ProcessAckType
<1>3. CASE ~(h.sid = sid /\ h.fid = fid)
  <2>1. largest_ack' = largest_ack
    BY <1>3 DEF ProcessAck, IsMine
  <2> QED
    BY <2>1, <1>1, ProcessAckType DEF TypeOK, FlowInv
<1> QED
  BY <1>2, <1>3

LEMMA FlowStep ==
    TypeOK /\ HeadersAreFresh /\ FlowInv /\ [Next]_vars => FlowInv'
<1> SUFFICES ASSUME TypeOK, HeadersAreFresh, FlowInv, [Next]_vars
             PROVE  FlowInv'
  OBVIOUS
<1> USE DEF InFlow, InTrain, flow, clocks, net, sender
<1>1. CASE StartFlow \/ Exit
  BY <1>1 DEF StartFlow, Exit, FlowInv
<1>2. CASE HsSend \/ HsTimeout
  BY <1>2 DEF HsSend, HsTimeout, FlowInv
<1>3. CASE Begin
  <2>1. cong'.cwnd = Nprobe /\ seq_num' = 0 /\ largest_ack' = -1 /\ pc' = "head"
    BY <1>3, InitializeType DEF Begin, FlowInv, TypeOK, NEG
  <2>2. 0 % BnTrain = 0
    BY TrainStart, TransportConstants
  <2> QED
    BY <2>1, <2>2, TransportConstants, EyenetConstants DEF FlowInv
<1>4. CASE FinishFlow
  BY <1>4 DEF FinishFlow, FlowInv
<1>5. CASE LoopTop \/ PollTimeout
  BY <1>5 DEF LoopTop, PollTimeout, FlowInv
<1>6. CASE AckTimeoutReset
  <2>1. /\ cong'.cwnd = Nprobe /\ seq_num' = seq_num
        /\ largest_ack' = seq_num - 1 /\ pc' = "burst" /\ pc = "head"
    BY <1>6, InitializeType DEF AckTimeoutReset, ResetBase, TypeOK
  <2>2. seq_num % BnTrain = 0
    BY <2>1 DEF FlowInv
  <2> QED
    BY <2>1, <2>2, TransportConstants, EyenetConstants DEF FlowInv, TypeOK
<1>7. CASE SendPkt
  <2>1. /\ seq_num' = seq_num + 1 /\ largest_ack' = largest_ack
        /\ pc = "burst" /\ pc' = "burst" /\ CanSend
    BY <1>7 DEF SendPkt
  <2>2. cong'.cwnd = Nprobe /\ cong.cwnd = Nprobe
    BY <1>7, <2>1, OnPktSentType, DivMod, TransportConstants
       DEF SendPkt, FlowInv, TypeOK
  <2>3. seq_num \in Nat /\ largest_ack \in Int /\ BnTrain \in Nat \ {0} /\ Nprobe \in Nat
    BY TransportConstants, EyenetConstants DEF TypeOK
  <2>4. seq_num % BnTrain \in 0..(BnTrain - 1)
    BY <2>3, DivMod
  <2>5. (seq_num + 1) % BnTrain
            = IF seq_num % BnTrain = BnTrain - 1 THEN 0 ELSE (seq_num % BnTrain) + 1
    BY <2>3, NextInTrain
  <2>6. seq_num % BnTrain = 0 => seq_num <= largest_ack + Nprobe
    BY <2>1, <2>2, <2>3 DEF CanSend
  <2>7. seq_num <= largest_ack + Nprobe + InTrain /\ largest_ack <= seq_num
    BY <2>1 DEF FlowInv
  <2>8. seq_num + 1 <= largest_ack + Nprobe + InTrain'
    BY <2>1, <2>3, <2>4, <2>5, <2>6, <2>7
  <2> QED
    BY <2>1, <2>2, <2>3, <2>7, <2>8 DEF FlowInv
<1>8. CASE EndBurst
  BY <1>8 DEF EndBurst, CanSend, FlowInv
<1>9. ASSUME NEW m \in toSender, HsRecv(m) PROVE FlowInv'
  BY <1>9 DEF HsRecv, HsContinue, FlowInv
<1>10. ASSUME NEW h \in toSender \cup {buf}, ProcessAck(h), pc = "poll"
       PROVE  FlowInv'
  <2>1. /\ largest_ack' \in Int /\ largest_ack' >= largest_ack
        /\ largest_ack' <= seq_num
        /\ seq_num' = seq_num /\ cong' = cong /\ pc' = "head"
    BY <1>10, AckMovesWindow
  <2>2. BnTrain \in Nat /\ Nprobe \in Nat /\ seq_num \in Nat /\ largest_ack \in Int
    BY TransportConstants, EyenetConstants DEF TypeOK
  <2>3. /\ cong.cwnd = Nprobe /\ seq_num % BnTrain = 0
        /\ seq_num <= largest_ack + Nprobe + BnTrain
    BY <1>10 DEF FlowInv
  <2>4. seq_num' % BnTrain = 0 /\ InTrain' = BnTrain
    BY <2>1, <2>3
  <2>5. seq_num <= largest_ack' + Nprobe + BnTrain
    <3>1. ASSUME NEW la, la = largest_ack' PROVE seq_num <= la + Nprobe + BnTrain
      <4>1. la \in Int /\ la >= largest_ack
        BY <2>1, <3>1
      <4>2. seq_num <= largest_ack + Nprobe + BnTrain
        BY <2>3
      <4> QED
        BY <2>2, <4>1, <4>2
    <3> QED
      BY <3>1
  <2>6. seq_num' <= largest_ack' + Nprobe + InTrain'
    BY <2>1, <2>4, <2>5
  <2> HIDE DEF InTrain
  <2> QED
    BY <2>1, <2>3, <2>4, <2>6 DEF FlowInv
<1>11. ASSUME NEW m \in toSender, PollPacket(m) PROVE FlowInv'
  BY <1>11, <1>10 DEF PollPacket
<1>12. CASE HsError
  BY <1>12 DEF HsError, HsContinue, FlowInv
<1>13. CASE PollError
  BY <1>13, <1>10 DEF PollError
<1>14. ASSUME NEW m, ReceiverAck(m) \/ LoseData(m) \/ LoseAck(m) PROVE FlowInv'
  BY <1>14 DEF ReceiverAck, LoseData, LoseAck, FlowInv
<1>15. CASE Relaunch
  BY <1>15 DEF Relaunch, NewSid, FlowInv
<1>16. CASE Tick
  BY <1>16 DEF Tick, FlowInv
<1>17. CASE UNCHANGED vars
  BY <1>17 DEF vars, FlowInv
<1> QED
  BY <1>1, <1>2, <1>3, <1>4, <1>5, <1>6, <1>7, <1>8, <1>9, <1>11,
     <1>12, <1>13, <1>14, <1>15, <1>16, <1>17 DEF Next, SenderStep

\* The inductive invariant of the sending side.
IInv == TypeOK /\ HeadersAreFresh /\ FlowInv

LEMMA IInvInvariant == Spec => []IInv
<1>1. Init => IInv
  BY TypeInit, FreshInit, FlowInit DEF IInv
<1>2. IInv /\ [Next]_vars => IInv'
  BY TypeStep, FreshStep, FlowStep DEF IInv
<1> QED
  BY <1>1, <1>2, PTL DEF Spec

\* No acknowledgement moves the window past what the flow has sent.
THEOREM AcksWereSent == Spec => []AckWasSent
<1>1. IInv => AckWasSent
  BY DEF IInv, FlowInv, AckWasSent
<1> QED
  BY <1>1, IInvInvariant, PTL

\* The sender is never further ahead than the window and one train.
THEOREM WindowHolds == Spec => []WindowBound
<1>1. IInv => WindowBound
  <2> SUFFICES ASSUME IInv, InFlow
               PROVE  seq_num <= largest_ack + cong.cwnd + BnTrain
    BY DEF WindowBound
  <2>1. /\ BnTrain \in Nat \ {0} /\ seq_num \in Nat /\ largest_ack \in Int
        /\ Nprobe \in Nat
    BY TransportConstants, EyenetConstants DEF IInv, TypeOK
  <2>2. seq_num % BnTrain \in 0..(BnTrain - 1)
    BY <2>1, DivMod
  <2>3. cong.cwnd = Nprobe /\ seq_num <= largest_ack + Nprobe + InTrain
    BY DEF IInv, FlowInv
  <2> QED
    BY <2>1, <2>2, <2>3 DEF InTrain
<1> QED
  BY <1>1, IInvInvariant, PTL

\* Within a flow the window base only moves forward, but for the one packet an
\* acknowledgement timeout takes it back when nothing is outstanding.
THEOREM BaseNeverRetreats == Spec => WindowNeverRetreats
<1> DEFINE Keeps == \/ largest_ack' >= largest_ack
                    \/ largest_ack = seq_num /\ largest_ack' = seq_num - 1
<1>1. IInv /\ [Next]_vars /\ InFlow /\ InFlow' => Keeps
  <2> SUFFICES ASSUME IInv, [Next]_vars, InFlow, InFlow' PROVE Keeps
    OBVIOUS
  <2>0. /\ TypeOK /\ HeadersAreFresh /\ FlowInv
        /\ largest_ack \in Int /\ seq_num \in Int /\ largest_ack <= seq_num
    BY DEF IInv, TypeOK, FlowInv
  <2>1. CASE AckTimeoutReset
    BY <2>0, <2>1 DEF AckTimeoutReset, ResetBase
  <2>2. ASSUME NEW m \in toSender, PollPacket(m) PROVE Keeps
    BY <2>0, <2>2, AckMovesWindow DEF PollPacket
  <2>3. CASE PollError
    BY <2>0, <2>3, AckMovesWindow DEF PollError
  <2>4. CASE largest_ack' = largest_ack
    BY <2>0, <2>4
  <2>5. ASSUME NEW m, HsRecv(m) \/ ReceiverAck(m) \/ LoseData(m) \/ LoseAck(m)
        PROVE  largest_ack' = largest_ack
    BY <2>5 DEF HsRecv, ReceiverAck, LoseData, LoseAck, sender
  <2>6. CASE \/ StartFlow \/ Exit \/ HsSend \/ HsTimeout \/ Begin \/ FinishFlow
             \/ LoopTop \/ SendPkt \/ EndBurst \/ PollTimeout
             \/ HsError \/ Relaunch \/ Tick \/ UNCHANGED vars
    BY <2>0, <2>4, <2>6
       DEF StartFlow, Exit, HsSend, HsTimeout, Begin, FinishFlow, LoopTop,
           SendPkt, EndBurst, PollTimeout, HsError, Relaunch, NewSid, Tick, vars,
           sender, InFlow
  <2> QED
    BY <2>1, <2>2, <2>3, <2>4, <2>5, <2>6 DEF Next, SenderStep
<1> QED
  BY <1>1, IInvInvariant, PTL DEF Spec, WindowNeverRetreats

-----------------------------------------------------------------------------
(* The poll *)

\* The last burst is never in the future of the clock the sender has read.
TimeInv == InFlow => last_s_ts <= curr_ts /\ curr_ts <= now

LEMMA TimeStep == TypeOK /\ TimeInv /\ [Next]_vars => TimeInv'
<1> SUFFICES ASSUME TypeOK, TimeInv, [Next]_vars PROVE TimeInv'
  OBVIOUS
<1> USE DEF TimeInv, InFlow, flow, clocks, net, sender
<1>1. /\ last_s_ts \in Nat /\ curr_ts \in Nat /\ now \in Nat
      /\ cong.intersend = 0
  BY DEF TypeOK, CongType
<1>2. CASE StartFlow \/ Exit \/ HsSend \/ HsTimeout \/ HsError
           \/ FinishFlow \/ Relaunch
  BY <1>2 DEF StartFlow, Exit, HsSend, HsTimeout, HsError, HsContinue,
              FinishFlow, Relaunch, NewSid
<1>3. CASE Begin \/ LoopTop \/ AckTimeoutReset \/ PollTimeout
  BY <1>1, <1>3 DEF Begin, LoopTop, AckTimeoutReset, PollTimeout
<1>4. CASE SendPkt
  BY <1>1, <1>4 DEF SendPkt
<1>5. CASE EndBurst
  BY <1>1, <1>5 DEF EndBurst
<1>6. ASSUME NEW m, HsRecv(m) \/ ReceiverAck(m) \/ LoseData(m) \/ LoseAck(m)
      PROVE  TimeInv'
  BY <1>6 DEF HsRecv, HsContinue, ReceiverAck, LoseData, LoseAck
<1>7. ASSUME NEW h, ProcessAck(h), pc = "poll" PROVE TimeInv'
  BY <1>1, <1>7 DEF ProcessAck
<1>8. CASE PollError \/ \E m \in toSender : PollPacket(m)
  BY <1>7, <1>8 DEF PollError, PollPacket
<1>9. CASE Tick
  BY <1>1, <1>9 DEF Tick
<1>10. CASE UNCHANGED vars
  BY <1>10 DEF vars
<1> QED
  BY <1>2, <1>3, <1>4, <1>5, <1>6, <1>8, <1>9, <1>10 DEF Next, SenderStep

\* Whatever the window, the trains and the clock, the poll of send_data either
\* returns at once or waits without limit.
THEOREM PollSpinsOrBlocks == Spec => []SpinsOrBlocks
<1>1. Init => TypeOK /\ TimeInv
  BY TypeInit DEF Init, TimeInv, InFlow
<1>2. (TypeOK /\ TimeInv) /\ [Next]_vars => (TypeOK /\ TimeInv)'
  BY TypeStep, TimeStep
<1>3. TypeOK /\ TimeInv => SpinsOrBlocks
  <2> SUFFICES ASSUME TypeOK, TimeInv, pc = "poll" PROVE PollTime <= 0
    BY DEF SpinsOrBlocks
  <2>1. /\ cong.cwnd > 0 /\ cong.intersend * BnTrain = 0
    BY TransportConstants, EyenetConstants DEF TypeOK, CongType
  <2>2. PollTime = SmallerOf(PollCap, last_s_ts + 0 - curr_ts)
    BY <2>1 DEF PollTime
  <2>3. /\ last_s_ts \in Nat /\ curr_ts \in Nat /\ PollCap \in Nat
        /\ last_s_ts <= curr_ts
    BY TransportConstants DEF TypeOK, TimeInv, InFlow
  <2> QED
    BY <2>2, <2>3 DEF SmallerOf
<1> QED
  BY <1>1, <1>2, <1>3, PTL DEF Spec

-----------------------------------------------------------------------------
(* Without receive errors, everything the sender acts on has been echoed *)

EchoInv ==
    /\ toSender \subseteq acked
    /\ pc = "start" \/ InFlow => HandshakeHdr \in acked

LEMMA EchoStep ==
    ASSUME RecvErrors = FALSE
    PROVE  EchoInv /\ [Next]_vars => EchoInv'
<1> SUFFICES ASSUME EchoInv, [Next]_vars PROVE EchoInv'
  OBVIOUS
<1> USE DEF EchoInv, InFlow, flow, clocks, net, sender
<1>1. CASE SenderStep
  BY <1>1 DEF SenderStep, StartFlow, Exit, HsSend, Transmit, HsTimeout, Begin,
              FinishFlow, LoopTop, AckTimeoutReset, SendPkt, EndBurst, PollTimeout
<1>2. ASSUME NEW m \in toSender, HsRecv(m) PROVE EchoInv'
  BY <1>2, ReceiveAddsNone DEF HsRecv, HsContinue
<1>3. ASSUME NEW m \in toSender, PollPacket(m) PROVE EchoInv'
  BY <1>3, ReceiveAddsNone DEF PollPacket, ProcessAck
<1>4. CASE HsError \/ PollError
  BY <1>4 DEF HsError, PollError, ReceiveError
<1>5. ASSUME NEW m, ReceiverAck(m) \/ LoseData(m) \/ LoseAck(m) PROVE EchoInv'
  BY <1>5 DEF ReceiverAck, LoseData, LoseAck
<1>6. CASE Relaunch \/ Tick \/ UNCHANGED vars
  BY <1>6 DEF Relaunch, NewSid, Tick, vars
<1> QED
  BY <1>1, <1>2, <1>3, <1>4, <1>5, <1>6 DEF Next

LEMMA EchoInvariant == ASSUME RecvErrors = FALSE PROVE Spec => []EchoInv
<1>1. Init => EchoInv
  BY DEF Init, EchoInv, InFlow
<1>2. EchoInv /\ [Next]_vars => EchoInv'
  BY EchoStep
<1> QED
  BY <1>1, <1>2, PTL DEF Spec

\* Nothing is transmitted before the peer has echoed a handshake.
THEOREM HandshakeIsSound ==
    ASSUME RecvErrors = FALSE
    PROVE  Spec => []HandshakeSound
<1>1. EchoInv => HandshakeSound
  BY DEF EchoInv, HandshakeSound
<1> QED
  BY <1>1, EchoInvariant, PTL

-----------------------------------------------------------------------------
(* The count of bytes *)

\* The packets of this run that the receiver has logged and that are not under
\* way any more.
Returned == {m \in acked : m.sid = sid /\ m \notin toReceiver /\ m \notin toSender}

\* An echo is logged before it is under way and is not data any more, so a
\* packet that is counted leaves what is under way for good.
LogInv ==
    /\ IsFiniteSet(acked)
    /\ \A m \in toReceiver \cup toSender \cup acked : m = HandshakeHdr \/ m.fid # 0
    /\ \A m \in toSender : m = HandshakeHdr \/ (m \in acked /\ m \notin toReceiver)
    /\ npkts <= Cardinality(Returned)

LEMMA LogInit == Init => LogInv
<1> SUFFICES ASSUME Init PROVE LogInv
  OBVIOUS
<1>1. Returned = {} /\ npkts = 0 /\ acked = {} /\ toReceiver = {} /\ toSender = {}
  BY DEF Init, Returned
<1> QED
  BY <1>1, FS_EmptySet DEF LogInv

LEMMA ReturnedFinite ==
    ASSUME LogInv
    PROVE  IsFiniteSet(Returned) /\ Cardinality(Returned) \in Nat
<1>1. Returned \subseteq acked /\ IsFiniteSet(acked)
  BY DEF LogInv, Returned
<1>2. IsFiniteSet(Returned)
  BY <1>1, FS_Subset
<1> QED
  BY <1>2, FS_CardinalityType

\* A step that counts nothing may only add to what has come back.
LEMMA Uncounted ==
    ASSUME LogInv, Returned \subseteq Returned', IsFiniteSet(acked'), npkts' = npkts,
           npkts \in Nat
    PROVE  npkts' <= Cardinality(Returned')
<1>1. Returned' \subseteq acked' /\ IsFiniteSet(acked')
  BY DEF Returned
<1>2. IsFiniteSet(Returned')
  BY <1>1, FS_Subset
<1>3. Cardinality(Returned) <= Cardinality(Returned') /\ Cardinality(Returned') \in Nat
  BY <1>2, FS_Subset, FS_CardinalityType
<1>4. npkts <= Cardinality(Returned) /\ Cardinality(Returned) \in Nat
  BY ReturnedFinite DEF LogInv
<1> QED
  BY <1>3, <1>4

LEMMA LogStep ==
    ASSUME Dup = FALSE, RecvErrors = FALSE
    PROVE  TypeOK /\ HeadersAreFresh /\ LogInv /\ [Next]_vars => LogInv'
<1> SUFFICES ASSUME TypeOK, HeadersAreFresh, LogInv, [Next]_vars PROVE LogInv'
  OBVIOUS
<1>0. npkts \in Nat /\ IsFiniteSet(acked) /\ fid # 0 /\ sid \in Nat
  BY DEF TypeOK, LogInv
<1> USE DEF flow, clocks, net, sender
<1>1. CASE SenderStep /\ ~SendPkt
  <2>1. /\ acked' = acked /\ toSender' = toSender /\ sid' = sid /\ npkts' = npkts
        /\ toReceiver' \in {toReceiver, toReceiver \cup {HandshakeHdr}}
    BY <1>1 DEF SenderStep, StartFlow, Exit, HsSend, Transmit, HsTimeout, Begin,
                FinishFlow, LoopTop, AckTimeoutReset, EndBurst, PollTimeout
  <2>2. HandshakeHdr.sid # sid
    BY <1>0 DEF HandshakeHdr, NEG
  <2>3. Returned' = Returned
    BY <2>1, <2>2 DEF Returned
  <2>4. npkts' <= Cardinality(Returned')
    BY <1>0, <2>1, <2>3, Uncounted
  <2> QED
    BY <2>1, <2>4 DEF LogInv
<1>2. CASE SendPkt
  <2> PICK h : h = Header
    OBVIOUS
  <2>1. /\ acked' = acked /\ toSender' = toSender /\ sid' = sid /\ npkts' = npkts
        /\ toReceiver' = toReceiver \cup {h} /\ InFlow
    BY <1>2 DEF SendPkt, Transmit, InFlow
  <2>2. ~IsOlder(h)
    BY <1>0, <2>1 DEF IsOlder, Header, HandshakeHdr, NEG, TypeOK
  <2>3. h \notin acked /\ h \notin toSender /\ h.fid # 0
    BY <1>0, <2>2 DEF HeadersAreFresh, Header
  <2>4. Returned' = Returned
    BY <2>1, <2>3 DEF Returned
  <2>5. npkts' <= Cardinality(Returned')
    BY <1>0, <2>1, <2>4, Uncounted
  <2> QED
    BY <2>1, <2>3, <2>5 DEF LogInv
<1>3. ASSUME NEW m \in toSender, HsRecv(m) \/ LoseAck(m) \/ (PollPacket(m) /\ ~IsMine(m))
      PROVE  LogInv'
  <2>1. /\ acked' = acked /\ toReceiver' = toReceiver /\ toSender' \subseteq toSender
        /\ sid' = sid /\ npkts' = npkts
    BY <1>3, ReceiveAddsNone DEF HsRecv, LoseAck, PollPacket, ProcessAck
  <2>2. Returned \subseteq Returned'
    BY <2>1 DEF Returned
  <2>3. npkts' <= Cardinality(Returned')
    BY <1>0, <2>1, <2>2, Uncounted
  <2> QED
    BY <2>1, <2>3 DEF LogInv
<1>4. ASSUME NEW m \in toSender, PollPacket(m), IsMine(m) PROVE LogInv'
  <2>1. m.sid = sid /\ m # HandshakeHdr
    BY <1>0, <1>4 DEF IsMine, HandshakeHdr, NEG
  <2>2. /\ acked' = acked /\ toReceiver' = toReceiver /\ toSender' = toSender \ {m}
        /\ sid' = sid /\ npkts' = npkts + 1
    BY <1>4, <2>1 DEF PollPacket, ProcessAck, Receive, Take
  <2>3. m \in acked /\ m \notin toReceiver
    BY <1>4, <2>1 DEF LogInv
  <2> DEFINE more == Returned \cup {m}
  <2>4. Returned' = more /\ m \notin Returned
    BY <2>1, <2>2, <2>3 DEF Returned
  <2>5. Cardinality(more) = Cardinality(Returned) + 1
    BY <2>4, ReturnedFinite, FS_AddElement
  <2> HIDE DEF more
  <2>6. npkts' <= Cardinality(more)
    BY <1>0, <2>2, <2>5, ReturnedFinite DEF LogInv
  <2> QED
    BY <2>2, <2>4, <2>6 DEF LogInv
<1>5. CASE HsError \/ PollError
  BY <1>5 DEF HsError, PollError, ReceiveError
<1>6. ASSUME NEW m \in toReceiver, ReceiverAck(m) PROVE LogInv'
  <2>1. /\ acked' = acked \cup {m} /\ toSender' = toSender \cup {m}
        /\ toReceiver' \subseteq toReceiver /\ sid' = sid /\ npkts' = npkts
        /\ m = HandshakeHdr \/ m \notin toReceiver'
    BY <1>6 DEF ReceiverAck, Take
  <2>2. Returned \subseteq Returned'
    BY <2>1 DEF Returned
  <2>3. IsFiniteSet(acked')
    BY <1>0, <2>1, FS_AddElement
  <2>4. npkts' <= Cardinality(Returned')
    BY <1>0, <2>1, <2>2, <2>3, Uncounted
  <2> QED
    BY <2>1, <2>3, <2>4 DEF LogInv
<1>7. ASSUME NEW m, LoseData(m) PROVE LogInv'
  <2>1. /\ acked' = acked /\ toSender' = toSender /\ toReceiver' \subseteq toReceiver
        /\ sid' = sid /\ npkts' = npkts
    BY <1>7 DEF LoseData
  <2>2. Returned \subseteq Returned'
    BY <2>1 DEF Returned
  <2>3. npkts' <= Cardinality(Returned')
    BY <1>0, <2>1, <2>2, Uncounted
  <2> QED
    BY <2>1, <2>3 DEF LogInv
<1>8. CASE Relaunch
  <2>1. /\ acked' = acked /\ toSender' = toSender /\ toReceiver' = toReceiver
        /\ npkts' = 0
    BY <1>8 DEF Relaunch
  <2>2. IsFiniteSet(Returned') /\ Cardinality(Returned') \in Nat
    <3>1. Returned' \subseteq acked
      BY <2>1 DEF Returned
    <3>2. IsFiniteSet(Returned')
      BY <1>0, <3>1, FS_Subset
    <3> QED
      BY <3>2, FS_CardinalityType
  <2>3. npkts' <= Cardinality(Returned')
    BY <2>1, <2>2
  <2> QED
    BY <2>1, <2>3 DEF LogInv
<1>9. CASE Tick \/ UNCHANGED vars
  <2>1. UNCHANGED <<acked, toSender, toReceiver, sid, npkts>>
    BY <1>9 DEF Tick, vars
  <2>2. Returned' = Returned
    BY <2>1 DEF Returned
  <2> QED
    BY <2>1, <2>2 DEF LogInv
<1>10. ASSUME NEW m \in toSender, PollPacket(m) PROVE LogInv'
  <2>1. CASE IsMine(m)
    BY <1>4, <1>10, <2>1
  <2>2. CASE ~IsMine(m)
    BY <1>3, <1>10, <2>2
  <2> QED
    BY <2>1, <2>2
<1>11. CASE SenderStep
  BY <1>1, <1>2, <1>11
<1>12. ASSUME NEW m \in toSender, HsRecv(m) PROVE LogInv'
  BY <1>3, <1>12
<1>13. ASSUME NEW m \in toSender, LoseAck(m) PROVE LogInv'
  BY <1>3, <1>13
<1> QED
  BY <1>5, <1>6, <1>7, <1>8, <1>9, <1>10, <1>11, <1>12, <1>13 DEF Next

\* What has come back was delivered in some flow up to the present one.
LEMMA ReturnedDelivered ==
    ASSUME TypeOK, HeadersAreFresh, LogInv
    PROVE  BytesAreDelivered
<1> DEFINE all == UNION {Delivered(f) : f \in 1..fid}
<1>1. ASSUME NEW m \in Returned PROVE m \in all
  <2>1. /\ m \in acked /\ m.sid = sid /\ m # HandshakeHdr /\ m.fid # 0
    BY DEF Returned, LogInv, HandshakeHdr, NEG, TypeOK
  <2>2. m \in Message /\ IsOlder(m)
    BY <2>1 DEF TypeOK, HeadersAreFresh
  <2>3. m.fid \in 1..fid
    BY <2>1, <2>2 DEF IsOlder, Message, TypeOK
  <2>4. m \in Delivered(m.fid)
    BY <2>1 DEF Delivered
  <2> QED
    BY <2>3, <2>4
<1>2. all \subseteq acked
  BY DEF Delivered
<1>3. IsFiniteSet(all)
  BY <1>2, FS_Subset DEF LogInv
<1> HIDE DEF all
<1>4. Cardinality(Returned) <= Cardinality(all)
  BY <1>1, <1>3, FS_Subset
<1>5. npkts <= Cardinality(Returned) /\ npkts \in Nat /\ Cardinality(Returned) \in Nat
      /\ Cardinality(all) \in Nat
  BY <1>3, ReturnedFinite, FS_CardinalityType DEF LogInv, TypeOK
<1>6. npkts <= Cardinality(all)
  BY <1>4, <1>5
<1> QED
  BY <1>6 DEF BytesAreDelivered, all

\* npkts * PAYLOAD: where the network does not duplicate and receives do not
\* fail, a run never counts more packets than the receiver got from it.
THEOREM BytesDelivered ==
    ASSUME Dup = FALSE, RecvErrors = FALSE
    PROVE  Spec => []BytesAreDelivered
<1>1. TypeOK /\ HeadersAreFresh /\ LogInv /\ [Next]_vars => LogInv'
  BY LogStep
<1> QED
  BY <1>1, LogInit, ReturnedDelivered, TypeCorrect, HeadersFresh, PTL DEF Spec

-----------------------------------------------------------------------------
(* The transport implements the echo window *)

EchoedSeqs == {m.seq : m \in Delivered(fid)}

\* Nothing of a flow that is about to open has been echoed.
LEMMA NothingEchoedYet ==
    ASSUME TypeOK, HeadersAreFresh, ~InFlow
    PROVE  Delivered(fid) = {}
  BY DEF TypeOK, HeadersAreFresh, IsOlder, Delivered, HandshakeHdr, NEG

LEMMA MapInit == Init => EW!Closed
  BY DEF Init, EW!Closed, InFlow, NEG

LEMMA OpenStep == IInv /\ Begin => EW!Open
<1> SUFFICES ASSUME IInv, Begin PROVE EW!Open
  OBVIOUS
<1>1. /\ ~InFlow /\ InFlow' /\ seq_num' = 0 /\ largest_ack' = NEG
      /\ fid' = fid /\ Delivered(fid)' = Delivered(fid)
  BY DEF Begin, InFlow, IInv, FlowInv, Delivered, flow, net
<1>2. Delivered(fid) = {}
  BY <1>1, NothingEchoedYet DEF IInv
<1> QED
  BY <1>1, <1>2 DEF EW!Open

LEMMA SendStep == IInv /\ SendPkt => EW!SendOne
<1> SUFFICES ASSUME IInv, SendPkt PROVE EW!SendOne
  OBVIOUS
<1>1. /\ InFlow /\ InFlow' /\ seq_num' = seq_num + 1 /\ largest_ack' = largest_ack
      /\ fid' = fid /\ Delivered(fid)' = Delivered(fid)
  BY DEF SendPkt, Transmit, InFlow, Delivered, flow
<1>2. seq_num <= largest_ack + Nprobe \/ seq_num % BnTrain # 0
  <2>1. CASE seq_num % BnTrain # 0
    BY <2>1
  <2>2. CASE seq_num < largest_ack + cong.cwnd + 1
    <3>1. /\ cong.cwnd = Nprobe /\ Nprobe \in Nat
          /\ largest_ack \in Int /\ seq_num \in Int
      BY <1>1, EyenetConstants DEF IInv, FlowInv, TypeOK
    <3> QED
      BY <2>2, <3>1
  <2> QED
    BY <2>1, <2>2 DEF SendPkt, CanSend
<1> QED
  BY <1>1, <1>2 DEF EW!SendOne

LEMMA ExpireStep == IInv /\ AckTimeoutReset => EW!Expire
  BY DEF IInv, FlowInv, AckTimeoutReset, ResetBase, EW!Expire, InFlow, Delivered, flow, net

LEMMA CloseStep == InFlow /\ (FinishFlow \/ Relaunch) => EW!Close
  BY DEF FinishFlow, Relaunch, NewSid, EW!Close, EW!Closed, InFlow, NEG

LEMMA EchoingStep ==
    ASSUME IInv, NEW h \in toReceiver, ReceiverAck(h)
    PROVE  EW!Echo \/ UNCHANGED EW!wvars
<1>1. /\ acked' = acked \cup {h} /\ sid' = sid /\ fid' = fid
      /\ InFlow' = InFlow /\ seq_num' = seq_num /\ largest_ack' = largest_ack
  BY DEF ReceiverAck, sender, flow, InFlow
<1>2. CASE ~InFlow
  BY <1>1, <1>2 DEF EW!wvars
<1>3. CASE InFlow /\ ~(h.sid = sid /\ h.fid = fid)
  <2>1. Delivered(fid)' = Delivered(fid)
    BY <1>1, <1>3 DEF Delivered
  <2> QED
    BY <1>1, <1>3, <2>1 DEF EW!wvars
<1>4. CASE InFlow /\ h.sid = sid /\ h.fid = fid
  <2>1. h \in Message /\ IsOlder(h) /\ sid \in Nat /\ fid \in Nat /\ seq_num \in Nat
    BY DEF IInv, TypeOK, HeadersAreFresh
  <2>2. h # HandshakeHdr
    BY <1>4, <2>1 DEF HandshakeHdr, NEG
  <2>3. h.seq \in 0..(seq_num - 1)
    BY <1>4, <2>1, <2>2, HeaderFields DEF IsOlder
  <2>4. Delivered(fid)' = Delivered(fid) \cup {h}
    BY <1>1, <1>4 DEF Delivered
  <2>5. {m.seq : m \in Delivered(fid)'} = {m.seq : m \in Delivered(fid)} \cup {h.seq}
    BY <2>4
  <2> QED
    BY <1>1, <1>4, <2>3, <2>5 DEF EW!Echo
<1> QED
  BY <1>2, <1>3, <1>4

LEMMA CreditStep ==
    ASSUME RecvErrors = FALSE, IInv, EchoInv, NEW h \in toSender, PollPacket(h)
    PROVE  EW!Credit \/ UNCHANGED EW!wvars
<1>1. /\ InFlow /\ InFlow' /\ ProcessAck(h) /\ h \in acked
      /\ seq_num' = seq_num /\ fid' = fid /\ sid' = sid
      /\ Delivered(fid)' = Delivered(fid)
  BY ReceiveAddsNone DEF PollPacket, ProcessAck, InFlow, EchoInv, Delivered, flow
<1>2. CASE h.sid = sid /\ h.fid = fid
  <2>1. h.seq \in EchoedSeqs
    BY <1>1, <1>2 DEF EchoedSeqs, Delivered
  <2>2. largest_ack' = LargerOf(largest_ack, h.seq + 1)
    BY <1>1, <1>2 DEF ProcessAck, IsMine, NewBase
  <2> QED
    BY <1>1, <2>1, <2>2 DEF EW!Credit, LargerOf, EchoedSeqs
<1>3. CASE ~(h.sid = sid /\ h.fid = fid)
  <2>1. largest_ack' = largest_ack
    BY <1>1, <1>3 DEF ProcessAck, IsMine
  <2> QED
    BY <1>1, <2>1 DEF EW!wvars
<1> QED
  BY <1>2, <1>3

\* The steps that show nothing: outside a flow, or inside one without a send, an
\* echo, a credit or an expiry.
LEMMA HiddenStep ==
    ASSUME \/ StartFlow \/ Exit \/ HsSend \/ HsTimeout \/ HsError
           \/ LoopTop \/ EndBurst \/ PollTimeout \/ Tick \/ UNCHANGED vars
           \/ \E m \in toSender : HsRecv(m) \/ LoseAck(m)
           \/ \E m \in toReceiver : LoseData(m)
           \/ Relaunch /\ ~InFlow
    PROVE  UNCHANGED EW!wvars
<1> USE DEF EW!wvars, InFlow, Delivered, flow, clocks, net, sender
<1>1. CASE StartFlow \/ Exit \/ HsSend \/ HsTimeout \/ HsError
  BY <1>1 DEF StartFlow, Exit, HsSend, HsTimeout, HsError, HsContinue
<1>2. CASE LoopTop \/ EndBurst \/ PollTimeout \/ Tick \/ UNCHANGED vars
  BY <1>2 DEF LoopTop, EndBurst, PollTimeout, Tick, vars
<1>3. CASE \E m \in toSender : HsRecv(m) \/ LoseAck(m)
  BY <1>3, ReceiveAddsNone DEF HsRecv, HsContinue, LoseAck
<1>4. CASE \E m \in toReceiver : LoseData(m)
  BY <1>4 DEF LoseData
<1>5. CASE Relaunch /\ ~InFlow
  BY <1>5 DEF Relaunch, NewSid
<1> QED
  BY <1>1, <1>2, <1>3, <1>4, <1>5

\* Flow after flow and launch after launch, over a network that loses, reorders
\* and duplicates, the transport behaves like a fresh sliding window that only
\* echoes of its own packets move.
THEOREM Implementation ==
    ASSUME RecvErrors = FALSE
    PROVE  Spec => ImplementsEchoWindow
<1>1. IInv /\ EchoInv /\ [Next]_vars => [EW!WNext]_(EW!wvars)
  <2> SUFFICES ASSUME IInv, EchoInv, [Next]_vars PROVE EW!WNext \/ UNCHANGED EW!wvars
    OBVIOUS
  <2> USE DEF EW!WNext
  <2>1. CASE Begin
    BY <2>1, OpenStep
  <2>2. CASE SendPkt
    BY <2>2, SendStep
  <2>3. CASE AckTimeoutReset
    BY <2>3, ExpireStep
  <2>4. CASE FinishFlow
    BY <2>4, CloseStep DEF FinishFlow, InFlow
  <2>5. CASE Relaunch
    BY <2>5, CloseStep, HiddenStep
  <2>6. ASSUME NEW m \in toReceiver, ReceiverAck(m)
        PROVE  EW!WNext \/ UNCHANGED EW!wvars
    BY <2>6, EchoingStep
  <2>7. ASSUME NEW m \in toSender, PollPacket(m)
        PROVE  EW!WNext \/ UNCHANGED EW!wvars
    BY <2>7, CreditStep
  <2>8. CASE PollError
    BY <2>8 DEF PollError, ReceiveError
  <2> QED
    BY <2>1, <2>2, <2>3, <2>4, <2>5, <2>6, <2>7, <2>8, HiddenStep
       DEF Next, SenderStep
<1> QED
  BY <1>1, MapInit, IInvInvariant, EchoInvariant, PTL
     DEF Spec, ImplementsEchoWindow, EW!WSpec
=============================================================================
