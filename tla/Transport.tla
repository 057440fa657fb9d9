----------------------------- MODULE Transport -----------------------------
(***************************************************************************)
(* The EyeNet transport: one sending process (packet_sender::run and       *)
(* tcp_transport<eyenet>::handshake and send_data), the receiving process  *)
(* (ack_packets), and the datagrams between them.                          *)
(*                                                                         *)
(* A datagram is the part of packet_header that decisions read: sequence   *)
(* number, flow and sender.  The receiver echoes the header, so data and   *)
(* acknowledgement are the same value in different directions.  Every data *)
(* header is sent once; the network may delay, reorder, lose and duplicate.*)
(*                                                                         *)
(* Time is in whole milliseconds since start_ts of the flow.  The sender   *)
(* reads the clock at the top of the loop and after the burst of sends,    *)
(* and acts on the value it read; the clock moves in between.              *)
(***************************************************************************)
EXTENDS Eyenet, FiniteSets

CONSTANTS NCycles,      \* ncycles: flows per run of the program
          OnUnits,      \* the values on_units or its distribution can give
          ByteSwitcher, \* switcher: flows end by bytes (TRUE) or time (FALSE)
          BnTrain,      \* bn_train: packets sent back to back
          Payload,      \* PAYLOAD: bytes of a packet without header
          AckTimeout,   \* 2000 ms without an acknowledgement
          PollCap,      \* 1000 ms, the longest poll
          BurstDelay,   \* most ms that pass between the clock reads at 174 and 210
          Loss, Dup,    \* the network loses, duplicates datagrams
          RecvErrors,   \* recv_data may return -1
          MaxSeq,       \* bound on the packets of a flow
          MaxPkts,      \* bound on the acknowledgements counted in a launch
          MaxTime,      \* bound on the clock of a flow
          MaxRuns       \* bound on the launches of the sending program

\* bn_train = 0 divides by zero at the first packet (vns_transport.hh:190).
ASSUME TransportConstants ==
    /\ Scale = 1
    /\ NCycles \in Nat /\ OnUnits \subseteq Nat /\ ByteSwitcher \in BOOLEAN
    /\ BnTrain \in Nat \ {0} /\ Payload \in Nat
    /\ AckTimeout \in Nat /\ PollCap \in Nat /\ BurstDelay \in Nat
    /\ Loss \in BOOLEAN /\ Dup \in BOOLEAN /\ RecvErrors \in BOOLEAN
    /\ MaxSeq \in Nat /\ MaxPkts \in Nat /\ MaxTime \in Nat /\ MaxRuns \in Nat

VARIABLES
    pc,           \* where the sending program is
    sid, fid,     \* sender identity, drawn at launch, and flow number
    fsz,          \* length of the flow in bytes or ms
    seq_num,      \* next packet of the flow
    largest_ack,  \* one more than the newest acknowledged packet
    last_s_ts,    \* when the last burst was sent
    last_ack_ts,  \* when the last acknowledgement came
    curr_ts,      \* the last clock value the sender read
    npkts,        \* acknowledgements counted since launch
    buf,          \* the header at the start of the buffer
    cong,         \* the eyenet controller
    now,          \* the clock
    toReceiver, toSender, \* datagrams under way
    acked         \* the receiver's log: headers it has echoed

flow == <<sid, fid, fsz>>
clocks == <<last_s_ts, last_ack_ts, curr_ts>>
net == <<toReceiver, toSender, acked>>
vars == <<pc, flow, seq_num, largest_ack, clocks, npkts, buf, cong, now, net>>

NEG == -1
HandshakeHdr == [seq |-> NEG, fid |-> NEG, sid |-> NEG]

\* create_header.
Header == [seq |-> seq_num, fid |-> fid, sid |-> sid]

\* What may be left under way once m has been taken out: all but m, and m too
\* if it was duplicated.  A handshake header is resent, so several may be out.
Take(under_way, m) ==
    {under_way \ {m}} \cup IF Dup \/ m = HandshakeHdr THEN {under_way} ELSE {}

\* sk.send_data.
Transmit(m) == toReceiver' = toReceiver \cup {m} /\ UNCHANGED <<toSender, acked>>

\* sk.recv_data returns a datagram: it is now in buf.
Receive(m) ==
    /\ m \in toSender
    /\ toSender' \in Take(toSender, m)
    /\ buf' = m
    /\ UNCHANGED <<toReceiver, acked>>

\* sk.recv_data returns -1: buf keeps what it held.
ReceiveError == RecvErrors /\ UNCHANGED <<buf, net>>

-----------------------------------------------------------------------------
(* The sending program: launch, and the loop of packet_sender::run *)

Init ==
    /\ pc = "off" /\ sid = 1 /\ fid = 1 /\ fsz = 0
    /\ seq_num = 0 /\ largest_ack = NEG
    /\ last_s_ts = 0 /\ last_ack_ts = 0 /\ curr_ts = 0
    /\ npkts = 0
    /\ buf = HandshakeHdr
    /\ cong = EyenetNew
    /\ now = 0
    /\ toReceiver = {} /\ toSender = {} /\ acked = {}

\* Mutant: the new process draws the old one's identity.
NewSid_Same == sid

\* The sid that packet_sender::run draws, different from every earlier one.
NewSid == sid + 1

\* The program is killed, or has ended, and is started again with the same
\* addresses: a new sender identity, and the network as the old one left it.
Relaunch ==
    /\ sid < MaxRuns
    /\ pc' = "off" /\ sid' = NewSid /\ fid' = 1 /\ fsz' = 0
    /\ seq_num' = 0 /\ largest_ack' = NEG
    /\ last_s_ts' = 0 /\ last_ack_ts' = 0 /\ curr_ts' = 0
    /\ npkts' = 0
    /\ buf' = HandshakeHdr
    /\ cong' = EyenetNew
    /\ now' = 0
    /\ UNCHANGED net

StartFlow ==
    /\ pc = "off" /\ fid <= NCycles
    /\ pc' = "hs_send"
    /\ fsz' \in OnUnits
    /\ seq_num' = 0 /\ largest_ack' = NEG
    /\ UNCHANGED <<sid, fid, clocks, npkts, buf, cong, now, net>>

Exit ==
    /\ pc = "off" /\ fid > NCycles
    /\ pc' = "exit"
    /\ UNCHANGED <<flow, seq_num, largest_ack, clocks, npkts, buf, cong, now, net>>

-----------------------------------------------------------------------------
(* handshake *)

HsSend ==
    /\ pc = "hs_send"
    /\ pc' = "hs_wait"
    /\ Transmit(HandshakeHdr)
    /\ buf' = HandshakeHdr
    /\ UNCHANGED <<flow, seq_num, largest_ack, clocks, npkts, cong, now>>

\* Mutant: a timeout is taken for an answer (break instead of continue).
HsTimeout_Break ==
    /\ pc = "hs_wait"
    /\ pc' = "start"
    /\ UNCHANGED <<flow, seq_num, largest_ack, clocks, npkts, buf, cong, now, net>>

\* Mutant: the handshake is sent once, before the loop.
HsTimeout_NoResend ==
    /\ pc = "hs_wait"
    /\ UNCHANGED vars

\* recv_data returned 0 after 200 ms, which is also when a resend is due.
HsTimeout ==
    /\ pc = "hs_wait"
    /\ pc' = "hs_send"
    /\ UNCHANGED <<flow, seq_num, largest_ack, clocks, npkts, buf, cong, now, net>>

\* Any header but the handshake's is skipped; 200 ms may or may not be over.
HsContinue(h) ==
    pc' \in IF h = HandshakeHdr THEN {"start"} ELSE {"hs_send", "hs_wait"}

HsRecv(m) ==
    /\ pc = "hs_wait"
    /\ Receive(m)
    /\ HsContinue(m)
    /\ UNCHANGED <<flow, seq_num, largest_ack, clocks, npkts, cong, now>>

HsError ==
    /\ pc = "hs_wait"
    /\ ReceiveError
    /\ HsContinue(buf)
    /\ UNCHANGED <<flow, seq_num, largest_ack, clocks, npkts, cong, now>>

-----------------------------------------------------------------------------
(* send_data *)

InFlow == pc \in {"head", "burst", "poll"}

\* The macro _switch_sz.
SwitchSz == IF ByteSwitcher THEN npkts * Payload ELSE curr_ts

Begin ==
    /\ pc = "start"
    /\ pc' = "head"
    /\ now' = 0
    /\ last_s_ts' = 0 /\ last_ack_ts' = 0 /\ curr_ts' = 0
    /\ cong' = Initialize(cong)
    /\ UNCHANGED <<flow, seq_num, largest_ack, npkts, buf, net>>

FinishFlow ==
    /\ pc = "head" /\ SwitchSz >= fsz
    /\ pc' = "off"
    /\ fid' = fid + 1
    /\ curr_ts' = now
    /\ UNCHANGED <<sid, fsz, seq_num, largest_ack, last_s_ts, last_ack_ts,
                   npkts, buf, cong, now, net>>

\* Top of the loop.
AckIsLate == now - last_ack_ts > AckTimeout

LoopTop ==
    /\ pc = "head" /\ SwitchSz < fsz /\ ~AckIsLate
    /\ pc' = "burst"
    /\ curr_ts' = now
    /\ UNCHANGED <<flow, seq_num, largest_ack, last_s_ts, last_ack_ts, npkts,
                   buf, cong, now, net>>

\* Mutant: the reset closes the window.
ResetBase_Neg == NEG

\* Where the window restarts: everything sent but the last packet is given up.
ResetBase == seq_num - 1

\* "Timeout occured": forget the outstanding packets and start over.
AckTimeoutReset ==
    /\ pc = "head" /\ SwitchSz < fsz /\ AckIsLate
    /\ pc' = "burst"
    /\ curr_ts' = now /\ last_s_ts' = now /\ last_ack_ts' = now
    /\ largest_ack' = ResetBase
    /\ cong' = Initialize(cong)
    /\ UNCHANGED <<flow, seq_num, npkts, buf, now, net>>

\* Mutant: the window test is off by one.
CanSend_OneMore ==
    \/ seq_num <= largest_ack + cong.cwnd + 1
       /\ last_s_ts + cong.intersend * BnTrain <= curr_ts
    \/ seq_num % BnTrain # 0

\* The inner loop: packets go out while the window is open and the pacing time
\* has come, and until the train is complete.
CanSend ==
    \/ seq_num < largest_ack + cong.cwnd + 1
       /\ last_s_ts + cong.intersend * BnTrain <= curr_ts
    \/ seq_num % BnTrain # 0

SendPkt ==
    /\ pc = "burst" /\ CanSend
    /\ seq_num < MaxSeq
    /\ Transmit(Header)
    /\ buf' = Header
    /\ last_s_ts' = last_s_ts + cong.intersend
    /\ cong' = IF seq_num % BnTrain = 0
               THEN OnPktSent(cong, seq_num \div BnTrain) ELSE cong
    /\ seq_num' = seq_num + 1
    /\ UNCHANGED <<pc, flow, largest_ack, last_ack_ts, curr_ts, npkts, now>>

EndBurst ==
    /\ pc = "burst" /\ ~CanSend
    /\ pc' = "poll"
    /\ last_s_ts' = IF \/ curr_ts - last_s_ts >= cong.intersend * BnTrain
                       \/ seq_num >= largest_ack + cong.cwnd
                    THEN curr_ts ELSE last_s_ts
    /\ curr_ts' = now
    /\ UNCHANGED <<flow, seq_num, largest_ack, last_ack_ts, npkts, buf, cong,
                   now, net>>

\* Mutant: the default of line 211 is not replaced by the pacing time.
PollTime_Absolute == last_s_ts + 1000

\* The argument of poll: as an int32_t, and forever if it is negative.
PollTime ==
    IF cong.cwnd > 0
    THEN SmallerOf(PollCap, last_s_ts + cong.intersend * BnTrain - curr_ts)
    ELSE last_s_ts + 1000

\* recv_data returned 0.  on_to does nothing.
PollTimeout ==
    /\ pc = "poll"
    /\ PollTime >= 0 /\ now >= curr_ts + PollTime
    /\ pc' = "head"
    /\ curr_ts' = now
    /\ UNCHANGED <<flow, seq_num, largest_ack, last_s_ts, last_ack_ts, npkts,
                   buf, cong, now, net>>

\* Mutant: on_ack is called whatever bn_train is.
CongAfterAck_Always(h) ==
    IF h.seq # 0
    THEN {OnAck(cong, (h.seq + 1) \div BnTrain, now, send_ts, srtt) :
              send_ts \in 0..now, srtt \in 0..now}
    ELSE {cong}

\* The call of on_ack and its guard; the times in the header and the moving
\* average are any the clock allows.
CongAfterAck(h) ==
    IF h.seq # 0 /\ BnTrain = 0
    THEN {OnAck(cong, (h.seq + 1) \div BnTrain, now, send_ts, srtt) :
              send_ts \in 0..now, srtt \in 0..now}
    ELSE {cong}

\* Mutants: echoes of other flows, or of anything, count.
IsMine_AnyFlow(h) == h.sid = sid
IsMine_Any(h) == TRUE

\* The acknowledgement is of this flow and this sender.
IsMine(h) == h.sid = sid /\ h.fid = fid

\* Mutant: receiver and sender both add one,
\* as the comment at vns_transport.hh:226 would have it if only half was done.
NewBase_TwiceIncremented(h) == LargerOf(largest_ack, h.seq + 2)

\* The sender adds one to the echoed number; the base never goes back.
NewBase(h) == LargerOf(largest_ack, h.seq + 1)

\* The rest of the loop's body, for the header in the buffer.
ProcessAck(h) ==
    /\ pc' = "head"
    /\ IF IsMine(h)
       THEN /\ npkts < MaxPkts
            /\ curr_ts' = now /\ last_ack_ts' = now
            /\ npkts' = npkts + 1
            /\ cong' \in CongAfterAck(h)
            /\ largest_ack' = NewBase(h)
       ELSE UNCHANGED <<curr_ts, last_ack_ts, npkts, cong, largest_ack>>
    /\ UNCHANGED <<flow, seq_num, last_s_ts, now>>

PollPacket(m) ==
    /\ pc = "poll"
    /\ Receive(m)
    /\ ProcessAck(m)

\* Only 0 is tested for: an error is taken for a datagram.
PollError ==
    /\ pc = "poll"
    /\ ReceiveError
    /\ ProcessAck(buf)

-----------------------------------------------------------------------------
(* The receiver, the network and the clock *)

sender == <<pc, flow, seq_num, largest_ack, clocks, npkts, buf, cong>>

\* One round of ack_packets.  A failed receive is repeated and changes nothing.
ReceiverAck(m) ==
    /\ m \in toReceiver
    /\ toReceiver' \in Take(toReceiver, m)
    /\ toSender' = toSender \cup {m}
    /\ acked' = acked \cup {m}
    /\ UNCHANGED <<sender, now>>

LoseData(m) ==
    /\ Loss /\ m \in toReceiver
    /\ toReceiver' = toReceiver \ {m}
    /\ UNCHANGED <<sender, now, toSender, acked>>

LoseAck(m) ==
    /\ Loss /\ m \in toSender
    /\ toSender' = toSender \ {m}
    /\ UNCHANGED <<sender, now, toReceiver, acked>>

Tick ==
    /\ InFlow /\ now < MaxTime
    /\ pc = "burst" => now - curr_ts < BurstDelay
    /\ now' = now + 1
    /\ UNCHANGED <<sender, net>>

-----------------------------------------------------------------------------

\* A step of the sending program that needs nothing from the network.
SenderStep ==
    \/ StartFlow \/ Exit
    \/ HsSend \/ HsTimeout
    \/ Begin \/ FinishFlow
    \/ LoopTop \/ AckTimeoutReset
    \/ SendPkt \/ EndBurst
    \/ PollTimeout

Next ==
    \/ SenderStep
    \/ \E m \in toSender : HsRecv(m) \/ PollPacket(m) \/ LoseAck(m)
    \/ HsError \/ PollError
    \/ \E m \in toReceiver : ReceiverAck(m) \/ LoseData(m)
    \/ Relaunch
    \/ Tick

Spec == Init /\ [][Next]_vars

(* Fairness.  The sending program keeps running: a step that needs nothing *)
(* from the network is taken in the end, but a poll with a negative time is *)
(* no such step.  A poll that finds a datagram returns it in the end; time  *)
(* goes on even while the sender loops without waiting; the receiver serves *)
(* its socket; and of the handshakes that are repeated for ever not every   *)
(* one is lost or late.                                                     *)

ReceiveOne == \E m \in toSender : PollPacket(m) /\ m \notin toSender'
EchoOne == \E m \in toReceiver : ReceiverAck(m) /\ m \notin toReceiver'
EchoHandshake == pc = "hs_wait" /\ ReceiverAck(HandshakeHdr)

Fairness ==
    /\ WF_vars(SenderStep)
    /\ SF_vars(ReceiveOne)
    /\ WF_vars(EchoOne)
    /\ SF_vars(EchoHandshake)
    /\ SF_vars(HsRecv(HandshakeHdr))
    /\ SF_vars(Tick)

FairSpec == Spec /\ Fairness

-----------------------------------------------------------------------------

Message == {HandshakeHdr} \cup [seq : Nat, fid : Nat, sid : Nat]

\* The controller as the transport leaves it: only packets sent are counted.
CongType ==
    [cwnd : {2, Nprobe}, intersend : {0}, delta : {2}, ss : BOOLEAN,
     nack : {0}, nlost : {0}, nsent : Nat, unacked : SUBSET Nat,
     rtt : {RttWinNew}, lr : {LossReduceNew}]

\* Type invariant.  CongType says more than a type: the program never reaches
\* eyenet::on_ack, so window and pacing keep their initial values.
TypeOK ==
    /\ pc \in {"off", "hs_send", "hs_wait", "start", "head", "burst", "poll", "exit"}
    /\ sid \in Nat /\ fid \in Nat \ {0} /\ fsz \in Nat
    /\ seq_num \in Nat /\ largest_ack \in Int
    /\ last_s_ts \in Nat /\ last_ack_ts \in Nat /\ curr_ts \in Nat
    /\ npkts \in Nat /\ now \in Nat
    /\ buf \in Message
    /\ cong \in CongType
    /\ toReceiver \subseteq Message /\ toSender \subseteq Message
    /\ acked \subseteq Message

\* The sender never runs further ahead of the acknowledgements than the window
\* and one train, although a train, once begun, ignores the window, and the
\* window base jumps back and forth at acknowledgement timeouts.
WindowBound ==
    InFlow => seq_num <= largest_ack + cong.cwnd + BnTrain

\* No acknowledgement moves the window past what this flow has sent: echoes of
\* an earlier flow or of an earlier sender, which share the ports and the
\* sequence numbers, never count.
AckWasSent == InFlow => largest_ack <= seq_num

\* A header is transmitted once: no header that is under way, logged by the
\* receiver or left in the buffer can be the one a flow sends next.
IsOlder(m) ==
    \/ m = HandshakeHdr
    \/ m.sid < sid
    \/ m.sid = sid /\ m.fid < fid
    \/ m.sid = sid /\ m.fid = fid /\ m.seq < seq_num /\ InFlow

HeadersAreFresh ==
    \A m \in toReceiver \cup toSender \cup acked \cup {buf} : IsOlder(m)

\* Nothing is transmitted, and no acknowledgement counted, before the peer has
\* echoed a handshake.
HandshakeSound == InFlow => HandshakeHdr \in acked

\* The packets of this run that the receiver has logged.
Delivered(f) == {m \in acked : m.sid = sid /\ m.fid = f}

\* The byte count of a run (npkts * PAYLOAD) never exceeds what the receiver
\* got from this run, over all its flows and whatever is still under way from
\* an earlier run.  The network must not duplicate, or an echo counts twice.
BytesAreDelivered ==
    npkts <= Cardinality(UNION {Delivered(f) : f \in 1..fid})

\* A flow in byte mode that has ended has delivered its bytes.
FlowDelivers ==
    (ByteSwitcher /\ pc = "off" /\ fid > 1)
        => Cardinality(Delivered(fid - 1)) * Payload >= fsz

\* The poll of send_data never waits for a bounded time: the pacing time is
\* over when it is reached, so it returns at once or, if the clock moved since
\* the top of the loop, blocks until a datagram comes.
SpinsOrBlocks == pc = "poll" => PollTime <= 0

\* Within a flow the window base moves forward, whatever the order in which
\* acknowledgements arrive; only an acknowledgement timeout with nothing
\* outstanding takes it back, by one.
WindowNeverRetreats ==
    [][ InFlow /\ InFlow' /\ sid' = sid /\ fid' = fid =>
            \/ largest_ack' >= largest_ack
            \/ largest_ack = seq_num /\ largest_ack' = seq_num - 1 ]_vars

\* The transport is an EchoWindow: one flow after the other, each with a fresh
\* window, credited only by echoes of its own packets.
EW == INSTANCE EchoWindow WITH
    Window <- Nprobe,
    Train  <- BnTrain,
    open   <- InFlow,
    next   <- IF InFlow THEN seq_num ELSE 0,
    base   <- IF InFlow THEN largest_ack ELSE NEG,
    echoed <- IF InFlow THEN {m.seq : m \in Delivered(fid)} ELSE {}

ImplementsEchoWindow == EW!WSpec

\* The bound on packets: the burst would go on and the model does not.
AtBound == pc = "burst" /\ seq_num = MaxSeq /\ CanSend

\* The clock moved in the burst, so poll got a negative time and waits for a
\* datagram, and none will come: the network lost all that was outstanding.
Blocked == pc = "poll" /\ PollTime < 0 /\ toReceiver \cup toSender = {}

\* A run of the program comes to its end, through handshakes that are repeated
\* until one is answered, polls that time out at once or return a late or
\* foreign echo, and acknowledgement timeouts.  The only thing that stops it
\* (but for the bound on packets) is the poll without an end of line 214, which
\* is not promised to return: see SilenceIsNoticed.
RunEnds == []<>(pc = "exit" \/ Blocked \/ AtBound)

\* A silence of the peer longer than the acknowledgement timeout is noticed
\* ("Timeout occured", after which "we reset the acks and ack ts",
\* vns_transport.hh:176-179), or the flow ends.
SilenceIsNoticed == (InFlow /\ AckIsLate) ~> (~InFlow \/ ~AckIsLate)
=============================================================================
