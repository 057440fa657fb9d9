-------------------------- MODULE EndpointsProofs --------------------------
(***************************************************************************)
(* Theorems about vns processes for any number of them, any hosts, command *)
(* lines, launches and datagrams.                                          *)
(***************************************************************************)
EXTENDS Endpoints, TLAPS

Listening == [prog |-> "receiver"]
Lines == Commands \cup {Listening}

\* A sender that is past its command line and has not ended.
Sending(p) == pc[p] \in Shaking \cup {"run", "flow"}

\* One that has run, and may have ended by itself.
HasRun(p) == Sending(p) \/ (pc[p] = "done" /\ ~Refused(line[p]))

-----------------------------------------------------------------------------
(* The invariant *)

Datagrams ==
    [src : Address, dst : Address, hops : 0..MaxHops,
     hdr : {Handshake} \cup [sid : 1..MaxLaunches, fid : Nat]]

DataType ==
    /\ line \in [Proc -> Lines]
    /\ pc \in [Proc -> Ended \cup Shaking \cup {"run", "flow", "listen"}]
    /\ bound \in [Proc -> BOOLEAN]
    /\ sid \in [Proc -> 0..MaxLaunches] /\ fid \in [Proc -> Nat]
    /\ npkts \in [Proc -> {0, 1}]
    /\ launches \in 0..MaxLaunches
    /\ under_way \subseteq Datagrams

SeenType ==
    /\ seen \in [aimed : SUBSET Address, senders : SUBSET Address,
                 receivers : SUBSET Address, connected : [Proc -> 0..MaxHops],
                 credited : [Proc -> SUBSET (0..MaxHops)]]

\* A process with a port is running, and everybody knows of its address.
PortInv ==
    \A p \in Proc :
        /\ bound[p] => pc[p] \notin Ended
        /\ pc[p] \in {"hs_wait", "flow"} => bound[p]
        /\ bound[p] /\ pc[p] = "listen" => Addr(p) \in seen.receivers
        /\ bound[p] /\ Sending(p) => Addr(p) \in seen.senders /\ Dst(p) \in seen.aimed

PortsAreOwn ==
    \A p, q \in Proc : bound[p] /\ bound[q] /\ Addr(p) = Addr(q) => p = q

\* No two senders have one identity.
SidInv ==
    /\ \A p \in Proc : Sending(p) => sid[p] \in 1..launches
    /\ \A p, q \in Proc : Sending(p) /\ Sending(q) /\ sid[p] = sid[q] => p = q

\* Where a datagram can come from, by how often it was echoed.
Traceable(d) ==
    /\ d.hops = 0 => d.src \in seen.senders
    /\ d.hops > 0 => d.src \in seen.receivers
    /\ d.hops = 1 => d.dst \in seen.senders
    /\ d.hops > 1 => seen.senders \cap seen.receivers # {}
    /\ d.hops = 0 /\ d.hdr = Handshake => d.dst \in seen.aimed

\* What has a header of a running sender and was not echoed is on its way from
\* that sender to the peer of that sender.
Headed(d) ==
    /\ d.hdr # Handshake => d.hdr.sid <= launches
    /\ \A p \in Proc :
        Sending(p) /\ d.hops = 0 /\ d.hdr.sid = sid[p] =>
            d.src = Addr(p) /\ d.dst = Dst(p)

DatagramInv == \A d \in under_way : Traceable(d) /\ Headed(d)

CreditInv ==
    \A p \in Proc :
        /\ pc[p] = "flow" /\ seen.connected[p] = 0 => Addr(p) \in seen.aimed
        /\ HasRun(p) /\ 0 \in seen.credited[p] => Dst(p) = Addr(p)
        /\ npkts[p] # 0 => seen.credited[p] # {}

\* A flow in bytes that has been left was credited.
CycleInv ==
    \A p \in Proc : HasRun(p) =>
        /\ pc[p] = "done" => fid[p] > Args(p).cycles
        /\ Args(p).cong = "eyenet" /\ Args(p).switcher = "bytes"
             /\ Args(p).on_units > 0 /\ fid[p] > 1 => npkts[p] # 0

Inv == /\ DataType /\ SeenType /\ PortInv /\ PortsAreOwn /\ SidInv
       /\ DatagramInv /\ CreditInv /\ CycleInv

-----------------------------------------------------------------------------
(* Command lines *)

LEMMA LineType ==
    ASSUME NEW c \in Lines
    PROVE  PortOf(c) \in Nat /\ SenderArgs(c).dst_port \in Nat
           /\ SenderArgs(c).cycles \in Int
<1>1. CASE c = Listening
  BY <1>1 DEF Listening, PortOf, SenderArgs, Option
<1>2. CASE c \in Commands
  BY <1>2, EndpointConstants DEF PortOf, SenderArgs, Option
<1> QED
  BY <1>1, <1>2 DEF Lines

LEMMA AddrType ==
    ASSUME DataType, NEW p \in Proc
    PROVE  Addr(p) \in Address /\ Dst(p) \in Address
<1>1. line[p] \in Lines
  BY DEF DataType
<1> QED
  BY <1>1, LineType, EndpointConstants DEF Addr, Dst, Address, Args

LEMMA InvInit == Init => Inv
<1> SUFFICES ASSUME Init PROVE Inv
  OBVIOUS
<1> USE EndpointConstants DEF Init
<1>1. DataType
  BY DEF DataType, Lines, Listening, Ended
<1>2. SeenType
  BY DEF SeenType
<1>3. PortInv /\ PortsAreOwn
  BY DEF PortInv, PortsAreOwn, Ended, Sending, Shaking
<1>4. SidInv /\ DatagramInv
  BY DEF SidInv, DatagramInv, Sending, Shaking
<1>5. CreditInv /\ CycleInv
  BY DEF CreditInv, CycleInv, HasRun, Sending, Shaking
<1> QED
  BY <1>1, <1>2, <1>3, <1>4, <1>5 DEF Inv

-----------------------------------------------------------------------------
(* Steps in which nobody starts *)

\* No process enters a place that depends on what it was before.
Quiet ==
    /\ UNCHANGED <<line, sid, launches>>
    /\ UNCHANGED <<seen.aimed, seen.senders, seen.receivers>>
    /\ \A q \in Proc :
        /\ bound'[q] => bound[q] /\ pc'[q] \notin Ended
        /\ Sending(q)' => Sending(q)
        /\ pc'[q] = "listen" => pc[q] = "listen"
        /\ pc'[q] \in {"hs_wait", "flow"} => bound'[q]

LEMMA QuietStep ==
    ASSUME Inv, Quiet,
           \A d \in under_way' : d \in under_way \/ (Traceable(d) /\ Headed(d))
    PROVE  PortInv' /\ PortsAreOwn' /\ SidInv' /\ DatagramInv'
<1>1. \A q \in Proc : Addr(q)' = Addr(q) /\ Dst(q)' = Dst(q)
  BY DEF Quiet, Addr, Dst, Args
<1>2. PortInv' /\ PortsAreOwn' /\ SidInv'
  <2>1. PortInv'
    <3> SUFFICES ASSUME NEW q \in Proc
                 PROVE  /\ bound'[q] => pc'[q] \notin Ended
                        /\ pc'[q] \in {"hs_wait", "flow"} => bound'[q]
                        /\ bound'[q] /\ pc'[q] = "listen" => Addr(q) \in seen.receivers
                        /\ bound'[q] /\ Sending(q)' =>
                             Addr(q) \in seen.senders /\ Dst(q) \in seen.aimed
      BY <1>1 DEF PortInv, Quiet
    <3> QED
      BY DEF Quiet, Inv, PortInv
  <2>2. PortsAreOwn'
    BY <1>1 DEF Quiet, Inv, PortsAreOwn
  <2>3. SidInv'
    BY DEF Quiet, Inv, SidInv
  <2> QED
    BY <2>1, <2>2, <2>3
<1>3. DatagramInv'
  <2> SUFFICES ASSUME NEW d \in under_way' PROVE Traceable(d)' /\ Headed(d)'
    BY DEF DatagramInv
  <2>1. Traceable(d) /\ Headed(d)
    BY DEF Inv, DatagramInv
  <2>2. Traceable(d)'
    BY <2>1 DEF Traceable, Quiet
  <2>3. Headed(d)'
    BY <1>1, <2>1 DEF Headed, Quiet
  <2> QED
    BY <2>2, <2>3
<1> QED
  BY <1>2, <1>3

LEMMA QuietCredit ==
    ASSUME Inv, UNCHANGED <<line, npkts, seen>>,
           \A q \in Proc : /\ HasRun(q)' => HasRun(q)
                           /\ pc'[q] = "flow" => pc[q] = "flow"
    PROVE  CreditInv'
<1>1. \A q \in Proc : Addr(q)' = Addr(q) /\ Dst(q)' = Dst(q)
  BY DEF Addr, Dst, Args
<1> QED
  BY <1>1 DEF Inv, CreditInv

LEMMA QuietCycle ==
    ASSUME Inv, UNCHANGED <<line, npkts, fid>>,
           \A q \in Proc : /\ HasRun(q)' => HasRun(q)
                           /\ pc'[q] = "done" => pc[q] = "done"
    PROVE  CycleInv'
<1>1. \A q \in Proc : Args(q)' = Args(q)
  BY DEF Args
<1> QED
  BY <1>1 DEF Inv, CycleInv

Places == Ended \cup Shaking \cup {"run", "flow", "listen"}

\* Process p, which has not ended, goes on as s, and is not in a flow after it
\* that it was not in before.
LEMMA MovesOn ==
    ASSUME Inv, NEW p \in Proc, NEW s \in Places, Becomes(p, s),
           UNCHANGED <<line, sid, npkts, launches, seen>>,
           s \notin Ended => Sending(p) /\ s # "listen",
           s = "flow" => pc[p] = "flow",
           s = "hs_wait" => bound[p],
           s = "done" => Sending(p),
           under_way' \subseteq Datagrams,
           \A d \in under_way' : d \in under_way \/ (Traceable(d) /\ Headed(d)),
           fid' \in [Proc -> Nat]
    PROVE  /\ DataType' /\ SeenType' /\ PortInv' /\ PortsAreOwn' /\ SidInv'
           /\ DatagramInv' /\ CreditInv'
           /\ s # "done" /\ UNCHANGED fid => CycleInv'
<1>1. /\ pc' \in [Proc -> Places] /\ bound' \in [Proc -> BOOLEAN]
      /\ pc'[p] = s /\ bound'[p] = (bound[p] /\ s \notin Ended)
      /\ \A q \in Proc : q # p => pc'[q] = pc[q] /\ bound'[q] = bound[q]
  BY DEF Becomes, Inv, DataType, Places
<1>2. \A q \in Proc : /\ Sending(q)' => Sending(q)
                      /\ HasRun(q)' => HasRun(q)
  <2>1. \A q \in Proc : q # p => Sending(q)' = Sending(q) /\ HasRun(q)' = HasRun(q)
    BY <1>1 DEF Sending, HasRun
  <2>2. Sending(p)' => Sending(p)
    BY <1>1 DEF Sending, Ended, Shaking
  <2>3. HasRun(p)' => HasRun(p)
    BY <1>1, <2>2 DEF HasRun
  <2> QED
    BY <2>1, <2>2, <2>3
<1>3. Quiet
  <2>1. \A q \in Proc : /\ bound'[q] => bound[q] /\ pc'[q] \notin Ended
                        /\ pc'[q] = "listen" => pc[q] = "listen"
                        /\ pc'[q] \in {"hs_wait", "flow"} => bound'[q]
    BY <1>1 DEF Inv, PortInv, Ended
  <2> QED
    BY <1>2, <2>1 DEF Quiet
<1>4. DataType' /\ SeenType'
  BY <1>1 DEF Inv, DataType, SeenType, Places
<1>5. CreditInv'
  BY <1>1, <1>2, QuietCredit
<1>6. s # "done" /\ UNCHANGED fid => CycleInv'
  BY <1>1, <1>2, QuietCycle
<1> QED
  BY <1>3, <1>4, <1>5, <1>6, QuietStep

-----------------------------------------------------------------------------
(* The actions of a sender *)

LEMMA IperfStep == ASSUME Inv, NEW p \in Proc, Iperf(p) PROVE Inv'
<1>1. /\ pc[p] = "run" /\ Args(p).cong = "linux"
      /\ fid' = [fid EXCEPT ![p] = @ + 1]
      /\ UNCHANGED <<line, pc, bound, sid, npkts, under_way, launches, seen>>
  BY DEF Iperf
<1>2. Quiet
  BY <1>1 DEF Quiet, Sending, Inv, PortInv
<1>3. PortInv' /\ PortsAreOwn' /\ SidInv' /\ DatagramInv'
  BY <1>1, <1>2, QuietStep
<1>4. DataType' /\ SeenType'
  BY <1>1 DEF Inv, DataType, SeenType
<1>5. \A q \in Proc : HasRun(q)' = HasRun(q) /\ Args(q)' = Args(q)
  BY <1>1 DEF HasRun, Sending, Args
<1>6. CreditInv'
  BY <1>1, <1>5, QuietCredit
<1>7. CycleInv'
  <2>1. \A q \in Proc : q # p => fid'[q] = fid[q]
    BY <1>1 DEF Inv, DataType
  <2> QED
    BY <1>1, <1>5, <2>1 DEF Inv, CycleInv
<1> QED
  BY <1>3, <1>4, <1>6, <1>7 DEF Inv

LEMMA StartFlowStep == ASSUME Inv, NEW p \in Proc, StartFlow(p) PROVE Inv'
<1>1. "hs_send" \in Places /\ "hs_send" \notin Ended /\ Sending(p)
  BY DEF Places, Shaking, Ended, StartFlow, Sending
<1>2. fid' \in [Proc -> Nat] /\ under_way' \subseteq Datagrams
  BY DEF StartFlow, Inv, DataType
<1> QED
  BY <1>1, <1>2, MovesOn DEF StartFlow, Inv

LEMMA ExitStep == ASSUME Inv, NEW p \in Proc, Exit(p) PROVE Inv'
<1>1. "done" \in Places /\ "done" \in Ended /\ Sending(p)
  BY DEF Places, Ended, Exit, Sending
<1>2. /\ Becomes(p, "done") /\ fid[p] > Args(p).cycles
      /\ UNCHANGED <<line, sid, fid, npkts, under_way, launches, seen>>
  BY DEF Exit
<1>3. fid' \in [Proc -> Nat] /\ under_way' \subseteq Datagrams
  BY <1>2 DEF Inv, DataType
<1>4. /\ DataType' /\ SeenType' /\ PortInv' /\ PortsAreOwn' /\ SidInv'
      /\ DatagramInv' /\ CreditInv'
  BY <1>1, <1>2, <1>3, MovesOn
<1>5. CycleInv'
  <2>1. \A q \in Proc : q # p => pc'[q] = pc[q]
    BY <1>2 DEF Becomes, Inv, DataType
  <2>2. \A q \in Proc : Args(q)' = Args(q) /\ (HasRun(q)' => HasRun(q))
    BY <1>1, <1>2, <2>1 DEF Args, HasRun, Sending
  <2> QED
    BY <1>2, <2>1, <2>2 DEF Inv, CycleInv
<1> QED
  BY <1>4, <1>5 DEF Inv

LEMMA EndFlowStep == ASSUME Inv, NEW p \in Proc, EndFlow(p) PROVE Inv'
<1>1. "run" \in Places /\ "run" \notin Ended /\ Sending(p)
  BY DEF Places, Ended, EndFlow, Sending
<1>2. /\ Becomes(p, "run") /\ SizeReached(p)
      /\ fid' = [fid EXCEPT ![p] = @ + 1]
      /\ UNCHANGED <<line, sid, npkts, under_way, launches, seen>>
  BY DEF EndFlow
<1>3. fid' \in [Proc -> Nat] /\ under_way' \subseteq Datagrams
  BY <1>2 DEF Inv, DataType
<1>4. /\ DataType' /\ SeenType' /\ PortInv' /\ PortsAreOwn' /\ SidInv'
      /\ DatagramInv' /\ CreditInv'
  BY <1>1, <1>2, <1>3, MovesOn
<1>5. CycleInv'
  <2>1. /\ pc'[p] = "run"
        /\ \A q \in Proc : q # p => pc'[q] = pc[q] /\ fid'[q] = fid[q]
    BY <1>2 DEF Becomes, Inv, DataType
  <2>2. \A q \in Proc : Args(q)' = Args(q) /\ (HasRun(q)' => HasRun(q))
    BY <1>1, <1>2, <2>1 DEF Args, HasRun, Sending
  <2>3. Args(p).switcher = "bytes" /\ Args(p).on_units > 0 => npkts[p] # 0
    BY <1>2 DEF SizeReached
  <2> QED
    BY <1>2, <2>1, <2>2, <2>3 DEF Inv, CycleInv
<1> QED
  BY <1>4, <1>5 DEF Inv

\* What a sender sends is known to be from it and for its peer.
LEMMA OwnDatagram ==
    ASSUME Inv, NEW p \in Proc, bound[p], Sending(p), NEW hdr \in {Handshake, Header(p)}
    PROVE  LET d == Datagram(Addr(p), Dst(p), hdr, 0) IN
           d \in Datagrams /\ Traceable(d) /\ Headed(d)
<1> DEFINE d == Datagram(Addr(p), Dst(p), hdr, 0)
<1>1. /\ d.src = Addr(p) /\ d.dst = Dst(p) /\ d.hdr = hdr /\ d.hops = 0
      /\ d = [src |-> Addr(p), dst |-> Dst(p), hdr |-> hdr, hops |-> 0]
  BY DEF Datagram
<1>2. sid[p] \in 1..launches /\ launches \in 0..MaxLaunches /\ fid[p] \in Nat
  BY DEF Inv, SidInv, DataType
<1>3. hdr \in {Handshake} \cup [sid : 1..MaxLaunches, fid : Nat]
  BY <1>2, EndpointConstants DEF Header
<1> HIDE DEF d
<1>4. d \in Datagrams
  BY <1>1, <1>3, AddrType, EndpointConstants DEF Datagrams, Inv
<1>5. Traceable(d)
  BY <1>1 DEF Traceable, Inv, PortInv
<1>6. Headed(d)
  <2>1. hdr # Handshake => hdr.sid = sid[p]
    BY DEF Header
  <2>2. hdr = Handshake => hdr.sid = NEG
    BY DEF Handshake
  <2>3. \A q \in Proc : Sending(q) => sid[q] \in 1..launches /\ sid[q] # NEG
    BY <1>2 DEF Inv, SidInv, NEG
  <2> QED
    BY <1>1, <1>2, <2>1, <2>2, <2>3 DEF Headed, Inv, SidInv
<1> QED
  BY <1>4, <1>5, <1>6 DEF d

LEMMA HsSendStep == ASSUME Inv, NEW p \in Proc, HsSend(p) PROVE Inv'
<1>1. /\ Sending(p) /\ {"hs_wait", "aborted"} \subseteq Places
      /\ "hs_wait" \notin Ended /\ "aborted" \in Ended
  BY DEF Places, Shaking, Ended, HsSend, Sending
<1>2. UNCHANGED <<line, sid, fid, npkts, launches, seen>>
  BY DEF HsSend
<1>3. fid' \in [Proc -> Nat]
  BY <1>2 DEF Inv, DataType
<1>4. CASE bound[p]
  <2> DEFINE d == Datagram(Addr(p), Dst(p), Handshake, 0)
  <2>1. under_way' = under_way \cup {d} /\ Becomes(p, "hs_wait")
    BY <1>4 DEF HsSend, Sent
  <2>2. d \in Datagrams /\ Traceable(d) /\ Headed(d)
    BY <1>1, <1>4, OwnDatagram
  <2> HIDE DEF d
  <2>3. under_way' \subseteq Datagrams
    BY <2>1, <2>2 DEF Inv, DataType
  <2> QED
    BY <1>1, <1>2, <1>3, <1>4, <2>1, <2>2, <2>3, MovesOn DEF Inv
<1>5. CASE ~bound[p]
  <2>1. under_way' = under_way /\ Becomes(p, "aborted")
    BY <1>5 DEF HsSend
  <2>2. under_way' \subseteq Datagrams
    BY <2>1 DEF Inv, DataType
  <2> QED
    BY <1>1, <1>2, <1>3, <2>1, <2>2, MovesOn DEF Inv
<1> QED
  BY <1>4, <1>5

LEMMA SendDataStep == ASSUME Inv, NEW p \in Proc, SendData(p) PROVE Inv'
<1> DEFINE d == Datagram(Addr(p), Dst(p), Header(p), 0)
<1>1. /\ Sending(p) /\ {"flow", "aborted"} \subseteq Places
      /\ "flow" \notin Ended /\ "aborted" \in Ended
  BY DEF Places, Shaking, Ended, SendData, Sending
<1>2. /\ pc[p] = "flow" /\ bound[p]
      /\ under_way' = under_way \cup {d}
      /\ UNCHANGED <<line, sid, fid, npkts, launches, seen>>
  BY DEF SendData, Sent, Inv, PortInv
<1>3. PICK s \in {"flow", "aborted"} : Becomes(p, s)
  BY DEF SendData
<1>4. fid' \in [Proc -> Nat]
  BY <1>2 DEF Inv, DataType
<1>5. d \in Datagrams /\ Traceable(d) /\ Headed(d)
  BY <1>1, <1>2, OwnDatagram
<1> HIDE DEF d
<1>6. under_way' \subseteq Datagrams
  BY <1>2, <1>5 DEF Inv, DataType
<1> QED
  BY <1>1, <1>2, <1>3, <1>4, <1>5, <1>6, MovesOn DEF Inv

\* Losing, taking and leaving datagrams.
LEMMA Fewer ==
    ASSUME Inv, NEW d, under_way' \in Without(d)
    PROVE  under_way' \subseteq under_way /\ under_way' \subseteq Datagrams
  BY DEF Without, Inv, DataType

LEMMA HsTimeoutStep == ASSUME Inv, NEW p \in Proc, HsTimeout(p) PROVE Inv'
<1>1. "hs_send" \in Places /\ "hs_send" \notin Ended /\ Sending(p)
  BY DEF Places, Shaking, Ended, HsTimeout, Sending
<1>2. fid' \in [Proc -> Nat] /\ under_way' \subseteq Datagrams
  BY DEF HsTimeout, Inv, DataType
<1> QED
  BY <1>1, <1>2, MovesOn DEF HsTimeout, AfterTimeout, Inv

LEMMA HsRecvStep ==
    ASSUME Inv, NEW p \in Proc, NEW d \in under_way, HsRecv(p, d)
    PROVE  Inv'
<1>1. /\ pc[p] = "hs_wait" /\ bound[p] /\ d.dst = Addr(p) /\ Sending(p)
      /\ UNCHANGED <<line, sid, fid, npkts, launches>>
  BY DEF HsRecv, Deliverable, Sending, Shaking
<1>2. under_way' \subseteq under_way /\ under_way' \subseteq Datagrams
  BY Fewer DEF HsRecv
<1>3. fid' \in [Proc -> Nat]
  BY <1>1 DEF Inv, DataType
<1>4. CASE d.hdr # Handshake
  <2>1. PICK s \in Shaking : Becomes(p, s)
    BY <1>4 DEF HsRecv
  <2>2. s \in Places /\ s \notin Ended /\ s \notin {"listen", "flow", "done"}
    BY DEF Places, Shaking, Ended
  <2>3. UNCHANGED seen
    BY <1>4 DEF HsRecv
  <2> QED
    BY <1>1, <1>2, <1>3, <2>1, <2>2, <2>3, MovesOn DEF Inv
<1>5. CASE d.hdr = Handshake
  <2>1. /\ Becomes(p, "flow")
        /\ seen' = [seen EXCEPT !.connected[p] = d.hops]
    BY <1>5 DEF HsRecv
  <2>2. d \in Datagrams /\ d.hops \in 0..MaxHops
    BY DEF Inv, DataType, Datagrams
  <2>3. /\ SeenType'
        /\ UNCHANGED <<seen.aimed, seen.senders, seen.receivers, seen.credited>>
        /\ seen.connected'[p] = d.hops
        /\ \A q \in Proc : q # p => seen.connected'[q] = seen.connected[q]
    BY <2>1, <2>2 DEF Inv, SeenType
  <2>4. /\ pc'[p] = "flow" /\ bound'[p]
        /\ \A q \in Proc : q # p => pc'[q] = pc[q] /\ bound'[q] = bound[q]
    BY <1>1, <2>1 DEF Becomes, Inv, DataType, Ended
  <2>5. DataType'
    BY <1>1, <1>2, <2>1 DEF Becomes, Inv, DataType
  <2>6. \A q \in Proc : /\ Sending(q)' => Sending(q)
                        /\ HasRun(q)' => HasRun(q)
                        /\ pc'[q] = "done" => pc[q] = "done"
    BY <1>1, <2>4 DEF Sending, HasRun
  <2>7. Quiet
    BY <1>1, <2>3, <2>4, <2>6 DEF Quiet, Inv, PortInv, Ended
  <2>8. PortInv' /\ PortsAreOwn' /\ SidInv' /\ DatagramInv'
    BY <1>2, <2>7, QuietStep
  <2>9. CreditInv'
    <3>1. \A q \in Proc : Addr(q)' = Addr(q) /\ Dst(q)' = Dst(q)
      BY <1>1 DEF Addr, Dst, Args
    <3>2. d.hops = 0 => Addr(p) \in seen.aimed
      BY <1>1, <1>5 DEF Inv, DatagramInv, Traceable
    <3> QED
      BY <1>1, <2>3, <2>4, <2>6, <3>1, <3>2 DEF Inv, CreditInv
  <2>10. CycleInv'
    BY <1>1, <2>6, QuietCycle
  <2> QED
    BY <2>3, <2>5, <2>8, <2>9, <2>10 DEF Inv
<1> QED
  BY <1>4, <1>5

LEMMA RecvAckStep ==
    ASSUME Inv, NEW p \in Proc, NEW d \in under_way, RecvAck(p, d)
    PROVE  Inv'
<1>1. /\ pc[p] = "flow" /\ bound[p] /\ d.dst = Addr(p) /\ Sending(p)
      /\ UNCHANGED <<line, pc, bound, sid, fid, launches>>
  BY DEF RecvAck, Deliverable, Sending, Shaking
<1>2. under_way' \subseteq under_way /\ under_way' \subseteq Datagrams
  BY Fewer DEF RecvAck
<1>3. \A q \in Proc : /\ Addr(q)' = Addr(q) /\ Dst(q)' = Dst(q) /\ Args(q)' = Args(q)
                      /\ Sending(q)' = Sending(q) /\ HasRun(q)' = HasRun(q)
  BY <1>1 DEF Addr, Dst, Args, Sending, HasRun
<1>4. CASE UNCHANGED <<npkts, seen>>
  <2>1. Quiet
    BY <1>1, <1>3, <1>4 DEF Quiet, Inv, PortInv
  <2>2. PortInv' /\ PortsAreOwn' /\ SidInv' /\ DatagramInv'
    BY <1>2, <2>1, QuietStep
  <2>3. CreditInv' /\ CycleInv'
    BY <1>1, <1>3, <1>4, QuietCredit, QuietCycle
  <2>4. DataType' /\ SeenType'
    BY <1>1, <1>2, <1>4 DEF Inv, DataType, SeenType
  <2> QED
    BY <2>2, <2>3, <2>4 DEF Inv
<1>5. CASE /\ IsMine(p, d.hdr)
           /\ npkts' = [npkts EXCEPT ![p] = 1]
           /\ seen' = [seen EXCEPT !.credited[p] = @ \cup {d.hops}]
  <2>1. d.hops \in 0..MaxHops
    BY DEF Inv, DataType, Datagrams
  <2>2. /\ SeenType'
        /\ UNCHANGED <<seen.aimed, seen.senders, seen.receivers, seen.connected>>
        /\ seen.credited'[p] = seen.credited[p] \cup {d.hops}
        /\ \A q \in Proc : q # p => seen.credited'[q] = seen.credited[q]
    BY <1>5, <2>1 DEF Inv, SeenType
  <2>3. /\ npkts'[p] = 1 /\ npkts' \in [Proc -> {0, 1}]
        /\ \A q \in Proc : q # p => npkts'[q] = npkts[q]
    BY <1>5 DEF Inv, DataType
  <2>4. Quiet
    BY <1>1, <1>3, <2>2 DEF Quiet, Inv, PortInv
  <2>5. PortInv' /\ PortsAreOwn' /\ SidInv' /\ DatagramInv'
    BY <1>2, <2>4, QuietStep
  <2>6. d.hops = 0 => Dst(p) = Addr(p)
    <3>1. d.hdr.sid = sid[p]
      BY <1>5 DEF IsMine, Header
    <3> QED
      BY <1>1, <3>1 DEF Inv, DatagramInv, Headed
  <2>7. CreditInv'
    BY <1>1, <1>3, <2>2, <2>3, <2>6 DEF Inv, CreditInv
  <2>8. CycleInv'
    BY <1>1, <1>3, <2>3 DEF Inv, CycleInv
  <2>9. DataType'
    BY <1>1, <1>2, <2>3 DEF Inv, DataType
  <2> QED
    BY <2>2, <2>5, <2>7, <2>8, <2>9 DEF Inv
<1> QED
  BY <1>4, <1>5 DEF RecvAck

-----------------------------------------------------------------------------
(* The actions of a receiver, and of the network *)

LEMMA EndStep == ASSUME Inv, NEW p \in Proc, ListenAborts(p) \/ Kill(p) PROVE Inv'
<1>1. {"aborted", "off"} \subseteq Places /\ {"aborted", "off"} \subseteq Ended
  BY DEF Places, Ended
<1>2. PICK s \in {"aborted", "off"} : Becomes(p, s)
  BY DEF ListenAborts, Kill
<1>3. UNCHANGED <<line, sid, fid, npkts, under_way, launches, seen>>
  BY DEF ListenAborts, Kill
<1>4. fid' \in [Proc -> Nat] /\ under_way' \subseteq Datagrams
  BY <1>3 DEF Inv, DataType
<1> QED
  BY <1>1, <1>2, <1>3, <1>4, MovesOn DEF Inv

LEMMA NetStep ==
    ASSUME Inv, UNCHANGED <<procs, launches, seen>>, under_way' \subseteq Datagrams,
           \A d \in under_way' : d \in under_way \/ (Traceable(d) /\ Headed(d))
    PROVE  Inv'
<1>1. UNCHANGED <<line, pc, bound, sid, fid, npkts, launches, seen>>
  BY DEF procs
<1>2. \A q \in Proc : Sending(q)' = Sending(q) /\ HasRun(q)' = HasRun(q)
  BY <1>1 DEF Sending, HasRun
<1>3. Quiet
  BY <1>1, <1>2 DEF Quiet, Inv, PortInv
<1>4. PortInv' /\ PortsAreOwn' /\ SidInv' /\ DatagramInv'
  BY <1>3, QuietStep
<1>5. CreditInv' /\ CycleInv'
  BY <1>1, <1>2, QuietCredit, QuietCycle
<1>6. DataType' /\ SeenType'
  BY <1>1 DEF Inv, DataType, SeenType
<1> QED
  BY <1>4, <1>5, <1>6 DEF Inv

LEMMA EchoStep ==
    ASSUME Inv, NEW p \in Proc, NEW d \in under_way, Echo(p, d)
    PROVE  Inv'
<1> DEFINE e == Datagram(Addr(p), d.src, d.hdr, More(d.hops))
<1>1. /\ pc[p] = "listen" /\ bound[p] /\ d.dst = Addr(p)
      /\ UNCHANGED <<procs, launches, seen>>
  BY DEF Echo, Deliverable
<1>2. PICK rest \in Without(d) : under_way' = rest \cup {e}
  BY DEF Echo, Sent, EchoTo
<1>3. /\ d \in Datagrams /\ d.src \in Address /\ d.hops \in 0..MaxHops
      /\ d.hdr \in {Handshake} \cup [sid : 1..MaxLaunches, fid : Nat]
  BY DEF Inv, DataType, Datagrams
<1>4. /\ e.src = Addr(p) /\ e.dst = d.src /\ e.hdr = d.hdr /\ e.hops = More(d.hops)
      /\ e = [src |-> Addr(p), dst |-> d.src, hdr |-> d.hdr, hops |-> More(d.hops)]
  BY DEF Datagram
<1>5. /\ More(d.hops) \in 1..MaxHops
      /\ More(d.hops) = 1 => d.hops = 0
  BY <1>3, EndpointConstants DEF More
<1> HIDE DEF e
<1>6. e \in Datagrams
  BY <1>3, <1>4, <1>5, AddrType DEF Datagrams, Inv
<1>7. Addr(p) \in seen.receivers /\ Traceable(d) /\ Headed(d)
  BY <1>1 DEF Inv, PortInv, DatagramInv
<1>8. Traceable(e)
  <2>1. d.hops = 0 \/ d.hops = 1 \/ d.hops > 1
    BY <1>3
  <2>2. e.hops > 1 => seen.senders \cap seen.receivers # {}
    <3>1. CASE d.hops = 0
      BY <1>4, <3>1, EndpointConstants DEF More
    <3>2. CASE d.hops = 1
      BY <1>1, <1>7, <3>2 DEF Traceable
    <3>3. CASE d.hops > 1
      BY <1>7, <3>3 DEF Traceable
    <3> QED
      BY <2>1, <3>1, <3>2, <3>3
  <2>3. e.hops = 1 => e.dst \in seen.senders
    BY <1>4, <1>5, <1>7 DEF Traceable
  <2> QED
    BY <1>4, <1>5, <1>7, <2>2, <2>3 DEF Traceable
<1>9. Headed(e)
  BY <1>4, <1>5, <1>7 DEF Headed
<1>10. rest \subseteq under_way
  BY DEF Without
<1> QED
  BY <1>1, <1>2, <1>6, <1>8, <1>9, <1>10, NetStep DEF Inv, DataType

LEMMA LoseStep == ASSUME Inv, NEW d, Lose(d) PROVE Inv'
<1>1. under_way' \subseteq under_way /\ UNCHANGED <<procs, launches, seen>>
  BY DEF Lose
<1> QED
  BY <1>1, NetStep DEF Inv, DataType
-----------------------------------------------------------------------------
(* Starting a process *)

\* What is so of the other processes when p is started with line c.
Started(p, c) ==
    /\ line'[p] = c /\ c \in Lines
    /\ \A q \in Proc \ {p} :
        /\ line'[q] = line[q] /\ pc'[q] = pc[q] /\ bound'[q] = bound[q]
        /\ sid'[q] = sid[q] /\ fid'[q] = fid[q] /\ npkts'[q] = npkts[q]
        /\ seen.connected'[q] = seen.connected[q]
        /\ seen.credited'[q] = seen.credited[q]
    /\ UNCHANGED under_way
    /\ launches' = launches + 1 /\ launches' \in 0..MaxLaunches
    /\ seen.aimed \subseteq seen.aimed' /\ seen.senders \subseteq seen.senders'
    /\ seen.receivers \subseteq seen.receivers'
    /\ bound'[p] => PortFree(p, PortOf(c))

LEMMA OthersStay ==
    ASSUME Inv, NEW p \in Proc, NEW c, Started(p, c)
    PROVE  /\ \A q \in Proc \ {p} :
                /\ Addr(q)' = Addr(q) /\ Dst(q)' = Dst(q) /\ Args(q)' = Args(q)
                /\ Sending(q)' = Sending(q) /\ HasRun(q)' = HasRun(q)
           /\ PortsAreOwn'
           /\ (Sending(p)' => sid'[p] = launches + 1) => SidInv' /\ DatagramInv'
<1>1. \A q \in Proc \ {p} :
        /\ Addr(q)' = Addr(q) /\ Dst(q)' = Dst(q) /\ Args(q)' = Args(q)
        /\ Sending(q)' = Sending(q) /\ HasRun(q)' = HasRun(q)
  BY DEF Started, Addr, Dst, Args, Sending, HasRun
<1>2. PortsAreOwn'
  <2>1. Addr(p)' = [host |-> HostOf[p], port |-> PortOf(c)]
    BY DEF Started, Addr
  <2>2. \A q \in Proc \ {p} : bound'[p] /\ bound'[q] => Addr(q)' # Addr(p)'
    BY <1>1, <2>1 DEF Started, PortFree
  <2>3. \A q, r \in Proc \ {p} :
            bound'[q] /\ bound'[r] /\ Addr(q)' = Addr(r)' => q = r
    BY <1>1 DEF Started, Inv, PortsAreOwn
  <2> QED
    BY <2>2, <2>3 DEF PortsAreOwn
<1>3. ASSUME Sending(p)' => sid'[p] = launches + 1
      PROVE  SidInv' /\ DatagramInv'
  <2>1. launches \in Nat /\ launches' = launches + 1
    BY DEF Started, Inv, DataType
  <2>2. \A q \in Proc \ {p} : Sending(q)' => sid'[q] = sid[q] /\ sid[q] \in 1..launches
    BY <1>1 DEF Started, Inv, SidInv
  <2>3. SidInv'
    <3>1. \A q \in Proc : Sending(q)' => sid'[q] \in 1..launches'
      BY <1>3, <2>1, <2>2
    <3>2. \A q \in Proc \ {p} : ~(Sending(p)' /\ Sending(q)' /\ sid'[p] = sid'[q])
      BY <1>3, <2>1, <2>2
    <3>3. \A q, r \in Proc \ {p} :
              Sending(q)' /\ Sending(r)' /\ sid'[q] = sid'[r] => q = r
      BY <1>1, <2>2 DEF Inv, SidInv
    <3> QED
      BY <3>1, <3>2, <3>3 DEF SidInv
  <2>4. DatagramInv'
    <3> SUFFICES ASSUME NEW d \in under_way PROVE Traceable(d)' /\ Headed(d)'
      BY DEF DatagramInv, Started
    <3>1. Traceable(d) /\ Headed(d) /\ d \in Datagrams
      BY DEF Inv, DatagramInv, DataType
    <3>2. Traceable(d)'
      BY <3>1 DEF Traceable, Started
    <3>3. d.hdr.sid <= launches /\ (d.hdr # Handshake => d.hdr.sid <= launches')
      <4>1. d.hdr = Handshake => d.hdr.sid = -1
        BY DEF Handshake, NEG
      <4>2. d.hdr # Handshake => d.hdr.sid <= launches /\ d.hdr.sid \in Int
        BY <3>1 DEF Headed, Datagrams
      <4> QED
        BY <2>1, <4>1, <4>2
    <3>4. Sending(p)' => d.hdr.sid # sid'[p]
      <4>1. d.hdr.sid \in Int
        BY <3>1 DEF Datagrams, Handshake, NEG
      <4> QED
        BY <1>3, <2>1, <3>3, <4>1
    <3> QED
      BY <1>1, <2>2, <3>1, <3>2, <3>3, <3>4 DEF Headed
  <2> QED
    BY <2>3, <2>4
<1> QED
  BY <1>1, <1>2, <1>3

LEMMA LaunchReceiverStep ==
    ASSUME Inv, NEW p \in Proc, NEW c \in Commands, LaunchReceiver(p, c)
    PROVE  Inv'
<1>1. /\ launches < MaxLaunches /\ c \in Lines
      /\ line' = [line EXCEPT ![p] = c] /\ pc' = [pc EXCEPT ![p] = "listen"]
      /\ bound' = [bound EXCEPT ![p] = PortFree(p, PortOf(c))]
      /\ launches' = launches + 1
      /\ UNCHANGED <<sid, fid, npkts, under_way>>
  BY DEF LaunchReceiver, Lines
<1>2. DataType' /\ PortFree(p, PortOf(c)) \in BOOLEAN
  BY <1>1, EndpointConstants DEF Inv, DataType, PortFree
<1>3. Addr(p)' \in Address
  <2>1. line'[p] = c
    BY <1>1 DEF Inv, DataType
  <2> QED
    BY <1>1, <2>1, LineType, EndpointConstants DEF Addr, Address
<1>4. /\ SeenType'
      /\ UNCHANGED <<seen.aimed, seen.senders, seen.connected, seen.credited>>
      /\ seen.receivers \subseteq seen.receivers'
      /\ bound'[p] => Addr(p)' \in seen.receivers'
  BY <1>3 DEF LaunchReceiver, Inv, SeenType
<1>5. Started(p, c)
  BY <1>1, <1>2, <1>4 DEF Started, Inv, DataType
<1>6. pc'[p] = "listen" /\ ~Sending(p)' /\ ~HasRun(p)'
  BY <1>1 DEF Inv, DataType, Sending, HasRun, Shaking
<1>7. PortsAreOwn' /\ SidInv' /\ DatagramInv'
  BY <1>5, <1>6, OthersStay
<1>8. PortInv'
  <2>1. \A q \in Proc \ {p} :
            /\ bound'[q] => pc'[q] \notin Ended
            /\ pc'[q] \in {"hs_wait", "flow"} => bound'[q]
            /\ bound'[q] /\ pc'[q] = "listen" => Addr(q)' \in seen.receivers'
            /\ bound'[q] /\ Sending(q)' =>
                 Addr(q)' \in seen.senders' /\ Dst(q)' \in seen.aimed'
    BY <1>5, OthersStay DEF Started, Inv, PortInv
  <2> QED
    BY <1>4, <1>6, <2>1 DEF PortInv, Ended
<1>9. CreditInv' /\ CycleInv'
  BY <1>1, <1>4, <1>5, <1>6, OthersStay DEF Started, Inv, CreditInv, CycleInv
<1> QED
  BY <1>2, <1>4, <1>7, <1>8, <1>9 DEF Inv

LEMMA LaunchSenderStep ==
    ASSUME Inv, NEW p \in Proc, NEW c \in Commands, LaunchSender(p, c)
    PROVE  Inv'
<1>1. /\ launches < MaxLaunches /\ c \in Lines /\ c.prog = "sender"
      /\ line' = [line EXCEPT ![p] = c]
      /\ pc' = [pc EXCEPT ![p] = IF Refused(c) THEN "done" ELSE "run"]
      /\ sid' = [sid EXCEPT ![p] = launches + 1] /\ fid' = [fid EXCEPT ![p] = 1]
      /\ npkts' = [npkts EXCEPT ![p] = 0]
      /\ launches' = launches + 1
      /\ UNCHANGED under_way
  BY DEF LaunchSender, Lines
<1> DEFINE b == /\ ~Refused(c) /\ SenderArgs(c).cong = "eyenet"
                /\ PortFree(p, SenderArgs(c).src_port)
<1>2. /\ bound' = [bound EXCEPT ![p] = b]
      /\ b \in BOOLEAN /\ (b => ~Refused(c) /\ PortFree(p, PortOf(c)))
  BY <1>1 DEF LaunchSender, PortOf, PortFree
<1> HIDE DEF b
<1>3. DataType'
  BY <1>1, <1>2, EndpointConstants DEF Inv, DataType, Ended
<1>4. /\ line'[p] = c /\ sid'[p] = launches + 1 /\ fid'[p] = 1 /\ npkts'[p] = 0
      /\ pc'[p] = IF Refused(c) THEN "done" ELSE "run"
      /\ bound'[p] = b
  BY <1>1, <1>2 DEF Inv, DataType
<1>5. Addr(p)' \in Address /\ Dst(p)' \in Address
  BY <1>1, <1>4, LineType, EndpointConstants DEF Addr, Dst, Args, Address
<1>6. /\ SeenType'
      /\ UNCHANGED seen.receivers
      /\ seen.aimed \subseteq seen.aimed' /\ seen.senders \subseteq seen.senders'
      /\ b => Dst(p)' \in seen.aimed' /\ Addr(p)' \in seen.senders'
      /\ seen.credited'[p] = {}
      /\ \A q \in Proc \ {p} : /\ seen.connected'[q] = seen.connected[q]
                               /\ seen.credited'[q] = seen.credited[q]
  <2> DEFINE A == IF b THEN {Dst(p)'} ELSE {}
             S == IF b THEN {Addr(p)'} ELSE {}
  <2>1. seen' = [seen EXCEPT !.aimed = @ \cup A, !.senders = @ \cup S,
                             !.connected[p] = 0, !.credited[p] = {}]
    BY <1>4 DEF LaunchSender
  <2>2. A \subseteq Address /\ S \subseteq Address
    BY <1>5
  <2>3. b => Dst(p)' \in A /\ Addr(p)' \in S
    OBVIOUS
  <2> HIDE DEF A, S
  <2>4. seen \in [aimed : SUBSET Address, senders : SUBSET Address,
                 receivers : SUBSET Address, connected : [Proc -> 0..MaxHops],
                 credited : [Proc -> SUBSET (0..MaxHops)]]
    BY DEF Inv, SeenType
  <2>5. /\ UNCHANGED seen.receivers
        /\ seen.aimed' = seen.aimed \cup A /\ seen.senders' = seen.senders \cup S
        /\ seen.connected' = [seen.connected EXCEPT ![p] = 0]
        /\ seen.credited' = [seen.credited EXCEPT ![p] = {}]
    BY <2>1, <2>4
  <2>6. SeenType'
    <3>1. /\ seen'.aimed \in SUBSET Address /\ seen'.senders \in SUBSET Address
          /\ seen'.receivers \in SUBSET Address
      BY <2>2, <2>4, <2>5
    <3>2. /\ seen'.connected \in [Proc -> 0..MaxHops]
          /\ seen'.credited \in [Proc -> SUBSET (0..MaxHops)]
      BY <2>4, <2>5, EndpointConstants
    <3>3. seen' = [aimed |-> seen'.aimed, senders |-> seen'.senders,
                   receivers |-> seen'.receivers, connected |-> seen'.connected,
                   credited |-> seen'.credited]
      BY <2>1, <2>4
    <3> QED
      BY <3>1, <3>2, <3>3 DEF SeenType
  <2> QED
    BY <2>3, <2>4, <2>5, <2>6
<1>7. Started(p, c)
  BY <1>1, <1>2, <1>3, <1>4, <1>6 DEF Started, Inv, DataType
<1>8. PortsAreOwn' /\ SidInv' /\ DatagramInv'
  BY <1>4, <1>7, OthersStay
<1>9. PortInv'
  <2>1. \A q \in Proc \ {p} :
            /\ bound'[q] => pc'[q] \notin Ended
            /\ pc'[q] \in {"hs_wait", "flow"} => bound'[q]
            /\ bound'[q] /\ pc'[q] = "listen" => Addr(q)' \in seen.receivers'
            /\ bound'[q] /\ Sending(q)' =>
                 Addr(q)' \in seen.senders' /\ Dst(q)' \in seen.aimed'
    BY <1>7, OthersStay DEF Started, Inv, PortInv
  <2>2. pc'[p] \notin {"hs_wait", "flow", "listen"} /\ (b => pc'[p] \notin Ended)
    BY <1>2, <1>4 DEF Ended
  <2> QED
    BY <1>4, <1>6, <2>1, <2>2 DEF PortInv
<1>10. CreditInv'
  <2>1. \A q \in Proc \ {p} :
            /\ pc'[q] = "flow" /\ seen.connected'[q] = 0 => Addr(q)' \in seen.aimed'
            /\ HasRun(q)' /\ 0 \in seen.credited'[q] => Dst(q)' = Addr(q)'
            /\ npkts'[q] # 0 => seen.credited'[q] # {}
    BY <1>6, <1>7, OthersStay DEF Started, Inv, CreditInv
  <2> QED
    BY <1>4, <1>6, <2>1 DEF CreditInv
<1>11. CycleInv'
  <2>1. HasRun(p)' => pc'[p] # "done"
    BY <1>4 DEF HasRun, Sending, Shaking
  <2>2. \A q \in Proc \ {p} : HasRun(q)' =>
            /\ pc'[q] = "done" => fid'[q] > Args(q)'.cycles
            /\ Args(q)'.cong = "eyenet" /\ Args(q)'.switcher = "bytes"
                 /\ Args(q)'.on_units > 0 /\ fid'[q] > 1 => npkts'[q] # 0
    BY <1>7, OthersStay DEF Started, Inv, CycleInv
  <2> QED
    BY <1>4, <2>1, <2>2 DEF CycleInv
<1> QED
  BY <1>3, <1>6, <1>8, <1>9, <1>10, <1>11 DEF Inv

-----------------------------------------------------------------------------
(* The invariant holds *)

LEMMA InvStep == Inv /\ [Next]_vars => Inv'
<1> SUFFICES ASSUME Inv, [Next]_vars PROVE Inv'
  OBVIOUS
<1>1. CASE UNCHANGED vars
  <2>1. UNCHANGED <<procs, launches, seen>> /\ under_way' = under_way
    BY <1>1 DEF vars
  <2> QED
    BY <2>1, NetStep DEF Inv, DataType
<1>2. CASE \E p \in Proc :
             \/ Iperf(p) \/ StartFlow(p) \/ Exit(p)
             \/ HsSend(p) \/ HsTimeout(p) \/ SendData(p) \/ EndFlow(p)
             \/ ListenAborts(p) \/ Kill(p)
  BY <1>2, IperfStep, StartFlowStep, ExitStep, HsSendStep, HsTimeoutStep,
     SendDataStep, EndFlowStep, EndStep
<1>3. CASE \E p \in Proc : \E c \in Commands : LaunchSender(p, c) \/ LaunchReceiver(p, c)
  BY <1>3, LaunchSenderStep, LaunchReceiverStep
<1>4. CASE \E p \in Proc : \E d \in under_way : HsRecv(p, d) \/ RecvAck(p, d) \/ Echo(p, d)
  BY <1>4, HsRecvStep, RecvAckStep, EchoStep
<1>5. CASE \E d \in under_way : Lose(d)
  BY <1>5, LoseStep
<1> QED
  BY <1>1, <1>2, <1>3, <1>4, <1>5 DEF Next

LEMMA Invariant == Spec => []Inv
  BY InvInit, InvStep, PTL DEF Spec

-----------------------------------------------------------------------------
(* What follows from it *)

\* Types, and that no two processes have the same address at the same time,
\* whatever is started where with the same port.
THEOREM TypeCorrect == Spec => []TypeOK
<1>1. Inv => TypeOK
  <2> SUFFICES ASSUME Inv PROVE TypeOK
    OBVIOUS
  <2>1. DataType /\ SeenType /\ PortsAreOwn
    BY DEF Inv
  <2>2. /\ seen.aimed \subseteq Address
        /\ seen.senders \subseteq Address /\ seen.receivers \subseteq Address
        /\ seen.connected \in [Proc -> 0..MaxHops]
        /\ seen.credited \in [Proc -> SUBSET (0..MaxHops)]
    BY <2>1 DEF SeenType
  <2> QED
    BY <2>1, <2>2 DEF TypeOK, DataType, PortsAreOwn, Lines, Listening, Datagrams
<1> QED
  BY <1>1, Invariant, PTL

\* hs_send takes any handshake for an answer, and yet a sender to whose address
\* nobody ever sent connects only with a receiver.
THEOREM ConnectsWithReceiver == Spec => []ConnectedByReceiver
<1>1. Inv => ConnectedByReceiver
  <2> SUFFICES ASSUME Inv, NEW p \in Proc, pc[p] = "flow", Addr(p) \notin seen.aimed
               PROVE  seen.connected[p] > 0
    BY DEF ConnectedByReceiver
  <2>1. seen.connected[p] \in 0..MaxHops /\ seen.connected[p] # 0
    BY DEF Inv, SeenType, CreditInv
  <2> QED
    BY <2>1
<1> QED
  BY <1>1, Invariant, PTL

\* recv_ack asks for no more than the sender's own header, and that is enough:
\* a packet it counts was echoed by a receiver, for any number of senders and
\* of restarts, unless the sender is its own peer.
THEOREM CreditWasEchoed == Spec => []CreditNeedsEcho
<1>1. Inv => CreditNeedsEcho
  BY DEF Inv, CreditInv, CreditNeedsEcho, HasRun, Sending
<1> QED
  BY <1>1, Invariant, PTL

LEMMA Answered ==
    ASSUME Inv, NEW p \in Proc, HasRun(p), pc[p] = "done",
           Args(p).cong = "eyenet", Args(p).switcher = "bytes",
           Args(p).cycles > 0, Args(p).on_units > 0
    PROVE  \E h \in seen.credited[p] : h > 0 \/ Dst(p) = Addr(p)
<1>1. fid[p] > Args(p).cycles /\ Args(p).cycles \in Int /\ fid[p] \in Nat
  BY LineType DEF Inv, CycleInv, DataType, Args
<1>2. fid[p] > 1
  BY <1>1
<1>3. npkts[p] # 0
  BY <1>2 DEF Inv, CycleInv
<1>4. PICK h \in seen.credited[p] : h \in 0..MaxHops
  BY <1>3 DEF Inv, CreditInv, SeenType
<1>5. h = 0 => Dst(p) = Addr(p)
  BY DEF Inv, CreditInv
<1>6. h = 0 \/ h > 0
  BY <1>4
<1> QED
  BY <1>5, <1>6

\* A sender of bytes that has ended by itself was answered, in one of its flows
\* at least.
THEOREM BytesWereEchoed == Spec => []BytesNeedEcho
<1>1. Inv => BytesNeedEcho
  <2> SUFFICES ASSUME Inv, NEW p \in Proc,
                      pc[p] = "done" /\ ~Refused(line[p]),
                      Option(line[p], "switcher", "") = "bytes",
                      Option(line[p], "cong", "") = "eyenet",
                      Args(p).cycles > 0 /\ Args(p).on_units > 0
               PROVE  \E h \in seen.credited[p] : h > 0 \/ Dst(p) = Addr(p)
    BY DEF BytesNeedEcho
  <2>1. Args(p).switcher = "bytes" /\ Args(p).cong = "eyenet"
    BY DEF Args, SenderArgs, Keyword, Option
  <2>2. HasRun(p)
    BY DEF HasRun
  <2> QED
    BY <2>1, <2>2, Answered
<1> QED
  BY <1>1, Invariant, PTL

\* ack_packets echoes whatever arrives, and yet nothing is echoed twice where
\* no receiver ever had the address of a sender.
THEOREM NoEchoOfAnEcho == Spec => []EchoedOnce
<1>1. Inv => EchoedOnce
  <2> SUFFICES ASSUME Inv, seen.senders \cap seen.receivers = {}, NEW d \in under_way
               PROVE  d.hops <= 1
    BY DEF EchoedOnce
  <2>1. d.hops \in 0..MaxHops /\ ~(d.hops > 1)
    BY DEF Inv, DataType, Datagrams, DatagramInv, Traceable
  <2> QED
    BY <2>1
<1> QED
  BY <1>1, Invariant, PTL
=============================================================================
