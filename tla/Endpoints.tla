----------------------------- MODULE Endpoints -----------------------------
(***************************************************************************)
(* Several vns_sender and vns_receiver processes on several hosts: their   *)
(* command lines, their sockets, who talks to whom, and what a process     *)
(* leaves in the network when it ends.  Any process may be ended and any   *)
(* may be started again, in either role: both programs take port 8001 by   *)
(* default.                                                                *)
(*                                                                         *)
(* A flow is a handshake and then data; its window, pacing and sequence    *)
(* numbers are those of Transport, so all data of a flow is one header     *)
(* here, of which several copies may be under way.  Each datagram carries  *)
(* hops, which the code has not: how many receivers have echoed it.        *)
(* Receives that fail, and what a sender then does, are in Transport.      *)
(***************************************************************************)
EXTENDS Integers, FiniteSets

CONSTANTS
    Proc, Hosts,    \* processes; the hosts an address text can name
    HostOf,         \* the host each process runs on
    Commands,       \* command lines: a program and the options given to it
    MaxLaunches,    \* bound on the processes started
    MaxFlying,      \* bound on the different datagrams under way
    MaxHops         \* bound on the count of hops; the echoes may go on

ASSUME EndpointConstants ==
    /\ HostOf \in [Proc -> Hosts]
    /\ \A c \in Commands :
        /\ c.prog \in {"sender", "receiver"}
        /\ \A o \in DOMAIN c \cap {"dst_port", "src_port", "port"} : c[o] \in Nat
        /\ "cycles" \in DOMAIN c => c["cycles"] \in Int
    /\ MaxLaunches \in Nat /\ MaxFlying \in Nat /\ MaxHops \in Nat \ {0, 1}

VARIABLES
    line,       \* the command line each process was started with
    pc,         \* where it is
    bound,      \* is_bound: it owns its port
    sid, fid,   \* of a sender: its identity and the flow it is in
    npkts,      \* of a sender: echoes counted since it was started (0, 1 or more)
    under_way,  \* datagrams in the network and in socket buffers
    launches,   \* processes started so far
    seen        \* history, which only the properties read: the addresses that
                \* senders have aimed at, that senders and that receivers have
                \* had; by a handshake of how many hops each sender connected,
                \* and the hops of the packets it counted

procs == <<line, pc, bound, sid, fid, npkts>>
vars == <<procs, under_way, launches, seen>>

Ended == {"off", "done", "aborted"}
Shaking == {"hs_send", "hs_wait"}
NEG == -1

-----------------------------------------------------------------------------
(* Command lines *)

Option(c, o, default) == IF o \in DOMAIN c THEN c[o] ELSE default

\* Mutant: the words of an option are taken for each other.
Keyword_Swapped(c, o, other, default) ==
    IF Option(c, o, default) = other THEN default ELSE other

\* A word that is neither of the two known ones is reported and the default
\* taken.
Keyword(c, o, other, default) ==
    IF Option(c, o, default) = other THEN other ELSE default

\* parse_sender_args returns false: after --help, without --dst-ip, and when
\* boost cannot parse the line (here an option "bad").
Refused(c) ==
    "help" \in DOMAIN c \/ "bad" \in DOMAIN c \/ "dst_ip" \notin DOMAIN c

SenderArgs(c) ==
    [dst_ip   |-> Option(c, "dst_ip", ""),
     dst_port |-> Option(c, "dst_port", 8001),
     src_port |-> Option(c, "src_port", 8001),
     on_units |-> Option(c, "on_unit", 5000),
     cycles   |-> Option(c, "cycles", 1),
     bn_train |-> Option(c, "bn_train", 1),
     switcher |-> Keyword(c, "switcher", "bytes", "time"),
     cong     |-> Keyword(c, "cong", "eyenet", "linux")]

PortOf(c) == IF c.prog = "sender" THEN SenderArgs(c).src_port
             ELSE Option(c, "port", 8001)

Args(p) == SenderArgs(line[p])
Addr(p) == [host |-> HostOf[p], port |-> PortOf(line[p])]

\* A text that is no address leaves sin_addr 0, and that is the own host.
Dst(p) ==
    [host |-> IF Args(p).dst_ip \in Hosts THEN Args(p).dst_ip ELSE HostOf[p],
     port |-> Args(p).dst_port]

-----------------------------------------------------------------------------
(* Sockets *)

Handshake == [sid |-> NEG, fid |-> NEG]
Header(p) == [sid |-> sid[p], fid |-> fid[p]]

\* Mutant: the port is bound whoever has it.
PortFree_Shared(p, port) == TRUE

\* bind fails when another socket of the host has the port.
PortFree(p, port) ==
    \A q \in Proc \ {p} : bound[q] => Addr(q) # [host |-> HostOf[p], port |-> port]

Datagram(from, to, hdr, hops) == [src |-> from, dst |-> to, hdr |-> hdr, hops |-> hops]

Deliverable(p) == {d \in under_way : bound[p] /\ d.dst = Addr(p)}

\* What may be left under way without one copy of d.
Without(d) == {under_way, under_way \ {d}}

\* What is under way with d sent and the datagrams of rest left.
Sent(d, rest) ==
    /\ Cardinality(rest \cup {d}) <= MaxFlying
    /\ under_way' = rest \cup {d}

\* Process p goes on as s; a process that ends closes its socket.
Becomes(p, s) ==
    /\ pc' = [pc EXCEPT ![p] = s]
    /\ bound' = [bound EXCEPT ![p] = @ /\ s \notin Ended]

Init ==
    /\ line = [p \in Proc |-> [prog |-> "receiver"]]
    /\ pc = [p \in Proc |-> "off"] /\ bound = [p \in Proc |-> FALSE]
    /\ sid = [p \in Proc |-> 0] /\ fid = [p \in Proc |-> 1]
    /\ npkts = [p \in Proc |-> 0]
    /\ under_way = {} /\ launches = 0
    /\ seen = [aimed |-> {}, senders |-> {}, receivers |-> {},
               connected |-> [p \in Proc |-> 0], credited |-> [p \in Proc |-> {}]]

-----------------------------------------------------------------------------
(* vns_sender: main, packet_sender::run and the outline of a flow *)

\* The constructor of tcp_transport binds the socket, and nobody looks at what
\* bind_sk returns.
LaunchSender(p, c) ==
    /\ pc[p] \in Ended /\ launches < MaxLaunches
    /\ c.prog = "sender"
    /\ line' = [line EXCEPT ![p] = c]
    /\ pc' = [pc EXCEPT ![p] = IF Refused(c) THEN "done" ELSE "run"]
    /\ bound' = [bound EXCEPT ![p] =
                    /\ ~Refused(c) /\ SenderArgs(c).cong = "eyenet"
                    /\ PortFree(p, SenderArgs(c).src_port)]
    /\ sid' = [sid EXCEPT ![p] = launches + 1] /\ fid' = [fid EXCEPT ![p] = 1]
    /\ npkts' = [npkts EXCEPT ![p] = 0]
    /\ launches' = launches + 1
    /\ seen' = [seen EXCEPT !.aimed = @ \cup IF bound'[p] THEN {Dst(p)'} ELSE {},
                            !.senders = @ \cup IF bound'[p] THEN {Addr(p)'} ELSE {},
                            !.connected[p] = 0, !.credited[p] = {}]
    /\ UNCHANGED under_way

\* default_cong runs iperf, which is another program, for the whole flow.
Iperf(p) ==
    /\ pc[p] = "run" /\ fid[p] <= Args(p).cycles /\ Args(p).cong = "linux"
    /\ fid' = [fid EXCEPT ![p] = @ + 1]
    /\ UNCHANGED <<line, pc, bound, sid, npkts, under_way, launches, seen>>

StartFlow(p) ==
    /\ pc[p] = "run" /\ fid[p] <= Args(p).cycles /\ Args(p).cong = "eyenet"
    /\ Becomes(p, "hs_send")
    /\ UNCHANGED <<line, sid, fid, npkts, under_way, launches, seen>>

Exit(p) ==
    /\ pc[p] = "run" /\ fid[p] > Args(p).cycles
    /\ Becomes(p, "done")
    /\ UNCHANGED <<line, sid, fid, npkts, under_way, launches, seen>>

\* send_data asserts that the socket is bound.
HsSend(p) ==
    /\ pc[p] = "hs_send"
    /\ IF bound[p]
       THEN /\ Sent(Datagram(Addr(p), Dst(p), Handshake, 0), under_way)
            /\ Becomes(p, "hs_wait")
       ELSE UNCHANGED under_way /\ Becomes(p, "aborted")
    /\ UNCHANGED <<line, sid, fid, npkts, launches, seen>>

\* Mutant: a timeout is taken for an answer.
AfterTimeout_Flow == "flow"

AfterTimeout == "hs_send"

HsTimeout(p) ==
    /\ pc[p] = "hs_wait"
    /\ Becomes(p, AfterTimeout)
    /\ UNCHANGED <<line, sid, fid, npkts, under_way, launches, seen>>

\* Any handshake that arrives will do: it says nothing of who sent it.
HsRecv(p, d) ==
    /\ pc[p] = "hs_wait" /\ d \in Deliverable(p)
    /\ under_way' \in Without(d)
    /\ \/ /\ d.hdr = Handshake
          /\ Becomes(p, "flow")
          /\ seen' = [seen EXCEPT !.connected[p] = d.hops]
       \/ /\ d.hdr # Handshake
          /\ \E s \in Shaking : Becomes(p, s)
          /\ UNCHANGED seen
    /\ UNCHANGED <<line, sid, fid, npkts, launches>>

\* With bn_train = 0 the first packet is sent, and then divided by.
SendData(p) ==
    /\ pc[p] = "flow"
    /\ Sent(Datagram(Addr(p), Dst(p), Header(p), 0), under_way)
    /\ Becomes(p, IF Args(p).bn_train = 0 THEN "aborted" ELSE "flow")
    /\ UNCHANGED <<line, sid, fid, npkts, launches, seen>>

\* Mutant: everything that arrives in a flow counts.
IsMine_Any(p, hdr) == TRUE

IsMine(p, hdr) == hdr = Header(p)

RecvAck(p, d) ==
    /\ pc[p] = "flow" /\ d \in Deliverable(p)
    /\ under_way' \in Without(d)
    /\ \/ /\ IsMine(p, d.hdr)
          /\ npkts' = [npkts EXCEPT ![p] = 1]
          /\ seen' = [seen EXCEPT !.credited[p] = @ \cup {d.hops}]
       \/ /\ ~IsMine(p, d.hdr)
          /\ UNCHANGED <<npkts, seen>>
    /\ UNCHANGED <<line, pc, bound, sid, fid, launches>>

\* The size of the flow is reached: in ms, or in bytes that were echoed.
SizeReached(p) ==
    Args(p).switcher = "bytes" /\ Args(p).on_units > 0 => npkts[p] > 0

EndFlow(p) ==
    /\ pc[p] = "flow" /\ SizeReached(p)
    /\ Becomes(p, "run")
    /\ fid' = [fid EXCEPT ![p] = @ + 1]
    /\ UNCHANGED <<line, sid, npkts, under_way, launches, seen>>

-----------------------------------------------------------------------------
(* vns_receiver: main and ack_packets *)

\* It says "Listening" whatever bind_sk returned.
LaunchReceiver(p, c) ==
    /\ pc[p] \in Ended /\ launches < MaxLaunches
    /\ c.prog = "receiver"
    /\ line' = [line EXCEPT ![p] = c]
    /\ pc' = [pc EXCEPT ![p] = "listen"]
    /\ bound' = [bound EXCEPT ![p] = PortFree(p, PortOf(c))]
    /\ launches' = launches + 1
    /\ seen' = [seen EXCEPT !.receivers = @ \cup IF bound'[p] THEN {Addr(p)'} ELSE {}]
    /\ UNCHANGED <<sid, fid, npkts, under_way>>

\* recv_data asserts that the socket is bound.
ListenAborts(p) ==
    /\ pc[p] = "listen" /\ ~bound[p]
    /\ Becomes(p, "aborted")
    /\ UNCHANGED <<line, sid, fid, npkts, under_way, launches, seen>>

\* Mutant: the echo goes to the socket's own address.
EchoTo_Own(d) == d.dst

EchoTo(d) == d.src

More(hops) == IF hops < MaxHops THEN hops + 1 ELSE hops

Echo(p, d) ==
    /\ pc[p] = "listen" /\ d \in Deliverable(p)
    /\ \E rest \in Without(d) :
          Sent(Datagram(Addr(p), EchoTo(d), d.hdr, More(d.hops)), rest)
    /\ UNCHANGED <<procs, launches, seen>>

-----------------------------------------------------------------------------

Kill(p) ==
    /\ pc[p] \notin Ended
    /\ Becomes(p, "off")
    /\ UNCHANGED <<line, sid, fid, npkts, under_way, launches, seen>>

Lose(d) ==
    /\ under_way' = under_way \ {d}
    /\ UNCHANGED <<procs, launches, seen>>

Next ==
    \/ \E p \in Proc :
        \/ Iperf(p) \/ StartFlow(p) \/ Exit(p)
        \/ HsSend(p) \/ HsTimeout(p) \/ SendData(p) \/ EndFlow(p)
        \/ ListenAborts(p) \/ Kill(p)
        \/ \E c \in Commands : LaunchSender(p, c) \/ LaunchReceiver(p, c)
        \/ \E d \in under_way : HsRecv(p, d) \/ RecvAck(p, d) \/ Echo(p, d)
    \/ \E d \in under_way : Lose(d)

Spec == Init /\ [][Next]_vars

-----------------------------------------------------------------------------
(* Properties *)

Address == [host : Hosts, port : Nat]

\* Type invariant; no two processes own the same address.
TypeOK ==
    /\ line \in [Proc -> Commands \cup {[prog |-> "receiver"]}]
    /\ pc \in [Proc -> Ended \cup Shaking \cup {"run", "flow", "listen"}]
    /\ bound \in [Proc -> BOOLEAN]
    /\ \A p, q \in Proc : bound[p] /\ bound[q] /\ Addr(p) = Addr(q) => p = q
    /\ sid \in [Proc -> 0..MaxLaunches] /\ fid \in [Proc -> Nat]
    /\ npkts \in [Proc -> {0, 1}]
    /\ under_way \subseteq [src : Address, dst : Address, hops : 0..MaxHops,
                            hdr : {Handshake} \cup [sid : 1..MaxLaunches, fid : Nat]]
    /\ launches \in 0..MaxLaunches
    /\ seen.aimed \subseteq Address
    /\ seen.senders \subseteq Address /\ seen.receivers \subseteq Address
    /\ seen.connected \in [Proc -> 0..MaxHops]
    /\ seen.credited \in [Proc -> SUBSET (0..MaxHops)]

\* "Connection Established": a sender is in a flow only after a receiver has
\* echoed a handshake to it, unless some sender, it alone or another, was ever
\* aimed at its address: a handshake does not say that it is an answer, and two
\* senders aimed at each other connect without any receiver.
ConnectedByReceiver ==
    \A p \in Proc :
        pc[p] = "flow" /\ Addr(p) \notin seen.aimed => seen.connected[p] > 0

\* Nothing tells data from its echo but who gets it.  Still a sender counts no
\* packet that a receiver has not echoed, whatever other senders, or earlier
\* processes of its address, have sent to it; unless it is its own peer.
CreditNeedsEcho ==
    \A p \in Proc :
        pc[p] = "flow" /\ 0 \in seen.credited[p] => Dst(p) = Addr(p)

\* A program started for a flow in bytes ends by itself only when a receiver
\* has echoed to it, or it to itself, or when it had nothing to send.
BytesNeedEcho ==
    \A p \in Proc :
        /\ pc[p] = "done" /\ ~Refused(line[p])
        /\ Option(line[p], "switcher", "") = "bytes"
        /\ Option(line[p], "cong", "") = "eyenet"
        /\ Args(p).cycles > 0 /\ Args(p).on_units > 0
        => \E h \in seen.credited[p] : h > 0 \/ Dst(p) = Addr(p)

\* A datagram is echoed once, for any number of processes started and ended in
\* any order, as long as no receiver ever had the address of a sender.  (Where
\* one had, two receivers send the same datagram back and forth for ever.)
EchoedOnce ==
    seen.senders \cap seen.receivers = {} => \A d \in under_way : d.hops <= 1
=============================================================================
