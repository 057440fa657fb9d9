----------------------------- MODULE EyenetSpec -----------------------------
(***************************************************************************)
(* One eyenet controller driven through its public methods the way         *)
(* tcp_transport::send_data drives it with bn_train = 1: initialize at the *)
(* start of a flow and after an acknowledgement timeout, on_pkt_sent for   *)
(* the packets 0, 1, 2, ... within the window, on_ack for acknowledgements *)
(* that arrive late, twice, out of order or from before the timeout.  The  *)
(* acknowledgement of packet 0 is never reported (vns_transport.hh:250).   *)
(* The guard at that line also asks for bn_train = 0, which keeps the      *)
(* program from calling on_ack at all; this module states what the class   *)
(* promises a caller that does.                                            *)
(***************************************************************************)
EXTENDS Eyenet, FiniteSetsExt

CONSTANTS MaxSeq,    \* bound on the packets sent
          MaxTime,   \* bound on the clock
          MaxAcks    \* bound on the acknowledgements since initialize

VARIABLES c,        \* the controller
          now,      \* the time last passed to set_ts
          sent,     \* header timestamp of every packet sent: [0..n-1 -> time]
          largest_ack, \* the caller's window base, as in tcp_transport
          newest,   \* history: newest outstanding packet acknowledged since
                    \* initialize, -1 before the first
          nfresh    \* history: how many outstanding packets were acknowledged
vars == <<c, now, sent, largest_ack, newest, nfresh>>

\* No clock and no window comes near DOUBLE_MAX.
ASSUME EyenetSpecConstants ==
    /\ MaxSeq \in Nat /\ MaxTime \in Nat /\ MaxAcks \in Nat
    /\ MaxTime < DoubleMax /\ Nprobe + 2 * MaxAcks < DoubleMax

\* send_data initialises the controller before its first packet.
Init ==
    /\ c = Initialize(EyenetNew)
    /\ now = 0
    /\ sent = <<>> /\ largest_ack = -1
    /\ newest = -1 /\ nfresh = 0

SentAt(s) == sent[s + 1]     \* packet numbers start at 0

\* seq_num < largest_ack + cwnd + 1, at any time the pacing may allow.
Send ==
    /\ Len(sent) < MaxSeq
    /\ Len(sent) * Scale < (largest_ack + 1) * Scale + c.cwnd
    /\ c' = OnPktSent(c, Len(sent))
    /\ sent' = Append(sent, now)
    /\ UNCHANGED <<now, largest_ack, newest, nfresh>>

\* The window base the caller has after an acknowledgement of packet s.
BaseAfter(s) == LargerOf(largest_ack, s + 1)

\* Packet 0 is acknowledged: on_ack is not called, but the window moves.
AckFirst ==
    /\ sent # <<>>
    /\ largest_ack' = BaseAfter(0)
    /\ UNCHANGED <<c, now, sent, newest, nfresh>>

\* Any other acknowledgement.  srtt is a mean of the round-trip times seen so far.
Ack(s, srtt) ==
    /\ s + 1 \in DOMAIN sent /\ s # 0
    /\ c.nack < MaxAcks
    /\ ~OnAckExits(c, now, SentAt(s), srtt)
    /\ c' = OnAck(c, s + 1, now, SentAt(s), srtt)
    /\ IF s \in c.unacked
       THEN newest' = s /\ nfresh' = nfresh + 1
       ELSE UNCHANGED <<newest, nfresh>>
    /\ largest_ack' = BaseAfter(s)
    /\ UNCHANGED <<now, sent>>

AckTimeout ==
    /\ c.nsent > 0
    /\ c' = Initialize(c)
    /\ largest_ack' = Len(sent) - 1
    /\ newest' = -1 /\ nfresh' = 0
    /\ UNCHANGED <<now, sent>>

Tick ==
    /\ now < MaxTime
    /\ now' = now + 1
    /\ UNCHANGED <<c, sent, largest_ack, newest, nfresh>>

Next ==
    \/ Send
    \/ AckFirst
    \/ \E s \in 1..(MaxSeq - 1), srtt \in 0..MaxTime : Ack(s, srtt)
    \/ AckTimeout
    \/ Tick

Spec == Init /\ [][Next]_vars

-----------------------------------------------------------------------------

\* Type invariant.  It includes that slow start never ends: ss stays TRUE, the
\* fact that lets Eyenet leave the velocity branch out.
TypeOK ==
    /\ c.cwnd \in Nat /\ c.cwnd >= 2 * Scale
    /\ c.intersend \in Nat
    /\ c.delta \in {1, 2}
    /\ c.ss = TRUE
    /\ c.nack \in 0..MaxAcks /\ c.nlost \in Nat /\ c.nsent \in 0..MaxSeq
    /\ c.unacked \subseteq 0..(MaxSeq - 1)
    /\ c.lr \in [nloss : Nat, npkts : Nat, last_win_ts : 0..MaxTime]
    /\ now \in 0..MaxTime
    /\ sent \in Seq(0..MaxTime) /\ largest_ack \in -1..MaxSeq
    /\ newest \in -1..(MaxSeq - 1) /\ nfresh \in 0..MaxSeq

\* on_ack's exit(EXIT_FAILURE) for "Instantenous RTT smaller than minimum RTT"
\* is unreachable on a clock that does not run backwards, whatever order,
\* repetition or delay the acknowledgements have.
NeverExits ==
    \A s \in 1..(Len(sent) - 1), srtt \in 0..MaxTime :
        ~OnAckExits(c, now, SentAt(s), srtt)

\* Conservation of packets (the Sent / ACKed / Lost figures that initialize
\* prints): every packet sent since the last reset is outstanding, was counted
\* lost, or was acknowledged while outstanding, and exactly one of the three,
\* although an acknowledgement can come twice, after its packet was given up,
\* or for a packet sent before the reset.
PacketsAccountedFor == c.nsent = Cardinality(c.unacked) + c.nlost + nfresh

\* The cumulative settlement in on_ack leaves nothing behind: what is still
\* outstanding is newer than every acknowledged packet, so a packet declared
\* lost by a later acknowledgement is never declared lost again.
OutstandingIsNewest == \A p \in c.unacked : p > newest

\* The integer division in loss_reduce::update: while the window is not yet
\* adapted to the delay (fewer than 2 * nprobe - 1 acknowledgements) it shrinks
\* only on a single acknowledgement that gives up more than LossWindow packets.
ShrinksOnlyOnBurstLoss ==
    [][ (c.nack < 2 * Nprobe - 1 /\ c'.cwnd < c.cwnd /\ c'.nack = c.nack + 1)
            => c'.nlost - c.nlost > LossWindow ]_vars
=============================================================================
