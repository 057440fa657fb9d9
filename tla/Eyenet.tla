------------------------------- MODULE Eyenet -------------------------------
(***************************************************************************)
(* class eyenet (vns_eyenet.{hh,cc}), the delay-based congestion           *)
(* controller, and class loss_reduce (vns_utils.{hh,cc}).                  *)
(*                                                                         *)
(* A controller is a record `c`; a method is an operator from the old      *)
(* record to the new one.  cwnd counts packets in units of 1/Scale, delta  *)
(* counts halves, times are whole milliseconds; divisions round down.      *)
(*                                                                         *)
(* Members that are written and never read by any decision (last_rtt,      *)
(* intersend_rate, unacked_rtt, interarrival, ...) are left out.  intersend*)
(* and curr_intersend always hold the same value and are one field here.   *)
(* utility_type is CONSTANT and do_ss is false from the constructor on and *)
(* no code changes them, hence operation_type stays DEFAULT; ss can then   *)
(* only end when cwnd reaches DOUBLE_MAX, so the velocity branch, which    *)
(* needs ss to be over, is not modelled and update_amt is always 1.        *)
(***************************************************************************)
EXTENDS Win, FiniteSets

CONSTANTS Scale,       \* units of cwnd per packet
          Nprobe,      \* member nprobe (10): the window of a fresh controller
          LossWindow   \* loss_reduce judges windows of more packets than this (20)

ASSUME EyenetConstants ==
    /\ Scale \in Nat \ {0} /\ Nprobe \in Nat \ {0, 1} /\ LossWindow \in Nat

-----------------------------------------------------------------------------
(* class loss_reduce *)

LossReduceNew == [nloss |-> 0, npkts |-> 0, last_win_ts |-> 0]

WindowOver(l, ts, rtt) ==
    ts > l.last_win_ts + 2 * rtt /\ l.npkts + 1 > LossWindow

\* Mutant: the loss rate is divided in floating point.
MustReduce_Float(l, loss, ts, rtt) ==
    /\ WindowOver(l, ts, rtt)
    /\ 10 * (l.nloss + IF loss THEN 1 ELSE 0) > 3 * (l.npkts + 1)

\* The return value of loss_reduce::update.  nloss / npkts divides integers, so
\* the rate exceeds 0.3 only when every packet of the window was lost.
MustReduce(l, loss, ts, rtt) ==
    /\ WindowOver(l, ts, rtt)
    /\ 10 * ((l.nloss + IF loss THEN 1 ELSE 0) \div (l.npkts + 1)) > 3

LossReduceUpdate(l, loss, ts, rtt) ==
    IF WindowOver(l, ts, rtt)
    THEN [nloss |-> 0, npkts |-> 0, last_win_ts |-> ts]
    ELSE [l EXCEPT !.nloss = @ + IF loss THEN 1 ELSE 0, !.npkts = @ + 1]

\* n losses reported one after the other: the object, and whether any of the
\* calls returned true.
AfterLosses(l, n, ts, rtt) ==
    LET f[k \in 0..n] ==
            IF k = 0 THEN [lr |-> l, reduce |-> FALSE]
            ELSE [lr     |-> LossReduceUpdate(f[k - 1].lr, TRUE, ts, rtt),
                  reduce |-> f[k - 1].reduce \/ MustReduce(f[k - 1].lr, TRUE, ts, rtt)]
    IN  f[n]

-----------------------------------------------------------------------------
(* class eyenet *)

\* A controller without history.
Fresh(cwnd, ss, rtt) ==
    [cwnd |-> cwnd, intersend |-> 0, delta |-> 2, ss |-> ss,
     nack |-> 0, nlost |-> 0, nsent |-> 0, unacked |-> {},
     rtt |-> rtt, lr |-> LossReduceNew]

\* The constructor, as main calls it with delta = 1.0.
EyenetNew == Fresh(2 * Scale, FALSE, RttWinNew)

Initialize(c) == Fresh(Nprobe * Scale, TRUE, RttWinClear(c.rtt))

\* eyenet::update_delta: default_delta (one half) caps delta.
UpdateDelta(c) == [c EXCEPT !.delta = SmallerOf(@, 1)]

\* The window at which the controller would stop growing: rtt / (qd * delta).
TargetCwnd(c) ==
    LET rtt == c.rtt.virgin_rtt.tail
        qd  == rtt - c.rtt.min_rtt.tail
    IN  IF qd = 0 THEN DoubleMax * Scale ELSE (2 * Scale * rtt) \div (qd * c.delta)

HalfRttPerPacket(c, cwnd) == (Scale * c.rtt.virgin_rtt.tail) \div (2 * cwnd)

UpdateIntersend(c) ==
    LET target == TargetCwnd(c)
        grown  == IF c.ss /\ target = DoubleMax * Scale THEN c.cwnd + Scale ELSE c.cwnd
        step   == (2 * Scale * Scale) \div (c.delta * grown)
        cwnd   == LargerOf(2 * Scale,
                           IF grown < target THEN grown + step ELSE grown - step)
    IN  IF c.nack < 2 * Nprobe - 1
        THEN c
        ELSE [c EXCEPT !.cwnd = cwnd,
                       !.ss = @ /\ grown < DoubleMax * Scale,
                       !.intersend = HalfRttPerPacket(c, cwnd)]

\* Mutant: only the acknowledged packet leaves unacked_pkts.
Settled_OnlyAcked(c, seq_no) == c.unacked \cap {seq_no}

\* The loop over unacked_pkts: an acknowledgement of an outstanding packet
\* settles every packet up to it, and the older ones count as lost.  The loop
\* erases the entry its iterator is at and goes on from there, which is
\* undefined: it works where the allocator leaves the freed node alone, and may
\* otherwise crash, which a behaviour that stops here stands for.
Settled(c, seq_no) ==
    IF seq_no \in c.unacked THEN {p \in c.unacked : p <= seq_no} ELSE {}

\* Mutant: the acknowledged packet is counted as lost with the older ones.
SettleUnacked_CountsAcked(c, seq_no, ts) ==
    LET settled == Settled(c, seq_no)
        nlost   == Cardinality(settled)
        after   == AfterLosses(c.lr, nlost, ts, c.rtt.curr_rtt)
    IN  [c EXCEPT !.unacked = @ \ settled, !.nlost = @ + nlost,
                  !.lr = LossReduceUpdate(after.lr, FALSE, ts, c.rtt.curr_rtt)]

SettleUnacked(c, seq_no, ts) ==
    LET settled == Settled(c, seq_no)
        nlost   == Cardinality(settled \ {seq_no})
        after   == AfterLosses(c.lr, nlost, ts, c.rtt.curr_rtt)
    IN  [c EXCEPT !.unacked = @ \ settled, !.nlost = @ + nlost,
                  !.lr = LossReduceUpdate(after.lr, FALSE, ts, c.rtt.curr_rtt)]

\* Did reduce_on_loss ask for a smaller window anywhere in this call?
ReduceOnLoss(c, seq_no, ts) ==
    LET nlost == Cardinality(Settled(c, seq_no) \ {seq_no})
        after == AfterLosses(c.lr, nlost, ts, c.rtt.curr_rtt)
    IN  after.reduce \/ MustReduce(after.lr, FALSE, ts, c.rtt.curr_rtt)

\* Mutant: the window is halved and the floor of two packets is gone.
ReduceCwnd_NoFloor(c) ==
    LET cwnd == c.cwnd \div 2
    IN  [c EXCEPT !.cwnd = cwnd, !.intersend = HalfRttPerPacket(c, cwnd)]

ReduceCwnd(c) ==
    LET cwnd == LargerOf(2 * Scale, (8 * c.cwnd) \div 10)
    IN  [c EXCEPT !.cwnd = cwnd, !.intersend = HalfRttPerPacket(c, cwnd)]

\* eyenet::on_ack at time ts for a packet sent at send_ts.
Sampled(c, ts, send_ts, srtt) ==
    [c EXCEPT !.rtt = RttWinAdd(@, ts - send_ts, ts, srtt)]

OnAck(c, ack, ts, send_ts, srtt) ==
    LET paced   == UpdateIntersend(UpdateDelta(Sampled(c, ts, send_ts, srtt)))
        settled == SettleUnacked(paced, ack - 1, ts)
        reduced == IF ReduceOnLoss(paced, ack - 1, ts) THEN ReduceCwnd(settled) ELSE settled
    IN  [reduced EXCEPT !.nack = @ + 1]

\* The calls of exit() in on_ack: a send time in the future, and a short RTT
\* window below the long one.
OnAckExits(c, ts, send_ts, srtt) ==
    \/ ts < send_ts
    \/ LET r == Sampled(c, ts, send_ts, srtt).rtt
       IN  r.virgin_rtt.tail < r.min_rtt.tail

OnPktSent(c, seq_no) == [c EXCEPT !.unacked = @ \cup {seq_no}, !.nsent = @ + 1]
=============================================================================
