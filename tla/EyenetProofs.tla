---------------------------- MODULE EyenetProofs ----------------------------
(***************************************************************************)
(* The eyenet controller for any window sizes, clocks and numbers of       *)
(* packets: what its methods do, the inductive invariant of EyenetSpec,    *)
(* and the properties that follow.                                         *)
(***************************************************************************)
EXTENDS EyenetSpec, WinProofs, FiniteSetTheorems

-----------------------------------------------------------------------------
(* class loss_reduce *)

LrType == [nloss : Nat, npkts : Nat, last_win_ts : Nat]

\* One step of reporting losses, on the pair AfterLosses returns.
Lose(x, ts, r) ==
    [lr     |-> LossReduceUpdate(x.lr, TRUE, ts, r),
     reduce |-> x.reduce \/ MustReduce(x.lr, TRUE, ts, r)]

\* f lists what 0, 1, ..., n losses lead to.
Losses(f, n, l, ts, r) ==
    f = [k \in 0..n |-> IF k = 0 THEN [lr |-> l, reduce |-> FALSE]
                        ELSE Lose(f[k - 1], ts, r)]

LEMMA LossesExist ==
    ASSUME NEW l, NEW ts, NEW r, NEW n \in Nat
    PROVE  \E f : Losses(f, n, l, ts, r)
<1> DEFINE S    == {m \in Nat : \E f : Losses(f, m, l, ts, r)}
           zero == [lr |-> l, reduce |-> FALSE]
           L(x) == Lose(x, ts, r)
<1>1. 0 \in S
  <2> DEFINE f == [k \in 0..0 |-> zero]
  <2>1. f = [k \in 0..0 |-> IF k = 0 THEN zero ELSE L(f[k - 1])]
    OBVIOUS
  <2>2. Losses(f, 0, l, ts, r)
    BY <2>1 DEF Losses
  <2> QED
    BY <2>2
<1>2. ASSUME NEW m \in Nat, m \in S PROVE m + 1 \in S
  <2>1. PICK f : Losses(f, m, l, ts, r)
    BY <1>2
  <2> DEFINE g == [k \in 0..(m + 1) |-> IF k <= m THEN f[k] ELSE L(f[m])]
  <2> HIDE DEF L, zero
  <2>2. f = [k \in 0..m |-> IF k = 0 THEN zero ELSE L(f[k - 1])]
    BY <2>1 DEF Losses, L, zero
  <2>3. \A k \in 0..m : f[k] = IF k = 0 THEN zero ELSE L(f[k - 1])
    BY <2>2, Zenon
  <2>4. \A k \in 0..(m + 1) : g[k] = IF k = 0 THEN zero ELSE L(g[k - 1])
    <3> SUFFICES ASSUME NEW k \in 0..(m + 1)
                 PROVE  g[k] = IF k = 0 THEN zero ELSE L(g[k - 1])
      OBVIOUS
    <3>1. CASE k = 0
      BY <2>3, <3>1
    <3>2. CASE k # 0
      <4>1. k - 1 \in 0..m /\ k - 1 \in 0..(m + 1) /\ (k - 1 = m \/ k \in 0..m) /\ k - 1 <= m
        BY <3>2
      <4>2. g[k - 1] = f[k - 1]
        BY <4>1
      <4>3. g[k] = L(f[k - 1])
        <5>1. CASE k \in 0..m
          BY <2>3, <3>2, <5>1
        <5>2. CASE k - 1 = m
          BY <5>2
        <5> QED
          BY <4>1, <5>1, <5>2
      <4> QED
        BY <3>2, <4>2, <4>3
    <3> QED
      BY <3>1, <3>2
  <2>5. g = [k \in 0..(m + 1) |-> IF k = 0 THEN zero ELSE L(g[k - 1])]
    BY <2>4, Zenon
  <2> HIDE DEF g
  <2>6. Losses(g, m + 1, l, ts, r)
    BY <2>5 DEF Losses, L, zero
  <2> QED
    BY <2>6
<1> HIDE DEF S
<1>3. Nat \subseteq S
  BY <1>1, <1>2, SetInduction
<1> QED
  BY <1>3 DEF S

LEMMA AfterLossesFact ==
    ASSUME NEW l, NEW ts, NEW r, NEW n \in Nat
    PROVE  \E f : Losses(f, n, l, ts, r) /\ AfterLosses(l, n, ts, r) = f[n]
<1>1. PICK f : Losses(f, n, l, ts, r)
  BY LossesExist
<1> QED
  BY <1>1, LossesExist, Zenon DEF AfterLosses, Losses, Lose

\* An object between two calls of on_ack: some packet of the loss window was
\* acknowledged, unless the window is still empty.
LrInv(l) ==
    /\ l \in LrType
    /\ l.nloss < l.npkts \/ (l.nloss = 0 /\ l.npkts = 0)

\* k losses after such an object: only if all of the window was lost do the
\* two counters agree, and then the window has at most those k packets.
LosingInv(x, k, l, ts) ==
    /\ x.lr \in LrType /\ x.lr.last_win_ts \in {l.last_win_ts, ts}
    /\ x.lr.nloss < x.lr.npkts \/ (x.lr.nloss = x.lr.npkts /\ x.lr.npkts <= k)
    /\ x.reduce = FALSE \/ (x.reduce = TRUE /\ k > LossWindow)

LEMMA DivNat == \A a \in Nat, b \in Nat \ {0} : a \div b \in Nat
  OBVIOUS

LEMMA DivSmall == \A a, b \in Nat : a < b => a \div b = 0
  OBVIOUS

LEMMA LoseStep ==
    ASSUME NEW x, NEW k \in Nat, NEW l, NEW ts \in Nat, NEW r \in Nat,
           LosingInv(x, k, l, ts)
    PROVE  LosingInv(Lose(x, ts, r), k + 1, l, ts)
<1> DEFINE y == x.lr
           z == LossReduceUpdate(y, TRUE, ts, r)
           must == MustReduce(y, TRUE, ts, r)
           w == Lose(x, ts, r)
<1>1. /\ y \in LrType /\ y.last_win_ts \in {l.last_win_ts, ts}
      /\ y.nloss \in Nat /\ y.npkts \in Nat /\ LossWindow \in Nat
      /\ y.nloss < y.npkts \/ (y.nloss = y.npkts /\ y.npkts <= k)
  BY EyenetConstants DEF LosingInv, LrType
<1>2. w.lr = z /\ w.reduce = (x.reduce \/ must)
  BY DEF Lose
<1> HIDE DEF y, w
<1>3. /\ z \in LrType /\ z.last_win_ts \in {l.last_win_ts, ts}
      /\ z.nloss < z.npkts \/ (z.nloss = z.npkts /\ z.npkts <= k + 1)
  <2>1. CASE WindowOver(y, ts, r)
    <3>1. z = [nloss |-> 0, npkts |-> 0, last_win_ts |-> ts]
      BY <2>1 DEF LossReduceUpdate
    <3> HIDE DEF z
    <3> QED
      BY <1>1, <3>1 DEF LrType
  <2>2. CASE ~WindowOver(y, ts, r)
    <3>1. z = [nloss |-> y.nloss + 1, npkts |-> y.npkts + 1,
               last_win_ts |-> y.last_win_ts]
      BY <1>1, <2>2 DEF LossReduceUpdate, LrType
    <3> HIDE DEF z
    <3> QED
      BY <1>1, <3>1 DEF LrType
  <2> QED
    BY <2>1, <2>2
<1>4. must => k + 1 > LossWindow
  <2> SUFFICES ASSUME must PROVE k + 1 > LossWindow
    OBVIOUS
  <2>1. y.npkts + 1 > LossWindow
    BY DEF MustReduce, WindowOver
  <2>2. (y.nloss + 1) \div (y.npkts + 1) # 0
    BY DEF MustReduce
  <2>3. ~(y.nloss + 1 < y.npkts + 1)
    BY <1>1, <2>2, DivSmall
  <2> QED
    BY <1>1, <2>1, <2>3
<1>5. w.reduce = FALSE \/ (w.reduce = TRUE /\ k + 1 > LossWindow)
  <2>1. x.reduce = FALSE \/ (x.reduce = TRUE /\ k > LossWindow)
    BY DEF LosingInv
  <2>2. k > LossWindow => k + 1 > LossWindow
    BY <1>1
  <2>3. must \in BOOLEAN
    BY DEF MustReduce
  <2> HIDE DEF must
  <2> QED
    BY <1>2, <1>4, <2>1, <2>2, <2>3, Zenon
<1> HIDE DEF z
<1> QED
  BY <1>2, <1>3, <1>5 DEF LosingInv, w

LEMMA AfterLossesInv ==
    ASSUME NEW l, LrInv(l), NEW n \in Nat, NEW ts \in Nat, NEW r \in Nat
    PROVE  LosingInv(AfterLosses(l, n, ts, r), n, l, ts)
<1>1. PICK f : Losses(f, n, l, ts, r) /\ AfterLosses(l, n, ts, r) = f[n]
  BY AfterLossesFact
<1> DEFINE zero == [lr |-> l, reduce |-> FALSE]
           L(x) == Lose(x, ts, r)
           S    == {k \in Nat : k <= n => LosingInv(f[k], k, l, ts)}
<1>2. \A k \in 0..n : f[k] = IF k = 0 THEN zero ELSE L(f[k - 1])
  <2> HIDE DEF L, zero
  <2>1. f = [k \in 0..n |-> IF k = 0 THEN zero ELSE L(f[k - 1])]
    BY <1>1 DEF Losses, L, zero
  <2> QED
    BY <2>1, Zenon
<1> HIDE DEF L, zero
<1>3. 0 \in S
  <2>1. f[0] = zero
    BY <1>2
  <2>2. zero.lr = l /\ zero.reduce = FALSE
    BY DEF zero
  <2>3. LosingInv(zero, 0, l, ts)
    BY <2>2 DEF LosingInv, LrInv, LrType
  <2> QED
    BY <2>1, <2>3
<1>4. ASSUME NEW k \in Nat, k \in S PROVE k + 1 \in S
  <2> SUFFICES ASSUME k + 1 <= n PROVE LosingInv(f[k + 1], k + 1, l, ts)
    OBVIOUS
  <2>1. k + 1 \in 0..n /\ k + 1 # 0 /\ (k + 1) - 1 = k
    OBVIOUS
  <2>2. f[k + 1] = Lose(f[k], ts, r)
    BY <1>2, <2>1 DEF L
  <2>3. LosingInv(f[k], k, l, ts)
    BY <1>4
  <2> QED
    BY <2>2, <2>3, LoseStep
<1> HIDE DEF S
<1>5. n \in S
  BY <1>3, <1>4, SetInduction
<1> QED
  BY <1>1, <1>5 DEF S

\* The call that ends on_ack reports the acknowledged packet: it never asks for
\* a smaller window, and it makes up for the losses before it.
LEMMA ArrivedFact ==
    ASSUME NEW l \in LrType, NEW ts \in Nat, NEW r \in Nat, l.nloss <= l.npkts
    PROVE  /\ ~MustReduce(l, FALSE, ts, r)
           /\ LrInv(LossReduceUpdate(l, FALSE, ts, r))
           /\ LossReduceUpdate(l, FALSE, ts, r).last_win_ts \in {l.last_win_ts, ts}
<1>1. l.nloss \in Nat /\ l.npkts \in Nat /\ l.last_win_ts \in Nat
  BY DEF LrType
<1>2. (l.nloss + 0) \div (l.npkts + 1) = 0
  <2>1. l.nloss + 0 \in Nat /\ l.npkts + 1 \in Nat /\ l.nloss + 0 < l.npkts + 1
    BY <1>1
  <2> QED
    BY <2>1, DivSmall
<1>3. ~MustReduce(l, FALSE, ts, r)
  BY <1>2 DEF MustReduce
<1> DEFINE u == LossReduceUpdate(l, FALSE, ts, r)
<1>4. LrInv(u) /\ u.last_win_ts \in {l.last_win_ts, ts}
  <2>1. CASE WindowOver(l, ts, r)
    <3>1. u = [nloss |-> 0, npkts |-> 0, last_win_ts |-> ts]
      BY <2>1 DEF LossReduceUpdate
    <3> HIDE DEF u
    <3> QED
      BY <3>1 DEF LrInv, LrType
  <2>2. CASE ~WindowOver(l, ts, r)
    <3>1. u = [nloss |-> l.nloss + 0, npkts |-> l.npkts + 1,
               last_win_ts |-> l.last_win_ts]
      BY <1>1, <2>2 DEF LossReduceUpdate, LrType
    <3> HIDE DEF u
    <3> QED
      BY <1>1, <3>1 DEF LrInv, LrType
  <2> QED
    BY <2>1, <2>2
<1> QED
  BY <1>3, <1>4 DEF u

-----------------------------------------------------------------------------
(* class eyenet: its methods *)

\* The fields of a controller whose RTT windows are in R.
CtlType(R) ==
    [cwnd : Nat, intersend : Nat, delta : {1, 2}, ss : BOOLEAN,
     nack : Nat, nlost : Nat, nsent : Nat, unacked : SUBSET Nat,
     rtt : R, lr : LrType]

CtlInv(c1) ==
    /\ c1 \in CtlType({c1.rtt}) /\ c1.cwnd >= 2 * Scale
    /\ RttInv(c1.rtt) /\ LrInv(c1.lr) /\ IsFiniteSet(c1.unacked)

SameCounts(d, e) ==
    /\ d.nack = e.nack /\ d.nlost = e.nlost /\ d.nsent = e.nsent
    /\ d.unacked = e.unacked /\ d.lr = e.lr

LEMMA CtlFields ==
    ASSUME NEW d, CtlInv(d)
    PROVE  /\ d.cwnd \in Nat /\ d.cwnd >= 2 * Scale /\ d.intersend \in Nat
           /\ d.delta \in {1, 2} /\ d.ss \in BOOLEAN /\ d.nack \in Nat
           /\ d.nlost \in Nat /\ d.nsent \in Nat /\ d.unacked \in SUBSET Nat
           /\ d.lr \in LrType /\ LrInv(d.lr) /\ RttInv(d.rtt) /\ IsFiniteSet(d.unacked)
           /\ Scale \in Nat \ {0}
           /\ d = [cwnd |-> d.cwnd, intersend |-> d.intersend, delta |-> d.delta,
                   ss |-> d.ss, nack |-> d.nack, nlost |-> d.nlost, nsent |-> d.nsent,
                   unacked |-> d.unacked, rtt |-> d.rtt, lr |-> d.lr]
  BY EyenetConstants DEF CtlInv, CtlType

LEMMA CtlMade ==
    ASSUME NEW cwnd \in Nat, NEW intersend \in Nat, NEW delta \in {1, 2},
           NEW ss \in BOOLEAN, NEW nack \in Nat, NEW nlost \in Nat, NEW nsent \in Nat,
           NEW unacked \in SUBSET Nat, NEW rtt, NEW lr,
           cwnd >= 2 * Scale, RttInv(rtt), LrInv(lr), IsFiniteSet(unacked),
           NEW d,
           d = [cwnd |-> cwnd, intersend |-> intersend, delta |-> delta, ss |-> ss,
                nack |-> nack, nlost |-> nlost, nsent |-> nsent, unacked |-> unacked,
                rtt |-> rtt, lr |-> lr]
    PROVE  CtlInv(d)
  BY DEF CtlInv, CtlType, LrInv

LEMMA FreshFact ==
    ASSUME NEW d, RttInv(d.rtt)
    PROVE  /\ CtlInv(Initialize(d))
           /\ Initialize(d).cwnd = Nprobe * Scale /\ Initialize(d).ss = TRUE
           /\ Initialize(d).nack = 0 /\ Initialize(d).nlost = 0 /\ Initialize(d).nsent = 0
           /\ Initialize(d).unacked = {} /\ Initialize(d).lr = LossReduceNew
<1> DEFINE e == Initialize(d)
           r == RttWinClear(d.rtt)
<1>1. RttInv(r)
  BY RttClearFact DEF RttInv
<1>2. Nprobe * Scale \in Nat /\ Nprobe * Scale >= 2 * Scale
  BY EyenetConstants
<1>3. LrInv(LossReduceNew)
  BY DEF LrInv, LrType, LossReduceNew
<1>4. IsFiniteSet({})
  BY FS_EmptySet
<1> HIDE DEF r
<1>5. e = [cwnd |-> Nprobe * Scale, intersend |-> 0, delta |-> 2, ss |-> TRUE,
           nack |-> 0, nlost |-> 0, nsent |-> 0, unacked |-> {},
           rtt |-> r, lr |-> LossReduceNew]
  BY DEF Initialize, Fresh, r
<1> HIDE DEF e
<1>6. CtlInv(e)
  BY <1>1, <1>2, <1>3, <1>4, <1>5, CtlMade
<1> QED
  BY <1>5, <1>6 DEF e

LEMMA SampledFact ==
    ASSUME NEW d, CtlInv(d), NEW ts \in Nat, NEW send_ts \in Nat, send_ts <= ts,
           ts < DoubleMax, NEW srtt \in Nat
    PROVE  LET s == Sampled(d, ts, send_ts, srtt) IN
           /\ CtlInv(s) /\ SameCounts(s, d)
           /\ s.cwnd = d.cwnd /\ s.ss = d.ss
<1> DEFINE s == Sampled(d, ts, send_ts, srtt)
           r == RttWinAdd(d.rtt, ts - send_ts, ts, srtt)
<1>1. RttInv(r)
  <2>1. ts - send_ts \in 0..(DoubleMax - 1)
    BY WinConstants
  <2> QED
    BY <2>1, RttAddFact DEF CtlInv
<1> HIDE DEF r
<1>2. s = [d EXCEPT !.rtt = r]
  BY DEF Sampled, r
<1>3. s = [cwnd |-> d.cwnd, intersend |-> d.intersend, delta |-> d.delta, ss |-> d.ss,
           nack |-> d.nack, nlost |-> d.nlost, nsent |-> d.nsent,
           unacked |-> d.unacked, rtt |-> r, lr |-> d.lr]
  BY <1>2 DEF CtlInv, CtlType
<1> HIDE DEF s
<1>4. CtlInv(s)
  <2>1. /\ s.cwnd = d.cwnd /\ s.rtt = r /\ s.lr = d.lr /\ s.unacked = d.unacked
        /\ s \in CtlType({s.rtt})
    BY <1>3, CtlFields DEF CtlType
  <2>2. CtlInv(d)
    OBVIOUS
  <2> QED
    BY <1>1, <2>1, <2>2 DEF CtlInv
<1> QED
  BY <1>3, <1>4 DEF SameCounts, s

LEMMA UpdateDeltaFact ==
    ASSUME NEW d, CtlInv(d)
    PROVE  LET s == UpdateDelta(d) IN
           /\ CtlInv(s) /\ SameCounts(s, d)
           /\ s.cwnd = d.cwnd /\ s.ss = d.ss
<1> DEFINE s     == UpdateDelta(d)
           delta == SmallerOf(d.delta, 1)
<1>1. delta \in {1, 2}
  BY CtlFields DEF SmallerOf
<1>2. s = [cwnd |-> d.cwnd, intersend |-> d.intersend, delta |-> delta,
           ss |-> d.ss, nack |-> d.nack, nlost |-> d.nlost, nsent |-> d.nsent,
           unacked |-> d.unacked, rtt |-> d.rtt, lr |-> d.lr]
  BY DEF UpdateDelta, CtlInv, CtlType
<1> HIDE DEF s, delta
<1>3. CtlInv(s)
  <2>1. /\ s.cwnd = d.cwnd /\ s.rtt = d.rtt /\ s.lr = d.lr /\ s.unacked = d.unacked
        /\ s \in CtlType({s.rtt})
    BY <1>1, <1>2, CtlFields DEF CtlType
  <2> QED
    BY <2>1 DEF CtlInv
<1> QED
  BY <1>2, <1>3 DEF SameCounts, s

LEMMA HalfRttFact ==
    ASSUME NEW d, CtlInv(d), NEW cwnd \in Nat, cwnd # 0
    PROVE  HalfRttPerPacket(d, cwnd) \in Nat
<1> DEFINE tail == d.rtt.virgin_rtt.tail
           x    == Scale * tail
<1>1. tail \in Nat
  BY RttOrder DEF CtlInv
<1> HIDE DEF tail
<1>2. x \in Nat
  BY <1>1, EyenetConstants
<1>3. HalfRttPerPacket(d, cwnd) = x \div (2 * cwnd)
  BY DEF HalfRttPerPacket, tail
<1> HIDE DEF x
<1>4. 2 * cwnd \in Nat \ {0}
  OBVIOUS
<1> QED
  BY <1>2, <1>3, <1>4, DivNat

\* The pacing step never divides by zero, moves the window by at most two
\* packets, and leaves it alone while there are few acknowledgements.
LEMMA UpdateIntersendFact ==
    ASSUME NEW d, CtlInv(d)
    PROVE  LET s == UpdateIntersend(d) IN
           /\ CtlInv(s) /\ SameCounts(s, d)
           /\ s.cwnd <= d.cwnd + 2 * Scale
           /\ d.nack < 2 * Nprobe - 1 => s.cwnd = d.cwnd
           /\ d.ss = TRUE /\ d.cwnd + Scale < DoubleMax * Scale => s.ss = TRUE
<1> DEFINE target == TargetCwnd(d)
           grown  == IF d.ss /\ target = DoubleMax * Scale THEN d.cwnd + Scale ELSE d.cwnd
           step   == (2 * Scale * Scale) \div (d.delta * grown)
           cwnd   == LargerOf(2 * Scale,
                              IF grown < target THEN grown + step ELSE grown - step)
           over   == d.ss /\ grown < DoubleMax * Scale
           half   == HalfRttPerPacket(d, cwnd)
           s      == UpdateIntersend(d)
<1>1. s = IF d.nack < 2 * Nprobe - 1 THEN d
          ELSE [d EXCEPT !.cwnd = cwnd, !.ss = over, !.intersend = half]
  BY DEF UpdateIntersend
<1> HIDE DEF target
<1>2. /\ grown \in Nat /\ grown >= d.cwnd /\ grown <= d.cwnd + Scale
      /\ grown >= 2 * Scale /\ grown # 0
  BY CtlFields
<1>3. step \in Nat /\ step <= Scale
  <2> HIDE DEF grown
  <2>1. /\ d.delta * grown \in Nat \ {0}
        /\ 2 * Scale * Scale <= Scale * (d.delta * grown)
    BY <1>2, CtlFields
  <2>2. 2 * Scale * Scale \in Nat /\ Scale \in Nat
    BY EyenetConstants
  <2> DEFINE x == 2 * Scale * Scale
             y == d.delta * grown
  <2> HIDE DEF x, y
  <2>3. x \in Nat /\ y \in Nat \ {0} /\ x <= Scale * y /\ Scale \in Nat
    BY <2>1, <2>2 DEF x, y
  <2>4. x \div y \in Nat /\ x \div y <= Scale
    BY <2>3
  <2> QED
    BY <2>4 DEF x, y
<1> HIDE DEF step
<1>4. cwnd \in Nat /\ cwnd >= 2 * Scale /\ cwnd <= d.cwnd + 2 * Scale /\ cwnd # 0
  <2> HIDE DEF grown
  <2> QED
    BY <1>2, <1>3, CtlFields DEF LargerOf
<1>5. /\ over \in BOOLEAN
      /\ d.ss = TRUE /\ d.cwnd + Scale < DoubleMax * Scale => over = TRUE
  <2> HIDE DEF grown
  <2>1. DoubleMax * Scale \in Nat
    BY WinConstants, EyenetConstants
  <2> QED
    BY <1>2, <2>1, CtlFields
<1>6. half \in Nat
  <2> HIDE DEF cwnd
  <2> QED
    BY <1>4, HalfRttFact
<1> HIDE DEF cwnd, over, half
<1>7. CASE d.nack < 2 * Nprobe - 1
  <2>1. s = d
    BY <1>1, <1>7
  <2> QED
    BY <1>7, <2>1, CtlFields DEF SameCounts
<1>8. CASE ~(d.nack < 2 * Nprobe - 1)
  <2>1. s = [cwnd |-> cwnd, intersend |-> half, delta |-> d.delta, ss |-> over,
             nack |-> d.nack, nlost |-> d.nlost, nsent |-> d.nsent,
             unacked |-> d.unacked, rtt |-> d.rtt, lr |-> d.lr]
    BY <1>1, <1>8 DEF CtlInv, CtlType
  <2> HIDE DEF s
  <2>2. CtlInv(s)
    <3>1. /\ s.cwnd = cwnd /\ s.rtt = d.rtt /\ s.lr = d.lr /\ s.unacked = d.unacked
          /\ s \in CtlType({s.rtt})
      BY <1>4, <1>5, <1>6, <2>1, CtlFields DEF CtlType
    <3> QED
      BY <1>4, <3>1 DEF CtlInv
  <2> QED
    BY <1>4, <1>5, <1>8, <2>1, <2>2 DEF SameCounts, s
<1> QED
  BY <1>7, <1>8

\* What an acknowledgement of an outstanding packet settles.
LEMMA SettledFact ==
    ASSUME NEW d, CtlInv(d), NEW seq_no \in Nat
    PROVE  /\ Settled(d, seq_no) \subseteq d.unacked
           /\ IsFiniteSet(Settled(d, seq_no)) /\ IsFiniteSet(d.unacked \ Settled(d, seq_no))
           /\ Cardinality(Settled(d, seq_no) \ {seq_no}) \in Nat
<1>1. Settled(d, seq_no) \subseteq d.unacked
  BY DEF Settled
<1>2. IsFiniteSet(d.unacked)
  BY DEF CtlInv
<1>3. /\ IsFiniteSet(Settled(d, seq_no)) /\ IsFiniteSet(d.unacked \ Settled(d, seq_no))
      /\ IsFiniteSet(Settled(d, seq_no) \ {seq_no})
  BY <1>1, <1>2, FS_Subset
<1> QED
  BY <1>1, <1>3, FS_CardinalityType

\* What stays outstanding, and how many packets are given up.
Left(d, seq_no) == d.unacked \ Settled(d, seq_no)
GivenUp(d, seq_no) == Cardinality(Settled(d, seq_no) \ {seq_no})

\* s is d once the packets up to seq_no are settled.
SettledInto(s, d, seq_no, ts) ==
    /\ CtlInv(s) /\ s.cwnd = d.cwnd /\ s.ss = d.ss
    /\ s.nack = d.nack /\ s.nsent = d.nsent
    /\ s.unacked = Left(d, seq_no) /\ s.nlost = d.nlost + GivenUp(d, seq_no)
    /\ s.lr.last_win_ts \in {d.lr.last_win_ts, ts}

LEMMA SettleUnackedFact ==
    ASSUME NEW d, CtlInv(d), NEW seq_no \in Nat, NEW ts \in Nat
    PROVE  /\ SettledInto(SettleUnacked(d, seq_no, ts), d, seq_no, ts)
           /\ ReduceOnLoss(d, seq_no, ts) => GivenUp(d, seq_no) > LossWindow
<1> DEFINE settled == Settled(d, seq_no)
           n     == Cardinality(settled \ {seq_no})
           r     == d.rtt.curr_rtt
           after == AfterLosses(d.lr, n, ts, r)
           l     == LossReduceUpdate(after.lr, FALSE, ts, r)
           s     == SettleUnacked(d, seq_no, ts)
<1>1. n \in Nat /\ r \in Nat /\ LrInv(d.lr) /\ d.lr.last_win_ts \in Nat
  BY SettledFact, CtlFields DEF RttInv, LrType
<1>2. s = [d EXCEPT !.unacked = @ \ settled, !.nlost = @ + n, !.lr = l]
  BY DEF SettleUnacked
<1>3. ReduceOnLoss(d, seq_no, ts) <=> after.reduce \/ MustReduce(after.lr, FALSE, ts, r)
  BY DEF ReduceOnLoss
<1> HIDE DEF n, r
<1>4. LosingInv(after, n, d.lr, ts)
  BY <1>1, AfterLossesInv
<1> HIDE DEF after
<1>5. /\ after.lr \in LrType /\ after.lr.nloss <= after.lr.npkts
      /\ after.lr.last_win_ts \in {d.lr.last_win_ts, ts}
      /\ after.reduce = FALSE \/ (after.reduce = TRUE /\ n > LossWindow)
  BY <1>4 DEF LosingInv, LrType
<1>6. /\ ~MustReduce(after.lr, FALSE, ts, r) /\ LrInv(l)
      /\ l.last_win_ts \in {after.lr.last_win_ts, ts}
  BY <1>1, <1>5, ArrivedFact
<1>7. ReduceOnLoss(d, seq_no, ts) => n > LossWindow
  BY <1>3, <1>5, <1>6
<1> HIDE DEF l
<1>8. s = [cwnd |-> d.cwnd, intersend |-> d.intersend, delta |-> d.delta, ss |-> d.ss,
           nack |-> d.nack, nlost |-> d.nlost + n, nsent |-> d.nsent,
           unacked |-> d.unacked \ settled, rtt |-> d.rtt, lr |-> l]
  BY <1>2 DEF CtlInv, CtlType
<1> HIDE DEF s
<1>9. IsFiniteSet(d.unacked \ settled)
  BY SettledFact
<1> HIDE DEF settled
<1>10. d.nlost + n \in Nat /\ d.unacked \ settled \in SUBSET Nat
  BY <1>1, CtlFields
<1> DEFINE nlost == d.nlost + n
           unacked == d.unacked \ settled
<1> HIDE DEF nlost, unacked
<1>11. CtlInv(s)
  <2>1. /\ nlost \in Nat /\ unacked \in SUBSET Nat /\ IsFiniteSet(unacked) /\ LrInv(l)
        /\ s = [cwnd |-> d.cwnd, intersend |-> d.intersend, delta |-> d.delta,
                ss |-> d.ss, nack |-> d.nack, nlost |-> nlost, nsent |-> d.nsent,
                unacked |-> unacked, rtt |-> d.rtt, lr |-> l]
    BY <1>6, <1>8, <1>9, <1>10 DEF nlost, unacked
  <2> QED
    BY <2>1, CtlMade, CtlFields, ZenonT(60)
<1>12. s.lr.last_win_ts \in {d.lr.last_win_ts, ts}
  BY <1>5, <1>6, <1>8
<1>13. n = GivenUp(d, seq_no) /\ d.unacked \ settled = Left(d, seq_no)
  BY DEF n, settled, GivenUp, Left
<1>14. SettledInto(s, d, seq_no, ts)
  BY <1>8, <1>11, <1>12, <1>13 DEF SettledInto
<1> QED
  BY <1>7, <1>13, <1>14 DEF s

LEMMA ReduceCwndFact ==
    ASSUME NEW d, CtlInv(d)
    PROVE  LET s == ReduceCwnd(d) IN
           CtlInv(s) /\ SameCounts(s, d) /\ s.ss = d.ss /\ s.cwnd <= d.cwnd
<1> DEFINE cwnd == LargerOf(2 * Scale, (8 * d.cwnd) \div 10)
           half == HalfRttPerPacket(d, cwnd)
           s    == ReduceCwnd(d)
<1>1. cwnd \in Nat /\ cwnd >= 2 * Scale /\ cwnd <= d.cwnd /\ cwnd # 0
  <2> DEFINE x == d.cwnd
  <2>1. x \in Nat /\ x >= 2 * Scale /\ Scale \in Nat \ {0}
    BY CtlFields
  <2> HIDE DEF x
  <2>2. (8 * x) \div 10 \in Nat /\ (8 * x) \div 10 <= x
    BY <2>1
  <2> QED
    BY <2>1, <2>2 DEF LargerOf, x
<1>2. s = [d EXCEPT !.cwnd = cwnd, !.intersend = half]
  BY DEF ReduceCwnd
<1> HIDE DEF cwnd
<1>3. half \in Nat
  BY <1>1, HalfRttFact
<1> HIDE DEF half
<1>4. s = [cwnd |-> cwnd, intersend |-> half, delta |-> d.delta, ss |-> d.ss,
           nack |-> d.nack, nlost |-> d.nlost, nsent |-> d.nsent,
           unacked |-> d.unacked, rtt |-> d.rtt, lr |-> d.lr]
  BY <1>2 DEF CtlInv, CtlType
<1> HIDE DEF s
<1>5. CtlInv(s)
  <2>1. /\ s.cwnd = cwnd /\ s.rtt = d.rtt /\ s.lr = d.lr /\ s.unacked = d.unacked
        /\ s \in CtlType({s.rtt})
    BY <1>1, <1>3, <1>4, CtlFields DEF CtlType
  <2> QED
    BY <1>1, <2>1 DEF CtlInv
<1> QED
  BY <1>1, <1>4, <1>5 DEF SameCounts, s

\* The whole of on_ack, for the packet seq_no = ack - 1: a is what it makes of d.
Acked(a, d, seq_no, ts) ==
    /\ CtlInv(a) /\ a.nack = d.nack + 1 /\ a.nsent = d.nsent
    /\ a.unacked = Left(d, seq_no) /\ a.nlost = d.nlost + GivenUp(d, seq_no)
    /\ a.lr.last_win_ts \in {d.lr.last_win_ts, ts}
    /\ a.cwnd <= d.cwnd + 2 * Scale
    /\ d.ss = TRUE /\ d.cwnd + Scale < DoubleMax * Scale => a.ss = TRUE
    /\ d.nack < 2 * Nprobe - 1 /\ a.cwnd < d.cwnd => GivenUp(d, seq_no) > LossWindow

LEMMA OnAckFact ==
    ASSUME NEW d, CtlInv(d), NEW seq_no \in Nat, NEW ts \in Nat, NEW send_ts \in Nat,
           send_ts <= ts, ts < DoubleMax, NEW srtt \in Nat
    PROVE  Acked(OnAck(d, seq_no + 1, ts, send_ts, srtt), d, seq_no, ts)
<1> DEFINE s1 == Sampled(d, ts, send_ts, srtt)
           s2 == UpdateDelta(s1)
           s3 == UpdateIntersend(s2)
           s4 == SettleUnacked(s3, seq_no, ts)
           must == ReduceOnLoss(s3, seq_no, ts)
           s5 == IF must THEN ReduceCwnd(s4) ELSE s4
           n    == GivenUp(d, seq_no)
           rest == Left(d, seq_no)
           a    == OnAck(d, seq_no + 1, ts, send_ts, srtt)
<1>1. a = [s5 EXCEPT !.nack = @ + 1]
  <2>1. (seq_no + 1) - 1 = seq_no
    OBVIOUS
  <2> QED
    BY <2>1 DEF OnAck
<1>2. CtlInv(s1) /\ SameCounts(s1, d) /\ s1.cwnd = d.cwnd /\ s1.ss = d.ss
  BY SampledFact
<1> HIDE DEF s1
<1>3. CtlInv(s2) /\ SameCounts(s2, d) /\ s2.cwnd = d.cwnd /\ s2.ss = d.ss
  BY <1>2, UpdateDeltaFact DEF SameCounts
<1> HIDE DEF s2
<1>4. /\ CtlInv(s3) /\ SameCounts(s3, d)
      /\ s3.cwnd <= d.cwnd + 2 * Scale
      /\ d.nack < 2 * Nprobe - 1 => s3.cwnd = d.cwnd
      /\ d.ss = TRUE /\ d.cwnd + Scale < DoubleMax * Scale => s3.ss = TRUE
  <2>1. /\ CtlInv(s3) /\ SameCounts(s3, s2)
        /\ s3.cwnd <= s2.cwnd + 2 * Scale
        /\ s2.nack < 2 * Nprobe - 1 => s3.cwnd = s2.cwnd
        /\ s2.ss = TRUE /\ s2.cwnd + Scale < DoubleMax * Scale => s3.ss = TRUE
    BY <1>3, UpdateIntersendFact
  <2> HIDE DEF s3
  <2> QED
    BY <1>3, <2>1 DEF SameCounts
<1> HIDE DEF s3
<1>5. Settled(s3, seq_no) = Settled(d, seq_no)
  BY <1>4 DEF Settled, SameCounts
<1>6. /\ CtlInv(s4) /\ s4.cwnd = s3.cwnd /\ s4.ss = s3.ss /\ s4.nack = s3.nack
      /\ s4.nsent = s3.nsent /\ s4.unacked = rest
      /\ s4.nlost = s3.nlost + n /\ s4.lr.last_win_ts \in {s3.lr.last_win_ts, ts}
      /\ must => n > LossWindow
  <2>1. SettledInto(s4, s3, seq_no, ts)
    BY <1>4, SettleUnackedFact
  <2>2. must => GivenUp(s3, seq_no) > LossWindow
    BY <1>4, SettleUnackedFact
  <2>3. GivenUp(s3, seq_no) = n /\ Left(s3, seq_no) = rest
    BY <1>4, <1>5 DEF GivenUp, Left, SameCounts
  <2> HIDE DEF s4, must, n, rest
  <2> QED
    BY <2>1, <2>2, <2>3 DEF SettledInto
<1> HIDE DEF s4, must, n, rest
<1>7. /\ CtlInv(s5) /\ SameCounts(s5, s4) /\ s5.ss = s4.ss /\ s5.cwnd <= s4.cwnd
      /\ ~must => s5.cwnd = s4.cwnd
  <2>1. CASE must
    <3>1. s5 = ReduceCwnd(s4)
      BY <2>1
    <3> HIDE DEF s5
    <3> QED
      BY <1>6, <2>1, <3>1, ReduceCwndFact
  <2>2. CASE ~must
    <3>1. s5 = s4
      BY <2>2
    <3> HIDE DEF s5
    <3> QED
      BY <1>6, <2>2, <3>1, CtlFields DEF SameCounts
  <2> QED
    BY <2>1, <2>2
<1> HIDE DEF s5
<1>8. a = [cwnd |-> s5.cwnd, intersend |-> s5.intersend, delta |-> s5.delta,
           ss |-> s5.ss, nack |-> s5.nack + 1, nlost |-> s5.nlost, nsent |-> s5.nsent,
           unacked |-> s5.unacked, rtt |-> s5.rtt, lr |-> s5.lr]
  BY <1>1, <1>7 DEF CtlInv, CtlType
<1> HIDE DEF a
<1>9. CtlInv(a)
  <2>1. /\ a.cwnd = s5.cwnd /\ a.rtt = s5.rtt /\ a.lr = s5.lr /\ a.unacked = s5.unacked
        /\ a \in CtlType({a.rtt})
    BY <1>7, <1>8, CtlFields DEF CtlType
  <2> QED
    BY <1>7, <2>1 DEF CtlInv
<1>10. /\ a.nack = d.nack + 1 /\ a.nsent = d.nsent
       /\ a.unacked = rest /\ a.nlost = d.nlost + n
       /\ a.lr.last_win_ts \in {d.lr.last_win_ts, ts}
  BY <1>4, <1>6, <1>7, <1>8 DEF SameCounts
<1>11. /\ a.cwnd \in Nat /\ s3.cwnd \in Nat /\ s4.cwnd \in Nat /\ s5.cwnd \in Nat
       /\ d.cwnd \in Nat /\ Scale \in Nat
  BY <1>4, <1>6, <1>7, <1>9, CtlFields
<1>12. a.cwnd = s5.cwnd /\ a.ss = s5.ss
  BY <1>8
<1>13. a.cwnd <= d.cwnd + 2 * Scale
  BY <1>4, <1>6, <1>7, <1>11, <1>12
<1>14. d.ss = TRUE /\ d.cwnd + Scale < DoubleMax * Scale => a.ss = TRUE
  BY <1>4, <1>6, <1>7, <1>12
<1>15. d.nack < 2 * Nprobe - 1 /\ a.cwnd < d.cwnd => n > LossWindow
  BY <1>4, <1>6, <1>7, <1>11, <1>12
<1> QED
  BY <1>9, <1>10, <1>13, <1>14, <1>15 DEF n, rest, a, Acked

-----------------------------------------------------------------------------
(* The inductive invariant of EyenetSpec *)

\* Beside the conservation of packets and the order of what is outstanding: the
\* window is still far from DOUBLE_MAX, so slow start is not over.
IInv ==
    /\ now \in 0..MaxTime
    /\ sent \in Seq(0..MaxTime) /\ Len(sent) <= MaxSeq
    /\ \A i \in 1..Len(sent) : sent[i] <= now
    /\ CtlInv(c) /\ c.ss = TRUE /\ c.nack <= MaxAcks
    /\ c.cwnd <= (Nprobe + 2 * c.nack) * Scale
    /\ c.nsent <= Len(sent) /\ c.unacked \subseteq 0..(Len(sent) - 1)
    /\ c.lr.last_win_ts <= now
    /\ newest \in -1..(Len(sent) - 1) /\ nfresh \in Nat
    /\ PacketsAccountedFor /\ OutstandingIsNewest

LEMMA InitIInv == Init => IInv
<1> SUFFICES ASSUME Init PROVE IInv
  OBVIOUS
<1>1. /\ c = Initialize(EyenetNew) /\ now = 0 /\ sent = <<>> /\ newest = -1 /\ nfresh = 0
  BY DEF Init
<1>2. RttInv(EyenetNew.rtt)
  <2>1. EyenetNew.rtt = RttWinNew
    BY DEF EyenetNew, Fresh
  <2> QED
    BY <2>1, RttNewFact
<1>3. /\ CtlInv(c) /\ c.cwnd = Nprobe * Scale /\ c.ss = TRUE /\ c.nack = 0 /\ c.nlost = 0
      /\ c.nsent = 0 /\ c.unacked = {} /\ c.lr = LossReduceNew
  BY <1>1, <1>2, FreshFact
<1>4. Len(sent) = 0 /\ sent \in Seq(0..MaxTime)
  BY <1>1, EmptySeq
<1>5. c.lr.last_win_ts = 0
  BY <1>3 DEF LossReduceNew
<1>6. PacketsAccountedFor /\ OutstandingIsNewest
  BY <1>1, <1>3, FS_EmptySet DEF PacketsAccountedFor, OutstandingIsNewest
<1>7. c.cwnd <= (Nprobe + 2 * c.nack) * Scale
  BY <1>3, EyenetConstants
<1> QED
  BY <1>1, <1>3, <1>4, <1>5, <1>6, <1>7, EyenetSpecConstants DEF IInv

LEMMA SendIInv == IInv /\ Send => IInv'
<1> SUFFICES ASSUME IInv, Send PROVE IInv'
  OBVIOUS
<1> DEFINE n == Len(sent)
<1>1. /\ now \in 0..MaxTime /\ sent \in Seq(0..MaxTime) /\ n \in Nat /\ n < MaxSeq
      /\ \A i \in 1..n : sent[i] <= now
      /\ CtlInv(c) /\ c.ss = TRUE /\ c.nack <= MaxAcks
      /\ c.cwnd <= (Nprobe + 2 * c.nack) * Scale
      /\ c.nsent <= n /\ c.unacked \subseteq 0..(n - 1) /\ c.lr.last_win_ts <= now
      /\ newest \in -1..(n - 1) /\ nfresh \in Nat
      /\ PacketsAccountedFor /\ OutstandingIsNewest
  BY LenProperties DEF IInv, Send
<1>2. /\ c' = OnPktSent(c, n) /\ sent' = Append(sent, now) /\ now' = now
      /\ newest' = newest /\ nfresh' = nfresh
  BY DEF Send
<1>3. /\ sent' \in Seq(0..MaxTime) /\ Len(sent') = n + 1
      /\ sent'[n + 1] = now /\ \A i \in 1..n : sent'[i] = sent[i]
  BY <1>1, <1>2, AppendProperties
<1> HIDE DEF n
<1>4. c' = [cwnd |-> c.cwnd, intersend |-> c.intersend, delta |-> c.delta, ss |-> c.ss,
            nack |-> c.nack, nlost |-> c.nlost, nsent |-> c.nsent + 1,
            unacked |-> c.unacked \cup {n}, rtt |-> c.rtt, lr |-> c.lr]
  BY <1>1, <1>2 DEF OnPktSent, CtlInv, CtlType
<1>5. /\ IsFiniteSet(c.unacked \cup {n})
      /\ Cardinality(c.unacked \cup {n}) = Cardinality(c.unacked) + 1
      /\ Cardinality(c.unacked) \in Nat
  <2>1. IsFiniteSet(c.unacked) /\ n \notin c.unacked
    BY <1>1 DEF CtlInv
  <2> QED
    BY <2>1, FS_AddElement, FS_CardinalityType
<1>6. /\ c.nsent \in Nat /\ c.unacked \in SUBSET Nat /\ c.nlost \in Nat /\ c.nack \in Nat
      /\ CtlInv(c)
  BY <1>1, CtlFields
<1>7. /\ c'.cwnd = c.cwnd /\ c'.ss = c.ss /\ c'.nack = c.nack /\ c'.nlost = c.nlost
      /\ c'.nsent = c.nsent + 1 /\ c'.unacked = c.unacked \cup {n} /\ c'.lr = c.lr
  BY <1>4
<1>8. CtlInv(c')
  <2> DEFINE nsent == c.nsent + 1
             unacked == c.unacked \cup {n}
  <2>1. nsent \in Nat /\ unacked \in SUBSET Nat /\ IsFiniteSet(unacked)
    BY <1>1, <1>5, <1>6, SMTT(30)
  <2>2. c' = [cwnd |-> c.cwnd, intersend |-> c.intersend, delta |-> c.delta,
              ss |-> c.ss, nack |-> c.nack, nlost |-> c.nlost, nsent |-> nsent,
              unacked |-> unacked, rtt |-> c.rtt, lr |-> c.lr]
    BY <1>4
  <2>3. CtlInv(c)
    BY <1>1
  <2> HIDE DEF nsent, unacked
  <2> QED
    BY <2>1, <2>2, <2>3, CtlMade, CtlFields, ZenonT(60)
<1>9. PacketsAccountedFor' /\ OutstandingIsNewest'
  <2>1. c'.nsent = Cardinality(c'.unacked) + c'.nlost + nfresh'
    <3> DEFINE u == c.unacked \cup {n}
    <3>1. c'.unacked = u /\ Cardinality(u) = Cardinality(c.unacked) + 1
      BY <1>5, <1>7
    <3>2. c.nsent = Cardinality(c.unacked) + c.nlost + nfresh
      BY <1>1 DEF PacketsAccountedFor
    <3>3. c'.nsent = c.nsent + 1 /\ c'.nlost = c.nlost /\ nfresh' = nfresh
      BY <1>2, <1>7
    <3>4. Cardinality(c.unacked) \in Nat /\ c.nlost \in Nat /\ nfresh \in Nat
      BY <1>1, <1>5, <1>6
    <3> HIDE DEF u
    <3> QED
      BY <3>1, <3>2, <3>3, <3>4
  <2>2. \A p \in c'.unacked : p > newest'
    BY <1>1, <1>2, <1>7 DEF OutstandingIsNewest
  <2> QED
    BY <2>1, <2>2 DEF PacketsAccountedFor, OutstandingIsNewest
<1>12. /\ c'.ss = TRUE /\ c'.nack <= MaxAcks /\ c'.cwnd <= (Nprobe + 2 * c'.nack) * Scale
       /\ c'.nsent <= n + 1 /\ c'.unacked \subseteq 0..((n + 1) - 1)
       /\ c'.lr.last_win_ts <= now'
  BY <1>1, <1>2, <1>6, <1>7
<1>10. \A i \in 1..(n + 1) : sent'[i] <= now'
  BY <1>1, <1>2, <1>3
<1>11. Len(sent') <= MaxSeq /\ newest' \in -1..(Len(sent') - 1)
  BY <1>1, <1>2, <1>3, EyenetSpecConstants
<1> QED
  BY <1>1, <1>2, <1>3, <1>8, <1>9, <1>10, <1>11, <1>12 DEF IInv

\* The acknowledged packet and the older ones leave together.
LEMMA GoneFact ==
    ASSUME NEW s \in Nat, CtlInv(c)
    PROVE  /\ s \in c.unacked =>
                Cardinality(c.unacked) = Cardinality(Left(c, s)) + GivenUp(c, s) + 1
           /\ s \notin c.unacked => Left(c, s) = c.unacked /\ GivenUp(c, s) = 0
           /\ Cardinality(c.unacked) \in Nat /\ Cardinality(Left(c, s)) \in Nat
           /\ GivenUp(c, s) \in Nat
<1> DEFINE gone == Settled(c, s)
           rest == c.unacked \ gone
<1>1. /\ gone \subseteq c.unacked /\ IsFiniteSet(gone) /\ IsFiniteSet(rest)
      /\ Cardinality(gone \ {s}) \in Nat /\ IsFiniteSet(c.unacked)
  BY SettledFact DEF CtlInv
<1>2. Cardinality(c.unacked) \in Nat /\ Cardinality(rest) \in Nat /\ Cardinality(gone) \in Nat
  BY <1>1, FS_CardinalityType
<1>3. ASSUME s \in c.unacked
      PROVE  Cardinality(c.unacked) = Cardinality(rest) + Cardinality(gone \ {s}) + 1
  <2>1. s \in gone
    BY <1>3 DEF Settled
  <2>2. Cardinality(gone \ {s}) = Cardinality(gone) - 1
    BY <1>1, <2>1, FS_RemoveElement
  <2>3. rest \cup gone = c.unacked /\ rest \cap gone = {}
    BY <1>1
  <2> DEFINE both == rest \cap gone
             all  == rest \cup gone
  <2>4. both = {} /\ all = c.unacked
    BY <2>3
  <2>5. Cardinality(all) = Cardinality(rest) + Cardinality(gone) - Cardinality(both)
    BY <1>1, FS_Union
  <2> HIDE DEF gone, rest, both, all
  <2>6. Cardinality(both) = 0
    BY <2>4, FS_EmptySet
  <2> QED
    BY <1>2, <2>2, <2>4, <2>5, <2>6
<1>4. ASSUME s \notin c.unacked PROVE rest = c.unacked /\ Cardinality(gone \ {s}) = 0
  <2>1. rest = c.unacked /\ gone \ {s} = {}
    BY <1>4 DEF Settled
  <2> QED
    BY <2>1, FS_EmptySet
<1>5. Left(c, s) = rest /\ GivenUp(c, s) = Cardinality(gone \ {s})
  BY DEF Left, GivenUp
<1> HIDE DEF gone, rest
<1> QED
  BY <1>1, <1>2, <1>3, <1>4, <1>5

LEMMA SentAtFact ==
    ASSUME IInv, NEW s \in Nat, s + 1 \in 1..Len(sent)
    PROVE  SentAt(s) \in Nat /\ SentAt(s) <= now /\ now \in Nat /\ now < DoubleMax
<1>1. SentAt(s) \in 0..MaxTime /\ SentAt(s) <= now /\ now \in 0..MaxTime
  BY ElementOfSeq DEF IInv, SentAt
<1> QED
  BY <1>1, WinConstants, EyenetSpecConstants

\* What the whole of on_ack does to the controller, in a reachable state.
LEMMA AckFact ==
    ASSUME IInv, NEW s \in 1..(MaxSeq - 1), NEW srtt \in 0..MaxTime, Ack(s, srtt)
    PROVE  c.ss = TRUE /\ Acked(c', c, s, now)
<1>1. s + 1 \in DOMAIN sent /\ c' = OnAck(c, s + 1, now, SentAt(s), srtt)
  BY DEF Ack
<1>2. s \in Nat /\ srtt \in Nat /\ DOMAIN sent = 1..Len(sent) /\ CtlInv(c) /\ c.ss = TRUE
  BY LenProperties, EyenetSpecConstants DEF IInv
<1>3. SentAt(s) \in Nat /\ SentAt(s) <= now /\ now \in Nat /\ now < DoubleMax
  BY <1>1, <1>2, SentAtFact
<1> DEFINE t == SentAt(s)
<1> HIDE DEF t
<1>4. t \in Nat /\ t <= now /\ c' = OnAck(c, s + 1, now, t, srtt)
  BY <1>1, <1>3 DEF t
<1> QED
  BY <1>2, <1>3, <1>4, OnAckFact

\* Two packets more fit into the bound on the window one acknowledgement later.
LEMMA WindowGrowth ==
    ASSUME NEW n \in Nat, NEW k \in Nat, NEW S \in Nat, NEW x \in Nat, NEW y \in Nat,
           x <= (n + 2 * k) * S
    PROVE  /\ y <= x + 2 * S => y <= (n + 2 * (k + 1)) * S
           /\ x + S <= (n + 2 * k + 1) * S
  OBVIOUS

LEMMA AckIInv ==
    ASSUME IInv, NEW s \in 1..(MaxSeq - 1), NEW srtt \in 0..MaxTime, Ack(s, srtt)
    PROVE  IInv'
<1> DEFINE n    == GivenUp(c, s)
           rest == Left(c, s)
<1>1. /\ CtlInv(c') /\ c'.nack = c.nack + 1 /\ c'.nsent = c.nsent
      /\ c'.unacked = rest /\ c'.nlost = c.nlost + n
      /\ c'.lr.last_win_ts \in {c.lr.last_win_ts, now}
      /\ c'.cwnd <= c.cwnd + 2 * Scale
      /\ c.cwnd + Scale < DoubleMax * Scale => c'.ss = TRUE
  BY AckFact DEF Acked
<1>2. /\ now' = now /\ sent' = sent /\ c.nack < MaxAcks /\ s + 1 \in DOMAIN sent
      /\ s \in c.unacked => newest' = s /\ nfresh' = nfresh + 1
      /\ s \notin c.unacked => newest' = newest /\ nfresh' = nfresh
  BY DEF Ack
<1>3. /\ now \in 0..MaxTime /\ sent \in Seq(0..MaxTime) /\ Len(sent) \in Nat
      /\ Len(sent) <= MaxSeq /\ \A i \in 1..Len(sent) : sent[i] <= now
      /\ CtlInv(c) /\ c.cwnd <= (Nprobe + 2 * c.nack) * Scale
      /\ c.nsent <= Len(sent) /\ c.unacked \subseteq 0..(Len(sent) - 1)
      /\ c.lr.last_win_ts <= now
      /\ newest \in -1..(Len(sent) - 1) /\ nfresh \in Nat
      /\ PacketsAccountedFor /\ OutstandingIsNewest /\ DOMAIN sent = 1..Len(sent)
  BY LenProperties DEF IInv
<1>4. /\ c.nack \in Nat /\ c.nlost \in Nat /\ c.nsent \in Nat /\ c.cwnd \in Nat
      /\ c'.cwnd \in Nat /\ s \in Nat
  BY <1>1, <1>3, CtlFields, EyenetSpecConstants
<1>5. /\ s \in c.unacked => Cardinality(c.unacked) = Cardinality(rest) + n + 1
      /\ s \notin c.unacked => rest = c.unacked /\ n = 0
      /\ Cardinality(c.unacked) \in Nat /\ Cardinality(rest) \in Nat /\ n \in Nat
  BY <1>3, <1>4, GoneFact
<1>6. OutstandingIsNewest'
  <2>1. CASE s \in c.unacked
    <3>1. \A p \in rest : p \in c.unacked /\ ~(p <= s)
      BY <2>1 DEF Settled, Left
    <3>2. c.unacked \subseteq Nat /\ s \in Nat
      BY <1>3, <1>4, CtlFields
    <3> HIDE DEF rest
    <3>3. \A p \in rest : p > s
      BY <3>1, <3>2
    <3> QED
      BY <1>1, <1>2, <2>1, <3>3 DEF OutstandingIsNewest
  <2>2. CASE s \notin c.unacked
    <3>1. c'.unacked = c.unacked /\ newest' = newest
      BY <1>1, <1>2, <1>5, <2>2
    <3> QED
      BY <1>3, <3>1 DEF OutstandingIsNewest
  <2> QED
    BY <2>1, <2>2
<1>7. c'.unacked \subseteq 0..(Len(sent) - 1)
  BY <1>1, <1>3 DEF Left
<1>8. newest' \in -1..(Len(sent) - 1) /\ nfresh' \in Nat
  BY <1>2, <1>3
<1>9. PacketsAccountedFor'
  <2>1. c.nsent = Cardinality(c.unacked) + c.nlost + nfresh
    BY <1>3 DEF PacketsAccountedFor
  <2>2. Cardinality(c'.unacked) = Cardinality(rest)
    BY <1>1
  <2>3. CASE s \in c.unacked
    <3>1. /\ c'.nsent = c.nsent /\ c'.nlost = c.nlost + n /\ nfresh' = nfresh + 1
          /\ Cardinality(c.unacked) = Cardinality(rest) + n + 1
          /\ Cardinality(rest) \in Nat /\ n \in Nat /\ nfresh \in Nat
      BY <1>1, <1>2, <1>3, <1>5, <2>3
    <3>2. c.nlost \in Nat
      BY <1>4
    <3> HIDE DEF rest, n
    <3>3. c'.nsent = Cardinality(c'.unacked) + c'.nlost + nfresh'
      BY <2>1, <2>2, <3>1, <3>2
    <3> QED
      BY <3>3 DEF PacketsAccountedFor
  <2>4. CASE s \notin c.unacked
    <3>1. rest = c.unacked
      BY <1>5, <2>4
    <3>2. Cardinality(rest) = Cardinality(c.unacked)
      BY <3>1
    <3>3. /\ c'.nsent = c.nsent /\ c'.nlost = c.nlost + n /\ nfresh' = nfresh /\ n = 0
          /\ nfresh \in Nat
      BY <1>1, <1>2, <1>3, <1>5, <2>4
    <3> HIDE DEF rest, n
    <3> QED
      BY <1>4, <2>1, <2>2, <3>2, <3>3 DEF PacketsAccountedFor
  <2> QED
    BY <2>3, <2>4
<1> HIDE DEF rest, n
<1>10. c'.cwnd <= (Nprobe + 2 * c'.nack) * Scale /\ c'.nack <= MaxAcks
  <2>1. c'.cwnd <= (Nprobe + 2 * (c.nack + 1)) * Scale
    BY <1>1, <1>3, <1>4, WindowGrowth, EyenetConstants
  <2> QED
    BY <1>1, <1>2, <1>4, <2>1, EyenetSpecConstants
<1>11. c'.ss = TRUE
  <2>1. c.cwnd + Scale <= (Nprobe + 2 * c.nack + 1) * Scale
    BY <1>3, <1>4, WindowGrowth, EyenetConstants
  <2>2. Nprobe + 2 * c.nack + 1 < DoubleMax
    BY <1>2, <1>4, EyenetConstants, EyenetSpecConstants, WinConstants
  <2>3. (Nprobe + 2 * c.nack + 1) * Scale < DoubleMax * Scale
    <3> DEFINE x == Nprobe + 2 * c.nack + 1
    <3>1. x \in Nat
      BY <1>4, EyenetConstants
    <3>2. x < DoubleMax
      BY <2>2
    <3> HIDE DEF x
    <3>3. x * Scale < DoubleMax * Scale
      BY <3>1, <3>2, EyenetConstants, WinConstants
    <3> QED
      BY <3>3 DEF x
  <2>4. /\ (Nprobe + 2 * c.nack + 1) * Scale \in Nat /\ DoubleMax * Scale \in Nat
        /\ c.cwnd + Scale \in Nat
    BY <1>4, EyenetConstants, WinConstants
  <2> QED
    BY <1>1, <2>1, <2>3, <2>4
<1>12. c'.lr.last_win_ts <= now
  BY <1>1, <1>3
<1>13. c'.nsent <= Len(sent)
  BY <1>1, <1>3
<1> QED
  BY <1>1, <1>2, <1>3, <1>6, <1>7, <1>8, <1>9, <1>10, <1>11, <1>12, <1>13 DEF IInv

LEMMA TimeoutIInv == IInv /\ AckTimeout => IInv'
<1> SUFFICES ASSUME IInv, AckTimeout PROVE IInv'
  OBVIOUS
<1>1. /\ c' = Initialize(c) /\ newest' = -1 /\ nfresh' = 0 /\ now' = now /\ sent' = sent
  BY DEF AckTimeout
<1>2. RttInv(c.rtt) /\ Len(sent) \in Nat /\ now \in 0..MaxTime
  BY LenProperties DEF IInv, CtlInv
<1>3. /\ CtlInv(c') /\ c'.cwnd = Nprobe * Scale /\ c'.ss = TRUE /\ c'.nack = 0
      /\ c'.nlost = 0 /\ c'.nsent = 0 /\ c'.unacked = {} /\ c'.lr = LossReduceNew
  BY <1>1, <1>2, FreshFact
<1>4. c'.lr.last_win_ts = 0
  BY <1>3 DEF LossReduceNew
<1>5. PacketsAccountedFor' /\ OutstandingIsNewest'
  BY <1>1, <1>3, FS_EmptySet DEF PacketsAccountedFor, OutstandingIsNewest
<1>6. c'.cwnd <= (Nprobe + 2 * c'.nack) * Scale
  BY <1>3, EyenetConstants
<1> QED
  BY <1>1, <1>2, <1>3, <1>4, <1>5, <1>6, EyenetSpecConstants DEF IInv

LEMMA FirstIInv == IInv /\ AckFirst => IInv'
  BY DEF IInv, AckFirst, PacketsAccountedFor, OutstandingIsNewest

LEMMA TickIInv == IInv /\ Tick => IInv'
<1> SUFFICES ASSUME IInv, Tick PROVE IInv'
  OBVIOUS
<1>1. /\ now' = now + 1 /\ now < MaxTime /\ c' = c /\ sent' = sent
      /\ newest' = newest /\ nfresh' = nfresh
  BY DEF Tick
<1>2. now \in 0..MaxTime /\ c.lr.last_win_ts \in Nat
  BY CtlFields DEF IInv, LrType
<1>3. now' \in 0..MaxTime /\ c.lr.last_win_ts <= now'
  BY <1>1, <1>2, EyenetSpecConstants DEF IInv
<1>4. \A i \in 1..Len(sent) : sent[i] <= now'
  <2> SUFFICES ASSUME NEW i \in 1..Len(sent) PROVE sent[i] <= now'
    OBVIOUS
  <2>1. sent[i] \in 0..MaxTime /\ sent[i] <= now
    BY ElementOfSeq DEF IInv
  <2> QED
    BY <1>1, <1>2, <2>1
<1>5. PacketsAccountedFor' /\ OutstandingIsNewest'
  BY <1>1 DEF IInv, PacketsAccountedFor, OutstandingIsNewest
<1> QED
  BY <1>1, <1>3, <1>4, <1>5 DEF IInv

\* class eyenet: the controller's counters, windows and loss window keep the
\* inductive invariant through every sequence of on_pkt_sent and on_ack.
THEOREM IInvHolds == Spec => []IInv
<1>1. IInv /\ UNCHANGED vars => IInv'
  BY DEF IInv, vars, PacketsAccountedFor, OutstandingIsNewest
<1>2. IInv /\ [Next]_vars => IInv'
  BY <1>1, SendIInv, FirstIInv, AckIInv, TimeoutIInv, TickIInv DEF Next
<1> QED
  BY <1>2, InitIInv, PTL DEF Spec

\* The caller's window base stays within what it has sent.
BaseInv == largest_ack \in -1..Len(sent)

LEMMA BaseHolds == Spec => []BaseInv
<1>1. Init => BaseInv
  BY EmptySeq DEF Init, BaseInv
<1>2. IInv /\ BaseInv /\ [Next]_vars => BaseInv'
  <2> SUFFICES ASSUME IInv, BaseInv, [Next]_vars PROVE BaseInv'
    OBVIOUS
  <2>1. /\ sent \in Seq(0..MaxTime) /\ Len(sent) \in Nat /\ DOMAIN sent = 1..Len(sent)
        /\ largest_ack \in -1..Len(sent) /\ now \in 0..MaxTime
    BY LenProperties DEF IInv, BaseInv
  <2>2. CASE Send
    <3>1. Len(sent') = Len(sent) + 1 /\ largest_ack' = largest_ack
      BY <2>1, <2>2, AppendProperties DEF Send
    <3> QED
      BY <2>1, <3>1 DEF BaseInv
  <2>3. CASE AckFirst
    <3>1. Len(sent) # 0
      BY <2>1, <2>3, EmptySeq DEF AckFirst
    <3> QED
      BY <2>1, <2>3, <3>1 DEF AckFirst, BaseAfter, LargerOf, BaseInv
  <2>4. ASSUME NEW s \in 1..(MaxSeq - 1), NEW srtt \in 0..MaxTime, Ack(s, srtt)
        PROVE  BaseInv'
    <3>1. s + 1 \in 1..Len(sent) /\ largest_ack' = BaseAfter(s) /\ sent' = sent
      BY <2>1, <2>4 DEF Ack
    <3>2. s \in Nat
      BY EyenetSpecConstants
    <3> QED
      BY <2>1, <3>1, <3>2 DEF BaseAfter, LargerOf, BaseInv
  <2>5. CASE AckTimeout
    BY <2>1, <2>5 DEF AckTimeout, BaseInv
  <2>6. CASE Tick \/ UNCHANGED vars
    BY <2>1, <2>6 DEF Tick, vars, BaseInv
  <2> QED
    BY <2>2, <2>3, <2>4, <2>5, <2>6 DEF Next
<1> QED
  BY <1>1, <1>2, IInvHolds, PTL DEF Spec

-----------------------------------------------------------------------------
(* What follows from it *)

LEMMA InvTypeOK == IInv /\ BaseInv => TypeOK
<1> SUFFICES ASSUME IInv, BaseInv PROVE TypeOK
  OBVIOUS
<1>1. /\ c.cwnd \in Nat /\ c.cwnd >= 2 * Scale /\ c.intersend \in Nat
      /\ c.delta \in {1, 2} /\ c.ss = TRUE /\ c.nack \in Nat /\ c.nlost \in Nat
      /\ c.nsent \in Nat /\ c.lr \in LrType /\ IsFiniteSet(c.unacked)
  BY CtlFields DEF IInv
<1>2. /\ now \in 0..MaxTime /\ sent \in Seq(0..MaxTime) /\ Len(sent) <= MaxSeq
      /\ Len(sent) \in Nat /\ c.nack <= MaxAcks /\ c.nsent <= Len(sent)
      /\ c.unacked \subseteq 0..(Len(sent) - 1) /\ c.lr.last_win_ts <= now
      /\ newest \in -1..(Len(sent) - 1) /\ nfresh \in Nat
      /\ c.nsent = Cardinality(c.unacked) + c.nlost + nfresh
  BY LenProperties DEF IInv, PacketsAccountedFor
<1>3. Cardinality(c.unacked) \in Nat
  BY <1>1, FS_CardinalityType
<1>4. nfresh \in 0..MaxSeq /\ c.nsent \in 0..MaxSeq /\ c.nack \in 0..MaxAcks
  <2>1. nfresh <= c.nsent /\ c.nsent <= MaxSeq
    BY <1>1, <1>2, <1>3, EyenetSpecConstants, SMTT(30)
  <2> QED
    BY <1>1, <1>2, <2>1, EyenetSpecConstants
<1>5. c.unacked \subseteq 0..(MaxSeq - 1) /\ newest \in -1..(MaxSeq - 1)
  BY <1>2, EyenetSpecConstants
<1>6. c.lr \in [nloss : Nat, npkts : Nat, last_win_ts : 0..MaxTime]
  BY <1>1, <1>2, EyenetSpecConstants DEF LrType
<1>7. largest_ack \in -1..MaxSeq
  BY <1>2, EyenetSpecConstants DEF BaseInv
<1> QED
  BY <1>1, <1>2, <1>4, <1>5, <1>6, <1>7 DEF TypeOK

LEMMA InvNeverExits == IInv => NeverExits
<1> SUFFICES ASSUME IInv, NEW s \in 1..(Len(sent) - 1), NEW srtt \in 0..MaxTime
             PROVE  ~OnAckExits(c, now, SentAt(s), srtt)
  BY DEF NeverExits
<1>1. s \in Nat /\ s + 1 \in 1..Len(sent) /\ srtt \in Nat
  BY LenProperties, EyenetSpecConstants DEF IInv
<1> DEFINE t == SentAt(s)
           r == Sampled(c, now, t, srtt).rtt
<1>2. t \in Nat /\ t <= now /\ now \in Nat /\ now < DoubleMax
  BY <1>1, SentAtFact
<1> HIDE DEF t
<1>3. CtlInv(Sampled(c, now, t, srtt))
  BY <1>1, <1>2, SampledFact DEF IInv
<1>4. RttInv(r)
  BY <1>3 DEF CtlInv
<1> HIDE DEF r
<1>5. r.min_rtt.tail \in Nat /\ r.virgin_rtt.tail \in Nat /\ r.min_rtt.tail <= r.virgin_rtt.tail
  BY <1>4, RttOrder
<1> QED
  BY <1>2, <1>5 DEF OnAckExits, r, t

\* The controller is always well formed, and slow start never ends: the
\* velocity branch of update_intersend is dead code.
THEOREM TypeCorrect == Spec => []TypeOK
  BY IInvHolds, BaseHolds, InvTypeOK, PTL

\* Neither exit(EXIT_FAILURE) of eyenet::on_ack is ever reached.
THEOREM OnAckNeverExits == Spec => []NeverExits
  BY IInvHolds, InvNeverExits, PTL

\* Every packet sent since initialize is outstanding, lost or acknowledged, and
\* only one of the three.
THEOREM PacketsConserved == Spec => []PacketsAccountedFor
<1>1. IInv => PacketsAccountedFor
  BY DEF IInv
<1> QED
  BY <1>1, IInvHolds, PTL

\* No outstanding packet is older than an acknowledged one.
THEOREM SettlementIsCumulative == Spec => []OutstandingIsNewest
<1>1. IInv => OutstandingIsNewest
  BY DEF IInv
<1> QED
  BY <1>1, IInvHolds, PTL

\* Before the window adapts to the delay, only one acknowledgement that gives up
\* more than LossWindow packets makes it smaller: loss_reduce divides integers.
THEOREM OnlyBurstsShrink == Spec => ShrinksOnlyOnBurstLoss
<1> DEFINE A == (c.nack < 2 * Nprobe - 1 /\ c'.cwnd < c.cwnd /\ c'.nack = c.nack + 1)
                   => c'.nlost - c.nlost > LossWindow
<1>1. IInv /\ [Next]_vars => [A]_vars
  <2> SUFFICES ASSUME IInv, Next, c.nack < 2 * Nprobe - 1, c'.cwnd < c.cwnd,
                      c'.nack = c.nack + 1
               PROVE  c'.nlost - c.nlost > LossWindow
    BY DEF A
  <2>1. CtlInv(c) /\ c.cwnd \in Nat /\ c.nack \in Nat /\ c.nlost \in Nat
    BY CtlFields DEF IInv
  <2>2. CASE Send
    <3>1. c'.nack = c.nack
      BY <2>1, <2>2 DEF Send, OnPktSent, CtlInv, CtlType
    <3> QED
      BY <2>1, <3>1
  <2>3. ASSUME NEW s \in 1..(MaxSeq - 1), NEW srtt \in 0..MaxTime, Ack(s, srtt)
        PROVE  c'.nlost - c.nlost > LossWindow
    <3> DEFINE n == GivenUp(c, s)
    <3>1. c'.nlost = c.nlost + n /\ n > LossWindow
      BY <2>3, AckFact DEF Acked
    <3>2. n \in Nat
      <4>1. s \in Nat
        BY EyenetSpecConstants
      <4> QED
        BY <2>1, <4>1, SettledFact DEF GivenUp
    <3> HIDE DEF n
    <3> QED
      BY <2>1, <3>1, <3>2
  <2>4. CASE AckTimeout
    <3>1. c'.nack = 0
      BY <2>4, FreshFact DEF AckTimeout, IInv, CtlInv
    <3> QED
      BY <2>1, <3>1
  <2>5. CASE AckFirst \/ Tick
    <3>1. c'.nack = c.nack
      BY <2>5 DEF AckFirst, Tick
    <3> QED
      BY <2>1, <3>1
  <2> QED
    BY <2>2, <2>3, <2>4, <2>5 DEF Next
<1>2. [][A]_vars <=> ShrinksOnlyOnBurstLoss
  BY PTL DEF ShrinksOnlyOnBurstLoss
<1> QED
  BY <1>1, <1>2, IInvHolds, PTL DEF Spec
=============================================================================
