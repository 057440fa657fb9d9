---------------------------- MODULE RttWinProofs ----------------------------
(***************************************************************************)
(* The windows of rtt_win report exactly what they are meant to, for any   *)
(* round-trip times, any window lengths and any number of samples.         *)
(***************************************************************************)
EXTENDS RttWin, WinProofs

\* The deque of a window supports the samples h that are not older than z: it
\* holds some of them, oldest first, and whatever it has dropped is no better
\* than a sample it still has and that will not expire earlier.
Supports(w, h, z) ==
    /\ \A k \in 1..Len(w.val) : /\ \E i \in 1..Len(h) : h[i] = w.val[k]
                                /\ w.val[k].ts >= z
    /\ \A j, k \in 1..Len(w.val) : j < k => w.val[j].ts <= w.val[k].ts
    /\ \A i \in 1..Len(h) : h[i].ts >= z =>
          \E k \in 1..Len(w.val) : /\ w.val[k].ts >= h[i].ts
                                   /\ ~Beats(w.is_min, h[i].v, w.val[k].v)
    /\ Len(h) > 0 <=> Len(w.val) > 0

IInv ==
    /\ now \in 0..MaxTime
    /\ hist \in Seq(SampleType)
    /\ \A i \in 1..Len(hist) : hist[i].ts <= now
    /\ horizon \in [Windows -> 0..MaxTime]
    /\ RttInv(rtt)
    /\ \A w \in Windows : horizon[w] <= now /\ Supports(rtt[w], hist, horizon[w])

-----------------------------------------------------------------------------
(* One window *)

LEMMA SupportsStep ==
    ASSUME NEW w, WinInv(w), NEW h \in Seq(Sample), NEW z \in Nat,
           NEW v \in 0..(DoubleMax - 1), NEW ts \in Nat, Supports(w, h, z),
           z <= ts, \A i \in 1..Len(h) : h[i].ts <= ts
    PROVE  Supports(WinAdd(w, v, ts), Append(h, [ts |-> ts, v |-> v]),
                    LargerOf(z, ts - w.sz))
<1> DEFINE new == [ts |-> ts, v |-> v]
           r   == WinAdd(w, v, ts)
           g   == Append(h, new)
           y   == LargerOf(z, ts - w.sz)
           n   == Len(h)
           W   == Len(w.val)
<1>1. PICK m, f \in Nat : PushedAndExpired(r, w, v, ts, m, f)
  BY WinAddFact
<1>2. r.is_min = w.is_min
  BY WinAddFact
<1> HIDE DEF r
<1>3. /\ w.val \in Seq(Sample) /\ w.sz \in Nat /\ W \in Nat /\ n \in Nat
      /\ \A k \in 1..W : w.val[k].ts \in Nat /\ w.val[k].v \in Nat
      /\ \A i \in 1..n : h[i].ts \in Nat /\ h[i].v \in Nat
  BY SampleFact DEF WinInv, WinType
<1>4. new \in Sample /\ new.ts = ts /\ new.v = v /\ v \in Nat
  BY WinConstants DEF Sample
<1> HIDE DEF new
<1>5. Len(g) = n + 1 /\ g[n + 1] = new /\ \A i \in 1..n : g[i] = h[i]
  BY <1>3, <1>4, AppendProperties
<1>6. /\ y \in Nat /\ y >= z /\ y >= ts - w.sz /\ y <= ts
      /\ y = z \/ y = ts - w.sz
  BY <1>3 DEF LargerOf
<1> HIDE DEF g, y
<1>7. /\ m \in 0..W /\ f \in 1..(m + 1) /\ Len(r.val) = m + 2 - f
      /\ \A k \in (m + 1)..W : Beats(w.is_min, v, w.val[k].v)
      /\ \A k \in 1..(f - 1) : w.val[k].ts < ts - w.sz
      /\ f <= m => w.val[f].ts >= ts - w.sz
      /\ \A k \in 1..(m + 1 - f) : r.val[k] = w.val[f + k - 1]
      /\ r.val[m + 2 - f] = new
  BY <1>1 DEF PushedAndExpired, new
<1>8. /\ \A k \in 1..W : /\ \E i \in 1..n : h[i] = w.val[k]
                         /\ w.val[k].ts >= z /\ w.val[k].ts <= ts
      /\ \A j, k \in 1..W : j < k => w.val[j].ts <= w.val[k].ts
  BY DEF Supports
<1> HIDE DEF n, W
<1>9. ASSUME NEW k \in 1..Len(r.val)
      PROVE  \/ k = m + 2 - f
             \/ /\ k \in 1..(m + 1 - f) /\ f + k - 1 \in 1..W /\ f + k - 1 >= f
                /\ f + k - 1 <= m /\ f \in 1..W
  BY <1>3, <1>7
<1>10. ASSUME NEW k \in 1..Len(r.val)
       PROVE  (\E i \in 1..Len(g) : g[i] = r.val[k]) /\ r.val[k].ts >= y
  <2>1. CASE k = m + 2 - f
    <3>1. n + 1 \in 1..Len(g)
      BY <1>3, <1>5
    <3> QED
      BY <1>4, <1>5, <1>6, <1>7, <2>1, <3>1
  <2>2. CASE /\ k \in 1..(m + 1 - f) /\ f + k - 1 \in 1..W /\ f + k - 1 >= f
             /\ f + k - 1 <= m /\ f \in 1..W
    <3> DEFINE e == f + k - 1
    <3>1. r.val[k] = w.val[e] /\ e \in 1..W /\ f \in 1..W /\ f <= m
      BY <1>7, <2>2
    <3>2. f = e \/ f < e
      BY <1>7, <2>2
    <3> HIDE DEF e
    <3>3. PICK i \in 1..n : h[i] = w.val[e]
      BY <1>8, <3>1
    <3>4. i \in 1..Len(g)
      BY <1>3, <1>5, <3>3
    <3>5. g[i] = r.val[k]
      BY <1>5, <3>1, <3>3
    <3>6. w.val[e].ts >= w.val[f].ts /\ w.val[f].ts >= ts - w.sz /\ w.val[e].ts >= z
      <4>1. w.val[e].ts \in Nat /\ w.val[f].ts \in Nat
        BY <1>3, <3>1
      <4>2. w.val[e].ts >= w.val[f].ts
        BY <1>8, <3>1, <3>2, <4>1, SMTT(30)
      <4>3. w.val[f].ts >= ts - w.sz
        BY <1>7, <3>1
      <4>4. w.val[e].ts >= z
        BY <1>8, <3>1
      <4> QED
        BY <4>2, <4>3, <4>4
    <3>7. w.val[e].ts >= ts - w.sz
      <4>1. w.val[e].ts \in Nat /\ w.val[f].ts \in Nat /\ ts - w.sz \in Int
        BY <1>3, <3>1, SMTT(30)
      <4> DEFINE x1 == w.val[e].ts
                 x2 == w.val[f].ts
                 x3 == ts - w.sz
      <4>2. x1 >= x2 /\ x2 >= x3
        BY <3>6
      <4> HIDE DEF x3
      <4> QED
        BY <4>1, <4>2, SMTT(30) DEF x3
    <3>8. r.val[k].ts >= y
      BY <1>6, <3>1, <3>6, <3>7
    <3> QED
      BY <3>4, <3>5, <3>8
  <2> QED
    BY <1>9, <2>1, <2>2
<1>11. ASSUME NEW j \in 1..Len(r.val), NEW k \in 1..Len(r.val), j < k
       PROVE  r.val[j].ts <= r.val[k].ts
  <2>1. j # m + 2 - f
    BY <1>7, <1>11
  <2>2. /\ j \in 1..(m + 1 - f) /\ f + j - 1 \in 1..W
        /\ r.val[j] = w.val[f + j - 1]
    BY <1>7, <1>9, <2>1
  <2>3. CASE k = m + 2 - f
    BY <1>4, <1>7, <1>8, <2>2, <2>3
  <2>4. CASE k \in 1..(m + 1 - f) /\ f + k - 1 \in 1..W
    <3>1. f + j - 1 < f + k - 1
      BY <1>11, <2>2, <2>4, SMTT(30)
    <3> QED
      BY <1>7, <1>8, <2>2, <2>4, <3>1
  <2> QED
    BY <1>9, <2>3, <2>4
<1>12. ASSUME NEW i \in 1..Len(g), g[i].ts >= y
       PROVE  \E k \in 1..Len(r.val) : /\ r.val[k].ts >= g[i].ts
                                       /\ ~Beats(w.is_min, g[i].v, r.val[k].v)
  <2> DEFINE last == m + 2 - f
  <2>1. last \in 1..Len(r.val) /\ r.val[last].ts = ts /\ r.val[last].v = v
    BY <1>4, <1>7
  <2>2. CASE i = n + 1
    BY <1>4, <1>5, <2>1, <2>2, SMTT(30) DEF Beats
  <2>3. CASE i \in 1..n
    <3>1. g[i] = h[i] /\ h[i].ts >= z /\ h[i].ts <= ts
      BY <1>3, <1>5, <1>6, <1>12, <2>3 DEF n
    <3>2. PICK k \in 1..W : w.val[k].ts >= h[i].ts /\ ~Beats(w.is_min, h[i].v, w.val[k].v)
      BY <2>3, <3>1 DEF Supports, n, W
    <3>3. CASE k > m
      <4>1. Beats(w.is_min, v, w.val[k].v)
        BY <1>3, <1>7, <3>3
      <4>2. ~Beats(w.is_min, h[i].v, v)
        BY <1>3, <1>4, <2>3, <3>2, <4>1, SMTT(30) DEF Beats
      <4> QED
        BY <2>1, <3>1, <4>2
    <3>4. CASE k < f
      <4>1. w.val[k].ts < ts - w.sz
        BY <1>7, <3>4
      <4>2. w.val[k].ts \in Nat /\ h[i].ts \in Nat
        BY <1>3, <2>3, <3>2
      <4>3. h[i].ts >= ts - w.sz
        BY <1>3, <1>6, <1>12, <3>1, <4>2, SMTT(30)
      <4>4. w.val[k].ts >= h[i].ts
        BY <3>2
      <4> QED
        BY <1>3, <4>1, <4>2, <4>3, <4>4, SMTT(30)
    <3>5. CASE k <= m /\ k >= f
      <4>1. k - f + 1 \in 1..(m + 1 - f) /\ f + (k - f + 1) - 1 = k
            /\ k - f + 1 \in 1..Len(r.val)
        <5>1. k \in Int /\ f \in Int /\ m \in Int
          BY <1>3, <1>7, <3>2
        <5> QED
          BY <1>7, <3>5, <5>1
      <4>2. r.val[k - f + 1] = w.val[k]
        BY <1>7, <4>1
      <4> QED
        BY <3>1, <3>2, <4>1, <4>2
    <3> QED
      BY <1>7, <3>3, <3>4, <3>5
  <2> QED
    BY <1>3, <1>5, <2>2, <2>3
<1>13. Len(g) > 0 /\ Len(r.val) > 0
  BY <1>3, <1>5, <1>7
<1>14. Supports(r, g, y)
  BY <1>2, <1>10, <1>11, <1>12, <1>13 DEF Supports
<1> QED
  BY <1>14 DEF r, g, y, new

-----------------------------------------------------------------------------
(* Sequences and extrema *)

LEMMA SeqSubset ==
    ASSUME NEW S, NEW T, NEW s \in Seq(S), \A i \in 1..Len(s) : s[i] \in T
    PROVE  s \in Seq(T)
<1>1. Len(s) \in Nat /\ DOMAIN s = 1..Len(s) /\ s = [i \in 1..Len(s) |-> s[i]]
  BY LenProperties
<1> QED
  BY <1>1, SeqDef

LEMMA SampleTypeFact ==
    /\ SampleType \subseteq Sample
    /\ \A s \in SampleType : s.ts \in 0..MaxTime /\ s.v \in Rtts
    /\ \A v \in Rtts, ts \in 0..MaxTime : [ts |-> ts, v |-> v] \in SampleType
    /\ Rtts \subseteq 0..(DoubleMax - 1)
<1>1. Rtts \subseteq 0..(DoubleMax - 1) /\ Rtts \subseteq Nat /\ 0..MaxTime \subseteq Nat
  BY WinConstants, RttWinConstants
<1>2. SampleType \subseteq Sample
  BY <1>1 DEF SampleType, Sample
<1>3. \A s \in SampleType : s.ts \in 0..MaxTime /\ s.v \in Rtts
  BY DEF SampleType
<1>4. \A v \in Rtts, ts \in 0..MaxTime : [ts |-> ts, v |-> v] \in SampleType
  BY DEF SampleType
<1> QED
  BY <1>1, <1>2, <1>3, <1>4

LEMMA MinIs ==
    ASSUME NEW S \in SUBSET Int, NEW x \in S, \A y \in S : x <= y
    PROVE  Min(S) = x
<1>1. \A z \in S : (\A y \in S : z <= y) => z = x
  BY Z3
<1> QED
  BY <1>1 DEF Min

LEMMA MaxIs ==
    ASSUME NEW S \in SUBSET Int, NEW x \in S, \A y \in S : x >= y
    PROVE  Max(S) = x
<1>1. \A z \in S : (\A y \in S : z >= y) => z = x
  BY Z3
<1> QED
  BY <1>1 DEF Max

\* Whatever mean of its samples the window lengths are computed from, it is a
\* natural number.
LEMMA MeanIsNat ==
    ASSUME NEW x \in Rtts, NEW m \in Min(Rtts)..Max(Rtts)
    PROVE  m \in Nat
<1>1. Rtts \in SUBSET Nat /\ Rtts \in SUBSET (0..(DoubleMax - 1)) /\ DoubleMax - 1 \in Nat
  BY WinConstants, RttWinConstants
<1>2. PICK a \in Rtts : \A y \in Rtts : a <= y
  BY <1>1, LeastNat
<1>3. PICK b \in Rtts : \A y \in Rtts : y <= b
  BY <1>1, GreatestNat
<1>4. Min(Rtts) = a /\ a \in Nat
  BY <1>1, <1>2, MinIs
<1>5. Max(Rtts) = b /\ b \in Nat
  BY <1>1, <1>3, MaxIs
<1> QED
  BY <1>4, <1>5

-----------------------------------------------------------------------------
(* The inductive invariant *)

LEMMA InitIInv == Init => IInv
<1> SUFFICES ASSUME Init PROVE IInv
  OBVIOUS
<1>1. RttInv(rtt) /\ hist = <<>> /\ now = 0 /\ Len(hist) = 0
  BY RttNewFact, EmptySeq DEF Init
<1>2. \A w \in Windows : horizon[w] = 0 /\ Len(rtt[w].val) = 0
  <2>1. /\ rtt.min_rtt.val = <<>> /\ rtt.virgin_rtt.val = <<>>
        /\ rtt.eyenet_min.val = <<>> /\ rtt.eyenet_max.val = <<>>
    BY DEF Init, RttWinNew, WinNew
  <2>2. \A w \in Windows : rtt[w].val = <<>> /\ horizon[w] = 0
    BY <2>1 DEF Windows, Init
  <2> QED
    BY <2>2, EmptySeq
<1>3. \A w \in Windows : Supports(rtt[w], hist, horizon[w])
  BY <1>1, <1>2 DEF Supports
<1>4. hist \in Seq(SampleType) /\ horizon \in [Windows -> 0..MaxTime] /\ now \in 0..MaxTime
  BY <1>1, EmptySeq, RttWinConstants DEF Init
<1> QED
  BY <1>1, <1>2, <1>3, <1>4 DEF IInv

LEMMA AddIInv ==
    ASSUME IInv, NEW v \in Rtts, NEW ts \in now..MaxTime,
           NEW srtt \in Min(Rtts)..Max(Rtts), Add(v, ts, srtt)
    PROVE  IInv'
<1> DEFINE new == [ts |-> ts, v |-> v]
<1>1. /\ now \in 0..MaxTime /\ hist \in Seq(SampleType) /\ Len(hist) \in Nat
      /\ \A i \in 1..Len(hist) : hist[i].ts <= now
      /\ horizon \in [Windows -> 0..MaxTime] /\ RttInv(rtt)
      /\ \A w \in Windows : horizon[w] <= now /\ Supports(rtt[w], hist, horizon[w])
  BY LenProperties DEF IInv
<1>2. /\ srtt \in Nat /\ ts \in 0..MaxTime /\ ts \in Nat /\ v \in 0..(DoubleMax - 1)
      /\ now <= ts /\ MaxTime \in Nat /\ now \in Nat
  BY <1>1, MeanIsNat, SampleTypeFact, RttWinConstants
<1>3. /\ hist' = Append(hist, new) /\ now' = ts /\ rtt' = RttWinAdd(rtt, v, ts, srtt)
      /\ horizon' = [w \in Windows |-> LargerOf(horizon[w], ts - rtt'[w].sz)]
  BY DEF Add
<1>4. new \in SampleType /\ new.ts = ts
  BY <1>2, SampleTypeFact
<1>5. hist \in Seq(Sample)
  BY <1>1, SampleTypeFact, SeqSubset, ElementOfSeq
<1> HIDE DEF new
<1>6. /\ hist' \in Seq(SampleType) /\ Len(hist') = Len(hist) + 1
      /\ hist'[Len(hist) + 1] = new /\ \A i \in 1..Len(hist) : hist'[i] = hist[i]
  BY <1>1, <1>3, <1>4, AppendProperties
<1>7. \A i \in 1..Len(hist) : hist[i].ts <= ts
  <2>1. \A i \in 1..Len(hist) : hist[i].ts \in Nat
    BY <1>5, SampleFact
  <2> QED
    BY <1>1, <1>2, <2>1
<1>8. \A i \in 1..Len(hist') : hist'[i].ts <= now'
  BY <1>1, <1>2, <1>3, <1>4, <1>6, <1>7
<1>9. /\ RttInv(rtt')
      /\ \A w \in Windows : \E z \in Nat : rtt'[w] = WinAdd(UpdateSz(rtt[w], z), v, ts)
  BY <1>1, <1>2, <1>3, RttAddFact, SMTT(30) DEF Windows
<1>10. \A w \in Windows : WinInv(rtt[w])
  BY <1>1 DEF RttInv, Windows
<1>11. ASSUME NEW w \in Windows
       PROVE  /\ horizon'[w] \in 0..MaxTime /\ horizon'[w] <= now'
              /\ Supports(rtt'[w], hist', horizon'[w])
  <2>1. PICK z \in Nat : rtt'[w] = WinAdd(UpdateSz(rtt[w], z), v, ts)
    BY <1>9
  <2> DEFINE u == UpdateSz(rtt[w], z)
             y == horizon[w]
  <2>2. WinInv(u) /\ u.val = rtt[w].val /\ u.is_min = rtt[w].is_min /\ u.sz = z
    BY <1>10, UpdateSzFact
  <2>3. rtt'[w] = WinAdd(u, v, ts)
    BY <2>1
  <2> HIDE DEF u
  <2>4. y \in Nat /\ y <= ts /\ Supports(u, hist, y)
    <3>1. y \in Nat /\ y <= now /\ Supports(rtt[w], hist, y)
      BY <1>1, RttWinConstants
    <3> HIDE DEF y
    <3>2. Supports(u, hist, y)
      BY <2>2, <3>1, Zenon DEF Supports
    <3> QED
      BY <1>2, <3>1, <3>2
  <2>5. rtt'[w].sz = z
    <3>1. WinAdd(u, v, ts).sz = u.sz
      BY <1>2, <2>2, WinAddFact
    <3> QED
      BY <2>2, <2>3, <3>1
  <2>6. horizon'[w] = LargerOf(y, ts - z)
    BY <1>3, <2>5
  <2> HIDE DEF y
  <2>7. Supports(rtt'[w], hist', horizon'[w])
    BY <1>2, <1>3, <1>5, <1>7, <2>2, <2>3, <2>4, <2>6, SupportsStep DEF new
  <2> QED
    BY <1>2, <1>3, <2>4, <2>6, <2>7 DEF LargerOf
<1>12. horizon' \in [Windows -> 0..MaxTime]
  <2> DEFINE H(w) == LargerOf(horizon[w], ts - rtt'[w].sz)
  <2>1. horizon' = [w \in Windows |-> H(w)]
    BY <1>3
  <2> HIDE DEF H
  <2>2. \A w \in Windows : horizon'[w] = H(w)
    BY <2>1
  <2> QED
    BY <1>11, <2>1, <2>2
<1> QED
  BY <1>2, <1>3, <1>6, <1>8, <1>9, <1>11, <1>12 DEF IInv

LEMMA ClearIInv == IInv /\ Clear => IInv'
<1> SUFFICES ASSUME IInv, Clear PROVE IInv'
  OBVIOUS
<1>1. /\ rtt' = RttWinClear(rtt) /\ hist' = <<>> /\ now' = now /\ Len(hist') = 0
      /\ horizon' = [w \in Windows |-> 0]
  BY EmptySeq DEF Clear
<1>2. RttInv(rtt')
  BY <1>1, RttClearFact DEF IInv, RttInv
<1>3. \A w \in Windows : rtt'[w].val = <<>>
  BY <1>1 DEF Windows, RttWinClear, RttWinNew, WinNew
<1>4. \A w \in Windows : Len(rtt'[w].val) = 0 /\ horizon'[w] = 0
  BY <1>1, <1>3, EmptySeq
<1>5. \A w \in Windows : Supports(rtt'[w], hist', horizon'[w])
  BY <1>1, <1>4 DEF Supports
<1>6. hist' \in Seq(SampleType) /\ horizon' \in [Windows -> 0..MaxTime] /\ now' \in 0..MaxTime
  BY <1>1, EmptySeq, RttWinConstants DEF IInv
<1>7. now' \in Nat
  BY <1>6
<1> QED
  BY <1>1, <1>2, <1>4, <1>5, <1>6, <1>7 DEF IInv

\* rtt_win and win: every window is always a deque that supports the samples it
\* has not expired, and a shorter window holds the newest part of a longer one.
THEOREM IInvHolds == Spec => []IInv
<1>1. IInv /\ UNCHANGED vars => IInv'
  BY DEF IInv, vars
<1>2. IInv /\ [Next]_vars => IInv'
  BY <1>1, AddIInv, ClearIInv DEF Next
<1> QED
  BY <1>2, InitIInv, PTL DEF Spec

-----------------------------------------------------------------------------
(* What follows from it *)

\* What a window has said of its own deque and of the samples.
LEMMA WindowFact ==
    ASSUME IInv, NEW w \in Windows
    PROVE  /\ WinInv(rtt[w]) /\ Supports(rtt[w], hist, horizon[w])
           /\ rtt[w].is_min \in BOOLEAN /\ rtt[w].val \in Seq(Sample)
           /\ rtt[w].sz \in Nat
           /\ Len(hist) \in Nat /\ Len(rtt[w].val) \in Nat
           /\ \A k \in 1..Len(rtt[w].val) : rtt[w].val[k].v \in Nat
           /\ \A i \in 1..Len(hist) : hist[i] \in SampleType
<1>1. WinInv(rtt[w]) /\ Supports(rtt[w], hist, horizon[w]) /\ hist \in Seq(SampleType)
  BY DEF IInv, RttInv, Windows
<1>2. rtt[w].is_min \in BOOLEAN /\ rtt[w].val \in Seq(Sample) /\ rtt[w].sz \in Nat
  BY <1>1 DEF WinInv, WinType
<1>3. Len(hist) \in Nat /\ \A i \in 1..Len(hist) : hist[i] \in SampleType
  BY <1>1, LenProperties, ElementOfSeq
<1> QED
  BY <1>1, <1>2, <1>3, SampleFact

LEMMA InvTypeOK == IInv => TypeOK
<1> SUFFICES ASSUME IInv PROVE TypeOK
  OBVIOUS
<1>1. ASSUME NEW w \in Windows
      PROVE  /\ rtt[w].val \in Seq(SampleType) /\ rtt[w].sz \in Nat
             /\ rtt[w].tail \in Rtts \cup {DoubleMax, DoubleMin}
  <2> DEFINE r == rtt[w]
  <2>1. /\ WinInv(r) /\ Supports(r, hist, horizon[w]) /\ r.val \in Seq(Sample)
        /\ r.sz \in Nat /\ Len(r.val) \in Nat /\ r.is_min \in BOOLEAN
        /\ \A i \in 1..Len(hist) : hist[i] \in SampleType
    BY WindowFact
  <2> HIDE DEF r
  <2>2. \A k \in 1..Len(r.val) : r.val[k] \in SampleType
    BY <2>1 DEF Supports
  <2>3. r.val \in Seq(SampleType)
    BY <2>1, <2>2, SeqSubset
  <2>4. r.tail \in Rtts \cup {DoubleMax, DoubleMin}
    <3>1. CASE r.val = <<>>
      BY <2>1, <3>1 DEF WinInv, WinNew
    <3>2. CASE r.val # <<>>
      <4>1. 1 \in 1..Len(r.val)
        BY <2>1, <3>2, SampleFact
      <4> QED
        BY <2>1, <2>2, <3>2, <4>1, SampleTypeFact DEF WinInv
    <3> QED
      BY <3>1, <3>2
  <2> QED
    BY <2>1, <2>3, <2>4 DEF r
<1> QED
  BY <1>1 DEF IInv, TypeOK

LEMMA InvExactExtremum == IInv => ExactExtremum
<1> SUFFICES ASSUME IInv, hist # <<>>, NEW w \in Windows
             PROVE  rtt[w].tail = Extremum(w)
  BY DEF ExactExtremum
<1> DEFINE r == rtt[w]
           z == horizon[w]
<1>1. /\ WinInv(r) /\ Supports(r, hist, z) /\ r.is_min \in BOOLEAN
      /\ r.val \in Seq(Sample) /\ Len(r.val) \in Nat /\ Len(hist) \in Nat
      /\ \A k \in 1..Len(r.val) : r.val[k].v \in Nat
      /\ \A i \in 1..Len(hist) : hist[i].v \in Nat
  <2>1. \A i \in 1..Len(hist) : hist[i] \in SampleType /\ hist[i].v \in Nat
    BY WindowFact, SampleTypeFact DEF Sample
  <2> QED
    BY <2>1, WindowFact
<1>2. Recent(w) = {hist[i].v : i \in {j \in 1..Len(hist) : hist[j].ts >= z}}
  <2>1. DOMAIN hist = 1..Len(hist)
    BY LenProperties DEF IInv
  <2> QED
    BY <2>1 DEF Recent
<1>3. Extremum(w) = IF r.is_min THEN Min(Recent(w)) ELSE Max(Recent(w))
  BY DEF Extremum
<1> HIDE DEF r, z
<1>4. 1 \in 1..Len(r.val) /\ r.tail = r.val[1].v /\ r.tail \in Nat
  <2>1. Len(hist) > 0
    BY <1>1, EmptySeq, LenProperties DEF IInv
  <2>2. Len(r.val) > 0
    BY <2>1, <1>1 DEF Supports
  <2>3. r.val # <<>>
    BY <2>2, EmptySeq
  <2> QED
    BY <1>1, <2>2, <2>3 DEF WinInv
<1>5. r.tail \in Recent(w)
  <2>1. PICK i \in 1..Len(hist) : hist[i] = r.val[1]
    BY <1>1, <1>4 DEF Supports
  <2>2. hist[i].ts >= z
    BY <1>1, <1>4, <2>1 DEF Supports
  <2> QED
    BY <1>2, <1>4, <2>1, <2>2
<1>6. Recent(w) \in SUBSET Int
  BY <1>1, <1>2
<1>7. ASSUME NEW x \in Recent(w)
      PROVE  ~Beats(r.is_min, x, r.tail)
  <2>1. PICK i \in 1..Len(hist) : hist[i].ts >= z /\ x = hist[i].v
    BY <1>2
  <2>2. PICK k \in 1..Len(r.val) : ~Beats(r.is_min, x, r.val[k].v)
    BY <1>1, <2>1 DEF Supports
  <2>3. k = 1 \/ ~Beats(r.is_min, r.val[k].v, r.val[1].v)
    BY <1>1, <1>4, <2>2 DEF WinInv
  <2>4. x \in Nat /\ r.val[k].v \in Nat /\ r.val[1].v \in Nat
    BY <1>1, <1>4, <2>1, <2>2
  <2> QED
    BY <1>4, <2>2, <2>3, <2>4 DEF Beats
<1>8. CASE r.is_min
  <2>1. \A x \in Recent(w) : r.tail <= x
    BY <1>4, <1>6, <1>7, <1>8 DEF Beats
  <2>2. Min(Recent(w)) = r.tail
    BY <1>5, <1>6, <2>1, MinIs
  <2> QED
    BY <1>3, <1>8, <2>2 DEF r
<1>9. CASE ~r.is_min
  <2>1. \A x \in Recent(w) : r.tail >= x
    BY <1>4, <1>6, <1>7, <1>9 DEF Beats
  <2>2. Max(Recent(w)) = r.tail
    BY <1>5, <1>6, <2>1, MaxIs
  <2> QED
    BY <1>3, <1>9, <2>2 DEF r
<1> QED
  BY <1>8, <1>9

LEMMA InvWindowsOrdered == IInv => WindowsOrdered
<1> SUFFICES ASSUME IInv PROVE WindowsOrdered
  OBVIOUS
<1>1. hist # <<>> => Len(rtt.min_rtt.val) > 0
  <2>1. Supports(rtt.min_rtt, hist, horizon["min_rtt"]) /\ hist \in Seq(SampleType)
    BY DEF IInv, Windows
  <2>2. hist # <<>> => Len(hist) > 0
    BY <2>1, EmptySeq, LenProperties
  <2> QED
    BY <2>1, <2>2 DEF Supports
<1> QED
  BY <1>1, RttOrder DEF IInv, WindowsOrdered

\* The four windows, the clock and the history are always what they should be.
THEOREM TypeCorrect == Spec => []TypeOK
  BY IInvHolds, InvTypeOK, PTL

\* class win: what a window reports is exactly the extremum of the samples it
\* has not expired, for any samples and any sequence of window lengths.
THEOREM WindowsAreExact == Spec => []ExactExtremum
  BY IInvHolds, InvExactExtremum, PTL

\* rtt_win: the windows of different lengths never contradict one another, so
\* eyenet::on_ack never exits on them and mode_eyenet compares what it means to.
THEOREM WindowsAgree == Spec => []WindowsOrdered
  BY IInvHolds, InvWindowsOrdered, PTL
=============================================================================
