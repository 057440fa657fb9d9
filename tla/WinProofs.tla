----------------------------- MODULE WinProofs -----------------------------
(***************************************************************************)
(* Facts about `win` and `rtt_win` for any samples and any lengths, and    *)
(* the induction they need.                                                *)
(***************************************************************************)
EXTENDS Win, SequenceTheorems, WellFoundedInduction, TLAPS

-----------------------------------------------------------------------------
(* Natural numbers.  The induction theorems of the library have an operator *)
(* as a parameter; this one speaks of a set.                                *)

LEMMA LeastNat ==
    ASSUME NEW S \in SUBSET Nat, S # {}
    PROVE  \E x \in S : \A y \in S : x <= y
<1>1. PICK x \in S : \A y \in S : ~ (<<y, x>> \in OpToRel(<, Nat))
  BY NatLessThanWellFounded, WFMin, Zenon
<1>2. \A y \in S : ~(y < x)
  BY <1>1, Zenon DEF OpToRel
<1> QED
  BY <1>2

LEMMA SetInduction ==
    ASSUME NEW S, 0 \in S, \A n \in Nat : n \in S => n + 1 \in S
    PROVE  Nat \subseteq S
<1> SUFFICES ASSUME Nat \ S # {} PROVE FALSE
  OBVIOUS
<1>1. PICK x \in Nat \ S : \A y \in Nat \ S : x <= y
  BY LeastNat
<1>2. x # 0 /\ x - 1 \in Nat
  BY <1>1
<1>3. x - 1 \in S
  BY <1>1, <1>2
<1> QED
  BY <1>1, <1>2, <1>3

LEMMA GreatestNat ==
    ASSUME NEW m \in Nat, NEW S \in SUBSET (0..m), S # {}
    PROVE  \E x \in S : \A y \in S : y <= x
<1> DEFINE D == {n \in 0..m : m - n \in S}
<1>1. D \in SUBSET Nat /\ D # {}
  <2>1. PICK y \in S : TRUE
    OBVIOUS
  <2>2. m - y \in D
    BY <2>1
  <2> QED
    BY <2>2
<1>2. PICK d \in D : \A e \in D : d <= e
  BY <1>1, LeastNat
<1>3. \A y \in S : m - y \in D
  OBVIOUS
<1> QED
  BY <1>2, <1>3

-----------------------------------------------------------------------------
(* One window *)

Sample == [ts : Nat, v : Nat]

LEMMA SampleFact ==
    ASSUME NEW s \in Seq(Sample)
    PROVE  /\ Len(s) \in Nat /\ (s # <<>> => Len(s) >= 1)
           /\ \A i \in 1..Len(s) : s[i] \in Sample /\ s[i].ts \in Nat /\ s[i].v \in Nat
<1>1. Len(s) \in Nat /\ (s # <<>> => Len(s) \in Nat \ {0})
  BY LenProperties, EmptySeq
<1>2. \A i \in 1..Len(s) : s[i] \in Sample
  BY ElementOfSeq
<1> QED
  BY <1>1, <1>2 DEF Sample

LEMMA Cut ==
    ASSUME NEW s \in Seq(Sample), NEW k \in 1..Len(s)
    PROVE  /\ SubSeq(s, k, Len(s)) \in Seq(Sample)
           /\ Len(SubSeq(s, k, Len(s))) = Len(s) - k + 1
           /\ \A i \in 1..(Len(s) - k + 1) : SubSeq(s, k, Len(s))[i] = s[k + i - 1]
<1>1. Len(s) \in Int /\ k \in Int /\ k <= Len(s) /\ \A i \in k..Len(s) : s[i] \in Sample
  BY SampleFact
<1> QED
  BY <1>1, SubSeqProperties

WinType == [is_min : BOOLEAN, val : Seq(Sample), tail : Nat, sz : Nat]

\* tail is the first sample of the deque, and no sample beats an earlier one.
WinInv(w) ==
    /\ w \in WinType
    /\ w.tail = IF w.val = <<>> THEN WinNew(w.is_min).tail ELSE w.val[1].v
    /\ \A i, j \in 1..Len(w.val) :
            i < j => ~Beats(w.is_min, w.val[j].v, w.val[i].v)

\* kept samples of w remain behind which v is pushed; then all before `first`
\* expire.
PushedAndExpired(r, w, v, ts, kept, first) ==
    /\ kept \in 0..Len(w.val) /\ first \in 1..(kept + 1)
    /\ kept > 0 => ~Beats(w.is_min, v, w.val[kept].v)
    /\ \A i \in (kept + 1)..Len(w.val) : Beats(w.is_min, v, w.val[i].v)
    /\ \A i \in 1..(first - 1) : w.val[i].ts < ts - w.sz
    /\ first <= kept => w.val[first].ts >= ts - w.sz
    /\ Len(r.val) = kept + 2 - first
    /\ \A i \in 1..(kept + 1 - first) : r.val[i] = w.val[first + i - 1]
    /\ r.val[kept + 2 - first] = [ts |-> ts, v |-> v]

LEMMA KeptFact ==
    ASSUME NEW w, w.val \in Seq(Sample), NEW v
    PROVE  /\ Kept(w, v) \in 0..Len(w.val)
           /\ Kept(w, v) > 0 => ~Beats(w.is_min, v, w.val[Kept(w, v)].v)
           /\ \A i \in (Kept(w, v) + 1)..Len(w.val) : Beats(w.is_min, v, w.val[i].v)
<1> DEFINE N == {n \in 0..Len(w.val) : n > 0 => ~Beats(w.is_min, v, w.val[n].v)}
<1>1. Len(w.val) \in Nat /\ 0 \in N
  BY SampleFact
<1>2. PICK n \in N : \A y \in N : y <= n
  BY <1>1, GreatestNat
<1>3. \A i \in (n + 1)..Len(w.val) : Beats(w.is_min, v, w.val[i].v)
  <2> SUFFICES ASSUME NEW i \in (n + 1)..Len(w.val), ~Beats(w.is_min, v, w.val[i].v)
               PROVE  FALSE
    OBVIOUS
  <2>1. i \in N
    BY <1>1, <1>2
  <2> QED
    BY <1>1, <1>2, <2>1
<1>4. \E m \in 0..Len(w.val) :
        /\ m > 0 => ~Beats(w.is_min, v, w.val[m].v)
        /\ \A i \in (m + 1)..Len(w.val) : Beats(w.is_min, v, w.val[i].v)
  BY <1>2, <1>3
<1> QED
  BY <1>4, Zenon DEF Kept

LEMMA FirstLiveFact ==
    ASSUME NEW w, w.val \in Seq(Sample), w.val # <<>>, w.sz \in Nat, NEW now \in Nat
    PROVE  /\ FirstLive(w, now) \in 1..Len(w.val)
           /\ \A i \in 1..(FirstLive(w, now) - 1) : w.val[i].ts < now - w.sz
           /\ FirstLive(w, now) < Len(w.val) =>
                w.val[FirstLive(w, now)].ts >= now - w.sz
<1> DEFINE n == Len(w.val)
           K == {k \in 1..n : k < n => w.val[k].ts >= now - w.sz}
<1>1. n \in Nat /\ n \in 1..n /\ \A i \in 1..n : w.val[i].ts \in Nat
  BY SampleFact
<1>2. n \in K /\ K \in SUBSET Nat
  BY <1>1
<1>3. PICK k \in K : \A y \in K : k <= y
  BY <1>2, LeastNat
<1>4. \A i \in 1..(k - 1) : w.val[i].ts < now - w.sz
  <2> SUFFICES ASSUME NEW i \in 1..(k - 1), w.val[i].ts >= now - w.sz
               PROVE  FALSE
    BY <1>1, <1>3
  <2>1. i \in K
    BY <1>1, <1>3
  <2> QED
    BY <1>3, <2>1
<1>5. \E m \in 1..Len(w.val) :
        /\ \A i \in 1..(m - 1) : w.val[i].ts < now - w.sz
        /\ m < Len(w.val) => w.val[m].ts >= now - w.sz
  BY <1>3, <1>4
<1> QED
  BY <1>5, Zenon DEF FirstLive

LEMMA WinNewFact ==
    ASSUME NEW b \in BOOLEAN
    PROVE  WinInv(WinNew(b)) /\ WinNew(b).is_min = b /\ WinNew(b).val = <<>>
  BY WinConstants DEF WinInv, WinType, WinNew

LEMMA UpdateSzFact ==
    ASSUME NEW w, WinInv(w), NEW s \in Nat
    PROVE  /\ WinInv(UpdateSz(w, s)) /\ UpdateSz(w, s).sz = s
           /\ UpdateSz(w, s).is_min = w.is_min /\ UpdateSz(w, s).val = w.val
           /\ UpdateSz(w, s).tail = w.tail
<1>1. w \in WinType
  BY DEF WinInv
<1>2. /\ UpdateSz(w, s).is_min = w.is_min /\ UpdateSz(w, s).val = w.val
      /\ UpdateSz(w, s).tail = w.tail /\ UpdateSz(w, s).sz = s
      /\ UpdateSz(w, s) \in WinType
  BY <1>1 DEF UpdateSz, WinType
<1> QED
  BY <1>2 DEF WinInv

\* What an added sample does to a window, and that it keeps the invariant.
LEMMA WinAddFact ==
    ASSUME NEW w, WinInv(w), NEW v \in 0..(DoubleMax - 1), NEW ts \in Nat
    PROVE  /\ WinInv(WinAdd(w, v, ts))
           /\ WinAdd(w, v, ts).is_min = w.is_min /\ WinAdd(w, v, ts).sz = w.sz
           /\ \E kept, first \in Nat :
                 PushedAndExpired(WinAdd(w, v, ts), w, v, ts, kept, first)
<1> DEFINE new    == [ts |-> ts, v |-> v]
           n      == Kept(w, v)
           vals   == Append(SubSeq(w.val, 1, n), new)
           tail   == IF Beats(w.is_min, v, w.tail) THEN v ELSE w.tail
           pushed == [w EXCEPT !.val = vals, !.tail = tail]
           k      == FirstLive(pushed, ts)
           r      == WinAdd(w, v, ts)
<1>1. /\ w.is_min \in BOOLEAN /\ w.val \in Seq(Sample)
      /\ w.tail \in Nat /\ w.sz \in Nat /\ w \in WinType
  BY DEF WinInv, WinType
<1>2. /\ Len(w.val) \in Nat
      /\ \A i \in 1..Len(w.val) : w.val[i] \in Sample /\ w.val[i].v \in Nat
  BY <1>1, SampleFact
<1>3. new \in Sample /\ v \in Nat
  BY WinConstants DEF Sample
<1>4. /\ n \in 0..Len(w.val)
      /\ n > 0 => ~Beats(w.is_min, v, w.val[n].v)
      /\ \A i \in (n + 1)..Len(w.val) : Beats(w.is_min, v, w.val[i].v)
  BY <1>1, KeptFact
<1> HIDE DEF n
<1>5. /\ vals \in Seq(Sample) /\ Len(vals) = n + 1
      /\ \A i \in 1..n : vals[i] = w.val[i]
      /\ vals[n + 1] = new
  <2>1. /\ SubSeq(w.val, 1, n) \in Seq(Sample) /\ Len(SubSeq(w.val, 1, n)) = n
        /\ \A i \in 1..n : SubSeq(w.val, 1, n)[i] = w.val[i]
    BY <1>1, <1>2, <1>4, SubSeqProperties
  <2> HIDE DEF new
  <2> QED
    BY <1>3, <1>4, <2>1, AppendProperties
<1> HIDE DEF vals
<1>6. tail = vals[1].v /\ tail \in Nat
  <2>1. CASE w.val = <<>>
    <3>1. n = 0 /\ vals[1].v = v
      BY <1>1, <1>4, <1>5, <2>1
    <3>2. w.tail = WinNew(w.is_min).tail
      BY <2>1 DEF WinInv
    <3> QED
      BY <1>1, <1>3, <3>1, <3>2, WinConstants DEF WinNew, Beats
  <2>2. CASE w.val # <<>>
    <3>1. w.tail = w.val[1].v /\ Len(w.val) >= 1
      BY <1>1, <1>2, <2>2, EmptySeq DEF WinInv
    <3>2. CASE n = 0
      <4>1. Beats(w.is_min, v, w.tail) /\ vals[1].v = v
        BY <1>2, <1>4, <1>5, <3>1, <3>2
      <4> QED
        BY <1>3, <4>1
    <3>3. CASE n > 0
      <4>1. n = 1 \/ ~Beats(w.is_min, w.val[n].v, w.val[1].v)
        BY <1>2, <1>4, <3>3 DEF WinInv
      <4>2. ~Beats(w.is_min, v, w.val[1].v)
        BY <1>2, <1>3, <1>4, <3>3, <4>1 DEF Beats
      <4>3. vals[1].v = w.val[1].v
        BY <1>4, <1>5, <3>3
      <4> QED
        BY <1>1, <3>1, <4>2, <4>3
    <3> QED
      BY <1>4, <3>2, <3>3
  <2> QED
    BY <2>1, <2>2
<1> HIDE DEF tail
<1>7. /\ pushed.is_min = w.is_min /\ pushed.sz = w.sz
      /\ pushed.val = vals /\ pushed.tail = tail /\ pushed \in WinType
  BY <1>1, <1>5, <1>6 DEF WinType
<1>8. r = UpdateWin(pushed, ts)
  BY DEF WinAdd, n, vals, tail
<1> HIDE DEF pushed, r
<1>9. /\ k \in 1..(n + 1)
      /\ \A i \in 1..(k - 1) : vals[i].ts < ts - w.sz
      /\ k < n + 1 => vals[k].ts >= ts - w.sz
  <2>1. vals # <<>>
    BY <1>4, <1>5
  <2> QED
    BY <1>1, <1>5, <1>7, <2>1, FirstLiveFact
<1> HIDE DEF k
<1>10. /\ r.is_min = w.is_min /\ r.sz = w.sz
       /\ r.val = SubSeq(vals, k, n + 1)
       /\ r.tail = IF \E i \in 1..(k - 1) : ~Beats(w.is_min, tail, vals[i].v)
                   THEN vals[k].v ELSE tail
       /\ r = [pushed EXCEPT !.val = r.val, !.tail = r.tail]
  BY <1>5, <1>7, <1>8 DEF UpdateWin, WinType, k
<1>11. /\ r.val \in Seq(Sample) /\ Len(r.val) = n + 2 - k
       /\ \A i \in 1..(n + 2 - k) : r.val[i] = vals[k + i - 1]
  <2>1. Len(vals) = n + 1 /\ vals \in Seq(Sample)
    BY <1>5
  <2>2. k \in 1..Len(vals) /\ n + 2 - k = Len(vals) - k + 1 /\ Len(vals) = n + 1
    BY <1>4, <1>5, <1>9
  <2>3. /\ SubSeq(vals, k, n + 1) \in Seq(Sample)
        /\ Len(SubSeq(vals, k, n + 1)) = n + 2 - k
        /\ \A i \in 1..(n + 2 - k) : SubSeq(vals, k, n + 1)[i] = vals[k + i - 1]
    BY <2>1, <2>2, Cut
  <2> QED
    BY <1>10, <2>3
<1>12. r.tail = vals[k].v
  <2>1. CASE k = 1
    BY <1>6, <1>10, <2>1
  <2>2. CASE k > 1
    <3>1. ~Beats(w.is_min, tail, vals[1].v)
      BY <1>6 DEF Beats
    <3>2. 1 \in 1..(k - 1)
      BY <1>9, <2>2
    <3> QED
      BY <1>10, <3>1, <3>2
  <2> QED
    BY <1>9, <2>1, <2>2
<1>13. \A i, j \in 1..(n + 1) : i < j => ~Beats(w.is_min, vals[j].v, vals[i].v)
  <2> SUFFICES ASSUME NEW i \in 1..(n + 1), NEW j \in 1..(n + 1), i < j
               PROVE  ~Beats(w.is_min, vals[j].v, vals[i].v)
    OBVIOUS
  <2>1. i \in 1..n /\ i \in 1..Len(w.val) /\ vals[i] = w.val[i]
    BY <1>2, <1>4, <1>5
  <2>2. CASE j <= n
    BY <1>2, <1>4, <1>5, <2>1, <2>2 DEF WinInv
  <2>3. CASE j = n + 1
    <3>1. i = n \/ ~Beats(w.is_min, w.val[n].v, w.val[i].v)
      BY <1>2, <1>4, <2>1 DEF WinInv
    <3>2. vals[j].v = v /\ n > 0
      BY <1>4, <1>5, <2>1, <2>3
    <3>3. /\ ~Beats(w.is_min, v, w.val[n].v)
          /\ w.val[n].v \in Nat /\ w.val[i].v \in Nat
      BY <1>2, <1>4, <2>1, <3>2
    <3> QED
      BY <1>3, <2>1, <3>1, <3>2, <3>3, SMTT(30) DEF Beats
  <2> QED
    BY <1>4, <2>2, <2>3
<1>14. WinInv(r)
  <2>1. r \in WinType
    <3>1. r.tail \in Nat
      BY <1>5, <1>9, <1>12, SampleFact
    <3> QED
      BY <1>7, <1>10, <1>11, <3>1 DEF WinType
  <2>2. r.val # <<>> /\ r.tail = r.val[1].v
    <3>1. Len(r.val) >= 1 /\ r.val[1] = vals[k]
      BY <1>4, <1>9, <1>11
    <3> QED
      BY <1>11, <1>12, <3>1, EmptySeq
  <2>3. \A i, j \in 1..Len(r.val) : i < j => ~Beats(r.is_min, r.val[j].v, r.val[i].v)
    <3> SUFFICES ASSUME NEW i \in 1..(n + 2 - k), NEW j \in 1..(n + 2 - k), i < j
                 PROVE  ~Beats(w.is_min, r.val[j].v, r.val[i].v)
      BY <1>10, <1>11
    <3>1. /\ k + i - 1 \in 1..(n + 1) /\ k + j - 1 \in 1..(n + 1)
          /\ k + i - 1 < k + j - 1
      BY <1>4, <1>9
    <3>2. r.val[i] = vals[k + i - 1] /\ r.val[j] = vals[k + j - 1]
      BY <1>11
    <3> QED
      BY <1>13, <3>1, <3>2
  <2> QED
    BY <2>1, <2>2, <2>3 DEF WinInv
<1>15. PushedAndExpired(r, w, v, ts, n, k)
  <2>1. \A i \in 1..n : vals[i].ts = w.val[i].ts
    BY <1>5
  <2>2. /\ \A i \in 1..(k - 1) : w.val[i].ts < ts - w.sz
        /\ k <= n => w.val[k].ts >= ts - w.sz
    BY <1>4, <1>9, <2>1
  <2>3. \A i \in 1..(n + 1 - k) : r.val[i] = w.val[k + i - 1]
    <3> SUFFICES ASSUME NEW i \in 1..(n + 1 - k) PROVE r.val[i] = w.val[k + i - 1]
      OBVIOUS
    <3>1. i \in 1..(n + 2 - k) /\ k + i - 1 \in 1..n
      BY <1>4, <1>9
    <3> QED
      BY <1>5, <1>11, <3>1
  <2>4. r.val[n + 2 - k] = new
    <3>1. n + 2 - k \in 1..(n + 2 - k) /\ k + (n + 2 - k) - 1 = n + 1
      BY <1>4, <1>9
    <3> QED
      BY <1>5, <1>11, <3>1
  <2> QED
    BY <1>4, <1>9, <1>11, <2>2, <2>3, <2>4 DEF PushedAndExpired
<1>16. n \in Nat /\ k \in Nat
  BY <1>4, <1>9
<1> QED
  BY <1>10, <1>14, <1>15, <1>16, Zenon DEF r

-----------------------------------------------------------------------------
(* Two windows over the same samples *)

\* The deque of b is what is left of that of a without its d oldest samples.
IsSuffix(b, a, d) ==
    /\ Len(a.val) = Len(b.val) + d
    /\ \A i \in 1..Len(b.val) : b.val[i] = a.val[i + d]

\* So it is for a window that is never longer than another of its kind.
Suffix(b, a) ==
    /\ b.is_min = a.is_min
    /\ \E d \in Nat : IsSuffix(b, a, d)
    /\ Len(a.val) > 0 => Len(b.val) > 0

LEMMA SameDeque ==
    ASSUME NEW a, NEW b, NEW p, NEW q, Suffix(q, p),
           a.val = p.val, a.is_min = p.is_min, b.val = q.val, b.is_min = q.is_min
    PROVE  Suffix(b, a)
<1>1. PICK d \in Nat : IsSuffix(q, p, d)
  BY DEF Suffix
<1>2. IsSuffix(b, a, d)
  BY <1>1 DEF IsSuffix
<1> QED
  BY <1>2 DEF Suffix

LEMMA SuffixStep ==
    ASSUME NEW a, NEW b, WinInv(a), WinInv(b), Suffix(b, a), b.sz <= a.sz,
           NEW v \in 0..(DoubleMax - 1), NEW ts \in Nat
    PROVE  Suffix(WinAdd(b, v, ts), WinAdd(a, v, ts))
<1> DEFINE p == WinAdd(a, v, ts)
           q == WinAdd(b, v, ts)
           A == Len(a.val)
           B == Len(b.val)
<1>1. PICK m, k \in Nat : PushedAndExpired(p, a, v, ts, m, k)
  BY WinAddFact
<1>2. PICK n, l \in Nat : PushedAndExpired(q, b, v, ts, n, l)
  BY WinAddFact
<1>3. p.is_min = a.is_min /\ q.is_min = b.is_min
  BY WinAddFact
<1> HIDE DEF p, q
<1>4. /\ A \in Nat /\ B \in Nat /\ a.sz \in Nat /\ b.sz \in Nat
      /\ \A i \in 1..A : a.val[i].ts \in Nat
  BY SampleFact DEF WinInv, WinType
<1>5. PICK d \in Nat : A = B + d /\ \A i \in 1..B : b.val[i] = a.val[i + d]
  BY DEF Suffix, IsSuffix
<1>6. m \in 0..A /\ k \in 1..(m + 1) /\ Len(p.val) = m + 2 - k
  BY <1>1 DEF PushedAndExpired
<1>7. n \in 0..B /\ l \in 1..(n + 1) /\ Len(q.val) = n + 2 - l
  BY <1>2 DEF PushedAndExpired
<1>8. /\ m > 0 => ~Beats(a.is_min, v, a.val[m].v)
      /\ \A i \in (m + 1)..A : Beats(a.is_min, v, a.val[i].v)
  BY <1>1 DEF PushedAndExpired
<1>9. /\ n > 0 => ~Beats(a.is_min, v, b.val[n].v)
      /\ \A i \in (n + 1)..B : Beats(a.is_min, v, b.val[i].v)
  BY <1>2 DEF PushedAndExpired, Suffix
<1>10. /\ \A i \in 1..(k - 1) : a.val[i].ts < ts - a.sz
       /\ l <= n => b.val[l].ts >= ts - b.sz
  BY <1>1, <1>2 DEF PushedAndExpired
<1>11. /\ \A i \in 1..(m + 1 - k) : p.val[i] = a.val[k + i - 1]
       /\ p.val[m + 2 - k] = [ts |-> ts, v |-> v]
  BY <1>1 DEF PushedAndExpired
<1>12. /\ \A i \in 1..(n + 1 - l) : q.val[i] = b.val[l + i - 1]
       /\ q.val[n + 2 - l] = [ts |-> ts, v |-> v]
  BY <1>2 DEF PushedAndExpired
<1> HIDE DEF A, B
<1>13. \E e \in Nat : IsSuffix(q, p, e)
  <2>1. CASE n = 0
    <3> DEFINE e == m + 1 - k
    <3>1. e \in Nat /\ l = 1 /\ Len(q.val) = 1 /\ Len(p.val) = Len(q.val) + e
          /\ 1 + e = m + 2 - k /\ n + 2 - l = 1
      BY <1>6, <1>7, <2>1
    <3>2. q.val[1] = p.val[1 + e]
      BY <1>11, <1>12, <3>1
    <3> HIDE DEF e
    <3>3. \A i \in 1..Len(q.val) : q.val[i] = p.val[i + e]
      BY <3>1, <3>2
    <3> QED
      BY <3>1, <3>3 DEF IsSuffix
  <2>2. CASE n > 0
    <3>1. n + d \in 1..A /\ n \in 1..B /\ a.val[n + d] = b.val[n]
      <4>1. n \in 1..B /\ n + d \in 1..A
        <5>1. A \in Nat /\ B \in Nat /\ A = B + d
          BY <1>4, <1>5
        <5> QED
          BY <1>7, <2>2, <5>1
      <4> QED
        BY <1>5, <4>1
    <3>2. ~(m < n + d)
      <4> SUFFICES ASSUME m < n + d PROVE FALSE
        OBVIOUS
      <4>1. n + d \in (m + 1)..A
        BY <1>6, <3>1
      <4> QED
        BY <1>8, <1>9, <2>2, <3>1, <4>1
    <3>3. ~(m > n + d)
      <4> SUFFICES ASSUME m > n + d PROVE FALSE
        OBVIOUS
      <4>1. m > 0 /\ m - d \in 1..B /\ m - d \in (n + 1)..B /\ (m - d) + d = m
        BY <1>4, <1>5, <1>6, <1>7
      <4>2. b.val[m - d] = a.val[m]
        BY <1>5, <4>1
      <4> QED
        BY <1>8, <1>9, <4>1, <4>2
    <3>4. m = n + d
      BY <1>6, <1>7, <3>2, <3>3
    <3>5. k <= l + d
      <4> SUFFICES ASSUME k > l + d PROVE FALSE
        BY <1>6, <1>7
      <4>1. /\ l <= n /\ l \in 1..B
            /\ l + d \in 1..(k - 1) /\ l + d \in 1..A
        BY <1>4, <1>5, <1>6, <1>7, <3>4
      <4>2. a.val[l + d].ts < ts - a.sz /\ a.val[l + d].ts >= ts - b.sz
        BY <1>5, <1>10, <4>1
      <4>3. a.val[l + d].ts \in Nat
        BY <1>4, <4>1
      <4> QED
        BY <1>4, <4>2, <4>3
    <3> DEFINE e == l + d - k
    <3>6. e \in Nat /\ Len(p.val) = Len(q.val) + e
      BY <1>6, <1>7, <3>4, <3>5
    <3>7. ASSUME NEW i \in 1..Len(q.val) PROVE q.val[i] = p.val[i + e]
      <4>1. CASE i <= n + 1 - l
        <5>1. /\ i \in 1..(n + 1 - l) /\ i + e \in 1..(m + 1 - k)
              /\ k + (i + e) - 1 = (l + i - 1) + d /\ l + i - 1 \in 1..B
          <6>1. B \in Nat /\ i \in Nat /\ i >= 1 /\ e \in Nat /\ e = l + d - k
            BY <1>4, <1>7, <3>6
          <6> QED
            BY <1>6, <1>7, <3>4, <4>1, <6>1
        <5> HIDE DEF e
        <5>2. q.val[i] = b.val[l + i - 1] /\ p.val[i + e] = a.val[(l + i - 1) + d]
          BY <1>11, <1>12, <5>1
        <5> QED
          BY <1>5, <5>1, <5>2
      <4>2. CASE i = n + 2 - l
        <5>1. i + e = m + 2 - k
          BY <1>6, <1>7, <3>4, <4>2
        <5> HIDE DEF e
        <5> QED
          BY <1>11, <1>12, <4>2, <5>1
      <4> QED
        BY <1>7, <4>1, <4>2
    <3> HIDE DEF e
    <3> QED
      BY <3>6, <3>7 DEF IsSuffix
  <2> QED
    BY <1>7, <2>1, <2>2
<1>14. Len(q.val) > 0
  BY <1>7
<1> QED
  BY <1>3, <1>13, <1>14 DEF Suffix, p, q

\* So the longer window reports the more extreme value.
LEMMA SuffixOrder ==
    ASSUME NEW a, NEW b, WinInv(a), WinInv(b), Suffix(b, a)
    PROVE  ~Beats(a.is_min, b.tail, a.tail)
<1>1. /\ a.val \in Seq(Sample) /\ b.val \in Seq(Sample)
      /\ a.tail \in Nat /\ b.tail \in Nat
  BY DEF WinInv, WinType
<1>2. PICK d \in Nat : IsSuffix(b, a, d)
  BY DEF Suffix
<1>3. Len(a.val) \in Nat /\ Len(b.val) \in Nat /\ Len(a.val) = Len(b.val) + d
  BY <1>1, <1>2, SampleFact DEF IsSuffix
<1>4. CASE a.val = <<>>
  <2>1. Len(a.val) = 0
    BY <1>4
  <2>2. b.val = <<>>
    BY <1>1, <1>3, <2>1, SampleFact
  <2> QED
    BY <1>1, <1>4, <2>2 DEF WinInv, WinNew, Suffix, Beats
<1>5. CASE a.val # <<>>
  <2>1. Len(b.val) > 0 /\ Len(a.val) > 0
    BY <1>1, <1>5, SampleFact DEF Suffix
  <2>2. b.val # <<>>
    BY <2>1
  <2>3. b.tail = b.val[1].v /\ a.tail = a.val[1].v
    BY <1>5, <2>2 DEF WinInv
  <2>4. 1 \in 1..Len(b.val) /\ 1 + d \in 1..Len(a.val) /\ 1 \in 1..Len(a.val)
    BY <1>3, <2>1
  <2>5. b.tail = a.val[1 + d].v
    BY <1>2, <2>3, <2>4 DEF IsSuffix
  <2>6. CASE d = 0
    BY <1>1, <2>3, <2>5, <2>6 DEF Beats
  <2>7. CASE d > 0
    BY <2>3, <2>4, <2>5, <2>7 DEF WinInv
  <2> QED
    BY <2>6, <2>7
<1> QED
  BY <1>4, <1>5

\* Every window's newest sample is the last one added.
LEMMA NewestLast ==
    ASSUME NEW w, WinInv(w), NEW v \in 0..(DoubleMax - 1), NEW ts \in Nat
    PROVE  LET r == WinAdd(w, v, ts) IN
           Len(r.val) > 0 /\ r.val[Len(r.val)].v = v
<1> DEFINE r == WinAdd(w, v, ts)
<1>1. PICK m, k \in Nat : PushedAndExpired(r, w, v, ts, m, k)
  BY WinAddFact
<1> HIDE DEF r
<1>2. /\ k \in 1..(m + 1) /\ Len(r.val) = m + 2 - k
      /\ r.val[m + 2 - k] = [ts |-> ts, v |-> v]
  BY <1>1 DEF PushedAndExpired
<1>3. Len(r.val) > 0 /\ r.val[Len(r.val)].v = v
  BY <1>2
<1> QED
  BY <1>3 DEF r

LEMMA SuffixNewest ==
    ASSUME NEW a, NEW b, WinInv(a), WinInv(b), Suffix(b, a), Len(a.val) > 0
    PROVE  b.val[Len(b.val)] = a.val[Len(a.val)]
<1>1. Len(b.val) \in Nat /\ Len(b.val) > 0
  BY SampleFact DEF WinInv, WinType, Suffix
<1>2. PICK d \in Nat : IsSuffix(b, a, d)
  BY DEF Suffix
<1> QED
  BY <1>1, <1>2 DEF IsSuffix

-----------------------------------------------------------------------------
(* The four windows of rtt_win *)

RttInv(r) ==
    /\ WinInv(r.min_rtt) /\ WinInv(r.virgin_rtt)
    /\ WinInv(r.eyenet_min) /\ WinInv(r.eyenet_max)
    /\ r.min_rtt.is_min = TRUE /\ r.eyenet_max.is_min = FALSE
    /\ Suffix(r.virgin_rtt, r.min_rtt) /\ Suffix(r.eyenet_min, r.min_rtt)
    /\ Len(r.min_rtt.val) > 0 =>
         /\ Len(r.eyenet_max.val) > 0
         /\ r.eyenet_max.val[Len(r.eyenet_max.val)].v
              = r.min_rtt.val[Len(r.min_rtt.val)].v
    /\ r.curr_rtt \in Nat

LEMMA RttNewFact == RttInv(RttWinNew)
<1>1. /\ RttWinNew.min_rtt = WinNew(TRUE) /\ RttWinNew.virgin_rtt = WinNew(TRUE)
      /\ RttWinNew.eyenet_min = WinNew(TRUE) /\ RttWinNew.eyenet_max = WinNew(FALSE)
      /\ RttWinNew.curr_rtt = 0
  BY DEF RttWinNew
<1>2. /\ WinNew(TRUE).val = <<>> /\ WinNew(TRUE).is_min = TRUE /\ WinInv(WinNew(TRUE))
      /\ WinNew(FALSE).is_min = FALSE /\ WinInv(WinNew(FALSE))
  BY WinNewFact, Zenon
<1> DEFINE e == WinNew(TRUE)
           f == WinNew(FALSE)
<1> HIDE DEF e, f
<1>3. Len(<<>>) = 0
  BY EmptySeq
<1>4. IsSuffix(e, e, 0)
  BY <1>2, <1>3 DEF IsSuffix, e
<1>5. Suffix(e, e)
  BY <1>4 DEF Suffix
<1>6. WinInv(e) /\ WinInv(f) /\ e.is_min = TRUE /\ f.is_min = FALSE /\ Len(e.val) = 0
  BY <1>2, <1>3 DEF e, f
<1>7. /\ RttWinNew.min_rtt = e /\ RttWinNew.virgin_rtt = e
      /\ RttWinNew.eyenet_min = e /\ RttWinNew.eyenet_max = f
  BY <1>1 DEF e, f
<1>8. 0 \in Nat /\ ~(0 > 0)
  OBVIOUS
<1> QED
  BY <1>1, <1>5, <1>6, <1>7, <1>8 DEF RttInv

LEMMA RttClearFact ==
    ASSUME NEW r, r.curr_rtt \in Nat
    PROVE  RttInv(RttWinClear(r))
<1>1. /\ RttWinClear(r).min_rtt = RttWinNew.min_rtt
      /\ RttWinClear(r).virgin_rtt = RttWinNew.virgin_rtt
      /\ RttWinClear(r).eyenet_min = RttWinNew.eyenet_min
      /\ RttWinClear(r).eyenet_max = RttWinNew.eyenet_max
      /\ RttWinClear(r).curr_rtt = r.curr_rtt
  BY DEF RttWinClear, RttWinNew
<1> QED
  BY <1>1, RttNewFact DEF RttInv

\* A sample keeps it: the lengths may change at each, as long as that of
\* min_rtt is the longest.
LEMMA RttAddFact ==
    ASSUME NEW r, RttInv(r), NEW v \in 0..(DoubleMax - 1), NEW ts \in Nat,
           NEW srtt \in Nat
    PROVE  LET s == RttWinAdd(r, v, ts, srtt) IN
           /\ RttInv(s) /\ s.curr_rtt = v /\ Len(s.min_rtt.val) > 0
           /\ \A f \in {"min_rtt", "virgin_rtt", "eyenet_min", "eyenet_max"} :
                \E z \in Nat : s[f] = WinAdd(UpdateSz(r[f], z), v, ts)
<1> DEFINE sz == LargerOf(MinSz, SzMult * r.min_rtt.tail)
           z1 == SmallerOf(sz, srtt \div 2)
           z2 == SmallerOf(sz, 4 * srtt)
           s  == RttWinAdd(r, v, ts, srtt)
           a  == UpdateSz(r.min_rtt, sz)
           b  == UpdateSz(r.virgin_rtt, z1)
           c  == UpdateSz(r.eyenet_min, z2)
           d  == UpdateSz(r.eyenet_max, z2)
<1>1. sz \in Nat /\ z1 \in Nat /\ z2 \in Nat /\ z1 <= sz /\ z2 <= sz
  <2>1. r.min_rtt.tail \in Nat
    BY DEF RttInv, WinInv, WinType
  <2>2. SzMult * r.min_rtt.tail \in Nat
    BY <2>1, WinConstants
  <2>3. sz \in Nat
    BY <2>2, WinConstants DEF LargerOf
  <2>4. srtt \div 2 \in Nat /\ 4 * srtt \in Nat
    OBVIOUS
  <2> QED
    BY <2>3, <2>4 DEF SmallerOf
<1>2. /\ s.curr_rtt = v /\ s.min_rtt = WinAdd(a, v, ts)
      /\ s.virgin_rtt = WinAdd(b, v, ts) /\ s.eyenet_min = WinAdd(c, v, ts)
      /\ s.eyenet_max = WinAdd(d, v, ts)
  BY DEF RttWinAdd
<1> HIDE DEF sz, z1, z2, s
<1>3. /\ WinInv(a) /\ WinInv(b) /\ WinInv(c) /\ WinInv(d)
      /\ a.is_min = r.min_rtt.is_min /\ d.is_min = r.eyenet_max.is_min
  BY <1>1, UpdateSzFact DEF RttInv
<1>4. /\ Suffix(b, a) /\ b.sz <= a.sz
      /\ Suffix(c, a) /\ c.sz <= a.sz
  <2>1. /\ a.val = r.min_rtt.val /\ a.is_min = r.min_rtt.is_min /\ a.sz = sz
        /\ b.val = r.virgin_rtt.val /\ b.is_min = r.virgin_rtt.is_min /\ b.sz = z1
        /\ c.val = r.eyenet_min.val /\ c.is_min = r.eyenet_min.is_min /\ c.sz = z2
    <3>1. WinInv(r.min_rtt) /\ WinInv(r.virgin_rtt) /\ WinInv(r.eyenet_min)
      BY DEF RttInv
    <3>2. a.val = r.min_rtt.val /\ a.is_min = r.min_rtt.is_min /\ a.sz = sz
      BY <1>1, <3>1, UpdateSzFact
    <3>3. b.val = r.virgin_rtt.val /\ b.is_min = r.virgin_rtt.is_min /\ b.sz = z1
      BY <1>1, <3>1, UpdateSzFact
    <3>4. c.val = r.eyenet_min.val /\ c.is_min = r.eyenet_min.is_min /\ c.sz = z2
      BY <1>1, <3>1, UpdateSzFact
    <3> HIDE DEF a, b, c
    <3> QED
      BY <3>2, <3>3, <3>4
  <2> HIDE DEF a, b, c, d
  <2>2. Suffix(r.virgin_rtt, r.min_rtt) /\ Suffix(r.eyenet_min, r.min_rtt)
    BY DEF RttInv
  <2>3. Suffix(b, a)
    BY <2>1, <2>2, SameDeque
  <2>4. Suffix(c, a)
    BY <2>1, <2>2, SameDeque
  <2> QED
    BY <1>1, <2>1, <2>3, <2>4
<1> HIDE DEF a, b, c, d
<1>5. /\ WinInv(s.min_rtt) /\ WinInv(s.virgin_rtt)
      /\ WinInv(s.eyenet_min) /\ WinInv(s.eyenet_max)
      /\ s.min_rtt.is_min = TRUE /\ s.eyenet_max.is_min = FALSE
  <2>1. /\ WinInv(WinAdd(a, v, ts)) /\ WinAdd(a, v, ts).is_min = a.is_min
        /\ WinInv(WinAdd(b, v, ts)) /\ WinInv(WinAdd(c, v, ts))
    BY <1>3, WinAddFact
  <2>2. WinInv(WinAdd(d, v, ts)) /\ WinAdd(d, v, ts).is_min = d.is_min
    BY <1>3, WinAddFact
  <2>3. r.min_rtt.is_min = TRUE /\ r.eyenet_max.is_min = FALSE
    BY DEF RttInv
  <2> QED
    BY <1>2, <1>3, <2>1, <2>2, <2>3
<1>6. Suffix(s.virgin_rtt, s.min_rtt) /\ Suffix(s.eyenet_min, s.min_rtt)
  BY <1>2, <1>3, <1>4, SuffixStep
<1>7. /\ Len(s.min_rtt.val) > 0 /\ s.min_rtt.val[Len(s.min_rtt.val)].v = v
      /\ Len(s.eyenet_max.val) > 0 /\ s.eyenet_max.val[Len(s.eyenet_max.val)].v = v
  BY <1>2, <1>3, NewestLast
<1>8. v \in Nat
  BY WinConstants
<1>9. RttInv(s)
  BY <1>2, <1>5, <1>6, <1>7, <1>8 DEF RttInv
<1>10. \A f \in {"min_rtt", "virgin_rtt", "eyenet_min", "eyenet_max"} :
            \E z \in Nat : s[f] = WinAdd(UpdateSz(r[f], z), v, ts)
  BY <1>1, <1>2 DEF a, b, c, d
<1> QED
  BY <1>2, <1>7, <1>9, <1>10 DEF s

LEMMA RttOrder ==
    ASSUME NEW r, RttInv(r)
    PROVE  /\ r.min_rtt.tail \in Nat /\ r.virgin_rtt.tail \in Nat
           /\ r.min_rtt.tail <= r.virgin_rtt.tail
           /\ Len(r.min_rtt.val) > 0 => /\ r.min_rtt.tail <= r.eyenet_min.tail
                                        /\ r.eyenet_min.tail <= r.eyenet_max.tail
<1> DEFINE a == r.min_rtt
           b == r.virgin_rtt
           c == r.eyenet_min
           d == r.eyenet_max
<1>1. /\ WinInv(a) /\ WinInv(b) /\ WinInv(c) /\ WinInv(d)
      /\ Suffix(b, a) /\ Suffix(c, a) /\ a.is_min = TRUE /\ d.is_min = FALSE
      /\ Len(a.val) > 0 => Len(d.val) > 0 /\ d.val[Len(d.val)].v = a.val[Len(a.val)].v
  BY DEF RttInv
<1>2. c.is_min = TRUE
  BY <1>1 DEF Suffix
<1> HIDE DEF a, b, c, d
<1>3. /\ a.tail \in Nat /\ b.tail \in Nat /\ c.tail \in Nat /\ d.tail \in Nat
      /\ c.val \in Seq(Sample) /\ d.val \in Seq(Sample) /\ a.val \in Seq(Sample)
  BY <1>1 DEF WinInv, WinType
<1>4. a.tail <= b.tail /\ a.tail <= c.tail
  BY <1>1, <1>3, SuffixOrder DEF Beats
<1>5. ASSUME Len(a.val) > 0 PROVE c.tail <= d.tail
  <2>1. Len(c.val) \in Nat /\ Len(c.val) > 0 /\ Len(d.val) \in Nat /\ Len(d.val) > 0
    BY <1>1, <1>3, <1>5, SampleFact DEF Suffix
  <2>2. c.val # <<>> /\ d.val # <<>>
    BY <2>1
  <2>3. c.tail = c.val[1].v /\ d.tail = d.val[1].v
    BY <1>1, <2>2 DEF WinInv
  <2>4. /\ c.val[1].v \in Nat /\ d.val[1].v \in Nat
        /\ c.val[Len(c.val)].v \in Nat /\ d.val[Len(d.val)].v \in Nat
    BY <1>3, <2>1, SampleFact, SMTT(30)
  <2>5. c.tail <= c.val[Len(c.val)].v
    BY <1>1, <1>2, <2>1, <2>3, <2>4, SMTT(30) DEF WinInv, Beats
  <2>6. d.val[Len(d.val)].v <= d.tail
    BY <1>1, <2>1, <2>3, <2>4, SMTT(30) DEF WinInv, Beats
  <2>7. c.val[Len(c.val)] = a.val[Len(a.val)]
    BY <1>1, <1>5, SuffixNewest
  <2> QED
    BY <1>1, <1>5, <2>3, <2>4, <2>5, <2>6, <2>7
<1> QED
  BY <1>3, <1>4, <1>5 DEF a, b, c, d
=============================================================================
