-------------------------------- MODULE Win --------------------------------
(***************************************************************************)
(* The value types of vns_utils.{hh,cc} that filter RTT samples:           *)
(*   class win      a windowed minimum or maximum kept in a monotonic      *)
(*                  deque `val` of <<timestamp, value>> pairs;             *)
(*   class rtt_win  four such windows fed with the same samples.           *)
(* An object is a record with the C++ member names; a method is an         *)
(* operator from the old object to the new one.  Times and RTTs are whole  *)
(* milliseconds.                                                           *)
(***************************************************************************)
EXTENDS Integers, Sequences

CONSTANTS DoubleMax,   \* DOUBLE_MAX, larger than every RTT and every time
          DoubleMin,   \* DOUBLE_MIN, the smallest positive double: below 1 ms
          MinSz,       \* the window length 10e3 ms that `win` starts with
          SzMult       \* the factor 20 in rtt_win::add

ASSUME WinConstants ==
    /\ DoubleMax \in Nat /\ DoubleMin = 0
    /\ MinSz \in Nat /\ SzMult \in Nat

SmallerOf(a, b) == IF a <= b THEN a ELSE b
LargerOf(a, b) == IF a >= b THEN a ELSE b

-----------------------------------------------------------------------------
(* class win *)

\* A sample that is strictly closer to the extremum the window looks for.
Beats(is_min, a, b) == IF is_min THEN a < b ELSE a > b

WinNew(is_min) ==
    [is_min |-> is_min,
     val    |-> <<>>,
     tail   |-> IF is_min THEN DoubleMax ELSE DoubleMin,
     sz     |-> MinSz]

WinClear(w) == WinNew(w.is_min)

UpdateSz(w, s) == [w EXCEPT !.sz = s]

\* How many samples are left when the new value has popped the ones behind it.
Kept(w, v) ==
    CHOOSE n \in 0..Len(w.val) :
        /\ n > 0 => ~Beats(w.is_min, v, w.val[n].v)
        /\ \A i \in (n + 1)..Len(w.val) : Beats(w.is_min, v, w.val[i].v)

\* The first sample that is still young enough; the last one always stays.
FirstLive(w, now) ==
    CHOOSE k \in 1..Len(w.val) :
        /\ \A i \in 1..(k - 1) : w.val[i].ts < now - w.sz
        /\ k < Len(w.val) => w.val[k].ts >= now - w.sz

\* Mutant: the supporting sample expires and tail keeps its value.
UpdateWin_StaleTail(w, now) ==
    [w EXCEPT !.val = SubSeq(w.val, FirstLive(w, now), Len(w.val))]

\* Drop the expired samples; `tail` moves only if one of them supported it.
UpdateWin(w, now) ==
    LET k     == FirstLive(w, now)
        again == \E i \in 1..(k - 1) : ~Beats(w.is_min, w.tail, w.val[i].v)
    IN  [w EXCEPT !.val  = SubSeq(w.val, k, Len(w.val)),
                  !.tail = IF again THEN w.val[k].v ELSE @]

\* Mutant: make_pair(v, ts).
WinAdd_SwappedPair(w, v, ts) ==
    LET pushed == [w EXCEPT
                     !.val  = Append(SubSeq(w.val, 1, Kept(w, v)), [ts |-> v, v |-> ts]),
                     !.tail = IF Beats(w.is_min, v, w.tail) THEN v ELSE w.tail]
    IN  UpdateWin(pushed, ts)

WinAdd(w, v, ts) ==
    LET pushed == [w EXCEPT
                     !.val  = Append(SubSeq(w.val, 1, Kept(w, v)), [ts |-> ts, v |-> v]),
                     !.tail = IF Beats(w.is_min, v, w.tail) THEN v ELSE w.tail]
    IN  UpdateWin(pushed, ts)

-----------------------------------------------------------------------------
(* class rtt_win.  The member srtt, a moving average, only sizes three of   *)
(* the windows; the caller passes it as any number of milliseconds that     *)
(* lies between the smallest and the largest sample.                        *)

RttWinNew ==
    [curr_rtt   |-> 0,
     min_rtt    |-> WinNew(TRUE),
     virgin_rtt |-> WinNew(TRUE),
     eyenet_min |-> WinNew(TRUE),
     eyenet_max |-> WinNew(FALSE)]

\* rtt_win::clear leaves curr_rtt as it was.
RttWinClear(r) == [RttWinNew EXCEPT !.curr_rtt = r.curr_rtt]

\* Mutant: the lengths of the long and the short window are swapped.
RttWinAdd_SwappedSizes(r, v, ts, srtt) ==
    LET sz == LargerOf(MinSz, SzMult * r.min_rtt.tail)
    IN  [curr_rtt   |-> v,
         min_rtt    |-> WinAdd(UpdateSz(r.min_rtt, SmallerOf(sz, srtt \div 2)), v, ts),
         virgin_rtt |-> WinAdd(UpdateSz(r.virgin_rtt, sz), v, ts),
         eyenet_min |-> WinAdd(UpdateSz(r.eyenet_min, SmallerOf(sz, 4 * srtt)), v, ts),
         eyenet_max |-> WinAdd(UpdateSz(r.eyenet_max, SmallerOf(sz, 4 * srtt)), v, ts)]

RttWinAdd(r, v, ts, srtt) ==
    LET sz == LargerOf(MinSz, SzMult * r.min_rtt.tail)
    IN  [curr_rtt   |-> v,
         min_rtt    |-> WinAdd(UpdateSz(r.min_rtt, sz), v, ts),
         virgin_rtt |-> WinAdd(UpdateSz(r.virgin_rtt, SmallerOf(sz, srtt \div 2)), v, ts),
         eyenet_min |-> WinAdd(UpdateSz(r.eyenet_min, SmallerOf(sz, 4 * srtt)), v, ts),
         eyenet_max |-> WinAdd(UpdateSz(r.eyenet_max, SmallerOf(sz, 4 * srtt)), v, ts)]

\* TRUE: behave as the delay-based default; FALSE: the loss-based mode.  The
\* comparison with min + 0.1 * (max - min) is scaled by ten.
ModeEyenet(r) ==
    10 * r.eyenet_min.tail
        < 10 * r.min_rtt.tail + (r.eyenet_max.tail - r.min_rtt.tail)
=============================================================================
