------------------------------- MODULE RttWin -------------------------------
(***************************************************************************)
(* One rtt_win object as the congestion controller uses it: eyenet::on_ack *)
(* adds a sample per acknowledgement, eyenet::initialize clears it.  The   *)
(* samples since the last clear are kept in the history variable `hist`,   *)
(* and `horizon` remembers, per window, the latest point in time before    *)
(* which update_win has thrown samples away; with both, a window can be    *)
(* compared with the extremum it is meant to be.                           *)
(***************************************************************************)
EXTENDS Win, FiniteSetsExt

CONSTANTS Rtts,        \* the round-trip times a sample can have
          MaxTime,     \* bound on the clock
          MaxSamples   \* bound on the samples between two clears

ASSUME RttWinConstants ==
    /\ Rtts \subseteq 1..(DoubleMax - 1)
    /\ MaxTime \in Nat /\ MaxSamples \in Nat

VARIABLES rtt,      \* the rtt_win object
          now,      \* time of the last sample
          hist,     \* history: the samples since the last clear
          horizon   \* history: per window, samples older than this are gone

vars == <<rtt, now, hist, horizon>>

Windows == {"min_rtt", "virgin_rtt", "eyenet_min", "eyenet_max"}

Init ==
    /\ rtt = RttWinNew
    /\ now = 0
    /\ hist = <<>>
    /\ horizon = [w \in Windows |-> 0]

Values(h) == {h[i].v : i \in DOMAIN h}

\* srtt is a weighted mean of the samples since the last clear.
Add(v, ts, srtt) ==
    /\ Len(hist) < MaxSamples
    /\ hist' = Append(hist, [ts |-> ts, v |-> v])
    /\ srtt \in Min(Values(hist'))..Max(Values(hist'))
    /\ rtt' = RttWinAdd(rtt, v, ts, srtt)
    /\ now' = ts
    /\ horizon' = [w \in Windows |-> LargerOf(horizon[w], ts - rtt'[w].sz)]

Clear ==
    /\ hist # <<>>
    /\ rtt' = RttWinClear(rtt)
    /\ hist' = <<>>
    /\ horizon' = [w \in Windows |-> 0]
    /\ UNCHANGED now

Next ==
    \/ \E v \in Rtts, ts \in now..MaxTime, srtt \in Min(Rtts)..Max(Rtts) :
            Add(v, ts, srtt)
    \/ Clear

Spec == Init /\ [][Next]_vars

-----------------------------------------------------------------------------

SampleType == [ts : 0..MaxTime, v : Rtts]

\* Type invariant: four windows over samples, a clock and their history.
TypeOK ==
    /\ now \in 0..MaxTime
    /\ hist \in Seq(SampleType)
    /\ horizon \in [Windows -> 0..MaxTime]
    /\ \A w \in Windows :
          /\ rtt[w].val \in Seq(SampleType)
          /\ rtt[w].tail \in Rtts \cup {DoubleMax, DoubleMin}
          /\ rtt[w].sz \in Nat

\* What a window is for: the extremum of the samples that are not too old.
Recent(w) == {hist[i].v : i \in {j \in DOMAIN hist : hist[j].ts >= horizon[w]}}

Extremum(w) == IF rtt[w].is_min THEN Min(Recent(w)) ELSE Max(Recent(w))

\* The value a window reports (win::operator double) is exactly the extremum of
\* the samples it has not expired, although the deque drops dominated samples
\* early, the window length changes between two samples, and `tail` is only
\* touched when update_win believes an expired sample supported it.
ExactExtremum ==
    hist # <<>> => \A w \in Windows : rtt[w].tail = Extremum(w)

\* Comparisons between windows of different lengths make sense, whatever their
\* lengths do.  eyenet::on_ack ends the process when the instantaneous RTT is
\* smaller than the minimum: it never is.  rtt_win::mode_eyenet decides by a
\* minimum and a maximum of the same stretch of time: they are never the wrong
\* way round, and that minimum is not below the long-term one.
WindowsOrdered ==
    /\ rtt.min_rtt.tail <= rtt.virgin_rtt.tail
    /\ hist # <<>> => /\ rtt.min_rtt.tail <= rtt.eyenet_min.tail
                      /\ rtt.eyenet_min.tail <= rtt.eyenet_max.tail
=============================================================================
