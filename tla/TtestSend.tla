----------------------------- MODULE TtestSend -----------------------------
(***************************************************************************)
(* The ttest client (ttsnd.c): the workers of TtestStart send bursts of    *)
(* packets paced against the clock, while the main thread sleeps, reports  *)
(* what each of them sent, and stops them when the duration is over.       *)
(*                                                                         *)
(* nbytes_tx is npkts_tx times the packet size and is left out.  Reports   *)
(* and workers share `stats` without a lock: a report reads it, and reads  *)
(* it again, in two steps.                                                 *)
(***************************************************************************)
EXTENDS TtestStart

CONSTANTS
    Burst, Ibg,         \* npkts_burst, and the gap between bursts in ticks
    Interval, Duration, \* -i and -t in ticks
    CpuMod,             \* n_cpus of tsnd_t is a uint8_t: 256
    SendErrors,         \* sendto may fail
    MaxLate,            \* bound on how late a thread comes to its next step
    MaxTime             \* bound on the clock, beyond the end of the program

ASSUME SendConstants ==
    /\ Burst \in Nat \ {0} /\ Ibg \in Nat \ {0}
    /\ Interval \in Nat \ {0} /\ Duration \in Nat \ {0}
    /\ CpuMod \in Nat \ {0} /\ SendErrors \in BOOLEAN /\ MaxLate \in Nat
    /\ MaxTime \in Nat

VARIABLES
    now,        \* the clock
    rpc,        \* where start_client is in its reporting loop
    start,      \* s, the time of the release
    due,        \* when the main thread's sleep ends
    ri,         \* loop counter of print_all_conn_stats
    snap,       \* its copy of stats
    lpc,        \* where each worker is in its loop
    t0,         \* s, when its round began
    k,          \* packets tried in this burst
    qouta,      \* packets of this burst
    seq,        \* packets sent
    npkts_tx,   \* stats.npkts_tx
    prev,       \* stats_prev.npkts_tx
    reported,   \* what the interval reports have said, in all
    final       \* what the final report said, -1 before

report == <<rpc, start, due, ri, snap, prev, reported, final>>
loop == <<lpc, t0, k, qouta, seq, npkts_tx>>
vars == <<startVars, now, report, loop>>

Zero == [t \in Threads |-> 0]

\* ttsnd->n_cpus = p->n_cpus, from 32 bits to 8.
n_cpus == NThreads % CpuMod

Init ==
    /\ StartInit
    /\ now = 0
    /\ rpc = "loop" /\ start = 0 /\ due = 0 /\ ri = 0 /\ snap = 0
    /\ lpc = [t \in Threads |-> "round"]
    /\ t0 = Zero /\ k = Zero /\ seq = Zero /\ npkts_tx = Zero
    /\ qouta = [t \in Threads |-> Burst]
    /\ prev = Zero /\ reported = Zero
    /\ final = [t \in Threads |-> -1]

-----------------------------------------------------------------------------
(* The main thread: release, sleep, report, stop *)

\* cmd = 1, and s is read: one step, as no worker reads s, so that what a worker
\* does between the two it can as well do after them.
MainRelease ==
    /\ Release
    /\ start' = now
    /\ UNCHANGED <<now, rpc, due, ri, snap, prev, reported, final, loop>>

\* while (delta < duration) usleep(...)
Sleep ==
    /\ mpc = "running" /\ rpc = "loop" /\ now - start < Duration
    /\ rpc' = "asleep" /\ due' = now + Interval
    /\ UNCHANGED <<startVars, now, start, ri, snap, prev, reported, final, loop>>

BeginReport ==
    /\ rpc = "asleep" /\ now >= due
    /\ rpc' = "read" /\ ri' = 0
    /\ UNCHANGED <<startVars, now, start, due, snap, prev, reported, final, loop>>

\* Mutant: the report takes the counter as it was at the last one.
ReadStats_Previous ==
    /\ rpc = "read" /\ ri < n_cpus
    /\ rpc' = "save" /\ snap' = prev[ri]
    /\ UNCHANGED <<startVars, now, start, due, ri, prev, reported, final, loop>>

\* now = w->stats.
ReadStats ==
    /\ rpc = "read" /\ ri < n_cpus
    /\ rpc' = "save" /\ snap' = npkts_tx[ri]
    /\ UNCHANGED <<startVars, now, start, due, ri, prev, reported, final, loop>>

\* Mutant: what an interval has reported is not remembered.
Remember_Nothing == prev[ri]

\* w->stats_prev = w->stats: the counter as it is by now.
Remember == npkts_tx[ri]

\* The line of one worker: the packets since the last report, or all of them.
PrintStats ==
    /\ rpc = "save"
    /\ IF cmd = 1
       THEN /\ reported' = [reported EXCEPT ![ri] = @ + (snap - prev[ri])]
            /\ UNCHANGED final
       ELSE /\ final' = [final EXCEPT ![ri] = snap]
            /\ UNCHANGED reported
    /\ prev' = [prev EXCEPT ![ri] = Remember]
    /\ rpc' = "read" /\ ri' = ri + 1
    /\ UNCHANGED <<startVars, now, start, due, snap, loop>>

EndReport ==
    /\ rpc = "read" /\ ri >= n_cpus
    /\ rpc' = IF cmd = 1 THEN "loop" ELSE "join"
    /\ UNCHANGED <<startVars, now, start, due, ri, snap, prev, reported, final, loop>>

\* The duration is over: stop, and begin the final report.
MainStop ==
    /\ rpc = "loop" /\ now - start >= Duration
    /\ Stop
    /\ rpc' = "read" /\ ri' = 0
    /\ UNCHANGED <<now, start, due, snap, prev, reported, final, loop>>

MainJoin ==
    /\ rpc = "join" /\ Join
    /\ UNCHANGED <<now, report, loop>>

Main ==
    \/ (Create \/ WorkerUp \/ WorkerDown) /\ UNCHANGED <<now, report, loop>>
    \/ MainRelease \/ Sleep \/ BeginReport \/ ReadStats \/ PrintStats
    \/ EndReport \/ MainStop \/ MainJoin

-----------------------------------------------------------------------------
(* snd_worker *)

\* One round: note the time and send a burst.
BeginRound(t) ==
    /\ wpc[t] = "loop" /\ lpc[t] = "round" /\ KeepGoing
    /\ lpc' = [lpc EXCEPT ![t] = "burst"]
    /\ t0' = [t0 EXCEPT ![t] = now]
    /\ k' = [k EXCEPT ![t] = 0]
    /\ UNCHANGED <<startVars, now, report, qouta, seq, npkts_tx>>

\* A packet that cannot be sent uses up its place in the burst.
SendPkt(t) ==
    /\ lpc[t] = "burst" /\ k[t] < qouta[t]
    /\ k' = [k EXCEPT ![t] = @ + 1]
    /\ \/ seq' = [seq EXCEPT ![t] = @ + 1]
       \/ SendErrors /\ UNCHANGED seq
    /\ UNCHANGED <<startVars, now, report, lpc, t0, qouta, npkts_tx>>

\* Mutant: the burst after a late one makes up for the time since the release.
CaughtUp_FromStart(delta) == (Burst * (now - start)) \div Ibg

\* The next burst after one that took delta, which is a gap or longer.
CaughtUp(delta) == (Burst * delta) \div Ibg

\* Account for the burst; a late one earns a larger one at once.
EndBurst(t) ==
    /\ lpc[t] = "burst" /\ k[t] = qouta[t]
    /\ npkts_tx' = [npkts_tx EXCEPT ![t] = seq[t]]
    /\ LET delta == now - t0[t] IN
       \/ /\ delta >= Ibg
          /\ qouta' = [qouta EXCEPT ![t] = CaughtUp(delta)]
          /\ lpc' = [lpc EXCEPT ![t] = "round"]
       \/ /\ delta < Ibg
          /\ qouta' = [qouta EXCEPT ![t] = Burst]
          /\ lpc' = [lpc EXCEPT ![t] = "wait"]
    /\ UNCHANGED <<startVars, now, report, t0, k, seq>>

\* wait_until(s + ibg), asleep or spinning.
WaitOver(t) ==
    /\ lpc[t] = "wait" /\ now >= t0[t] + Ibg
    /\ lpc' = [lpc EXCEPT ![t] = "round"]
    /\ UNCHANGED <<startVars, now, report, t0, k, qouta, seq, npkts_tx>>

Worker(t) ==
    \/ (ReadArg(t) \/ SetUp(t) \/ SeesGo(t)) /\ UNCHANGED <<now, report, loop>>
    \/ lpc[t] = "round" /\ SeesStop(t) /\ UNCHANGED <<now, report, loop>>
    \/ BeginRound(t) \/ SendPkt(t) \/ EndBurst(t) \/ WaitOver(t)

-----------------------------------------------------------------------------
(* The clock *)

\* Until when the main thread sleeps, or slept last; nothing is late at the join.
MainDue == IF rpc = "join" THEN now ELSE IF due >= start THEN due ELSE start

\* When the step a worker has to take next falls due.
WorkerDue(t) ==
    CASE wpc[t] = "ready"                    -> start
      [] wpc[t] = "loop" /\ lpc[t] = "burst" -> t0[t]
      [] wpc[t] = "loop" /\ lpc[t] # "burst" -> t0[t] + Ibg
      [] OTHER                               -> now

\* Time stands still before the release and once all workers have ended, where
\* nothing depends on it, and waits for a thread that is MaxLate behind.
Tick ==
    /\ mpc \in {"running", "stopping"} /\ now < MaxTime
    /\ \E t \in Threads : wpc[t] # "ended"
    /\ now < MainDue + MaxLate
    /\ \A t \in Threads : now < WorkerDue(t) + MaxLate
    /\ now' = now + 1
    /\ UNCHANGED <<startVars, report, loop>>

Next == Main \/ Tick \/ \E t \in Threads : Worker(t)

Spec == Init /\ [][Next]_vars

\* Threads run, and the clock does.
FairSpec ==
    /\ Spec
    /\ WF_vars(Main) /\ WF_vars(Tick)
    /\ \A t \in Threads : WF_vars(Worker(t))

-----------------------------------------------------------------------------
(* Properties *)

TypeOK ==
    /\ StartTypeOK
    /\ now \in Nat
    /\ rpc \in {"loop", "asleep", "read", "save", "join"}
    /\ start \in Nat /\ due \in Nat /\ ri \in 0..NThreads /\ snap \in Nat
    /\ lpc \in [Threads -> {"round", "burst", "wait"}]
    /\ t0 \in [Threads -> Nat] /\ k \in [Threads -> Nat]
    /\ qouta \in [Threads -> Nat] /\ seq \in [Threads -> Nat]
    /\ npkts_tx \in [Threads -> Nat] /\ prev \in [Threads -> Nat]
    /\ reported \in [Threads -> Int] /\ final \in [Threads -> Nat \cup {-1}]

\* Pacing of snd_worker, -b: however late its bursts are and however much each
\* late one makes up for, no worker is ever more than one burst ahead of
\* npkts_burst packets per ibg, counted from the release.
Paced == \A t \in Threads : seq[t] * Ibg <= Burst * (Ibg + (now - start))

\* print_all_conn_stats against the running workers: the interval reports never
\* claim a packet twice, nor one that was not sent.
ReportsAreTrue ==
    \A t \in Threads : reported[t] <= prev[t] /\ prev[t] <= npkts_tx[t]
                                              /\ npkts_tx[t] <= seq[t]

\* The final report is printed before the workers are joined, while they may
\* still be sending.  What it misses of a worker is no more than the one burst
\* that was under way at the stop: of a client that has ended, `k` packets.
FinalMissesOneBurst ==
    mpc = "done" => \A t \in Threads : seq[t] - final[t] \in 0..k[t]

\* -t: a client whose workers all came up ends, every worker joined.  It rests
\* on every worker seeing cmd = 1 before cmd is 2 (MaxLate < Duration).
ClientEnds == mpc = "running" ~> mpc = "done"

\* -P: the final report has a line for every worker, and [SUM] covers them all.
SumCoversWorkers == rpc = "join" => \A t \in Threads : final[t] >= 0
=============================================================================
