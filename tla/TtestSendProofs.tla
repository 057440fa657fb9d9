-------------------------- MODULE TtestSendProofs --------------------------
(***************************************************************************)
(* Theorems about the ttest client for any number of workers, any rate,    *)
(* any duration and any scheduling of its threads.                         *)
(***************************************************************************)
EXTENDS TtestSend, TtestStartProofs, TtestArgs

-----------------------------------------------------------------------------
(* Arithmetic of the pacing *)

LEMMA DivLower ==
    ASSUME NEW x \in Nat, NEW n \in Nat \ {0}
    PROVE  x \div n \in Nat /\ (x \div n) * n <= x
  BY SMTT(30)

LEMMA TimesNat ==
    ASSUME NEW a \in Nat, NEW b \in Nat
    PROVE  a * b \in Nat
  BY SMT

LEMMA Distribute ==
    ASSUME NEW a \in Int, NEW b \in Int, NEW m \in Int
    PROVE  m * (a + b) = (m * a) + (m * b) /\ (a + b) * m = (a * m) + (b * m)
  BY SMT

\* Letting time pass only widens the allowance.
LEMMA LaterIsMore ==
    ASSUME NEW m \in Nat, NEW a \in Int, NEW b \in Int, a <= b
    PROVE  m * a <= m * b
<1>1. PICK d \in Nat : b = a + d
  BY b - a \in Nat, b = a + (b - a)
<1>2. m * d \in Nat
  BY <1>1, TimesNat
<1>3. m * a \in Int /\ m * b = (m * a) + (m * d)
  BY <1>1, Distribute
<1> QED
  BY <1>2, <1>3

\* A late burst and the one that makes up for it stay within the allowance at
\* the end of the late one.
LEMMA LateBurst ==
    ASSUME NEW B \in Nat, NEW I \in Nat \ {0}, NEW s \in Nat, NEW st \in Nat,
           NEW r \in Nat, NEW n \in Nat, r <= n,
           s * I <= B * (I + (r - st))
    PROVE  (s + ((B * (n - r)) \div I)) * I <= B * (I + (n - st))
<1> DEFINE q == (B * (n - r)) \div I
<1>1. B * (n - r) \in Nat
  BY TimesNat
<1>2. q \in Nat /\ q * I <= B * (n - r)
  BY <1>1, DivLower
<1>3. (s + q) * I = (s * I) + (q * I) /\ s * I \in Int /\ q * I \in Int
  BY <1>2, Distribute
<1>4. B * (I + (n - st)) = (B * (I + (r - st))) + (B * (n - r))
  <2>1. I + (n - st) = (I + (r - st)) + (n - r)
    OBVIOUS
  <2> QED
    BY <2>1, Distribute
<1>5. B * (I + (r - st)) \in Int /\ B * (n - r) \in Int
  BY <1>1
<1> HIDE DEF q
<1>6. (s + q) * I <= B * (I + (n - st))
  BY <1>2, <1>3, <1>4, <1>5
<1> QED
  BY <1>6 DEF q

\* A burst on time, and the next one a gap later.
LEMMA TimelyBurst ==
    ASSUME NEW B \in Nat, NEW I \in Nat \ {0}, NEW s \in Nat, NEW st \in Nat,
           NEW r \in Nat, s * I <= B * (I + (r - st))
    PROVE  (s + B) * I <= B * (I + ((r + I) - st))
<1>1. (s + B) * I = (s * I) + (B * I)
  BY Distribute
<1>2. B * (I + ((r + I) - st)) = (B * (I + (r - st))) + (B * I)
  <2>1. I + ((r + I) - st) = (I + (r - st)) + I
    OBVIOUS
  <2> QED
    BY <2>1, Distribute
<1>3. s * I \in Int /\ B * I \in Int /\ B * (I + (r - st)) \in Int
  OBVIOUS
<1> QED
  BY <1>1, <1>2, <1>3

-----------------------------------------------------------------------------
(* The client starts its workers as TtestStart says *)

LEMMA StepStarts == [Next]_vars => [StartNext]_startVars
<1> SUFFICES ASSUME [Next]_vars PROVE StartNext \/ UNCHANGED startVars
  OBVIOUS
<1> USE DEF StartNext, startVars
<1>1. CASE Main
  BY <1>1 DEF Main, MainRelease, Sleep, BeginReport, ReadStats, PrintStats,
              EndReport, MainStop, MainJoin
<1>2. ASSUME NEW t \in Threads, Worker(t) PROVE StartNext \/ UNCHANGED startVars
  BY <1>2 DEF Worker, BeginRound, SendPkt, EndBurst, WaitOver
<1>3. CASE Tick \/ UNCHANGED vars
  BY <1>3 DEF Tick, vars
<1> QED
  BY <1>1, <1>2, <1>3 DEF Next

LEMMA ClientStarts == Spec => StartSpec
<1>1. Init => StartInit
  BY DEF Init
<1> QED
  BY <1>1, StepStarts, PTL DEF Spec, StartSpec

\* The same for the whole client: its workers have a slot each and start
\* together, whatever else goes on.
THEOREM ClientSlots == Spec => []OwnSlot /\ []StartTogether
  BY ClientStarts, SlotsAreOwn, AllStartTogether, PTL

-----------------------------------------------------------------------------
(* Types *)

LEMMA CpusBound == n_cpus \in 0..NThreads
<1>1. ASSUME NEW n \in Nat, NEW m \in Nat \ {0} PROVE n % m \in 0..n
  BY <1>1, SMTT(30)
<1> QED
  BY <1>1, StartConstants, SendConstants DEF n_cpus

TypeInv ==
    /\ TypeOK
    /\ start <= now
    /\ \A t \in Threads : t0[t] <= now
    /\ rpc = "save" => ri < n_cpus

LEMMA TypeInvInit == Init => TypeInv
  BY StartInvInit, StartConstants, SendConstants
     DEF Init, TypeInv, TypeOK, Zero, StartInv, Threads

LEMMA TypeInvStep == TypeInv /\ StartInv /\ StartInv' /\ [Next]_vars => TypeInv'
<1> SUFFICES ASSUME TypeInv, StartInv, StartInv', [Next]_vars PROVE TypeInv'
  OBVIOUS
<1>0. StartTypeOK /\ StartTypeOK'
  BY DEF StartInv
<1> USE <1>0, SendConstants, StartConstants, CpusBound DEF TypeInv, TypeOK, report, loop
<1>1. CASE Main
  <2>1. CASE (Create \/ WorkerUp \/ WorkerDown) /\ UNCHANGED <<now, report, loop>>
    BY <2>1
  <2>2. CASE MainRelease
    BY <2>2 DEF MainRelease
  <2>3. CASE Sleep \/ BeginReport
    BY <2>3 DEF Sleep, BeginReport
  <2>4. CASE ReadStats
    <3>1. ri \in Threads
      BY <2>4 DEF ReadStats, Threads
    <3> QED
      BY <2>4, <3>1 DEF ReadStats
  <2>5. CASE PrintStats
    <3>1. ri \in Threads
      BY <2>5 DEF PrintStats, Threads
    <3>2. prev' \in [Threads -> Nat]
      BY <2>5, <3>1 DEF PrintStats, Remember
    <3>3. reported' \in [Threads -> Int] /\ final' \in [Threads -> Nat \cup {-1}]
      <4>1. snap - prev[ri] \in Int /\ reported[ri] \in Int
        BY <3>1
      <4> QED
        BY <2>5, <3>1, <4>1 DEF PrintStats
    <3>4. ri' \in 0..NThreads
      BY <2>5, <3>1 DEF PrintStats
    <3> QED
      BY <2>5, <3>2, <3>3, <3>4 DEF PrintStats
  <2>6. CASE EndReport
    BY <2>6 DEF EndReport
  <2>7. CASE MainStop
    BY <2>7 DEF MainStop
  <2>8. CASE MainJoin
    BY <2>8 DEF MainJoin
  <2> QED
    BY <1>1, <2>1, <2>2, <2>3, <2>4, <2>5, <2>6, <2>7, <2>8 DEF Main
<1>2. ASSUME NEW t \in Threads, Worker(t) PROVE TypeInv'
  <2>1. CASE UNCHANGED <<now, report, loop>>
    BY <2>1
  <2>2. CASE BeginRound(t)
    BY <2>2 DEF BeginRound
  <2>3. CASE SendPkt(t)
    BY <2>3 DEF SendPkt
  <2>4. CASE EndBurst(t)
    <3>1. CaughtUp(now - t0[t]) \in Nat
      BY TimesNat, DivLower DEF CaughtUp
    <3> QED
      BY <2>4, <3>1 DEF EndBurst
  <2>5. CASE WaitOver(t)
    BY <2>5 DEF WaitOver
  <2> QED
    BY <1>2, <2>1, <2>2, <2>3, <2>4, <2>5 DEF Worker
<1>3. CASE Tick \/ UNCHANGED vars
  BY <1>3 DEF Tick, vars
<1> QED
  BY <1>1, <1>2, <1>3 DEF Next

LEMMA TypeInvariant == Spec => [](TypeInv /\ StartInv)
<1>1. Init => TypeInv /\ StartInv
  BY TypeInvInit, StartInvInit DEF Init
<1>2. TypeInv /\ StartInv /\ [Next]_vars => (TypeInv /\ StartInv)'
  BY TypeInvStep, StartInvStep, StepStarts
<1> QED
  BY <1>1, <1>2, PTL DEF Spec

\* Every variable of the client keeps its type.
THEOREM TypeCorrect == Spec => []TypeOK
  BY TypeInvariant, PTL DEF TypeInv

-----------------------------------------------------------------------------
(* Pacing *)

\* Ibg times the packets a worker may have sent by time x.
Allowance(x) == Burst * (Ibg + (x - start))

\* In each place of the loop, the packets sent and those of the burst under way
\* or to come are within the allowance at the time that burst counts from.
PaceInv ==
    /\ cmd = 0 => \A t \in Threads : seq[t] = 0 /\ qouta[t] = Burst /\ lpc[t] = "round"
    /\ \A t \in Threads :
        /\ lpc[t] = "round" => (seq[t] + qouta[t]) * Ibg <= Allowance(now)
        /\ lpc[t] = "burst" => /\ k[t] <= qouta[t]
                               /\ (seq[t] + (qouta[t] - k[t])) * Ibg <= Allowance(t0[t])
        /\ lpc[t] = "wait" => qouta[t] = Burst /\ seq[t] * Ibg <= Allowance(t0[t])

\* start is set before anything has been sent, and the clock does not run back.
LEMMA AllowanceGrows ==
    ASSUME TypeInv, NEW x \in Nat, NEW y \in Nat, x <= y, NEW z \in Int, z <= Allowance(x)
    PROVE  z <= Allowance(y)
<1>1. Allowance(x) <= Allowance(y)
  BY SendConstants, LaterIsMore, Ibg + (x - start) <= Ibg + (y - start)
     DEF Allowance, TypeInv, TypeOK
<1>2. Allowance(x) \in Int /\ Allowance(y) \in Int
  BY SendConstants DEF Allowance, TypeInv, TypeOK
<1> QED
  BY <1>1, <1>2

LEMMA PaceInvInit == Init => PaceInv
<1> SUFFICES ASSUME Init PROVE PaceInv
  OBVIOUS
<1>1. (0 + Burst) * Ibg <= Burst * (Ibg + (0 - 0))
  BY SendConstants
<1> QED
  BY <1>1, SendConstants DEF Init, PaceInv, Zero, Allowance

\* Nothing but the release touches start, the time, the command or the loops.
LEMMA PaceInvMain ==
    ASSUME TypeInv, StartInv, PaceInv, Main
    PROVE  PaceInv'
<1>1. CASE MainRelease
  <2>1. /\ \A t \in Threads : seq'[t] = 0 /\ qouta'[t] = Burst /\ lpc'[t] = "round"
        /\ start' = now /\ now' = now /\ cmd' = 1
    BY <1>1 DEF MainRelease, Release, PaceInv, StartInv, CounterInv, StartTypeOK, loop
  <2>2. (0 + Burst) * Ibg <= Burst * (Ibg + (now - now))
    BY SendConstants DEF TypeInv, TypeOK
  <2>3. \A t \in Threads : (seq'[t] + qouta'[t]) * Ibg <= Allowance(now)'
    BY <2>1, <2>2 DEF Allowance
  <2> QED
    BY <2>1, <2>3 DEF PaceInv
<1>2. CASE ~MainRelease
  <2>1. UNCHANGED <<now, start, loop>> /\ (cmd' = 0 => cmd = 0)
    BY <1>2 DEF Main, report, startVars, Create, WorkerUp, WorkerDown, Sleep, BeginReport,
                ReadStats, PrintStats, EndReport, MainStop, Stop, MainJoin, Join
  <2> QED
    BY <2>1 DEF PaceInv, Allowance, loop
<1> QED
  BY <1>1, <1>2

\* A step of t leaves the allowances alone and the loops of the others.
LEMMA PaceInvOne ==
    ASSUME TypeInv, PaceInv, NEW t \in Threads,
           UNCHANGED <<now, start, cmd>>, cmd # 0,
           \A u \in Threads \ {t} :
               UNCHANGED <<lpc[u], t0[u], k[u], qouta[u], seq[u]>>,
           lpc'[t] = "round" => (seq'[t] + qouta'[t]) * Ibg <= Allowance(now),
           lpc'[t] = "burst" =>
               k'[t] <= qouta'[t]
                 /\ (seq'[t] + (qouta'[t] - k'[t])) * Ibg <= Allowance(t0'[t]),
           lpc'[t] = "wait" => qouta'[t] = Burst /\ seq'[t] * Ibg <= Allowance(t0'[t])
    PROVE  PaceInv'
  BY DEF PaceInv, Allowance

\* A worker is inside a round only between the release and its end.
LEMMA CmdRuns ==
    ASSUME PaceInv, NEW t \in Threads, lpc[t] # "round"
    PROVE  cmd # 0
  BY DEF PaceInv

LEMMA PaceInvWorker ==
    ASSUME TypeInv, StartInv, PaceInv, NEW t \in Threads, Worker(t)
    PROVE  PaceInv'
<1> USE SendConstants
<1>0. /\ seq[t] \in Nat /\ qouta[t] \in Nat /\ k[t] \in Nat /\ t0[t] \in Nat
      /\ now \in Nat /\ start \in Nat /\ start <= now /\ t0[t] <= now
  BY DEF TypeInv, TypeOK
<1>1. CASE BeginRound(t)
  <2>1. (seq[t] + (qouta[t] - 0)) * Ibg <= Allowance(now)
    BY <1>0, <1>1 DEF BeginRound, PaceInv
  <2>2. lpc'[t] = "burst" /\ k'[t] = 0 /\ t0'[t] = now /\ UNCHANGED <<seq, qouta>>
    BY <1>1 DEF BeginRound, TypeInv, TypeOK
  <2> QED
    BY <1>0, <1>1, <2>1, <2>2, PaceInvOne
       DEF BeginRound, KeepGoing, startVars, report, TypeInv, TypeOK
<1>2. CASE SendPkt(t)
  <2>1. k[t] < qouta[t] /\ (seq[t] + (qouta[t] - k[t])) * Ibg <= Allowance(t0[t])
    BY <1>2 DEF SendPkt, PaceInv
  <2>2. k'[t] = k[t] + 1 /\ UNCHANGED <<t0, qouta, lpc>> /\ lpc[t] = "burst"
    BY <1>2 DEF SendPkt, TypeInv, TypeOK
  <2>3. seq'[t] = seq[t] + 1 \/ seq'[t] = seq[t]
    BY <1>2 DEF SendPkt, TypeInv, TypeOK
  <2>4. CASE seq'[t] = seq[t] + 1
    <3>1. seq'[t] + (qouta[t] - k'[t]) = seq[t] + (qouta[t] - k[t])
      BY <1>0, <2>2, <2>4
    <3> QED
      BY <1>0, <1>2, <2>1, <2>2, <3>1, PaceInvOne, CmdRuns
         DEF SendPkt, startVars, report, TypeInv, TypeOK
  <2>5. CASE seq'[t] = seq[t]
    <3>1. (seq[t] + (qouta[t] - (k[t] + 1))) * Ibg <= (seq[t] + (qouta[t] - k[t])) * Ibg
      BY <1>0, LaterIsMore
    <3>2. Allowance(t0[t]) \in Int
      BY <1>0 DEF Allowance
    <3>3. (seq[t] + (qouta[t] - (k[t] + 1))) * Ibg <= Allowance(t0[t])
      BY <1>0, <2>1, <3>1, <3>2
    <3> QED
      BY <1>0, <1>2, <2>1, <2>2, <2>5, <3>3, PaceInvOne, CmdRuns
         DEF SendPkt, startVars, report, TypeInv, TypeOK
  <2> QED
    BY <2>3, <2>4, <2>5
<1>3. CASE EndBurst(t)
  <2>1. seq[t] * Ibg <= Allowance(t0[t]) /\ lpc[t] = "burst"
    <3>1. k[t] = qouta[t] /\ (seq[t] + (qouta[t] - k[t])) * Ibg <= Allowance(t0[t])
          /\ lpc[t] = "burst"
      BY <1>3 DEF EndBurst, PaceInv
    <3>2. seq[t] + (qouta[t] - k[t]) = seq[t]
      BY <1>0, <3>1
    <3> QED
      BY <3>1, <3>2
  <2>2. UNCHANGED <<seq, t0>>
    BY <1>3 DEF EndBurst
  <2>3. CASE qouta'[t] = CaughtUp(now - t0[t]) /\ lpc'[t] = "round"
    <3>1. (seq[t] + CaughtUp(now - t0[t])) * Ibg <= Allowance(now)
      BY <1>0, <2>1, LateBurst DEF Allowance, CaughtUp
    <3> QED
      BY <1>0, <1>3, <2>1, <2>2, <2>3, <3>1, PaceInvOne, CmdRuns
         DEF EndBurst, startVars, report, TypeInv, TypeOK
  <2>4. CASE qouta'[t] = Burst /\ lpc'[t] = "wait"
    BY <1>0, <1>3, <2>1, <2>2, <2>4, PaceInvOne, CmdRuns
       DEF EndBurst, startVars, report, TypeInv, TypeOK
  <2> QED
    BY <1>3, <2>3, <2>4 DEF EndBurst, TypeInv, TypeOK
<1>4. CASE WaitOver(t)
  <2>1. /\ lpc[t] = "wait" /\ t0[t] + Ibg <= now
        /\ qouta[t] = Burst /\ seq[t] * Ibg <= Allowance(t0[t])
    BY <1>0, <1>4 DEF WaitOver, PaceInv
  <2>2. (seq[t] + qouta[t]) * Ibg <= Allowance(now)
    <3>1. (seq[t] + Burst) * Ibg <= Allowance(t0[t] + Ibg)
      BY <1>0, <2>1, TimelyBurst DEF Allowance
    <3> QED
      BY <1>0, <2>1, <3>1, AllowanceGrows
  <2>3. lpc'[t] = "round" /\ UNCHANGED <<seq, qouta>>
    BY <1>4 DEF WaitOver, TypeInv, TypeOK
  <2> QED
    BY <1>0, <1>4, <2>1, <2>2, <2>3, PaceInvOne, CmdRuns
       DEF WaitOver, startVars, report, TypeInv, TypeOK
<1>5. CASE UNCHANGED <<now, report, loop>>
           /\ (ReadArg(t) \/ SetUp(t) \/ SeesGo(t) \/ SeesStop(t))
  BY <1>5 DEF PaceInv, Allowance, report, loop, ReadArg, SetUp, SeesGo, SeesStop
<1> QED
  BY <1>1, <1>2, <1>3, <1>4, <1>5 DEF Worker

LEMMA PaceInvTick == TypeInv /\ StartInv /\ PaceInv /\ Tick => PaceInv'
<1> SUFFICES ASSUME TypeInv, PaceInv, Tick PROVE PaceInv'
  OBVIOUS
<1>1. now \in Nat /\ now' = now + 1 /\ now + 1 \in Nat
      /\ UNCHANGED <<cmd, start, lpc, t0, k, qouta, seq>>
  BY DEF Tick, startVars, report, loop, TypeInv, TypeOK
<1>2. ASSUME NEW t \in Threads, lpc[t] = "round"
      PROVE  (seq[t] + qouta[t]) * Ibg <= Allowance(now + 1)
  <2>1. (seq[t] + qouta[t]) * Ibg <= Allowance(now)
        /\ (seq[t] + qouta[t]) * Ibg \in Int
    BY <1>2, SendConstants DEF PaceInv, TypeInv, TypeOK
  <2> QED
    BY <1>1, <2>1, AllowanceGrows
<1> QED
  BY <1>1, <1>2 DEF PaceInv, Allowance

LEMMA PaceInvariant == Spec => [](TypeInv /\ PaceInv)
<1>1. TypeInv /\ StartInv /\ PaceInv /\ [Next]_vars => PaceInv'
  <2>1. TypeInv /\ StartInv /\ PaceInv /\ UNCHANGED vars => PaceInv'
    BY DEF vars, startVars, report, loop, PaceInv, Allowance
  <2> QED
    BY <2>1, PaceInvMain, PaceInvWorker, PaceInvTick DEF Next
<1> QED
  BY <1>1, PaceInvInit, TypeInvariant, PTL DEF Spec

LEMMA PaceInvImplies == TypeInv /\ PaceInv => Paced
<1> SUFFICES ASSUME TypeInv, PaceInv, NEW t \in Threads
             PROVE  seq[t] * Ibg <= Allowance(now)
  BY DEF Paced, Allowance
<1> USE SendConstants
<1>0. /\ seq[t] \in Nat /\ qouta[t] \in Nat /\ k[t] \in Nat /\ t0[t] \in Nat
      /\ now \in Nat /\ start \in Nat /\ t0[t] <= now
      /\ Allowance(now) \in Int /\ Allowance(t0[t]) \in Int
  BY DEF TypeInv, TypeOK, Allowance
<1>1. CASE lpc[t] = "round"
  <2>1. seq[t] * Ibg <= (seq[t] + qouta[t]) * Ibg
    BY <1>0, LaterIsMore
  <2> QED
    BY <1>0, <1>1, <2>1 DEF PaceInv
<1>2. CASE lpc[t] = "burst"
  <2>1. k[t] <= qouta[t] /\ (seq[t] + (qouta[t] - k[t])) * Ibg <= Allowance(t0[t])
    BY <1>2 DEF PaceInv
  <2>2. seq[t] * Ibg <= (seq[t] + (qouta[t] - k[t])) * Ibg
    BY <1>0, <2>1, LaterIsMore
  <2>3. seq[t] * Ibg <= Allowance(t0[t])
    BY <1>0, <2>1, <2>2
  <2> QED
    BY <1>0, <2>3, AllowanceGrows
<1>3. CASE lpc[t] = "wait"
  BY <1>0, <1>3, AllowanceGrows DEF PaceInv
<1> QED
  BY <1>1, <1>2, <1>3 DEF TypeInv, TypeOK

\* The pacing law for every rate, number of workers, delay and burst size.
THEOREM KeepsThePace == Spec => []Paced
  BY PaceInvariant, PaceInvImplies, PTL

-----------------------------------------------------------------------------
(* Reports *)

ReportInv ==
    /\ ReportsAreTrue
    /\ rpc = "save" => snap <= npkts_tx[ri]

LEMMA ReportInvInit == Init => ReportInv
  BY DEF Init, ReportInv, ReportsAreTrue, Zero

LEMMA ReportInvStep == TypeInv /\ ReportInv /\ [Next]_vars => ReportInv'
<1> SUFFICES ASSUME TypeInv, ReportInv, [Next]_vars PROVE ReportInv'
  OBVIOUS
<1> USE DEF ReportInv, ReportsAreTrue, report, loop
<1>1. CASE Main
  <2>1. CASE ReadStats
    <3>1. ri \in Threads
      BY <2>1, StartConstants, CpusBound DEF ReadStats, Threads, TypeInv, TypeOK
    <3> QED
      BY <2>1, <3>1 DEF ReadStats, TypeInv, TypeOK
  <2>2. CASE PrintStats
    <3>1. ri \in Threads
      BY <2>2, StartConstants, CpusBound DEF PrintStats, Threads, TypeInv, TypeOK
    <3>2. /\ snap <= npkts_tx[ri] /\ reported[ri] <= prev[ri]
          /\ UNCHANGED <<npkts_tx, seq>> /\ rpc' = "read"
          /\ prev'[ri] = npkts_tx[ri]
          /\ reported'[ri] = reported[ri] + (snap - prev[ri]) \/ reported'[ri] = reported[ri]
      BY <2>2, <3>1 DEF PrintStats, Remember, TypeInv, TypeOK
    <3>3. \A u \in Threads \ {ri} : prev'[u] = prev[u] /\ reported'[u] = reported[u]
      BY <2>2 DEF PrintStats, TypeInv, TypeOK
    <3>4. /\ snap \in Nat /\ npkts_tx[ri] \in Nat /\ prev[ri] \in Nat
          /\ reported[ri] \in Int /\ prev[ri] <= npkts_tx[ri] /\ npkts_tx[ri] <= seq[ri]
      BY <3>1 DEF TypeInv, TypeOK
    <3>5. reported'[ri] <= prev'[ri]
      BY <3>2, <3>4
    <3> QED
      BY <3>1, <3>2, <3>3, <3>4, <3>5
  <2>3. CASE ~ReadStats /\ ~PrintStats
    <3>1. UNCHANGED <<reported, prev, npkts_tx, seq>> /\ rpc' \in {rpc, "asleep", "read", "loop", "join"}
          /\ (rpc = "save" => UNCHANGED <<snap, ri>>)
      BY <1>1, <2>3 DEF Main, MainRelease, Sleep, BeginReport, EndReport, MainStop, MainJoin
    <3> QED
      BY <3>1
  <2> QED
    BY <2>1, <2>2, <2>3
<1>2. ASSUME NEW t \in Threads, Worker(t) PROVE ReportInv'
  <2>1. CASE SendPkt(t)
    BY <2>1 DEF SendPkt, TypeInv, TypeOK
  <2>2. CASE EndBurst(t)
    BY <2>2, StartConstants, CpusBound DEF EndBurst, TypeInv, TypeOK
  <2>3. CASE UNCHANGED <<report, seq, npkts_tx>>
    BY <2>3
  <2> QED
    BY <1>2, <2>1, <2>2, <2>3 DEF Worker, BeginRound, WaitOver
<1>3. CASE Tick \/ UNCHANGED vars
  BY <1>3 DEF Tick, vars
<1> QED
  BY <1>1, <1>2, <1>3 DEF Next

\* However the reports interleave with the counting, they claim no packet twice.
THEOREM ReportsClaimNothingTwice == Spec => []ReportsAreTrue
<1>1. ReportInv => ReportsAreTrue
  BY DEF ReportInv
<1> QED
  BY <1>1, ReportInvInit, ReportInvStep, TypeInvariant, PTL DEF Spec
-----------------------------------------------------------------------------
(* The final report *)

\* x is what worker t had sent before some or all packets of its last burst.
Misses(t, x) == seq[t] - x \in 0..k[t]

\* The final report begins when the workers are told to stop, and from then on
\* a worker can only finish the burst it is in.
LastInv ==
    /\ cmd = 0 => rpc = "loop"
    /\ cmd # 2 => \A t \in Threads : final[t] = -1
    /\ cmd = 2 => rpc \in {"read", "save", "join"}
    /\ cmd = 2 /\ rpc # "join" => \A t \in Threads : t < ri => final[t] # -1
    /\ rpc = "join" => cmd = 2 /\ \A t \in Threads : final[t] # -1
    /\ mpc = "done" => rpc = "join"
    /\ \A t \in Threads : /\ Misses(t, npkts_tx[t])
                          /\ lpc[t] # "burst" => npkts_tx[t] = seq[t]
    /\ cmd = 2 /\ rpc = "save" => Misses(ri, snap)
    /\ cmd = 2 => \A t \in Threads : final[t] # -1 => Misses(t, final[t])

LEMMA LastInvInit == Init => LastInv
  BY SMT DEF Init, StartInit, LastInv, Misses, Zero

LEMMA LastInvMain ==
    ASSUME NThreads < CpuMod, TypeInv, StartInv, LastInv, Main
    PROVE  LastInv'
<1>0. n_cpus = NThreads
  <2>1. ASSUME NEW n \in Nat, NEW m \in Nat \ {0}, n < m PROVE n % m = n
    BY <2>1, SMTT(30)
  <2> QED
    BY <2>1, StartConstants, SendConstants DEF n_cpus
<1> USE <1>0, StartConstants DEF report, loop, startVars, Misses, Threads
<1>1. CASE (Create \/ WorkerUp \/ WorkerDown) /\ UNCHANGED <<now, report, loop>>
  <2>1. cmd' = cmd /\ mpc' # "done" /\ UNCHANGED <<report, loop>>
    BY <1>1 DEF Create, WorkerUp, WorkerDown
  <2> QED
    BY <2>1 DEF LastInv
<1>2. CASE MainRelease
  <2>1. cmd = 0 /\ cmd' = 1 /\ mpc' = "running" /\ rpc = "loop"
        /\ UNCHANGED <<rpc, ri, snap, final, loop>>
    BY <1>2 DEF MainRelease, Release, StartInv, CounterInv, LastInv
  <2> QED
    BY <2>1 DEF LastInv
<1>3. CASE Sleep \/ BeginReport
  <2>1. cmd # 0 /\ cmd' = cmd /\ mpc' = mpc /\ UNCHANGED <<final, loop>>
        /\ rpc \in {"loop", "asleep"} /\ rpc' \in {"asleep", "read"}
    BY <1>3 DEF Sleep, BeginReport, StartInv, CounterInv, LastInv
  <2>2. cmd # 2 /\ mpc # "done"
    BY <2>1 DEF LastInv
  <2> QED
    BY <2>1, <2>2 DEF LastInv
<1>4. CASE ReadStats
  <2>1. ri \in Threads /\ rpc = "read" /\ rpc' = "save" /\ snap' = npkts_tx[ri]
        /\ cmd' = cmd /\ mpc' = mpc /\ UNCHANGED <<ri, final, loop>>
    BY <1>4 DEF ReadStats, TypeInv, TypeOK
  <2>2. cmd # 0 /\ mpc # "done"
    BY <2>1 DEF LastInv
  <2> QED
    BY <2>1, <2>2 DEF LastInv
<1>5. CASE PrintStats
  <2>1. ri \in Threads /\ rpc = "save" /\ rpc' = "read" /\ ri' = ri + 1
        /\ cmd' = cmd /\ mpc' = mpc /\ UNCHANGED loop /\ cmd # 0 /\ cmd \in {0, 1, 2}
        /\ mpc # "done" /\ snap \in Nat
    BY <1>5 DEF PrintStats, TypeInv, TypeOK, StartTypeOK, LastInv
  <2>2. CASE cmd = 1
    <3>1. final' = final
      BY <1>5, <2>2 DEF PrintStats
    <3> QED
      BY <2>1, <2>2, <3>1 DEF LastInv
  <2>3. CASE cmd = 2
    <3> DEFINE said == [final EXCEPT ![ri] = snap]
    <3>0. final' = said
      <4>1. cmd # 1
        BY <2>3
      <4> HIDE DEF said
      <4>2. IF cmd = 1 THEN TRUE ELSE final' = said
        BY <1>5 DEF PrintStats, said
      <4> QED
        BY <4>1, <4>2
    <3>1. /\ final'[ri] = snap
          /\ \A t \in Threads \ {ri} : final'[t] = final[t]
      <4>1. final \in [Threads -> Nat \cup {-1}]
        BY DEF TypeInv, TypeOK
      <4> QED
        BY <2>1, <3>0, <4>1
    <3>2. ASSUME NEW t \in Threads, t < ri' PROVE final'[t] # -1
      <4>1. CASE t = ri
        BY <2>1, <3>1, <4>1
      <4>2. CASE t # ri
        <5>1. t < ri
          BY <2>1, <3>2, <4>2
        <5> QED
          BY <2>1, <2>3, <3>1, <4>2, <5>1 DEF LastInv
      <4> QED
        BY <4>1, <4>2
    <3>3. \A t \in Threads : final'[t] # -1 => Misses(t, final'[t])
      BY <2>1, <2>3, <3>1 DEF LastInv
    <3> QED
      BY <2>1, <2>3, <3>2, <3>3 DEF LastInv
  <2> QED
    BY <2>1, <2>2, <2>3
<1>6. CASE EndReport
  <2>1. rpc = "read" /\ ri >= NThreads /\ cmd' = cmd /\ mpc' = mpc
        /\ UNCHANGED <<ri, snap, final, loop>> /\ cmd # 0 /\ cmd \in {0, 1, 2}
        /\ mpc # "done"
        /\ rpc' = IF cmd = 1 THEN "loop" ELSE "join"
    BY <1>6 DEF EndReport, TypeInv, TypeOK, StartTypeOK, LastInv
  <2>2. CASE cmd = 1
    BY <2>1, <2>2 DEF LastInv
  <2>3. CASE cmd = 2
    <3>1. \A t \in Threads : t < ri /\ final[t] # -1
      BY <2>1, <2>3 DEF LastInv, TypeInv, TypeOK
    <3> QED
      BY <2>1, <2>3, <3>1 DEF LastInv
  <2> QED
    BY <2>1, <2>2, <2>3
<1>7. CASE MainStop
  <2>1. rpc = "loop" /\ rpc' = "read" /\ ri' = 0 /\ cmd' = 2 /\ mpc' = "stopping"
        /\ UNCHANGED <<snap, final, loop>>
    BY <1>7 DEF MainStop, Stop
  <2>2. cmd # 2
    BY <2>1 DEF LastInv
  <2> QED
    BY <2>1, <2>2 DEF LastInv
<1>8. CASE MainJoin
  <2>1. rpc = "join" /\ cmd' = cmd /\ mpc' = "done" /\ UNCHANGED <<report, loop>>
    BY <1>8 DEF MainJoin, Join
  <2> QED
    BY <2>1 DEF LastInv
<1> QED
  BY <1>1, <1>2, <1>3, <1>4, <1>5, <1>6, <1>7, <1>8 DEF Main

LEMMA LastInvWorker ==
    ASSUME TypeInv, LastInv, NEW t \in Threads, Worker(t)
    PROVE  LastInv'
<1> USE DEF report, loop, startVars, Misses
<1>0. seq[t] \in Nat /\ k[t] \in Nat /\ npkts_tx[t] \in Nat
      /\ \A u \in Threads : final[u] \in Nat \cup {-1}
      /\ snap \in Nat
  BY DEF TypeInv, TypeOK
<1>1. CASE UNCHANGED <<now, report, loop>>
           /\ (ReadArg(t) \/ SetUp(t) \/ SeesGo(t) \/ SeesStop(t))
  <2>1. UNCHANGED <<cmd, mpc, report, loop>>
    BY <1>1 DEF ReadArg, SetUp, SeesGo, SeesStop
  <2> QED
    BY <2>1 DEF LastInv
<1>2. CASE BeginRound(t)
  <2>1. /\ UNCHANGED <<cmd, mpc, rpc, ri, snap, final, seq, npkts_tx>> /\ cmd = 1
        /\ lpc[t] = "round" /\ lpc'[t] = "burst" /\ k'[t] = 0
        /\ \A u \in Threads \ {t} : lpc'[u] = lpc[u] /\ k'[u] = k[u]
    BY <1>2 DEF BeginRound, KeepGoing, TypeInv, TypeOK
  <2>2. seq[t] - npkts_tx[t] \in 0..0
    BY <1>0, <2>1 DEF LastInv
  <2> QED
    BY <2>1, <2>2 DEF LastInv
<1>3. CASE SendPkt(t)
  <2>1. /\ UNCHANGED <<cmd, mpc, rpc, ri, snap, final, npkts_tx, lpc>> /\ lpc[t] = "burst"
        /\ k'[t] = k[t] + 1 /\ seq'[t] \in {seq[t], seq[t] + 1}
        /\ \A u \in Threads \ {t} : seq'[u] = seq[u] /\ k'[u] = k[u]
    BY <1>3 DEF SendPkt, TypeInv, TypeOK
  <2>2. \A x \in Int : seq[t] - x \in 0..k[t] => seq'[t] - x \in 0..k'[t]
    BY <1>0, <2>1
  <2>3. cmd = 2 /\ rpc = "save" => seq'[ri] - snap \in 0..k'[ri]
    <3>1. CASE ri = t
      BY <1>0, <2>2, <3>1 DEF LastInv
    <3>2. CASE ri # t
      <4>1. rpc = "save" => ri \in Threads
        BY CpusBound, StartConstants DEF TypeInv, TypeOK, Threads
      <4> QED
        BY <2>1, <3>2, <4>1 DEF LastInv
    <3> QED
      BY <3>1, <3>2
  <2>4. ASSUME NEW u \in Threads, cmd = 2, final[u] # -1
        PROVE  seq'[u] - final[u] \in 0..k'[u]
    <3>1. seq[u] - final[u] \in 0..k[u]
      BY <2>4 DEF LastInv
    <3>2. CASE u = t
      BY <1>0, <2>2, <2>4, <3>1, <3>2
    <3>3. CASE u # t
      BY <2>1, <3>1, <3>3
    <3> QED
      BY <3>2, <3>3
  <2>5. ASSUME NEW u \in Threads
        PROVE  seq'[u] - npkts_tx[u] \in 0..k'[u]
    <3>1. seq[u] - npkts_tx[u] \in 0..k[u]
      BY DEF LastInv
    <3>2. CASE u = t
      BY <1>0, <2>2, <3>1, <3>2
    <3>3. CASE u # t
      BY <2>1, <3>1, <3>3
    <3> QED
      BY <3>2, <3>3
  <2>6. \A u \in Threads : lpc[u] # "burst" => npkts_tx[u] = seq'[u]
    BY <2>1 DEF LastInv
  <2> QED
    BY <2>1, <2>3, <2>4, <2>5, <2>6 DEF LastInv
<1>4. CASE EndBurst(t)
  <2>1. /\ UNCHANGED <<cmd, mpc, rpc, ri, snap, final, seq, k>>
        /\ npkts_tx'[t] = seq[t]
        /\ \A u \in Threads \ {t} : npkts_tx'[u] = npkts_tx[u] /\ lpc'[u] = lpc[u]
    BY <1>4 DEF EndBurst, TypeInv, TypeOK
  <2>2. seq[t] - seq[t] \in 0..k[t]
    BY <1>0
  <2> QED
    BY <2>1, <2>2 DEF LastInv
<1>5. CASE WaitOver(t)
  <2>1. /\ UNCHANGED <<cmd, mpc, rpc, ri, snap, final, seq, k, npkts_tx>>
        /\ lpc[t] = "wait" /\ lpc'[t] = "round"
        /\ \A u \in Threads \ {t} : lpc'[u] = lpc[u]
    BY <1>5 DEF WaitOver, TypeInv, TypeOK
  <2> QED
    BY <2>1 DEF LastInv
<1> QED
  BY <1>1, <1>2, <1>3, <1>4, <1>5 DEF Worker

\* print_all_conn_stats before the join: as long as the number of workers fits
\* into n_cpus, the final report covers every worker and misses of each at most
\* the packets of the burst that was under way when it was stopped.
THEOREM FinalReportMissesOneBurst ==
    ASSUME NThreads < CpuMod
    PROVE  Spec => []FinalMissesOneBurst
<1>1. TypeInv /\ StartInv /\ LastInv /\ [Next]_vars => LastInv'
  <2>1. LastInv /\ (Tick \/ UNCHANGED vars) => LastInv'
    BY DEF Tick, vars, startVars, report, loop, LastInv, Misses
  <2> QED
    BY <2>1, LastInvMain, LastInvWorker DEF Next
<1>2. LastInv => FinalMissesOneBurst
  BY DEF LastInv, Misses, FinalMissesOneBurst
<1> QED
  BY <1>1, <1>2, LastInvInit, TypeInvariant, PTL DEF Spec

-----------------------------------------------------------------------------
(* Who sees the release *)

\* A worker that polls cmd for a 1 has no one to tell it that it missed it.
NobodyLeftBehind ==
    cmd = 2 => \A t \in Threads : wpc[t] \in {"loop", "ended"}

\* The clock waits for the last worker that has not seen the release.
ReleaseInv ==
    /\ mpc = "running" => cmd = 1
    /\ cmd = 1 => \A t \in Threads : wpc[t] = "ready" => now <= start + MaxLate
    /\ NobodyLeftBehind

LEMMA ReleaseInvInit == Init => ReleaseInv
  BY DEF Init, StartInit, ReleaseInv, NobodyLeftBehind

LEMMA ReleaseInvStep ==
    ASSUME MaxLate < Duration, TypeInv, StartInv, StartInv', ReleaseInv, [Next]_vars
    PROVE  ReleaseInv'
<1>0. StartTypeOK /\ StartTypeOK' /\ CounterInv /\ CounterInv'
  BY DEF StartInv
<1>1. now \in Nat /\ start \in Nat
  BY DEF TypeInv, TypeOK
<1> USE <1>0, <1>1, SendConstants, StartConstants
<1> USE DEF ReleaseInv, NobodyLeftBehind, StartTypeOK
<1>2. CASE MainRelease
  BY <1>2 DEF MainRelease, Release
<1>3. CASE MainStop
  <2>1. cmd = 1 /\ i = NThreads /\ now > start + MaxLate
    BY <1>3 DEF MainStop, Stop, CounterInv
  <2>2. \A t \in Threads : wpc[t] \in {"ready", "loop", "ended"}
    BY <2>1 DEF CounterInv, Threads
  <2>3. \A t \in Threads : wpc[t] # "ready"
    BY <2>1
  <2> QED
    BY <1>3, <2>2, <2>3 DEF MainStop, Stop
<1>4. CASE Sleep \/ BeginReport \/ ReadStats \/ PrintStats \/ EndReport
  BY <1>4 DEF Sleep, BeginReport, ReadStats, PrintStats, EndReport, startVars
<1>5. CASE MainJoin
  BY <1>5 DEF MainJoin, Join, report
<1>6. CASE (Create \/ WorkerUp \/ WorkerDown) /\ UNCHANGED <<now, report, loop>>
  <2>1. cmd = 0 /\ cmd' = 0
    BY <1>6 DEF Create, WorkerUp, WorkerDown, CounterInv
  <2>2. mpc' # "running"
    BY <1>6 DEF Create, WorkerUp, WorkerDown
  <2> QED
    BY <2>1, <2>2
<1>7. ASSUME NEW t \in Threads, Worker(t) PROVE ReleaseInv'
  <2>1. CASE BeginRound(t) \/ SendPkt(t) \/ EndBurst(t) \/ WaitOver(t)
    BY <2>1 DEF BeginRound, SendPkt, EndBurst, WaitOver, startVars, report
  <2>2. CASE (ReadArg(t) \/ SetUp(t)) /\ UNCHANGED <<now, report, loop>>
    <3>1. cmd = 0 /\ cmd' = 0 /\ mpc' = mpc
      BY <2>2 DEF ReadArg, SetUp, CounterInv, Threads
    <3> QED
      BY <3>1
  <2>3. CASE SeesGo(t) /\ UNCHANGED <<now, report, loop>>
    BY <2>3 DEF SeesGo, report
  <2>4. CASE SeesStop(t) /\ UNCHANGED <<now, report, loop>>
    BY <2>4 DEF SeesStop, KeepGoing, report
  <2> QED
    BY <1>7, <2>1, <2>2, <2>3, <2>4 DEF Worker
<1>8. CASE Tick
  <2>1. \A t \in Threads : wpc[t] = "ready" => now < start + MaxLate
    BY <1>8 DEF Tick, WorkerDue
  <2> QED
    BY <1>8, <2>1 DEF Tick, startVars, report
<1>9. CASE UNCHANGED vars
  BY <1>9 DEF vars, startVars, report
<1> QED
  BY <1>2, <1>3, <1>4, <1>5, <1>6, <1>7, <1>8, <1>9 DEF Next, Main

\* -t: what the end of the client rests on.  With threads that are never as late
\* as the duration, every worker has seen the release by the time of the stop, so
\* none is left polling for a cmd = 1 that will not come back while the main
\* thread joins it.
THEOREM StopLeavesNobodyBehind ==
    ASSUME MaxLate < Duration
    PROVE  Spec => []NobodyLeftBehind
<1>1. Init => ReleaseInv
  BY ReleaseInvInit
<1>2. (TypeInv /\ StartInv) /\ (TypeInv /\ StartInv)' /\ ReleaseInv /\ [Next]_vars
      => ReleaseInv'
  BY ReleaseInvStep
<1>3. ReleaseInv => NobodyLeftBehind
  BY DEF ReleaseInv
<1> QED
  BY <1>1, <1>2, <1>3, TypeInvariant, PTL DEF Spec

-----------------------------------------------------------------------------
(* Where the constants of the client come from: TtestArgs, that is          *)
(* parse_args and calc_pkts_rate, for any numbers on the command line and   *)
(* any word length.                                                         *)

LEMMA Quotient ==
    ASSUME NEW a \in Nat, NEW b \in Nat \ {0}
    PROVE  /\ a \div b \in Nat /\ (a \div b) * b \in Nat
           /\ (a \div b) * b <= a /\ a < (a \div b) * b + b
  BY SMTT(30)

LEMMA Cancel ==
    ASSUME NEW a \in Int, NEW b \in Int, NEW n \in Nat \ {0}, a * n < b * n
    PROVE  a < b
<1> SUFFICES ASSUME b <= a PROVE FALSE
  OBVIOUS
<1>1. n * b <= n * a
  BY LaterIsMore
<1>2. n * b = b * n /\ n * a = a * n /\ a * n \in Int /\ b * n \in Int
  BY SMT
<1> QED
  BY <1>1, <1>2

\* r is the rate in kbit/s, l the length of a packet in bits, n what is sent of
\* them in a second, and b in the 50 ms of a burst.
LEMMA BurstPace ==
    ASSUME NEW r \in Nat, NEW l \in Nat \ {0}, NEW n \in Nat, NEW b \in Nat \ {0},
           n * l <= r * 1000, r * 1000 < n * l + l, b = (n * 50) \div 1000
    PROVE  r * 50 < 2 * (b * l) /\ b * l <= r * 50
<1>1. 20 * b <= n /\ n + 1 <= 20 * b + 20
  BY Quotient
<1>2. l * (20 * b) <= l * n /\ l * (n + 1) <= l * (20 * b + 20)
  BY <1>1, LaterIsMore
<1>3. /\ l * (20 * b) = 20 * (b * l) /\ l * n = n * l
      /\ l * (n + 1) = n * l + l /\ l * (20 * b + 20) = 20 * (b * l) + 20 * l
      /\ b * l \in Nat /\ n * l \in Nat
  BY SMT
<1>4. l <= b * l
  <2>1. l * 1 <= l * b
    BY LaterIsMore
  <2> QED
    BY <2>1
<1> QED
  BY <1>2, <1>3, <1>4

\* One packet at a time: g is the gap in milliseconds.
LEMMA SinglePace ==
    ASSUME NEW r \in Nat, NEW l \in Nat \ {0}, NEW n \in Nat \ {0}, NEW g \in Nat,
           n * l <= r * 1000, r * 1000 < n * l + l, (n * 50) \div 1000 = 0,
           g = 1000 \div n
    PROVE  /\ g > 0 /\ r * g < 2 * l
           /\ l <= r * g + ((r * g) \div 50)
<1> DEFINE t == r * g
           q == t \div 50
<1>1. n <= 19
  BY Quotient
<1>2. g * n <= 1000 /\ 1001 - n <= g * n /\ g * n \in Nat
  BY Quotient
<1>3. g > 0
  BY <1>1, <1>2
<1>4. t \in Nat /\ t * n = r * (g * n) /\ n * l \in Nat
  BY SMT
<1>5. r * (g * n) <= r * 1000 /\ r * 982 <= r * (g * n)
  BY <1>1, <1>2, LaterIsMore
<1>6. 50 * q <= t /\ t < 50 * q + 50 /\ q \in Nat
  BY <1>4, Quotient
<1> HIDE DEF t, q
<1>7. t < 2 * l
  <2>1. l <= n * l
    <3>1. l * 1 <= l * n
      BY LaterIsMore
    <3> QED
      BY <3>1
  <2>2. (2 * l) * n = 2 * (n * l) /\ t * n < (2 * l) * n
    BY <1>4, <1>5, <2>1
  <2> QED
    BY <1>4, <2>2, Cancel
<1>8. 982 * l <= 1000 * t
  <2>1. /\ (982 * l - 1) * n = 982 * (n * l) - n
        /\ (1000 * t) * n = 1000 * (t * n)
    BY <1>4
  <2>2. (982 * l - 1) * n < (1000 * t) * n
    BY <1>4, <1>5, <2>1
  <2>3. 982 * l - 1 < 1000 * t
    BY <1>4, <2>2, Cancel
  <2> QED
    BY <1>4, <2>3
<1>9. l <= t + q
  BY <1>4, <1>6, <1>8
<1> QED
  BY <1>3, <1>7, <1>9 DEF t, q

ModeRange == 0..2
LengthRange == 64..MaxLength
Positive == Nat \ {0}
RateRange == 100..MaxRate
CountRange == 1..MaxThreads

ParamType == [mode : ModeRange, pktsize : LengthRange, duration : Positive,
              interval : Positive, rate_kbps : RateRange, n_cpus : CountRange]

LEMMA LimitsAreNat ==
    /\ MaxRate \in Nat /\ MaxLength \in Nat /\ MaxThreads \in Nat
    /\ 10000 <= MaxRate /\ 64 <= MaxLength /\ MaxLength <= 1472 /\ 1 <= MaxThreads
  BY SMT DEF MaxRate, MaxLength, MaxThreads

LEMMA ParamFacts ==
    ASSUME p \in ParamType
    PROVE  /\ p.mode \in ModeRange /\ p.pktsize \in LengthRange
           /\ p.duration \in Positive /\ p.interval \in Positive
           /\ p.rate_kbps \in RateRange /\ p.n_cpus \in CountRange
  BY Zenon DEF ParamType

LEMMA ParamTaken ==
    ASSUME p \in ParamType
    PROVE  /\ \A v \in ModeRange : [p EXCEPT !["mode"] = v] \in ParamType
           /\ \A v \in LengthRange : [p EXCEPT !["pktsize"] = v] \in ParamType
           /\ \A v \in Positive : [p EXCEPT !["duration"] = v] \in ParamType
           /\ \A v \in Positive : [p EXCEPT !["interval"] = v] \in ParamType
           /\ \A v \in RateRange : [p EXCEPT !["rate_kbps"] = v] \in ParamType
           /\ \A v \in CountRange : [p EXCEPT !["n_cpus"] = v] \in ParamType
  BY Zenon DEF ParamType

Taken == /\ p' \in ParamType /\ stage' \in {"options", "refused"}
         /\ UNCHANGED <<ibg, np_ibg>>

LEMMA OptionType ==
    ASSUME p \in ParamType, Option
    PROVE  Taken
<1>1. /\ stage = "options" /\ Word \in Nat \ {0}
      /\ Rates \subseteq Nat /\ Counts \subseteq Nat /\ Lengths \subseteq Nat
      /\ Seconds \subseteq Nat
  BY ArgsConstants, SMT DEF Option
<1>2. ASSUME Refuse
      PROVE  Taken
  BY <1>2, SMT DEF Refuse, Taken
<1>3. ASSUME NEW f, NEW v, Take(f, v), [p EXCEPT ![f] = v] \in ParamType
      PROVE  Taken
  BY <1>1, <1>3, Zenon DEF Take, Taken
<1>4. ASSUME NEW m \in {1, 2}, ModeOption(m)
      PROVE  Taken
  <2>1. m \in ModeRange
    BY SMT DEF ModeRange
  <2>2. Refuse \/ Take("mode", m)
    BY <1>4, Zenon DEF ModeOption
  <2> QED
    BY <2>1, <2>2, <1>2, <1>3, ParamTaken, Zenon
<1>5. ASSUME NEW v \in Counts, ThreadsOption(v)
      PROVE  Taken
  <2>1. CASE v > MaxThreads
    BY <1>5, <1>2, <2>1, SMT DEF ThreadsOption
  <2>2. CASE ~(v > MaxThreads)
    <3>1. CountFor(v) \in CountRange
      BY <1>1, <2>2, LimitsAreNat, SMT DEF CountFor, CountRange
    <3>2. Take("n_cpus", CountFor(v))
      BY <1>5, <2>2, SMT DEF ThreadsOption
    <3> QED
      BY <3>1, <3>2, <1>3, ParamTaken, Zenon
  <2> QED
    BY <2>1, <2>2
<1>6. ASSUME NEW v \in Seconds, NEW f \in {"duration", "interval"}, SecondsOption(f, v)
      PROVE  Taken
  <2>1. CASE v = 0
    BY <1>6, <1>2, <2>1, SMT DEF SecondsOption
  <2>2. CASE v # 0
    <3>1. v \in Positive
      BY <1>1, <2>2, SMT DEF Positive
    <3>2. Take(f, v)
      BY <1>6, <2>2, SMT DEF SecondsOption
    <3> QED
      BY <3>1, <3>2, <1>3, ParamTaken, Zenon
  <2> QED
    BY <2>1, <2>2
<1>7. ASSUME NEW v \in Lengths, LengthOption(v)
      PROVE  Taken
  <2>1. CASE v < 64 \/ v > MaxLength
    BY <1>7, <1>2, <2>1, SMT DEF LengthOption
  <2>2. CASE ~(v < 64 \/ v > MaxLength)
    <3>1. v \in LengthRange
      BY <1>1, <2>2, LimitsAreNat, SMT DEF LengthRange
    <3>2. Take("pktsize", v)
      BY <1>7, <2>2, SMT DEF LengthOption
    <3> QED
      BY <3>1, <3>2, <1>3, ParamTaken, Zenon
  <2> QED
    BY <2>1, <2>2
<1>8. CASE \E m \in {1, 2} : ModeOption(m)
  BY <1>4, <1>8, Zenon
<1>9. CASE \E v \in Counts : ThreadsOption(v)
  BY <1>5, <1>9, Zenon
<1>10. CASE \E v \in Seconds : \/ SecondsOption("duration", v)
                                \/ SecondsOption("interval", v)
  BY <1>6, <1>10, Zenon
<1>11. CASE \E v \in Lengths : LengthOption(v)
  BY <1>7, <1>11, Zenon
<1>12. CASE \E v \in Rates, unit \in {0, 1, 1000} : RateOption(v, unit)
  <2>1. PICK v \in Rates, unit \in {0, 1, 1000} : RateOption(v, unit)
    BY <1>12, Zenon
  <2>2. IF unit \notin {1, 1000} \/ RateRefused((unit * v) % Word)
        THEN Refuse
        ELSE /\ p' = [p EXCEPT !.rate_kbps = (unit * v) % Word]
             /\ UNCHANGED <<stage, ibg, np_ibg>>
    BY <2>1 DEF RateOption
  <2>3. CASE unit \notin {1, 1000} \/ RateRefused((unit * v) % Word)
    BY <1>2, <2>2, <2>3, ZenonT(60)
  <2>4. CASE /\ ~RateRefused((unit * v) % Word)
             /\ p' = [p EXCEPT !.rate_kbps = (unit * v) % Word]
             /\ UNCHANGED <<stage, ibg, np_ibg>>
    <3>1. ~RateRefused((unit * v) % Word)
      BY <2>4, Zenon
    <3>2. (unit * v) % Word \in RateRange
      BY <1>1, <3>1, LimitsAreNat, SMT DEF RateRefused, RateRange
    <3> QED
      BY <1>1, <2>4, <3>2, ParamTaken, ZenonT(60) DEF Taken
  <2> QED
    BY <2>2, <2>3, <2>4, ZenonT(60)
<1>13. CASE \E v \in Ports : PortOption(v)
  <2>1. PICK v \in Ports : PortOption(v)
    BY <1>13, Zenon
  <2>2. CASE v = 0 \/ v > MaxPort
    BY <1>2, <2>1, <2>2, Zenon DEF PortOption
  <2>3. CASE ~(v = 0 \/ v > MaxPort)
    <3>1. UNCHANGED argsVars
      BY <2>1, <2>3, Zenon DEF PortOption
    <3> QED
      BY <1>1, <3>1, Zenon DEF Taken, argsVars
  <2> QED
    BY <2>2, <2>3, Zenon
<1> QED
  BY <1>8, <1>9, <1>10, <1>11, <1>12, <1>13, SMT DEF Option

\* What is sent in a second: at most what was asked for, a packet less at worst.
LEMMA SentInASecond ==
    ASSUME p \in ParamType
    PROVE  /\ p.rate_kbps \in Nat /\ p.pktsize * 8 \in Nat \ {0}
           /\ np_sec \in Nat \ {0}
           /\ np_sec * (p.pktsize * 8) <= p.rate_kbps * 1000
           /\ p.rate_kbps * 1000 < np_sec * (p.pktsize * 8) + p.pktsize * 8
<1> DEFINE r == p.rate_kbps
           s == p.pktsize
<1>1. r \in Nat /\ r >= 100
  BY ParamFacts, LimitsAreNat, SMT DEF RateRange
<1>2. s \in Nat /\ 64 <= s /\ s <= 1472
  BY ParamFacts, LimitsAreNat, SMT DEF LengthRange
<1> HIDE DEF r, s
<1> DEFINE a == r * 1000
           l == s * 8
           n == a \div l
<1>3. a \in Nat /\ l \in Nat \ {0} /\ a >= 100000 /\ l <= 11776
  BY <1>1, <1>2, SMT
<1> HIDE DEF a, l
<1>4. n \in Nat /\ n * l <= a /\ a < n * l + l
  BY <1>3, Quotient
<1>5. n # 0
  BY <1>3, <1>4, SMT
<1>6. /\ r = p.rate_kbps /\ a = p.rate_kbps * 1000 /\ l = p.pktsize * 8
      /\ n = np_sec
  BY Zenon DEF np_sec, a, l, r, s
<1>7. n \in Nat \ {0}
  BY <1>4, <1>5
<1> HIDE DEF n
<1> QED
  BY <1>1, <1>3, <1>4, <1>6, <1>7, SMT

\* Nothing is started that would divide by zero or send at another rate.
ArgsInv ==
    /\ p \in ParamType
    /\ stage \in {"options", "refused", "started"}
    /\ ibg \in Nat /\ np_ibg \in Nat
    /\ stage = "started" /\ p.mode = 1 =>
          /\ ibg > 0 /\ np_ibg > 0
          /\ 2 * (np_ibg * p.pktsize * 8) > p.rate_kbps * ibg
          /\ np_ibg * p.pktsize * 8 <= p.rate_kbps * ibg + ((p.rate_kbps * ibg) \div 50)

LEMMA StartPaces ==
    ASSUME ArgsInv, Start
    PROVE  ArgsInv'
<1>1. p \in ParamType /\ p' = p /\ ibg \in Nat /\ np_ibg \in Nat
  BY Zenon DEF ArgsInv, Start
<1> DEFINE r == p.rate_kbps
           s == p.pktsize
           n == np_sec
           l == s * 8
<1>2. /\ r \in Nat /\ l \in Nat \ {0} /\ n \in Nat \ {0}
      /\ n * l <= r * 1000 /\ r * 1000 < n * l + l
  BY <1>1, SentInASecond, ZenonT(60)
<1>3. s \in Nat
  BY <1>1, ParamFacts, LimitsAreNat, SMT DEF LengthRange
<1>4. p'.rate_kbps = r /\ p'.pktsize = s /\ p'.mode = p.mode
  BY <1>1, Zenon
<1>5. CASE p.mode = 0 /\ stage' = "refused" /\ UNCHANGED <<ibg, np_ibg>>
  BY <1>1, <1>5, SMT DEF ArgsInv
<1>6. CASE p.mode = 2 /\ stage' = "started" /\ UNCHANGED <<ibg, np_ibg>>
  BY <1>1, <1>4, <1>6, SMT DEF ArgsInv
<1>7. CASE /\ p.mode = 1 /\ DefaultBurst > 0
           /\ stage' = "started" /\ ibg' = 50 /\ np_ibg' = DefaultBurst
  <2> DEFINE b == DefaultBurst
  <2>1. b = (n * 50) \div 1000
    BY Zenon DEF DefaultBurst
  <2> HIDE DEF b, n, l, r
  <2>2. b \in Nat \ {0}
    <3>1. b \in Nat
      BY <1>2, <2>1, Quotient
    <3>2. b > 0
      BY <1>7, Zenon DEF b
    <3> QED
      BY <3>1, <3>2
  <2>3. r * 50 < 2 * (b * l) /\ b * l <= r * 50
    BY <1>2, <2>1, <2>2, BurstPace
  <2>4. b * s * 8 = b * l /\ r * 50 \in Nat /\ (r * 50) \div 50 \in Nat /\ b * l \in Nat
    BY <1>2, <1>3, <2>2, SMT DEF l
  <2>5. /\ 2 * (b * s * 8) > r * 50
        /\ b * s * 8 <= r * 50 + ((r * 50) \div 50)
    BY <2>3, <2>4, SMT
  <2>6. ibg' = 50 /\ np_ibg' = b /\ stage' = "started" /\ b > 0
    BY <1>7, Zenon DEF b
  <2> HIDE DEF s
  <2> QED
    BY <1>1, <1>4, <2>2, <2>5, <2>6 DEF ArgsInv
<1>8. CASE /\ p.mode = 1 /\ DefaultBurst = 0 /\ np_sec > 0
           /\ stage' = "started" /\ ibg' = Gap(np_sec) /\ np_ibg' = 1
  <2> DEFINE g == Gap(n)
  <2>1. g = 1000 \div n /\ (n * 50) \div 1000 = 0
    BY <1>8, ZenonT(60) DEF DefaultBurst, Gap
  <2>6. ibg' = g /\ np_ibg' = 1 /\ stage' = "started"
    BY <1>8, Zenon
  <2> HIDE DEF g, n, l, r
  <2>2. g \in Nat
    BY <1>2, <2>1, Quotient
  <2>3. /\ g > 0 /\ r * g < 2 * l
        /\ l <= r * g + ((r * g) \div 50)
    BY <1>2, <2>1, <2>2, SinglePace
  <2>4. 1 * s * 8 = l
    BY <1>3, SMT DEF l
  <2>5. /\ 2 * (1 * s * 8) > r * g
        /\ 1 * s * 8 <= r * g + ((r * g) \div 50)
    <3>1. 2 * l > r * g
      BY <1>2, <2>2, <2>3, SMT
    <3> QED
      BY <2>3, <2>4, <3>1, Zenon
  <2> HIDE DEF s
  <2> QED
    BY <1>1, <1>4, <2>2, <2>3, <2>5, <2>6 DEF ArgsInv
<1>9. ~(p.mode = 1 /\ np_sec = 0)
  BY <1>2
<1> QED
  BY <1>5, <1>6, <1>7, <1>8, <1>9, Zenon DEF Start

LEMMA ArgsInductive == ArgsSpec => []ArgsInv
<1>1. ArgsInit => ArgsInv
  <2> SUFFICES ASSUME ArgsInit PROVE ArgsInv
    OBVIOUS
  <2>1. 10000 \in RateRange
    <3>1. 10000 <= MaxRate
      BY SMT DEF MaxRate
    <3> QED
      BY <3>1, LimitsAreNat, SMT DEF RateRange
  <2>2. /\ 0 \in ModeRange /\ 1472 \in LengthRange /\ 5 \in Positive /\ 1 \in Positive
        /\ 1 \in CountRange
    BY LimitsAreNat, SMT DEF ModeRange, LengthRange, Positive, CountRange, MaxLength
  <2>3. p \in ParamType
    BY <2>1, <2>2, SMT DEF ParamType, ArgsInit
  <2>4. stage = "options" /\ ibg \in Nat /\ np_ibg \in Nat
    BY SMT DEF ArgsInit
  <2> QED
    BY <2>3, <2>4, Zenon DEF ArgsInv
<1>2. ArgsInv /\ [ArgsNext]_argsVars => ArgsInv'
  <2> SUFFICES ASSUME ArgsInv, [ArgsNext]_argsVars PROVE ArgsInv'
    OBVIOUS
  <2>1. CASE Option
    <3>1. p \in ParamType /\ ibg \in Nat /\ np_ibg \in Nat
      BY Zenon DEF ArgsInv
    <3>2. Taken
      BY <2>1, <3>1, OptionType, Zenon
    <3> QED
      BY <3>1, <3>2, Zenon DEF ArgsInv, Taken
  <2>2. CASE Start
    BY <2>2, StartPaces
  <2>3. CASE UNCHANGED argsVars
    BY <2>3, Zenon DEF ArgsInv, argsVars
  <2> QED
    BY <2>1, <2>2, <2>3 DEF ArgsNext
<1> QED
  BY <1>1, <1>2, PTL DEF ArgsSpec

\* parse_args keeps every parameter within its limits.
THEOREM ArgsTypeCorrect == ArgsSpec => []ArgsTypeOK
<1>1. ASSUME ArgsInv PROVE ArgsTypeOK
  <2>1. p \in ParamType
    BY <1>1, Zenon DEF ArgsInv
  <2>2. p \in [mode : 0..2, pktsize : 64..MaxLength, duration : Nat \ {0},
               interval : Nat \ {0}, rate_kbps : 100..MaxRate, n_cpus : 1..MaxThreads]
    BY <2>1, SMT DEF ParamType, ModeRange, LengthRange, Positive, RateRange, CountRange
  <2>3. ibg \in Nat /\ np_ibg \in Nat /\ stage \in {"options", "refused", "started"}
    BY <1>1, Zenon DEF ArgsInv
  <2>4. stage \in {"options", "refused", "started", "killed"}
    BY <2>3, Zenon
  <2> QED
    BY <2>2, <2>3, <2>4, SMT DEF ArgsTypeOK
<1> QED
  BY <1>1, ArgsInductive, PTL

\* No rate and length that parse_args accepts make calc_pkts_rate or the pacing
\* of snd_worker divide by zero.
THEOREM ArgsNeverDivideByZero == ArgsSpec => []NeverDividesByZero
<1>1. ArgsInv => NeverDividesByZero
  BY Zenon DEF ArgsInv, NeverDividesByZero
<1> QED
  BY <1>1, ArgsInductive, PTL

\* The burst and the gap of calc_pkts_rate amount to the rate asked for with -b,
\* to within one half below it and a fiftieth above, at every accepted rate.
THEOREM ArgsPacedNearTarget == ArgsSpec => []PacedNearTarget
<1>1. ArgsInv => PacedNearTarget
  BY Zenon DEF ArgsInv, PacedNearTarget, PacedKbits, TargetKbits
<1> QED
  BY <1>1, ArgsInductive, PTL

\* A client that parse_args lets start has what the modules of the client assume
\* of their constants: a thread at least, a burst and a gap, and seconds to run
\* and to report in.
THEOREM CommandLineGivesConstants ==
    ArgsSpec => [](stage = "started" =>
                     /\ p.n_cpus \in Nat \ {0} /\ p.interval \in Nat \ {0}
                     /\ p.duration \in Nat \ {0}
                     /\ p.mode = 1 => np_ibg \in Nat \ {0} /\ ibg \in Nat \ {0})
<1>1. ArgsInv => (stage = "started" =>
                     /\ p.n_cpus \in Nat \ {0} /\ p.interval \in Nat \ {0}
                     /\ p.duration \in Nat \ {0}
                     /\ p.mode = 1 => np_ibg \in Nat \ {0} /\ ibg \in Nat \ {0})
  <2> SUFFICES ASSUME ArgsInv, stage = "started"
               PROVE  /\ p.n_cpus \in Nat \ {0} /\ p.interval \in Nat \ {0}
                      /\ p.duration \in Nat \ {0}
                      /\ p.mode = 1 => np_ibg \in Nat \ {0} /\ ibg \in Nat \ {0}
    OBVIOUS
  <2>1. p \in ParamType
    BY Zenon DEF ArgsInv
  <2>2. p.n_cpus \in Nat \ {0}
    BY <2>1, ParamFacts, LimitsAreNat, SMT DEF CountRange
  <2>3. p.interval \in Nat \ {0} /\ p.duration \in Nat \ {0}
    BY <2>1, ParamFacts, Zenon DEF Positive
  <2>4. ibg \in Nat /\ np_ibg \in Nat /\ (p.mode = 1 => ibg > 0 /\ np_ibg > 0)
    BY Zenon DEF ArgsInv
  <2>5. p.mode = 1 => np_ibg \in Nat \ {0} /\ ibg \in Nat \ {0}
    BY <2>4, SMT
  <2> QED
    BY <2>2, <2>3, <2>5
<1> QED
  BY <1>1, ArgsInductive, PTL
=============================================================================
