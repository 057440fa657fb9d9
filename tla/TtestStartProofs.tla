-------------------------- MODULE TtestStartProofs --------------------------
(***************************************************************************)
(* The start-up handshake of ttest for any number of worker threads.       *)
(***************************************************************************)
EXTENDS TtestStart, TLAPS

\* A thread has read the counter iff it is past its first step, and its status
\* is in its own entry of workers[].
ThreadInv ==
    \A t \in Threads :
        /\ slot[t] = IF wpc[t] \in {"none", "born"} THEN -1 ELSE t
        /\ wpc[t] \in {"none", "born", "setup"} => wstatus[t] = 0
        /\ wpc[t] \in {"ready", "loop"} => wstatus[t] = 1
        /\ wpc[t] = "ended" => wstatus[t] = 100
        /\ wpc[t] = "returned" => wstatus[t] \in {2, 3}
        /\ wpc[t] \in {"loop", "ended"} => cmd # 0

\* The counter stands at the thread being created: before it all are up, after
\* it none exists, and that thread reads it only while the main thread waits.
CounterInv ==
    /\ \A t \in Threads :
        /\ t < i => wpc[t] \in {"ready", "loop", "ended"}
        /\ t > i => wpc[t] = "none"
        /\ t = i /\ mpc = "create" => wpc[t] = "none"
        /\ wpc[t] = "born" => mpc = "await"
    /\ mpc = "await" => i < NThreads
    /\ mpc \in {"running", "stopping", "done"} <=> cmd # 0
    /\ cmd # 0 => i = NThreads

StartInv == StartTypeOK /\ ThreadInv /\ CounterInv

LEMMA StartInvInit == StartInit => StartInv
  BY StartConstants
     DEF StartInit, StartInv, StartTypeOK, ThreadInv, CounterInv, Threads

LEMMA StartInvStep == StartInv /\ [StartNext]_startVars => StartInv'
<1> SUFFICES ASSUME StartInv, [StartNext]_startVars PROVE StartInv'
  OBVIOUS
<1> USE StartConstants
    DEF StartInv, StartTypeOK, ThreadInv, CounterInv, Threads
<1>1. CASE Create
  BY <1>1 DEF Create
<1>2. CASE WorkerUp
  BY <1>2 DEF WorkerUp, Up
<1>3. CASE WorkerDown
  BY <1>3 DEF WorkerDown, Up
<1>4. CASE Release
  BY <1>4 DEF Release, AllCreated
<1>5. CASE Stop \/ Join
  BY <1>5 DEF Stop, Join
<1>6. ASSUME NEW t \in Threads, ReadArg(t) PROVE StartInv'
  BY <1>6 DEF ReadArg
<1>7. ASSUME NEW t \in Threads, SetUp(t) PROVE StartInv'
  <2>1. slot[t] = t /\ wpc[t] = "setup"
    BY <1>7 DEF SetUp
  <2>2. CASE /\ wpc' = [wpc EXCEPT ![t] = "ready"]
             /\ wstatus' = [wstatus EXCEPT ![slot[t]] = 1]
    BY <1>7, <2>1, <2>2 DEF SetUp
  <2>3. CASE /\ wpc' = [wpc EXCEPT ![t] = "returned"]
             /\ \E st \in {2, 3} : wstatus' = [wstatus EXCEPT ![slot[t]] = st]
    BY <1>7, <2>1, <2>3 DEF SetUp
  <2> QED
    BY <1>7, <2>2, <2>3 DEF SetUp
<1>8. ASSUME NEW t \in Threads, SeesGo(t) PROVE StartInv'
  BY <1>8 DEF SeesGo
<1>9. ASSUME NEW t \in Threads, SeesStop(t) PROVE StartInv'
  <2>1. slot[t] = t /\ wpc[t] = "loop"
    BY <1>9 DEF SeesStop
  <2> QED
    BY <1>9, <2>1 DEF SeesStop
<1>10. CASE UNCHANGED startVars
  BY <1>10 DEF startVars
<1> QED
  BY <1>1, <1>2, <1>3, <1>4, <1>5, <1>6, <1>7, <1>8, <1>9, <1>10 DEF StartNext

LEMMA StartInvariant == StartSpec => []StartInv
  BY StartInvInit, StartInvStep, PTL DEF StartSpec

LEMMA StartInvImplies == StartInv => OwnSlot /\ StartTogether
<1> SUFFICES ASSUME StartInv PROVE OwnSlot /\ StartTogether
  OBVIOUS
<1> USE StartConstants DEF StartInv, ThreadInv
<1>1. OwnSlot
  BY DEF OwnSlot
<1>2. ASSUME NEW t \in Threads, NEW u \in Threads, wpc[t] \in {"loop", "ended"}
      PROVE  wstatus[u] \in {1, 100}
  <2>1. cmd # 0 /\ i = NThreads
    BY <1>2 DEF CounterInv
  <2>2. wpc[u] \in {"ready", "loop", "ended"}
    BY <2>1 DEF CounterInv, Threads
  <2> QED
    BY <2>2
<1> QED
  BY <1>1, <1>2 DEF StartTogether

\* The pointer to the loop counter is safe for any number of workers: each takes
\* the entry of workers[] that was meant for it.
THEOREM SlotsAreOwn == StartSpec => []OwnSlot
  BY StartInvariant, StartInvImplies, PTL

\* No worker of any number runs before all are up.
THEOREM AllStartTogether == StartSpec => []StartTogether
  BY StartInvariant, StartInvImplies, PTL
=============================================================================
