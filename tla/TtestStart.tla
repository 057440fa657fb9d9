----------------------------- MODULE TtestStart -----------------------------
(***************************************************************************)
(* How ttest brings its worker threads up, alike in start_client and in    *)
(* start_server: the main thread creates the workers one at a time, passes *)
(* each the address of its loop counter, and waits for the worker's status *)
(* before it moves the counter on; then it lets all of them go with `cmd`. *)
(* The client alone also stops and joins them.                             *)
(***************************************************************************)
EXTENDS Integers

CONSTANT NThreads       \* -P: worker threads

ASSUME StartConstants == NThreads \in Nat \ {0}

VARIABLES
    mpc,        \* where the main thread is
    i,          \* its loop counter, which the new thread reads through a pointer
    cmd,        \* 0 wait, 1 run, 2 stop
    wpc,        \* where each thread is
    slot,       \* the entry of workers[] each thread took, -1 before
    wstatus     \* workers[].wstatus: 0, 1 ready, 2 or 3 failed, 100 ended

startVars == <<mpc, i, cmd, wpc, slot, wstatus>>

Threads == 0..(NThreads - 1)

StartInit ==
    /\ mpc = "create" /\ i = 0 /\ cmd = 0
    /\ wpc = [t \in Threads |-> "none"]
    /\ slot = [t \in Threads |-> -1]
    /\ wstatus = [t \in Threads |-> 0]

-----------------------------------------------------------------------------
(* The main thread *)

\* pthread_create for worker i; or it fails and start_client returns.
Create ==
    /\ mpc = "create" /\ i < NThreads
    /\ \/ mpc' = "await" /\ wpc' = [wpc EXCEPT ![i] = "born"]
       \/ mpc' = "failed" /\ UNCHANGED wpc
    /\ UNCHANGED <<i, cmd, slot, wstatus>>

\* Mutant: the next worker is created without waiting for this one.
Up_Unchecked == TRUE

Up == wstatus[i] = 1

WorkerUp ==
    /\ mpc = "await" /\ Up
    /\ mpc' = "create" /\ i' = i + 1
    /\ UNCHANGED <<cmd, wpc, slot, wstatus>>

WorkerDown ==
    /\ mpc = "await" /\ wstatus[i] # 0 /\ ~Up
    /\ mpc' = "failed"
    /\ UNCHANGED <<i, cmd, wpc, slot, wstatus>>

\* Mutant: the workers are let go before the last one is up.
AllCreated_Early == i >= NThreads - 1

AllCreated == i = NThreads

Release ==
    /\ mpc = "create" /\ AllCreated
    /\ mpc' = "running" /\ cmd' = 1
    /\ UNCHANGED <<i, wpc, slot, wstatus>>

Stop ==
    /\ mpc = "running"
    /\ mpc' = "stopping" /\ cmd' = 2
    /\ UNCHANGED <<i, wpc, slot, wstatus>>

\* pthread_join on every worker.
Join ==
    /\ mpc = "stopping" /\ \A t \in Threads : wpc[t] = "ended"
    /\ mpc' = "done"
    /\ UNCHANGED <<i, cmd, wpc, slot, wstatus>>

-----------------------------------------------------------------------------
(* A worker thread *)

ReadArg(t) ==
    /\ wpc[t] = "born"
    /\ slot' = [slot EXCEPT ![t] = i]
    /\ wpc' = [wpc EXCEPT ![t] = "setup"]
    /\ UNCHANGED <<mpc, i, cmd, wstatus>>

\* The socket (and the packet) of the worker: ready, or one of them failed.
SetUp(t) ==
    /\ wpc[t] = "setup"
    /\ \/ /\ wpc' = [wpc EXCEPT ![t] = "ready"]
          /\ wstatus' = [wstatus EXCEPT ![slot[t]] = 1]
       \/ /\ wpc' = [wpc EXCEPT ![t] = "returned"]
          /\ \E st \in {2, 3} : wstatus' = [wstatus EXCEPT ![slot[t]] = st]
    /\ UNCHANGED <<mpc, i, cmd, slot>>

\* A poll of cmd, every 100 us, finds 1 while it is 1.
SeesGo(t) ==
    /\ wpc[t] = "ready" /\ cmd = 1
    /\ wpc' = [wpc EXCEPT ![t] = "loop"]
    /\ UNCHANGED <<mpc, i, cmd, slot, wstatus>>

\* Mutant: the loop goes on until cmd is reset.
KeepGoing_Always == cmd # 0

\* The loop condition, read between two rounds of the loop.
KeepGoing == cmd = 1

SeesStop(t) ==
    /\ wpc[t] = "loop" /\ ~KeepGoing
    /\ wpc' = [wpc EXCEPT ![t] = "ended"]
    /\ wstatus' = [wstatus EXCEPT ![slot[t]] = 100]
    /\ UNCHANGED <<mpc, i, cmd, slot>>

StartNext ==
    \/ Create \/ WorkerUp \/ WorkerDown \/ Release \/ Stop \/ Join
    \/ \E t \in Threads : ReadArg(t) \/ SetUp(t) \/ SeesGo(t) \/ SeesStop(t)

StartSpec == StartInit /\ [][StartNext]_startVars

-----------------------------------------------------------------------------
(* Properties *)

StartTypeOK ==
    /\ mpc \in {"create", "await", "failed", "running", "stopping", "done"}
    /\ i \in 0..NThreads
    /\ cmd \in {0, 1, 2}
    /\ wpc \in [Threads -> {"none", "born", "setup", "ready", "loop", "ended",
                            "returned"}]
    /\ slot \in [Threads -> -1..(NThreads - 1)]
    /\ wstatus \in [Threads -> {0, 1, 2, 3, 100}]

\* The pointer handed to a new thread is to the counter that the main thread
\* goes on counting with.  Still no thread reads a later value, and no two
\* threads take the same entry of workers[].
OwnSlot == \A t \in Threads : slot[t] \in {-1, t}

\* Nobody starts before everybody can: by the time any worker is in its loop,
\* every worker has its socket and none has failed.
StartTogether ==
    \A t, u \in Threads :
        wpc[t] \in {"loop", "ended"} => wstatus[u] \in {1, 100}
=============================================================================
