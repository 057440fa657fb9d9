----------------------------- MODULE TtestRecv -----------------------------
(***************************************************************************)
(* The ttest server (ttrcv.c): every worker of TtestStart has a socket on  *)
(* the same address and counts the packets of each client it hears, in a   *)
(* table of its own.  A new connection is also put on a list shared with   *)
(* the main thread, under a reader-writer lock.  The counters themselves   *)
(* are shared without one.                                                 *)
(***************************************************************************)
EXTENDS TtestStart, Sequences, FiniteSets, FiniteSetsExt

CONSTANTS
    Clients,        \* source addresses: records of ip and port
    LocalAny,       \* -s 0.0.0.0
    MallocFails,    \* malloc may fail
    MaxPkts         \* bound on the datagrams of all clients

ASSUME RecvConstants ==
    /\ \A c \in Clients : DOMAIN c = {"ip", "port"}
    /\ LocalAny \in BOOLEAN /\ MallocFails \in BOOLEAN /\ MaxPkts \in Nat

VARIABLES
    route,      \* which of the first m sockets the kernel gives a client's datagrams
    queue,      \* datagrams waiting in each worker's socket
    nsent,      \* datagrams the clients have sent
    lpc,        \* where each worker is in its loop
    conn,       \* the connection it is registering, an index into heap
    heap,       \* every connection allocated
    hash,       \* each worker's table: indices into heap
    conns,      \* lhead_conn, the list of all: indices into heap
    n_conns, cid_seed,
    lock,       \* conn_lock: its writer, or FREE, or READ
    taken,      \* valid packets of each client that got a connection
    rpc, ri, snap   \* print_all_conn_stats: where it is, its place, its copy

network == <<route, queue, nsent>>
work == <<lpc, conn, heap, hash, conns, n_conns, cid_seed, taken>>
report == <<rpc, ri, snap>>
vars == <<startVars, network, work, lock, report>>

FREE == -1
READ == NThreads

Init ==
    /\ StartInit
    /\ route \in { r \in [Clients \X (1..NThreads) -> Threads] :
                     \A c \in Clients, m \in 1..NThreads : r[c, m] < m }
    /\ queue = [t \in Threads |-> <<>>]
    /\ nsent = 0
    /\ lpc = [t \in Threads |-> "recv"]
    /\ conn = [t \in Threads |-> 0]
    /\ heap = <<>> /\ hash = [t \in Threads |-> {}]
    /\ conns = <<>> /\ n_conns = 0 /\ cid_seed = 0
    /\ lock = FREE
    /\ taken = [c \in Clients |-> 0]
    /\ rpc = "lock" /\ ri = 1 /\ snap = 0

-----------------------------------------------------------------------------
(* The network: a socket joins the group of its port when it is bound, and *)
(* open_data_sockets binds it only to an address that is not 0.            *)

Bound == IF LocalAny THEN {} ELSE {t \in Threads : wpc[t] \in {"ready", "loop"}}

\* A client sends a datagram, which may be one that is not of ttest; without a
\* socket on the port it is lost.
Arrive(c) ==
    /\ nsent < MaxPkts
    /\ nsent' = nsent + 1
    /\ \/ /\ Bound # {}
          /\ \E sig \in BOOLEAN :
                queue' = [queue EXCEPT ![route[c, Cardinality(Bound)]] =
                            Append(@, [from |-> c, sig |-> sig])]
       \/ /\ Bound = {}
          /\ UNCHANGED queue
    /\ UNCHANGED <<startVars, route, work, lock, report>>

-----------------------------------------------------------------------------
(* rcv_worker *)

\* Mutant: the port of the client is not compared.
Matches_IpOnly(j, c) == heap[j].t.ip = c.ip

Matches(j, c) == heap[j].t = c

\* Take a datagram and count it in the connection of its sender, allocating
\* that first if this worker has none.  One that is not of ttest is dropped,
\* and so is one for which there is no memory.
Recv(t) ==
    /\ wpc[t] = "loop" /\ KeepGoing
    /\ lpc[t] = "recv" /\ queue[t] # <<>>
    /\ queue' = [queue EXCEPT ![t] = Tail(@)]
    /\ LET c == Head(queue[t]).from
           known == {j \in hash[t] : Matches(j, c)} IN
       \/ /\ ~Head(queue[t]).sig
          /\ UNCHANGED work
       \/ /\ Head(queue[t]).sig /\ known # {}
          /\ \E j \in known : heap' = [heap EXCEPT ![j].npkts_rx = @ + 1]
          /\ taken' = [taken EXCEPT ![c] = @ + 1]
          /\ UNCHANGED <<lpc, conn, hash, conns, n_conns, cid_seed>>
       \/ /\ Head(queue[t]).sig /\ known = {}
          /\ heap' = Append(heap, [t |-> c, wid |-> slot[t], cid |-> 0,
                                   npkts_rx |-> 0, prev |-> 0, reported |-> 0])
          /\ conn' = [conn EXCEPT ![t] = Len(heap')]
          /\ lpc' = [lpc EXCEPT ![t] = "lock"]
          /\ taken' = [taken EXCEPT ![c] = @ + 1]
          /\ UNCHANGED <<hash, conns, n_conns, cid_seed>>
       \/ /\ Head(queue[t]).sig /\ known = {} /\ MallocFails
          /\ UNCHANGED work
    /\ UNCHANGED <<startVars, route, nsent, lock, report>>

\* Mutant: the list is changed without the lock.
CanWrite_Always == TRUE

CanWrite == lock = FREE

WrLock(t) ==
    /\ lpc[t] = "lock" /\ CanWrite
    /\ lock' = t
    /\ lpc' = [lpc EXCEPT ![t] = "cid"]
    /\ UNCHANGED <<startVars, network, report, conn, heap, hash, conns, n_conns,
                   cid_seed, taken>>

TakeCid(t) ==
    /\ lpc[t] = "cid"
    /\ heap' = [heap EXCEPT ![conn[t]].cid = cid_seed]
    /\ cid_seed' = cid_seed + 1
    /\ lpc' = [lpc EXCEPT ![t] = "list"]
    /\ UNCHANGED <<startVars, network, lock, report, conn, hash, conns, n_conns, taken>>

ListAndUnlock(t) ==
    /\ lpc[t] = "list"
    /\ conns' = Append(conns, conn[t]) /\ n_conns' = n_conns + 1
    /\ lock' = FREE
    /\ lpc' = [lpc EXCEPT ![t] = "hash"]
    /\ UNCHANGED <<startVars, network, report, conn, heap, hash, cid_seed, taken>>

\* Mutant: the new connection displaces the others of the table.
Hashed_Replace(t) == {conn[t]}

Hashed(t) == hash[t] \cup {conn[t]}

\* The connection enters the worker's table, and its first packet is counted.
HashAndCount(t) ==
    /\ lpc[t] = "hash"
    /\ hash' = [hash EXCEPT ![t] = Hashed(t)]
    /\ heap' = [heap EXCEPT ![conn[t]].npkts_rx = @ + 1]
    /\ lpc' = [lpc EXCEPT ![t] = "recv"] /\ conn' = [conn EXCEPT ![t] = 0]
    /\ UNCHANGED <<startVars, network, lock, report, conns, n_conns, cid_seed, taken>>

Worker(t) ==
    \/ (ReadArg(t) \/ SetUp(t) \/ SeesGo(t)) /\ UNCHANGED <<network, work, lock, report>>
    \/ Recv(t) \/ TakeCid(t) \/ ListAndUnlock(t) \/ HashAndCount(t)

-----------------------------------------------------------------------------
(* The main thread: start, then report and sleep for ever *)

RdLock ==
    /\ mpc = "running" /\ rpc = "lock" /\ lock = FREE
    /\ lock' = READ
    /\ rpc' = "read"
    /\ UNCHANGED <<startVars, network, work, ri, snap>>

\* now = conn->stats.
ReadStats ==
    /\ rpc = "read" /\ ri <= Len(conns)
    /\ snap' = heap[conns[ri]].npkts_rx
    /\ rpc' = "save"
    /\ UNCHANGED <<startVars, network, work, lock, ri>>

\* Mutant: what an interval has reported is not remembered.
Remember_Nothing(cn) == cn.prev

\* conn->stats_prev = conn->stats: the counter as it is by now.
Remember(cn) == cn.npkts_rx

\* What has come since the last report is said, and remembered.
Said(cn) ==
    [cn EXCEPT !.reported = @ + (snap - cn.prev), !.prev = Remember(cn)]

PrintStats ==
    /\ rpc = "save"
    /\ heap' = [heap EXCEPT ![conns[ri]] = Said(@)]
    /\ rpc' = "read" /\ ri' = ri + 1 /\ snap' = 0
    /\ UNCHANGED <<startVars, network, lock, lpc, conn, hash, conns, n_conns,
                   cid_seed, taken>>

\* Mutant: the report returns with the lock held.
LeftBehind_Lock == READ

LeftBehind == FREE

EndReport ==
    /\ rpc = "read" /\ ri > Len(conns)
    /\ lock' = LeftBehind
    /\ rpc' = "asleep" /\ ri' = 1
    /\ UNCHANGED <<startVars, network, work, snap>>

Wake ==
    /\ rpc = "asleep"
    /\ rpc' = "lock"
    /\ UNCHANGED <<startVars, network, work, lock, ri, snap>>

Main ==
    \/ (Create \/ WorkerUp \/ WorkerDown \/ Release)
         /\ UNCHANGED <<network, work, lock, report>>
    \/ ReadStats \/ PrintStats \/ EndReport

Next ==
    \/ Main \/ RdLock \/ Wake
    \/ \E t \in Threads : Worker(t) \/ WrLock(t)
    \/ \E c \in Clients : Arrive(c)

Spec == Init /\ [][Next]_vars

\* Threads run.  The lock is free again and again, between the reports and
\* between the writers, and goes to everyone who keeps asking.
FairSpec ==
    /\ Spec
    /\ WF_vars(Main)
    /\ \A t \in Threads : WF_vars(Worker(t)) /\ SF_vars(WrLock(t))

-----------------------------------------------------------------------------
(* Properties *)

TypeOK ==
    /\ StartTypeOK
    /\ queue \in [Threads -> Seq([from : Clients, sig : BOOLEAN])]
    /\ lpc \in [Threads -> {"recv", "lock", "cid", "list", "hash"}]
    /\ conn \in [Threads -> 0..Len(heap)]
    /\ hash \in [Threads -> SUBSET DOMAIN heap]
    /\ conns \in Seq(DOMAIN heap)
    /\ lock \in -1..NThreads
    /\ rpc \in {"lock", "read", "save", "asleep"}
    /\ ri \in 1..(Len(conns) + 1)

\* conn_lock: connections enter the list in the order of their numbers, and
\* the numbers have no gap and no repetition.
NumberedInOrder ==
    /\ \A j \in 1..Len(conns) : heap[conns[j]].cid = j - 1
    /\ n_conns = Len(conns)

\* lookup_rconn: however the first packets of its clients interleave with the
\* registrations, a worker has one connection per client.
OneConnEach ==
    \A j, l \in 1..Len(heap) :
        heap[j].t = heap[l].t /\ heap[j].wid = heap[l].wid => j = l

\* Every valid packet is counted once, for the client that sent it: it is in
\* the counters of that client or in a registration under way.
PacketsAccountedFor ==
    \A c \in Clients :
        taken[c] =
            MapThenSumSet(LAMBDA j : heap[j].npkts_rx, {j \in 1..Len(heap) : heap[j].t = c})
              + Cardinality({t \in Threads : lpc[t] # "recv" /\ heap[conn[t]].t = c})

\* The interval reports never claim a packet twice, nor one that never came.
ReportsAreTrue ==
    \A j \in 1..Len(heap) : heap[j].reported <= heap[j].prev
                              /\ heap[j].prev <= heap[j].npkts_rx

\* The list, with its counters and reports, is a ConnRegister: whatever two
\* workers and the report do at the same time, the list grows by whole
\* connections, each new to its worker, and no report takes back or invents a
\* packet.
Listed(j) ==
    [worker |-> heap[j].wid, client |-> heap[j].t,
     n |-> heap[j].npkts_rx, said |-> heap[j].reported]

CR == INSTANCE ConnRegister WITH
    Workers  <- Threads,
    register <- [k \in 1..Len(conns) |-> Listed(conns[k])]

ImplementsRegister == CR!RSpec

\* A running server gets through what its sockets have received: no worker is
\* shut out for good by the reports or by the other workers.
GetsThrough ==
    mpc = "running" ~>
        \A t \in Threads : queue[t] = <<>> /\ lpc[t] = "recv"
=============================================================================
