-------------------------- MODULE TtestRecvProofs --------------------------
(***************************************************************************)
(* Theorems about the ttest server for any number of workers, clients and  *)
(* datagrams, and any interleaving of registrations and reports.           *)
(***************************************************************************)
EXTENDS TtestRecv, TtestStartProofs, SequenceTheorems, FiniteSetTheorems

-----------------------------------------------------------------------------
(* The server starts its workers as TtestStart says *)

LEMMA StepStarts == [Next]_vars => [StartNext]_startVars
<1> SUFFICES ASSUME [Next]_vars PROVE StartNext \/ UNCHANGED startVars
  OBVIOUS
<1> USE DEF StartNext
<1>1. CASE Main \/ RdLock \/ Wake
  BY <1>1 DEF Main, ReadStats, PrintStats, EndReport, RdLock, Wake
<1>2. ASSUME NEW t \in Threads, Worker(t) \/ WrLock(t)
      PROVE  StartNext \/ UNCHANGED startVars
  BY <1>2 DEF Worker, Recv, TakeCid, ListAndUnlock, HashAndCount, WrLock
<1>3. ASSUME NEW c \in Clients, Arrive(c) PROVE UNCHANGED startVars
  BY <1>3 DEF Arrive
<1>4. CASE UNCHANGED vars
  BY <1>4 DEF vars
<1> QED
  BY <1>1, <1>2, <1>3, <1>4 DEF Next

LEMMA ServerStarts == Spec => []StartInv
<1>1. Init => StartInv
  BY StartInvInit DEF Init
<1>2. StartInv /\ [Next]_vars => StartInv'
  BY StepStarts, StartInvStep
<1> QED
  BY <1>1, <1>2, PTL DEF Spec

\* ttest -s: no datagram reaches a worker of the server before every worker has
\* its socket, and no two workers count into the same entry of workers[].
THEOREM ServerSlots == Spec => []OwnSlot /\ []StartTogether
  BY ServerStarts, StartInvImplies, PTL

-----------------------------------------------------------------------------
(* The invariant *)

HeapRec == [t : Clients, wid : Threads, cid : Nat,
            npkts_rx : Nat, prev : Nat, reported : Nat]

QueueType == queue \in [Threads -> Seq([from : Clients, sig : BOOLEAN])]

DataType ==
    /\ QueueType
    /\ lpc \in [Threads -> {"recv", "lock", "cid", "list", "hash"}]
    /\ conn \in [Threads -> Nat]
    /\ heap \in Seq(HeapRec)
    /\ hash \in [Threads -> SUBSET Nat]
    /\ conns \in Seq(Nat)
    /\ n_conns \in Nat /\ cid_seed \in Nat
    /\ lock \in -1..NThreads
    /\ rpc \in {"lock", "read", "save", "asleep"}
    /\ ri \in Nat /\ snap \in Nat

\* Every connection is in the table of its worker or being registered by it.
TableInv ==
    /\ \A t \in Threads :
        /\ lpc[t] = "recv" => conn[t] = 0
        /\ lpc[t] # "recv" => /\ conn[t] \in 1..Len(heap)
                              /\ heap[conn[t]].wid = t
                              /\ conn[t] \notin hash[t]
        /\ \A j \in hash[t] : j \in 1..Len(heap) /\ heap[j].wid = t
    /\ \A j \in 1..Len(heap) :
        j \in hash[heap[j].wid] \/ j = conn[heap[j].wid]

\* Who is inside of conn_lock.
LockInv ==
    /\ \A t \in Threads : lock = t <=> lpc[t] \in {"cid", "list"}
    /\ lock = READ <=> rpc \in {"read", "save"}

\* The list has each connection once, numbered by its place, and none that its
\* worker has not listed yet; a number taken is the next place.
ListInv ==
    /\ \A k \in 1..Len(conns) : conns[k] \in 1..Len(heap)
    /\ \A k, l \in 1..Len(conns) : conns[k] = conns[l] => k = l
    /\ \A k \in 1..Len(conns), t \in Threads :
        lpc[t] \in {"lock", "cid", "list"} => conns[k] # conn[t]
    /\ \A k \in 1..Len(conns) : heap[conns[k]].cid = k - 1
    /\ n_conns = Len(conns)
    /\ (\A t \in Threads : lpc[t] # "list") => cid_seed = Len(conns)
    /\ \A t \in Threads :
        lpc[t] = "list" => /\ cid_seed = Len(conns) + 1
                           /\ heap[conn[t]].cid = Len(conns)

\* What the reports have said of a connection is what they have saved of its
\* counter, or less, and that is not past the counter.
CountersInv ==
    \A j \in 1..Len(heap) : heap[j].reported <= heap[j].prev
                              /\ heap[j].prev <= heap[j].npkts_rx

\* A connection under registration has counted nothing.
FreshInv == \A t \in Threads : lpc[t] # "recv" => heap[conn[t]].npkts_rx = 0

\* The copy that a report works with is between the saved value and the counter.
PrintInv ==
    /\ ri \in 1..(Len(conns) + 1)
    /\ rpc \in {"lock", "asleep"} => ri = 1
    /\ rpc = "save" => /\ ri <= Len(conns)
                       /\ heap[conns[ri]].prev <= snap
                       /\ snap <= heap[conns[ri]].npkts_rx

StatInv == CountersInv /\ FreshInv /\ PrintInv

Inv == DataType /\ TableInv /\ OneConnEach /\ LockInv /\ ListInv /\ StatInv

LEMMA InvInit == Init => Inv
<1> SUFFICES ASSUME Init PROVE Inv
  OBVIOUS
<1>1. /\ queue = [t \in Threads |-> <<>>]
      /\ lpc = [t \in Threads |-> "recv"]
      /\ conn = [t \in Threads |-> 0]
      /\ hash = [t \in Threads |-> {}]
  BY Zenon DEF Init
<1>2. /\ heap = <<>> /\ conns = <<>> /\ n_conns = 0 /\ cid_seed = 0
      /\ lock = FREE
      /\ rpc = "lock" /\ ri = 1 /\ snap = 0
  BY Zenon DEF Init
<1> USE StartConstants DEF Threads
<1>3. DataType
  <2>1. <<>> \in Seq([from : Clients, sig : BOOLEAN])
        /\ <<>> \in Seq(HeapRec) /\ <<>> \in Seq(Nat)
    BY EmptySeq
  <2>2. /\ queue \in [Threads -> Seq([from : Clients, sig : BOOLEAN])]
        /\ heap \in Seq(HeapRec) /\ conns \in Seq(Nat)
    BY <1>1, <1>2, <2>1
  <2>3. /\ n_conns \in Nat /\ cid_seed \in Nat /\ lock \in -1..NThreads
        /\ rpc \in {"lock", "read", "save", "asleep"}
        /\ ri \in Nat /\ snap \in Nat
    BY <1>2 DEF FREE
  <2> QED
    BY <1>1, <2>2, <2>3 DEF DataType, QueueType
<1>4. TableInv /\ OneConnEach /\ LockInv
  BY <1>1, <1>2 DEF TableInv, OneConnEach, LockInv, FREE, READ
<1>5. ListInv /\ StatInv
  BY <1>1, <1>2 DEF ListInv, StatInv, CountersInv, FreshInv, PrintInv
<1> QED
  BY <1>3, <1>4, <1>5 DEF Inv

-----------------------------------------------------------------------------
(* What an assignment to one connection does *)

LEMMA HeapSet ==
    ASSUME heap \in Seq(HeapRec), NEW j \in 1..Len(heap), NEW r \in HeapRec,
           heap' = [heap EXCEPT ![j] = r]
    PROVE  /\ heap' \in Seq(HeapRec) /\ Len(heap') = Len(heap)
           /\ \A l \in 1..Len(heap) : heap'[l] = IF l = j THEN r ELSE heap[l]
  BY ExceptSeq

\* One packet more for connection j.
Counted(j) ==
    /\ heap' \in Seq(HeapRec) /\ Len(heap') = Len(heap)
    /\ \A l \in 1..Len(heap) : l # j => heap'[l] = heap[l]
    /\ heap'[j].t = heap[j].t /\ heap'[j].wid = heap[j].wid
    /\ heap'[j].cid = heap[j].cid
    /\ heap'[j].npkts_rx = heap[j].npkts_rx + 1
    /\ heap'[j].prev = heap[j].prev /\ heap'[j].reported = heap[j].reported

LEMMA OneMore ==
    ASSUME NEW h \in HeapRec, NEW r, r = [h EXCEPT !.npkts_rx = @ + 1]
    PROVE  /\ r \in HeapRec /\ r.npkts_rx = h.npkts_rx + 1
           /\ r.t = h.t /\ r.wid = h.wid /\ r.cid = h.cid
           /\ r.prev = h.prev /\ r.reported = h.reported
  BY DEF HeapRec

LEMMA CountOne ==
    ASSUME heap \in Seq(HeapRec), NEW j \in 1..Len(heap),
           heap' = [heap EXCEPT ![j].npkts_rx = @ + 1]
    PROVE  Counted(j)
<1> DEFINE r == [heap[j] EXCEPT !.npkts_rx = @ + 1]
<1>1. heap[j] \in HeapRec
  BY ElementOfSeq
<1>2. heap' = [heap EXCEPT ![j] = r]
  OBVIOUS
<1>3. /\ r \in HeapRec /\ r.npkts_rx = heap[j].npkts_rx + 1
      /\ r.t = heap[j].t /\ r.wid = heap[j].wid /\ r.cid = heap[j].cid
      /\ r.prev = heap[j].prev /\ r.reported = heap[j].reported
  BY <1>1, OneMore
<1> HIDE DEF r
<1>4. /\ heap' \in Seq(HeapRec) /\ Len(heap') = Len(heap)
      /\ \A l \in 1..Len(heap) : heap'[l] = IF l = j THEN r ELSE heap[l]
  BY <1>2, <1>3, HeapSet
<1> QED
  BY <1>3, <1>4 DEF Counted

-----------------------------------------------------------------------------
(* What depends only on whose the connections are, and on their numbers *)

SameOwners ==
    /\ Len(heap') = Len(heap)
    /\ \A l \in 1..Len(heap) : heap'[l].t = heap[l].t /\ heap'[l].wid = heap[l].wid

LEMMA OwnersKeepTable ==
    ASSUME TableInv, SameOwners, UNCHANGED <<lpc, conn, hash>>
    PROVE  TableInv'
<1>1. \A l \in 1..Len(heap) : heap'[l].wid = heap[l].wid
  BY DEF SameOwners
<1>2. Len(heap') = Len(heap)
  BY DEF SameOwners
<1> QED
  BY <1>1, <1>2 DEF TableInv

LEMMA OwnersKeepOne ==
    ASSUME OneConnEach, SameOwners
    PROVE  OneConnEach'
  BY DEF OneConnEach, SameOwners

LEMMA NumbersKeepList ==
    ASSUME ListInv, TableInv, SameOwners,
           \A l \in 1..Len(heap) : heap'[l].cid = heap[l].cid,
           UNCHANGED <<lpc, conn, conns, n_conns, cid_seed>>
    PROVE  ListInv'
<1>1. Len(heap') = Len(heap)
  BY DEF SameOwners
<1>2. \A k \in 1..Len(conns) : conns[k] \in 1..Len(heap)
  BY DEF ListInv
<1>3. \A t \in Threads : lpc[t] = "list" => conn[t] \in 1..Len(heap)
  BY DEF TableInv
<1> QED
  BY <1>1, <1>2, <1>3 DEF ListInv

-----------------------------------------------------------------------------
(* Receiving a datagram *)

LEMMA HeapType ==
    ASSUME DataType, NEW l \in 1..Len(heap)
    PROVE  /\ heap[l] \in HeapRec
           /\ heap[l].t \in Clients /\ heap[l].wid \in Threads /\ heap[l].cid \in Nat
           /\ heap[l].npkts_rx \in Nat /\ heap[l].prev \in Nat
           /\ heap[l].reported \in Nat
<1>1. heap[l] \in HeapRec
  BY ElementOfSeq DEF DataType
<1> QED
  BY <1>1 DEF HeapRec

\* When a packet is counted in connection j of a table.
LEMMA CountKnown ==
    ASSUME Inv, NEW j \in 1..Len(heap), Counted(j),
           \A t \in Threads : lpc[t] # "recv" => conn[t] # j,
           UNCHANGED <<lpc, conn, hash, conns, n_conns, cid_seed, lock, rpc, ri, snap>>,
           QueueType'
    PROVE  Inv'
<1>1. SameOwners /\ \A l \in 1..Len(heap) : heap'[l].cid = heap[l].cid
  BY DEF Counted, SameOwners
<1>2. DataType'
  BY DEF Inv, DataType, Counted
<1>3. TableInv' /\ OneConnEach' /\ ListInv'
  BY <1>1, OwnersKeepTable, OwnersKeepOne, NumbersKeepList DEF Inv
<1>4. LockInv'
  BY DEF Inv, LockInv
<1>5. Len(heap') = Len(heap) /\ \A l \in 1..Len(heap) :
        /\ heap'[l].reported = heap[l].reported /\ heap'[l].prev = heap[l].prev
        /\ heap'[l].npkts_rx = heap[l].npkts_rx + IF l = j THEN 1 ELSE 0
        /\ heap[l].npkts_rx \in Nat /\ heap[l].prev \in Nat
  BY HeapType DEF Counted, Inv
<1>6. CountersInv'
  <2> SUFFICES ASSUME NEW l \in 1..Len(heap)
               PROVE  /\ heap'[l].reported <= heap'[l].prev
                      /\ heap'[l].prev <= heap'[l].npkts_rx
    BY <1>5 DEF CountersInv
  <2>1. heap[l].reported <= heap[l].prev /\ heap[l].prev <= heap[l].npkts_rx
    BY DEF Inv, StatInv, CountersInv
  <2> QED
    BY <1>5, <2>1
<1>7. FreshInv'
  <2> SUFFICES ASSUME NEW t \in Threads, lpc[t] # "recv"
               PROVE  heap'[conn[t]].npkts_rx = 0
    BY DEF FreshInv
  <2>1. conn[t] \in 1..Len(heap) /\ conn[t] # j
    BY DEF Inv, TableInv
  <2>2. heap[conn[t]].npkts_rx = 0
    BY DEF Inv, StatInv, FreshInv
  <2>3. heap'[conn[t]] = heap[conn[t]]
    BY <2>1 DEF Counted
  <2> QED
    BY <2>2, <2>3
<1>8. PrintInv'
  <2>1. CASE rpc = "save"
    <3>1. conns[ri] \in 1..Len(heap)
      BY <2>1 DEF Inv, StatInv, PrintInv, ListInv
    <3>2. snap \in Nat
      BY DEF Inv, DataType
    <3> QED
      BY <1>5, <2>1, <3>1, <3>2 DEF Inv, StatInv, PrintInv
  <2>2. CASE rpc # "save"
    BY <2>2 DEF Inv, StatInv, PrintInv
  <2> QED
    BY <2>1, <2>2
<1> QED
  BY <1>2, <1>3, <1>4, <1>6, <1>7, <1>8 DEF Inv, StatInv

\* When worker t, which has none yet, allocates a connection for client c.
LEMMA Allocate ==
    ASSUME Inv, NEW t \in Threads, NEW c \in Clients, NEW r \in HeapRec,
           r.t = c /\ r.wid = t /\ r.npkts_rx = 0 /\ r.prev = 0 /\ r.reported = 0,
           lpc[t] = "recv",
           \A j \in hash[t] : heap[j].t # c,
           heap' = Append(heap, r),
           conn' = [conn EXCEPT ![t] = Len(heap')],
           lpc' = [lpc EXCEPT ![t] = "lock"],
           UNCHANGED <<hash, conns, n_conns, cid_seed, lock, rpc, ri, snap>>,
           QueueType'
    PROVE  Inv'
<1> DEFINE n == Len(heap) + 1
<1>1. /\ heap' \in Seq(HeapRec) /\ Len(heap') = n /\ Len(heap) \in Nat
      /\ heap'[n] = r
      /\ \A l \in 1..Len(heap) : heap'[l] = heap[l]
  BY AppendProperties, LenProperties DEF Inv, DataType
<1>2. /\ conn'[t] = n /\ lpc'[t] = "lock"
      /\ \A u \in Threads : u # t => conn'[u] = conn[u] /\ lpc'[u] = lpc[u]
  BY <1>1 DEF Inv, DataType
<1>3. DataType'
  <2>1. /\ lpc' \in [Threads -> {"recv", "lock", "cid", "list", "hash"}]
        /\ conn' \in [Threads -> Nat]
    BY <1>1 DEF Inv, DataType
  <2> QED
    BY <1>1, <2>1 DEF Inv, DataType
<1>4. \A u \in Threads : lpc[u] # "recv" => u # t /\ conn[u] \in 1..Len(heap)
  BY DEF Inv, TableInv
<1>5. TableInv'
  <2>1. \A u \in Threads : \A j \in hash[u] : j \in 1..Len(heap) /\ heap[j].wid = u
    BY DEF Inv, TableInv
  <2>2. ASSUME NEW u \in Threads
        PROVE  /\ lpc'[u] = "recv" => conn'[u] = 0
               /\ lpc'[u] # "recv" => /\ conn'[u] \in 1..n
                                      /\ heap'[conn'[u]].wid = u
                                      /\ conn'[u] \notin hash[u]
               /\ \A j \in hash[u] : j \in 1..n /\ heap'[j].wid = u
    <3>1. CASE u = t
      BY <1>1, <1>2, <2>1, <3>1
    <3>2. CASE u # t
      <4>1. /\ lpc[u] = "recv" => conn[u] = 0
            /\ lpc[u] # "recv" => /\ conn[u] \in 1..Len(heap)
                                  /\ heap[conn[u]].wid = u
                                  /\ conn[u] \notin hash[u]
        BY DEF Inv, TableInv
      <4> QED
        BY <1>1, <1>2, <2>1, <3>2, <4>1
    <3> QED
      BY <3>1, <3>2
  <2>3. ASSUME NEW j \in 1..n
        PROVE  j \in hash[heap'[j].wid] \/ j = conn'[heap'[j].wid]
    <3>1. CASE j = n
      BY <1>1, <1>2, <3>1
    <3>2. CASE j \in 1..Len(heap)
      <4>1. /\ heap[j].wid \in Threads
            /\ j \in hash[heap[j].wid] \/ j = conn[heap[j].wid]
        BY <3>2, HeapType DEF Inv, TableInv
      <4>2. conn[t] = 0
        BY DEF Inv, TableInv
      <4> QED
        BY <1>1, <1>2, <3>2, <4>1, <4>2
    <3> QED
      BY <1>1, <3>1, <3>2
  <2> HIDE DEF n
  <2> QED
    BY <1>1, <2>2, <2>3 DEF TableInv
<1>6. OneConnEach'
  <2>1. ASSUME NEW l \in 1..Len(heap), heap[l].wid = t PROVE heap[l].t # c
    <3>1. l \in hash[t] \/ l = conn[t]
      BY <2>1 DEF Inv, TableInv
    <3>2. conn[t] = 0
      BY DEF Inv, TableInv
    <3> QED
      BY <1>1, <3>1, <3>2
  <2>2. ASSUME NEW j \in 1..n, NEW l \in 1..n,
               heap'[j].t = heap'[l].t, heap'[j].wid = heap'[l].wid
        PROVE  j = l
    <3>1. CASE j = n \/ l = n
      BY <1>1, <2>1, <2>2, <3>1
    <3>2. CASE j \in 1..Len(heap) /\ l \in 1..Len(heap)
      BY <1>1, <2>2, <3>2 DEF Inv, OneConnEach
    <3> QED
      BY <1>1, <3>1, <3>2
  <2> HIDE DEF n
  <2> QED
    BY <1>1, <2>2 DEF OneConnEach
<1>7. LockInv'
  BY <1>2 DEF Inv, LockInv
<1>8. ListInv'
  <2>1. \A k \in 1..Len(conns) : conns[k] \in 1..Len(heap) /\ heap[conns[k]].cid = k - 1
    BY DEF Inv, ListInv
  <2>2. \A k \in 1..Len(conns) : conns[k] \in 1..n /\ conns[k] # n
                                   /\ heap'[conns[k]].cid = k - 1
    BY <1>1, <2>1
  <2>3. /\ \A k \in 1..Len(conns), u \in Threads :
            lpc'[u] \in {"lock", "cid", "list"} => conns[k] # conn'[u]
        /\ \A u \in Threads :
            lpc'[u] = "list" => /\ cid_seed = Len(conns) + 1
                                /\ heap'[conn'[u]].cid = Len(conns)
    BY <1>1, <1>2, <1>4, <2>2 DEF Inv, ListInv
  <2>4. (\A u \in Threads : lpc'[u] # "list") => cid_seed = Len(conns)
    BY <1>2 DEF Inv, ListInv
  <2>5. /\ \A k, l \in 1..Len(conns) : conns[k] = conns[l] => k = l
        /\ n_conns = Len(conns)
    BY DEF Inv, ListInv
  <2> HIDE DEF n
  <2> QED
    BY <1>1, <2>2, <2>3, <2>4, <2>5, ZenonT(30) DEF ListInv
<1>9. CountersInv'
  <2> SUFFICES ASSUME NEW l \in 1..n
               PROVE  /\ heap'[l].reported <= heap'[l].prev
                      /\ heap'[l].prev <= heap'[l].npkts_rx
    BY <1>1 DEF CountersInv
  <2>1. CASE l = n
    BY <1>1, <2>1
  <2>2. CASE l \in 1..Len(heap)
    BY <1>1, <2>2 DEF Inv, StatInv, CountersInv
  <2> QED
    BY <1>1, <2>1, <2>2
<1>10. FreshInv'
  BY <1>1, <1>2, <1>4 DEF Inv, StatInv, FreshInv
<1>11. PrintInv'
  <2>1. rpc = "save" => conns[ri] \in 1..Len(heap)
    BY DEF Inv, StatInv, PrintInv, ListInv
  <2> QED
    BY <1>1, <2>1 DEF Inv, StatInv, PrintInv
<1> QED
  BY <1>3, <1>5, <1>6, <1>7, <1>8, <1>9, <1>10, <1>11 DEF Inv, StatInv

\* Only the queues may change.
LEMMA Aside ==
    ASSUME Inv, QueueType',
           UNCHANGED <<lpc, conn, heap, hash, conns, n_conns, cid_seed, lock, rpc, ri, snap>>
    PROVE  Inv'
<1>1. DataType'
  BY DEF Inv, DataType
<1>2. TableInv' /\ OneConnEach'
  BY DEF Inv, TableInv, OneConnEach
<1>3. LockInv' /\ ListInv'
  BY DEF Inv, LockInv, ListInv
<1>4. StatInv'
  BY DEF Inv, StatInv, CountersInv, FreshInv, PrintInv
<1> QED
  BY <1>1, <1>2, <1>3, <1>4 DEF Inv

LEMMA RecvStep ==
    ASSUME Inv, StartInv, NEW t \in Threads, Recv(t)
    PROVE  Inv'
<1> DEFINE c == Head(queue[t]).from
           known == {j \in hash[t] : Matches(j, c)}
<1>1. c \in Clients /\ QueueType'
  <2>1. queue[t] \in Seq([from : Clients, sig : BOOLEAN]) /\ queue[t] # <<>>
    BY DEF Recv, Inv, DataType, QueueType
  <2>2. /\ Head(queue[t]) \in [from : Clients, sig : BOOLEAN]
        /\ Tail(queue[t]) \in Seq([from : Clients, sig : BOOLEAN])
    BY <2>1, HeadTailProperties
  <2>3. queue' = [queue EXCEPT ![t] = Tail(@)]
    BY Zenon DEF Recv
  <2> QED
    BY <2>2, <2>3 DEF Inv, DataType, QueueType
<1>2. lpc[t] = "recv" /\ slot[t] = t
      /\ UNCHANGED <<startVars, route, nsent, lock, report>>
  BY DEF Recv, StartInv, ThreadInv
<1>3. CASE UNCHANGED work
  BY <1>1, <1>2, <1>3, Aside DEF work, report
<1>4. ASSUME NEW j \in known, heap' = [heap EXCEPT ![j].npkts_rx = @ + 1],
             UNCHANGED <<lpc, conn, hash, conns, n_conns, cid_seed>>
      PROVE  Inv'
  <2>1. j \in 1..Len(heap) /\ heap[j].wid = t /\ j \in hash[t]
    BY DEF Inv, TableInv
  <2>2. \A u \in Threads : lpc[u] # "recv" => conn[u] # j
    BY <1>2, <2>1 DEF Inv, TableInv
  <2>3. Counted(j)
    BY <1>4, <2>1, CountOne DEF Inv, DataType
  <2> QED
    BY <1>1, <1>2, <1>4, <2>1, <2>2, <2>3, CountKnown DEF report
<1>5. CASE /\ known = {}
           /\ heap' = Append(heap, [t |-> c, wid |-> slot[t], cid |-> 0,
                                    npkts_rx |-> 0, prev |-> 0, reported |-> 0])
           /\ conn' = [conn EXCEPT ![t] = Len(heap')]
           /\ lpc' = [lpc EXCEPT ![t] = "lock"]
           /\ UNCHANGED <<hash, conns, n_conns, cid_seed>>
  <2> DEFINE r == [t |-> c, wid |-> slot[t], cid |-> 0,
                   npkts_rx |-> 0, prev |-> 0, reported |-> 0]
  <2>1. r \in HeapRec /\ r.t = c /\ r.wid = t
        /\ r.npkts_rx = 0 /\ r.prev = 0 /\ r.reported = 0
    BY <1>1, <1>2 DEF HeapRec
  <2>2. \A j \in hash[t] : heap[j].t # c
    BY <1>5 DEF Matches
  <2>3. heap' = Append(heap, r)
    BY <1>5
  <2> HIDE DEF r, c, known
  <2> QED
    BY <1>1, <1>2, <1>5, <2>1, <2>2, <2>3, Allocate DEF report
<1> QED
  BY <1>3, <1>4, <1>5 DEF Recv

-----------------------------------------------------------------------------
(* Registering the connection *)

\* Worker t alone is inside of the lock.
LEMMA Alone ==
    ASSUME Inv, NEW t \in Threads, lpc[t] \in {"cid", "list"}
    PROVE  /\ lock = t /\ rpc \notin {"read", "save"}
           /\ \A u \in Threads : u # t => lpc[u] \notin {"cid", "list"}
<1>1. lock = t
  BY DEF Inv, LockInv
<1>2. t # READ
  BY StartConstants DEF READ, Threads
<1> QED
  BY <1>1, <1>2 DEF Inv, LockInv

LEMMA WrLockStep ==
    ASSUME Inv, NEW t \in Threads, WrLock(t)
    PROVE  Inv'
<1>1. /\ lpc[t] = "lock" /\ lock = FREE /\ lock' = t
      /\ lpc' = [lpc EXCEPT ![t] = "cid"]
      /\ UNCHANGED <<queue, conn, heap, hash, conns, n_conns, cid_seed, rpc, ri, snap>>
  BY DEF WrLock, CanWrite, network, report
<1>2. lpc'[t] = "cid" /\ \A u \in Threads : u # t => lpc'[u] = lpc[u]
  BY <1>1 DEF Inv, DataType
<1>3. FREE \notin Threads /\ FREE # READ /\ READ \notin Threads /\ t \in -1..NThreads
  BY StartConstants DEF FREE, READ, Threads
<1>4. DataType'
  BY <1>1, <1>3 DEF Inv, DataType, QueueType
<1>5. TableInv' /\ OneConnEach'
  BY <1>1, <1>2 DEF Inv, TableInv, OneConnEach
<1>6. LockInv'
  BY <1>1, <1>2, <1>3 DEF Inv, LockInv
<1>7. ListInv'
  BY <1>1, <1>2 DEF Inv, ListInv
<1>8. StatInv'
  BY <1>1, <1>2 DEF Inv, StatInv, CountersInv, FreshInv, PrintInv
<1> QED
  BY <1>4, <1>5, <1>6, <1>7, <1>8 DEF Inv

\* One number for connection j.
LEMMA Numbered ==
    ASSUME heap \in Seq(HeapRec), NEW j \in 1..Len(heap), NEW n \in Nat,
           heap' = [heap EXCEPT ![j].cid = n]
    PROVE  /\ heap' \in Seq(HeapRec) /\ Len(heap') = Len(heap)
           /\ \A l \in 1..Len(heap) :
                /\ heap'[l].t = heap[l].t /\ heap'[l].wid = heap[l].wid
                /\ heap'[l].npkts_rx = heap[l].npkts_rx
                /\ heap'[l].prev = heap[l].prev /\ heap'[l].reported = heap[l].reported
                /\ heap'[l].cid = IF l = j THEN n ELSE heap[l].cid
<1> DEFINE r == [heap[j] EXCEPT !.cid = n]
<1>1. heap[j] \in HeapRec
  BY ElementOfSeq
<1>2. heap' = [heap EXCEPT ![j] = r]
  OBVIOUS
<1>3. /\ r \in HeapRec /\ r.cid = n
      /\ r.t = heap[j].t /\ r.wid = heap[j].wid /\ r.npkts_rx = heap[j].npkts_rx
      /\ r.prev = heap[j].prev /\ r.reported = heap[j].reported
  BY <1>1 DEF HeapRec
<1> HIDE DEF r
<1>4. /\ heap' \in Seq(HeapRec) /\ Len(heap') = Len(heap)
      /\ \A l \in 1..Len(heap) : heap'[l] = IF l = j THEN r ELSE heap[l]
  BY <1>2, <1>3, HeapSet, SMTT(30)
<1> QED
  BY <1>3, <1>4

LEMMA TakeCidStep ==
    ASSUME Inv, NEW t \in Threads, TakeCid(t)
    PROVE  Inv'
<1>1. /\ lpc[t] = "cid"
      /\ heap' = [heap EXCEPT ![conn[t]].cid = cid_seed]
      /\ cid_seed' = cid_seed + 1
      /\ lpc' = [lpc EXCEPT ![t] = "list"]
      /\ UNCHANGED <<queue, conn, hash, conns, n_conns, lock, rpc, ri, snap>>
  BY DEF TakeCid, network, report
<1>2. lpc'[t] = "list" /\ \A u \in Threads : u # t => lpc'[u] = lpc[u]
  BY <1>1 DEF Inv, DataType
<1>3. conn[t] \in 1..Len(heap) /\ cid_seed \in Nat
  BY <1>1 DEF Inv, TableInv, DataType
<1>4. /\ heap' \in Seq(HeapRec) /\ Len(heap') = Len(heap)
      /\ \A l \in 1..Len(heap) :
           /\ heap'[l].t = heap[l].t /\ heap'[l].wid = heap[l].wid
           /\ heap'[l].npkts_rx = heap[l].npkts_rx
           /\ heap'[l].prev = heap[l].prev /\ heap'[l].reported = heap[l].reported
           /\ heap'[l].cid = IF l = conn[t] THEN cid_seed ELSE heap[l].cid
  BY <1>1, <1>3, Numbered DEF Inv, DataType
<1>5. /\ \A u \in Threads : u # t => lpc[u] \notin {"cid", "list"}
      /\ cid_seed = Len(conns)
  BY <1>1, Alone DEF Inv, ListInv
<1>6. DataType'
  <2>1. /\ lpc' \in [Threads -> {"recv", "lock", "cid", "list", "hash"}]
        /\ cid_seed' \in Nat
    BY <1>1, <1>3 DEF Inv, DataType
  <2>2. QueueType'
    BY <1>1 DEF Inv, DataType, QueueType
  <2> QED
    BY <1>1, <1>4, <2>1, <2>2 DEF Inv, DataType
<1>7. TableInv'
  BY <1>1, <1>2, <1>4 DEF Inv, TableInv
<1>8. OneConnEach'
  BY <1>4 DEF Inv, OneConnEach
<1>9. LockInv'
  BY <1>1, <1>2 DEF Inv, LockInv
<1>10. ListInv'
  <2>1. \A k \in 1..Len(conns) : /\ conns[k] \in 1..Len(heap)
                                 /\ conns[k] # conn[t]
                                 /\ heap'[conns[k]].cid = k - 1
    BY <1>1, <1>4 DEF Inv, ListInv
  <2>2. \A u \in Threads :
          lpc'[u] = "list" => /\ cid_seed' = Len(conns) + 1
                              /\ heap'[conn[u]].cid = Len(conns)
    BY <1>1, <1>2, <1>3, <1>4, <1>5
  <2>3. \A k \in 1..Len(conns), u \in Threads :
          lpc'[u] \in {"lock", "cid", "list"} => conns[k] # conn[u]
    BY <1>2, <2>1 DEF Inv, ListInv
  <2> QED
    BY <1>1, <1>2, <1>4, <2>1, <2>2, <2>3 DEF Inv, ListInv
<1>11. CountersInv' /\ FreshInv'
  <2>1. CountersInv'
    BY <1>4 DEF Inv, StatInv, CountersInv
  <2>2. \A u \in Threads : lpc'[u] # "recv" => lpc[u] # "recv"
    BY <1>1, <1>2
  <2>3. \A u \in Threads : lpc[u] # "recv" => /\ conn[u] \in 1..Len(heap)
                                              /\ heap[conn[u]].npkts_rx = 0
    BY DEF Inv, TableInv, StatInv, FreshInv
  <2> QED
    BY <1>1, <1>4, <2>1, <2>2, <2>3 DEF FreshInv
<1>12. PrintInv'
  <2>1. rpc # "save"
    BY <1>1, Alone
  <2> QED
    BY <1>1, <2>1 DEF Inv, StatInv, PrintInv
<1> QED
  BY <1>6, <1>7, <1>8, <1>9, <1>10, <1>11, <1>12 DEF Inv, StatInv

LEMMA ListStep ==
    ASSUME Inv, NEW t \in Threads, ListAndUnlock(t)
    PROVE  Inv'
<1> DEFINE n == Len(conns) + 1
<1>1. /\ lpc[t] = "list"
      /\ conns' = Append(conns, conn[t]) /\ n_conns' = n_conns + 1
      /\ lock' = FREE
      /\ lpc' = [lpc EXCEPT ![t] = "hash"]
      /\ UNCHANGED <<queue, conn, heap, hash, cid_seed, rpc, ri, snap>>
  BY DEF ListAndUnlock, network, report
<1>2. lpc'[t] = "hash" /\ \A u \in Threads : u # t => lpc'[u] = lpc[u]
  BY <1>1 DEF Inv, DataType
<1>3. /\ conn[t] \in 1..Len(heap) /\ heap[conn[t]].wid = t
      /\ cid_seed = Len(conns) + 1 /\ heap[conn[t]].cid = Len(conns)
      /\ \A k \in 1..Len(conns) : conns[k] # conn[t]
  BY <1>1 DEF Inv, TableInv, ListInv
<1>4. /\ lock = t /\ rpc \notin {"read", "save"}
      /\ \A u \in Threads : u # t => lpc[u] \notin {"cid", "list"}
  BY <1>1, Alone
<1>5. FREE \notin Threads /\ FREE # READ /\ FREE \in -1..NThreads
  BY StartConstants DEF FREE, READ, Threads
<1>6. /\ conns' \in Seq(Nat) /\ Len(conns') = n /\ Len(conns) \in Nat
      /\ conns'[n] = conn[t]
      /\ \A k \in 1..Len(conns) : conns'[k] = conns[k]
  <2>1. conn[t] \in Nat /\ conns \in Seq(Nat)
    BY DEF Inv, DataType
  <2> QED
    BY <1>1, <2>1, AppendProperties, LenProperties
<1>7. DataType'
  <2>1. /\ lpc' \in [Threads -> {"recv", "lock", "cid", "list", "hash"}]
        /\ n_conns' \in Nat
    BY <1>1 DEF Inv, DataType
  <2>2. QueueType'
    BY <1>1 DEF Inv, DataType, QueueType
  <2> QED
    BY <1>1, <1>5, <1>6, <2>1, <2>2 DEF Inv, DataType
<1>8. TableInv' /\ OneConnEach'
  BY <1>1, <1>2 DEF Inv, TableInv, OneConnEach
<1>9. LockInv'
  BY <1>1, <1>2, <1>4, <1>5 DEF Inv, LockInv
<1>10. ListInv'
  <2>0. /\ \A k \in 1..Len(conns) :
              conns[k] \in 1..Len(heap) /\ heap[conns[k]].cid = k - 1
        /\ \A k, l \in 1..Len(conns) : conns[k] = conns[l] => k = l
    BY DEF Inv, ListInv
  <2>1. ASSUME NEW k \in 1..n
        PROVE  conns'[k] \in 1..Len(heap) /\ heap[conns'[k]].cid = k - 1
    <3>1. CASE k = n
      BY <1>3, <1>6, <3>1
    <3>2. CASE k \in 1..Len(conns)
      BY <1>6, <2>0, <3>2
    <3> QED
      BY <1>6, <3>1, <3>2
  <2>2. ASSUME NEW k \in 1..n, NEW l \in 1..n, conns'[k] = conns'[l] PROVE k = l
    <3>1. (k = n \/ k \in 1..Len(conns)) /\ (l = n \/ l \in 1..Len(conns))
      BY <1>6
    <3> HIDE DEF n
    <3> QED
      BY <1>3, <1>6, <2>0, <2>2, <3>1
  <2>3. ASSUME NEW k \in 1..n, NEW u \in Threads, lpc'[u] \in {"lock", "cid", "list"}
        PROVE  conns'[k] # conn[u]
    <3>1. u # t /\ lpc[u] = lpc'[u]
      BY <1>2, <2>3
    <3>2. heap[conn[u]].wid = u
      BY <2>3, <3>1 DEF Inv, TableInv
    <3>3. conn[u] # conn[t]
      BY <1>3, <3>1, <3>2
    <3>4. \A m \in 1..Len(conns) : conns[m] # conn[u]
      BY <2>3, <3>1 DEF Inv, ListInv
    <3> QED
      BY <1>6, <3>3, <3>4
  <2>4. n_conns' = n /\ cid_seed' = n
    BY <1>1, <1>3 DEF Inv, ListInv
  <2>5. \A u \in Threads : lpc'[u] # "list"
    BY <1>2, <1>4
  <2> HIDE DEF n
  <2> QED
    BY <1>1, <1>6, <2>1, <2>2, <2>3, <2>4, <2>5 DEF ListInv
<1>11. StatInv'
  BY <1>1, <1>2, <1>4, <1>6 DEF Inv, StatInv, CountersInv, FreshInv, PrintInv
<1> QED
  BY <1>7, <1>8, <1>9, <1>10, <1>11 DEF Inv

LEMMA HashStep ==
    ASSUME Inv, NEW t \in Threads, HashAndCount(t)
    PROVE  Inv'
<1> DEFINE j == conn[t]
<1>1. /\ lpc[t] = "hash"
      /\ hash' = [hash EXCEPT ![t] = hash[t] \cup {j}]
      /\ heap' = [heap EXCEPT ![j].npkts_rx = @ + 1]
      /\ lpc' = [lpc EXCEPT ![t] = "recv"] /\ conn' = [conn EXCEPT ![t] = 0]
      /\ UNCHANGED <<queue, conns, n_conns, cid_seed, lock, rpc, ri, snap>>
  BY DEF HashAndCount, Hashed, network, report
<1>2. /\ lpc'[t] = "recv" /\ conn'[t] = 0 /\ hash'[t] = hash[t] \cup {j}
      /\ \A u \in Threads : u # t => /\ lpc'[u] = lpc[u] /\ conn'[u] = conn[u]
                                     /\ hash'[u] = hash[u]
  BY <1>1 DEF Inv, DataType
<1>3. j \in 1..Len(heap) /\ heap[j].wid = t
  BY <1>1 DEF Inv, TableInv
<1>4. Counted(j)
  BY <1>1, <1>3, CountOne DEF Inv, DataType
<1>5. /\ Len(heap') = Len(heap)
      /\ \A l \in 1..Len(heap) :
           /\ heap'[l].t = heap[l].t /\ heap'[l].wid = heap[l].wid
           /\ heap'[l].cid = heap[l].cid
           /\ heap'[l].prev = heap[l].prev /\ heap'[l].reported = heap[l].reported
           /\ heap[l].npkts_rx \in Nat /\ heap[l].prev \in Nat
           /\ heap'[l].npkts_rx \in Nat /\ heap[l].npkts_rx <= heap'[l].npkts_rx
  <2>1. \A l \in 1..Len(heap) : heap[l].npkts_rx \in Nat /\ heap[l].prev \in Nat
    BY HeapType DEF Inv
  <2>2. SameOwners /\ \A l \in 1..Len(heap) :
           /\ heap'[l].cid = heap[l].cid
           /\ heap'[l].prev = heap[l].prev /\ heap'[l].reported = heap[l].reported
    BY <1>4 DEF Counted, SameOwners
  <2>3. \A l \in 1..Len(heap) :
           heap'[l].npkts_rx \in Nat /\ heap[l].npkts_rx <= heap'[l].npkts_rx
    <3>1. heap'[j].npkts_rx = heap[j].npkts_rx + 1
          /\ \A l \in 1..Len(heap) : l # j => heap'[l] = heap[l]
      BY <1>4 DEF Counted
    <3> HIDE DEF j
    <3> QED
      BY <2>1, <3>1
  <2> QED
    BY <2>1, <2>2, <2>3 DEF SameOwners
<1> HIDE DEF j
<1>6. \A u \in Threads : u # t /\ lpc[u] # "recv" =>
        /\ conn[u] \in 1..Len(heap) /\ conn[u] # j /\ heap[conn[u]].wid = u
  BY <1>3 DEF Inv, TableInv
<1>7. DataType'
  <2>1. /\ lpc' \in [Threads -> {"recv", "lock", "cid", "list", "hash"}]
        /\ conn' \in [Threads -> Nat]
    BY <1>1 DEF Inv, DataType
  <2>2. j \in Nat
    BY <1>3
  <2>3. hash' \in [Threads -> SUBSET Nat]
    BY <1>1, <2>2 DEF Inv, DataType
  <2>4. heap' \in Seq(HeapRec)
    BY <1>4 DEF Counted
  <2>5. QueueType'
    BY <1>1 DEF Inv, DataType, QueueType
  <2> QED
    BY <1>1, <2>1, <2>3, <2>4, <2>5 DEF Inv, DataType
<1>8. TableInv'
  <2>1. \A u \in Threads : \A l \in hash[u] : l \in 1..Len(heap) /\ heap[l].wid = u
    BY DEF Inv, TableInv
  <2>2. ASSUME NEW u \in Threads
        PROVE  /\ lpc'[u] = "recv" => conn'[u] = 0
               /\ lpc'[u] # "recv" => /\ conn'[u] \in 1..Len(heap)
                                      /\ heap'[conn'[u]].wid = u
                                      /\ conn'[u] \notin hash'[u]
    BY <1>2, <1>5, <1>6 DEF Inv, TableInv
  <2>3. ASSUME NEW u \in Threads, NEW l \in hash'[u]
        PROVE  l \in 1..Len(heap) /\ heap'[l].wid = u
    BY <1>2, <1>3, <1>5, <2>1
  <2>4. ASSUME NEW l \in 1..Len(heap)
        PROVE  l \in hash'[heap'[l].wid] \/ l = conn'[heap'[l].wid]
    <3>1. heap[l].wid \in Threads /\ heap'[l].wid = heap[l].wid
      BY <1>5, HeapType DEF Inv
    <3>2. l \in hash[heap[l].wid] \/ l = conn[heap[l].wid]
      BY DEF Inv, TableInv
    <3> QED
      BY <1>2, <3>1, <3>2 DEF j
  <2> QED
    BY <1>5, <2>2, <2>3, <2>4 DEF TableInv
<1>9. OneConnEach'
  BY <1>5 DEF Inv, OneConnEach
<1>10. LockInv'
  BY <1>1, <1>2 DEF Inv, LockInv
<1>11. ListInv'
  <2>1. \A k \in 1..Len(conns) : conns[k] \in 1..Len(heap) /\ heap[conns[k]].cid = k - 1
    BY DEF Inv, ListInv
  <2>2. \A k \in 1..Len(conns) : heap'[conns[k]].cid = k - 1
    BY <1>5, <2>1
  <2>3. ASSUME NEW u \in Threads, lpc'[u] \in {"lock", "cid", "list"}
        PROVE  u # t /\ lpc[u] = lpc'[u] /\ conn'[u] = conn[u]
    BY <1>2, <2>3
  <2>4. \A k \in 1..Len(conns), u \in Threads :
          lpc'[u] \in {"lock", "cid", "list"} => conns[k] # conn'[u]
    BY <2>3 DEF Inv, ListInv
  <2>5. \A u \in Threads :
          lpc'[u] = "list" => /\ cid_seed = Len(conns) + 1
                              /\ heap'[conn'[u]].cid = Len(conns)
    BY <1>5, <1>6, <2>3 DEF Inv, ListInv
  <2>6. (\A u \in Threads : lpc'[u] # "list") => cid_seed = Len(conns)
    BY <1>1, <1>2 DEF Inv, ListInv
  <2>7. /\ \A k, l \in 1..Len(conns) : conns[k] = conns[l] => k = l
        /\ n_conns = Len(conns)
    BY DEF Inv, ListInv
  <2> QED
    BY <1>1, <1>5, <2>1, <2>2, <2>4, <2>5, <2>6, <2>7 DEF ListInv
<1>12. CountersInv'
  <2> SUFFICES ASSUME NEW l \in 1..Len(heap)
               PROVE  /\ heap'[l].reported <= heap'[l].prev
                      /\ heap'[l].prev <= heap'[l].npkts_rx
    BY <1>5 DEF CountersInv
  <2>1. heap[l].reported <= heap[l].prev /\ heap[l].prev <= heap[l].npkts_rx
    BY DEF Inv, StatInv, CountersInv
  <2> QED
    BY <1>5, <2>1
<1>13. FreshInv'
  <2> SUFFICES ASSUME NEW u \in Threads, lpc'[u] # "recv"
               PROVE  heap'[conn'[u]].npkts_rx = 0
    BY DEF FreshInv
  <2>1. u # t /\ lpc[u] # "recv" /\ conn'[u] = conn[u]
    BY <1>2
  <2>2. heap[conn[u]].npkts_rx = 0
    BY <2>1 DEF Inv, StatInv, FreshInv
  <2>3. heap'[conn[u]] = heap[conn[u]]
    BY <1>4, <1>6, <2>1 DEF Counted
  <2> QED
    BY <2>1, <2>2, <2>3
<1>14. PrintInv'
  <2>1. CASE rpc = "save"
    <3>1. conns[ri] \in 1..Len(heap)
      BY <2>1 DEF Inv, StatInv, PrintInv, ListInv
    <3>2. snap \in Nat
      BY DEF Inv, DataType
    <3> QED
      BY <1>1, <1>5, <2>1, <3>1, <3>2 DEF Inv, StatInv, PrintInv
  <2>2. CASE rpc # "save"
    BY <1>1, <2>2 DEF Inv, StatInv, PrintInv
  <2> QED
    BY <2>1, <2>2
<1> QED
  BY <1>7, <1>8, <1>9, <1>10, <1>11, <1>12, <1>13, <1>14 DEF Inv, StatInv

-----------------------------------------------------------------------------
(* The reports *)

LEMMA RdLockStep ==
    ASSUME Inv, RdLock
    PROVE  Inv'
<1>1. /\ rpc = "lock" /\ lock = FREE /\ lock' = READ /\ rpc' = "read"
      /\ UNCHANGED <<queue, lpc, conn, heap, hash, conns, n_conns, cid_seed, ri, snap>>
  BY DEF RdLock, network, work
<1>2. FREE \notin Threads /\ READ \notin Threads /\ READ \in -1..NThreads
  BY StartConstants DEF FREE, READ, Threads
<1>3. DataType'
  BY <1>1, <1>2 DEF Inv, DataType, QueueType
<1>4. TableInv' /\ OneConnEach' /\ ListInv'
  <2>1. TableInv'
    BY <1>1 DEF Inv, TableInv
  <2>2. OneConnEach' /\ ListInv'
    BY <1>1 DEF Inv, OneConnEach, ListInv
  <2> QED
    BY <2>1, <2>2
<1>5. LockInv'
  BY <1>1, <1>2 DEF Inv, LockInv
<1>6. StatInv'
  BY <1>1 DEF Inv, StatInv, CountersInv, FreshInv, PrintInv
<1> QED
  BY <1>3, <1>4, <1>5, <1>6 DEF Inv

LEMMA ReadStep ==
    ASSUME Inv, ReadStats
    PROVE  Inv'
<1>1. /\ rpc = "read" /\ ri <= Len(conns)
      /\ snap' = heap[conns[ri]].npkts_rx /\ rpc' = "save"
      /\ UNCHANGED <<queue, lpc, conn, heap, hash, conns, n_conns, cid_seed, lock, ri>>
  BY DEF ReadStats, network, work
<1>2. conns[ri] \in 1..Len(heap)
  BY <1>1 DEF Inv, StatInv, PrintInv, ListInv
<1>3. heap[conns[ri]].npkts_rx \in Nat
  BY <1>2, HeapType DEF Inv
<1>4. DataType'
  BY <1>1, <1>3 DEF Inv, DataType, QueueType
<1>5. TableInv' /\ OneConnEach' /\ ListInv'
  BY <1>1 DEF Inv, TableInv, OneConnEach, ListInv
<1>6. LockInv'
  BY <1>1 DEF Inv, LockInv
<1>7. CountersInv' /\ FreshInv'
  BY <1>1 DEF Inv, StatInv, CountersInv, FreshInv
<1>8. PrintInv'
  BY <1>1, <1>2, <1>3 DEF Inv, StatInv, CountersInv, PrintInv
<1> QED
  BY <1>4, <1>5, <1>6, <1>7, <1>8 DEF Inv, StatInv

\* What PrintStats does to the connection it prints.
LEMMA Printed ==
    ASSUME Inv, PrintStats
    PROVE  LET j == conns[ri] IN
           /\ ri <= Len(conns) /\ j \in 1..Len(heap)
           /\ heap' \in Seq(HeapRec) /\ Len(heap') = Len(heap)
           /\ \A l \in 1..Len(heap) : l # j => heap'[l] = heap[l]
           /\ heap'[j].t = heap[j].t /\ heap'[j].wid = heap[j].wid
           /\ heap'[j].cid = heap[j].cid /\ heap'[j].npkts_rx = heap[j].npkts_rx
           /\ heap'[j].prev = heap[j].npkts_rx
           /\ heap'[j].reported = heap[j].reported + (snap - heap[j].prev)
<1> DEFINE j == conns[ri]
           new == heap[j].reported + (snap - heap[j].prev)
           r == [heap[j] EXCEPT !.reported = @ + (snap - heap[j].prev),
                                !.prev = heap[j].npkts_rx]
<1>1. rpc = "save" /\ heap' = [heap EXCEPT ![j] = r]
  BY DEF PrintStats, Said, Remember
<1>2. ri <= Len(conns) /\ j \in 1..Len(heap) /\ heap[j].prev <= snap
  BY <1>1 DEF Inv, StatInv, PrintInv, ListInv
<1>3. /\ heap[j] \in HeapRec /\ heap[j].npkts_rx \in Nat /\ heap[j].prev \in Nat
      /\ heap[j].reported \in Nat /\ snap \in Nat
  BY <1>2, HeapType DEF Inv, DataType
<1>4. new \in Nat
  <2>1. \A a, b, c \in Nat : b <= c => a + (c - b) \in Nat
    OBVIOUS
  <2> HIDE DEF j
  <2> QED
    BY <1>2, <1>3, <2>1
<1> HIDE DEF j
<1>5. r = [heap[j] EXCEPT !.reported = new, !.prev = heap[j].npkts_rx]
  OBVIOUS
<1> HIDE DEF new, r
<1>6. /\ r.t = heap[j].t /\ r.wid = heap[j].wid
      /\ r.cid = heap[j].cid /\ r.npkts_rx = heap[j].npkts_rx
      /\ r.prev = heap[j].npkts_rx /\ r.reported = new
      /\ r \in HeapRec
  BY <1>3, <1>4, <1>5 DEF HeapRec
<1>7. /\ heap' \in Seq(HeapRec) /\ Len(heap') = Len(heap)
      /\ \A l \in 1..Len(heap) : heap'[l] = IF l = j THEN r ELSE heap[l]
  BY <1>1, <1>2, <1>6, HeapSet DEF Inv, DataType
<1> QED
  BY <1>2, <1>6, <1>7 DEF new, j

LEMMA PrintStep ==
    ASSUME Inv, PrintStats
    PROVE  Inv'
<1> DEFINE j == conns[ri]
<1>1. /\ rpc = "save" /\ rpc' = "read" /\ ri' = ri + 1 /\ snap' = 0
      /\ UNCHANGED <<queue, lpc, conn, hash, conns, n_conns, cid_seed, lock>>
  BY DEF PrintStats, network
<1>2. /\ ri <= Len(conns) /\ j \in 1..Len(heap)
      /\ heap' \in Seq(HeapRec) /\ Len(heap') = Len(heap)
      /\ \A l \in 1..Len(heap) : l # j => heap'[l] = heap[l]
      /\ heap'[j].t = heap[j].t /\ heap'[j].wid = heap[j].wid
      /\ heap'[j].cid = heap[j].cid /\ heap'[j].npkts_rx = heap[j].npkts_rx
      /\ heap'[j].prev = heap[j].npkts_rx
      /\ heap'[j].reported = heap[j].reported + (snap - heap[j].prev)
  BY Printed
<1>3. /\ heap[j].prev <= snap /\ snap <= heap[j].npkts_rx
      /\ heap[j].reported <= heap[j].prev
      /\ heap[j].npkts_rx \in Nat /\ heap[j].prev \in Nat
      /\ heap[j].reported \in Nat /\ snap \in Nat
  BY <1>1, <1>2, HeapType DEF Inv, DataType, StatInv, CountersInv, PrintInv
<1> HIDE DEF j
<1>4. SameOwners /\ \A l \in 1..Len(heap) : /\ heap'[l].cid = heap[l].cid
                                           /\ heap'[l].npkts_rx = heap[l].npkts_rx
  BY <1>2 DEF SameOwners
<1>5. DataType'
  <2>1. ri' \in Nat
    BY <1>1 DEF Inv, DataType
  <2>2. QueueType'
    BY <1>1 DEF Inv, DataType, QueueType
  <2> QED
    BY <1>1, <1>2, <2>1, <2>2 DEF Inv, DataType
<1>6. TableInv' /\ OneConnEach' /\ ListInv'
  BY <1>1, <1>4, OwnersKeepTable, OwnersKeepOne, NumbersKeepList DEF Inv
<1>7. LockInv'
  BY <1>1 DEF Inv, LockInv
<1>8. CountersInv'
  <2> SUFFICES ASSUME NEW l \in 1..Len(heap)
               PROVE  /\ heap'[l].reported <= heap'[l].prev
                      /\ heap'[l].prev <= heap'[l].npkts_rx
    BY <1>2 DEF CountersInv
  <2>1. CASE l = j
    BY <1>2, <1>3, <2>1
  <2>2. CASE l # j
    BY <1>2, <2>2 DEF Inv, StatInv, CountersInv
  <2> QED
    BY <2>1, <2>2
<1>9. FreshInv'
  BY <1>1, <1>4 DEF Inv, StatInv, FreshInv, TableInv
<1>10. PrintInv'
  <2>1. Len(conns) \in Nat /\ ri \in 1..Len(conns)
    BY <1>2, LenProperties DEF Inv, DataType, StatInv, PrintInv
  <2> QED
    BY <1>1, <2>1 DEF PrintInv
<1> QED
  BY <1>5, <1>6, <1>7, <1>8, <1>9, <1>10 DEF Inv, StatInv

LEMMA RestStep ==
    ASSUME Inv, EndReport \/ Wake
    PROVE  Inv'
<1>1. /\ rpc' \in {"asleep", "lock"} /\ ri' = 1
      /\ rpc = "read" => lock' = FREE
      /\ rpc # "read" => rpc = "asleep" /\ lock' = lock
      /\ UNCHANGED <<queue, lpc, conn, heap, hash, conns, n_conns, cid_seed, snap>>
  BY DEF EndReport, Wake, LeftBehind, network, work, Inv, StatInv, PrintInv
<1>2. FREE \notin Threads /\ READ \notin Threads /\ FREE # READ /\ FREE \in -1..NThreads
  BY StartConstants DEF FREE, READ, Threads
<1>3. DataType'
  BY <1>1, <1>2 DEF Inv, DataType, QueueType
<1>4. TableInv' /\ OneConnEach' /\ ListInv'
  BY <1>1 DEF Inv, TableInv, OneConnEach, ListInv
<1>5. LockInv'
  BY <1>1, <1>2 DEF Inv, LockInv
<1>6. CountersInv' /\ FreshInv'
  BY <1>1 DEF Inv, StatInv, CountersInv, FreshInv
<1>7. PrintInv'
  <2>1. Len(conns) \in Nat
    BY LenProperties DEF Inv, DataType
  <2> QED
    BY <1>1, <2>1 DEF PrintInv
<1> QED
  BY <1>3, <1>4, <1>5, <1>6, <1>7 DEF Inv, StatInv

-----------------------------------------------------------------------------
(* The invariant holds *)

LEMMA ArriveStep ==
    ASSUME Inv, NEW c \in Clients, Arrive(c)
    PROVE  Inv'
<1>1. UNCHANGED <<lpc, conn, heap, hash, conns, n_conns, cid_seed, lock, rpc, ri, snap>>
  BY Zenon DEF Arrive, work, report
<1>2. UNCHANGED queue \/ \E u, sig :
        sig \in BOOLEAN /\ queue' = [queue EXCEPT ![u] = Append(@, [from |-> c, sig |-> sig])]
  BY Zenon DEF Arrive
<1>3. ASSUME NEW u, NEW sig \in BOOLEAN,
             queue' = [queue EXCEPT ![u] = Append(@, [from |-> c, sig |-> sig])]
      PROVE  QueueType'
  <2> DEFINE m == [from |-> c, sig |-> sig]
             M == [from : Clients, sig : BOOLEAN]
  <2>1. m \in M
    OBVIOUS
  <2>2. queue \in [Threads -> Seq(M)]
    BY DEF Inv, DataType, QueueType
  <2>3. \A t \in Threads : Append(queue[t], m) \in Seq(M)
    BY <2>1, <2>2, AppendProperties
  <2> HIDE DEF m, M
  <2>4. queue' = [queue EXCEPT ![u] = Append(@, m)]
    BY <1>3 DEF m
  <2>5. queue' \in [Threads -> Seq(M)]
    BY <2>2, <2>3, <2>4
  <2> QED
    BY <2>5 DEF M, QueueType
<1>4. QueueType'
  <2>1. CASE UNCHANGED queue
    BY <2>1 DEF Inv, DataType, QueueType
  <2> QED
    BY <1>2, <1>3, <2>1
<1> QED
  BY <1>1, <1>4, Aside

LEMMA InvStep == Inv /\ StartInv /\ [Next]_vars => Inv'
<1> SUFFICES ASSUME Inv, StartInv, [Next]_vars PROVE Inv'
  OBVIOUS
<1>1. CASE UNCHANGED <<network, work, lock, report>>
  <2>1. QueueType'
    BY <1>1 DEF Inv, DataType, QueueType, network
  <2> QED
    BY <1>1, <2>1, Aside DEF work, report
<1>2. CASE Main
  BY <1>1, <1>2, ReadStep, PrintStep, RestStep DEF Main
<1>3. CASE RdLock \/ Wake
  BY <1>3, RdLockStep, RestStep
<1>4. ASSUME NEW t \in Threads, Worker(t) \/ WrLock(t) PROVE Inv'
  BY <1>1, <1>4, RecvStep, WrLockStep, TakeCidStep, ListStep, HashStep DEF Worker
<1>5. ASSUME NEW c \in Clients, Arrive(c) PROVE Inv'
  BY <1>5, ArriveStep
<1>6. CASE UNCHANGED vars
  BY <1>1, <1>6 DEF vars
<1> QED
  BY <1>2, <1>3, <1>4, <1>5, <1>6 DEF Next

LEMMA Invariant == Spec => [](Inv /\ StartInv)
<1>1. Init => Inv
  BY InvInit
<1>2. Inv /\ StartInv /\ [Next]_vars => Inv'
  BY InvStep
<1> QED
  BY <1>1, <1>2, ServerStarts, PTL DEF Spec

LEMMA InvType == Inv /\ StartInv => TypeOK
<1> SUFFICES ASSUME Inv, StartInv PROVE TypeOK
  OBVIOUS
<1>1. conn \in [Threads -> 0..Len(heap)]
  <2>1. Len(heap) \in Nat /\ conn \in [Threads -> Nat]
    BY LenProperties DEF Inv, DataType
  <2>2. \A t \in Threads : conn[t] \in 0..Len(heap)
    BY <2>1 DEF Inv, TableInv
  <2> QED
    BY <2>1, <2>2
<1>2. DOMAIN heap = 1..Len(heap)
  BY LenProperties DEF Inv, DataType
<1>3. hash \in [Threads -> SUBSET DOMAIN heap]
  <2>1. \A t \in Threads : hash[t] \subseteq DOMAIN heap
    BY <1>2 DEF Inv, TableInv
  <2> QED
    BY <2>1 DEF Inv, DataType
<1>4. conns \in Seq(DOMAIN heap)
  <2>1. conns \in [1..Len(conns) -> Nat] /\ Len(conns) \in Nat
    BY LenProperties DEF Inv, DataType
  <2>2. \A k \in 1..Len(conns) : conns[k] \in DOMAIN heap
    BY <1>2 DEF Inv, ListInv
  <2>3. conns \in [1..Len(conns) -> DOMAIN heap]
    BY <2>1, <2>2
  <2> QED
    BY <2>1, <2>3, SeqDef
<1>5. ri \in 1..(Len(conns) + 1)
  BY DEF Inv, StatInv, PrintInv
<1> QED
  BY <1>1, <1>3, <1>4, <1>5 DEF Inv, DataType, QueueType, TypeOK, StartInv

\* The server keeps its types for any number of workers, clients and datagrams.
THEOREM ServerTypeCorrect == Spec => []TypeOK
  BY Invariant, InvType, PTL

\* conn_lock: connections enter the list in the order of their numbers.
THEOREM ConnsNumberedInOrder == Spec => []NumberedInOrder
<1>1. Inv => NumberedInOrder
  BY DEF Inv, ListInv, NumberedInOrder
<1> QED
  BY <1>1, Invariant, PTL

\* A worker never has two connections for one client.
THEOREM ConnsAreOne == Spec => []OneConnEach
<1>1. Inv => OneConnEach
  BY DEF Inv
<1> QED
  BY <1>1, Invariant, PTL

\* No report claims a packet twice, or one that never came, although the
\* counters are read while the workers go on counting.
THEOREM ReportsAreHonest == Spec => []ReportsAreTrue
<1>1. Inv => ReportsAreTrue
  BY DEF Inv, StatInv, CountersInv, ReportsAreTrue
<1> QED
  BY <1>1, Invariant, PTL

-----------------------------------------------------------------------------
(* The sum of the counters of a set of connections.  MapThenSumSet is a     *)
(* recursive function on the subsets of the set, taking out one element at  *)
(* a time.  Such a function exists and is unique, whatever the order.       *)

LEMMA LeastNat ==
    ASSUME NEW S \in SUBSET Nat, S # {}
    PROVE  \E x \in S : \A y \in S : x <= y
<1>1. PICK x \in S : \A y \in S : ~ (<<y, x>> \in OpToRel(<, Nat))
  BY NatLessThanWellFounded, WFMin, Zenon
<1>2. \A y \in S : ~(y < x)
  BY <1>1, Zenon DEF OpToRel
<1> QED
  BY <1>2

LEMMA SetInduction ==
    ASSUME NEW S, 0 \in S, \A n \in Nat : n \in S => n + 1 \in S
    PROVE  Nat \subseteq S
<1> SUFFICES ASSUME Nat \ S # {} PROVE FALSE
  OBVIOUS
<1>1. PICK x \in Nat \ S : \A y \in Nat \ S : x <= y
  BY LeastNat
<1>2. x # 0 /\ x - 1 \in Nat
  BY <1>1
<1>3. x - 1 \in S
  BY <1>1, <1>2
<1> QED
  BY <1>1, <1>2, <1>3

Total(h, S) == MapThenSumSet(LAMBDA j : h[j].npkts_rx, S)

\* G gives the sum of the counters of every subset of B.
Sums(G, h, B) ==
    /\ \A x \in B : h[x].npkts_rx \in Nat
    /\ G \in [SUBSET B -> Nat]
    /\ G[{}] = 0
    /\ \A s \in SUBSET B : \A x \in s : G[s] = h[x].npkts_rx + G[s \ {x}]

LEMMA SumsGrow ==
    ASSUME NEW B, NEW z, z \notin B, NEW h, h[z].npkts_rx \in Nat,
           NEW G, Sums(G, h, B)
    PROVE  \E F : Sums(F, h, B \cup {z})
<1> DEFINE w == h[z].npkts_rx
           C == B \cup {z}
           F == [s \in SUBSET C |-> IF z \in s THEN w + G[s \ {z}] ELSE G[s]]
<1>1. /\ \A x \in B : h[x].npkts_rx \in Nat
      /\ G \in [SUBSET B -> Nat] /\ G[{}] = 0
      /\ \A s \in SUBSET B : \A x \in s : G[s] = h[x].npkts_rx + G[s \ {x}]
  BY DEF Sums
<1>2. \A s \in SUBSET C : /\ s \ {z} \in SUBSET B
                          /\ z \notin s => s \in SUBSET B
  OBVIOUS
<1>3. w \in Nat
  OBVIOUS
<1>4. F \in [SUBSET C -> Nat]
  <2>1. \A s \in SUBSET C : (IF z \in s THEN w + G[s \ {z}] ELSE G[s]) \in Nat
    BY <1>1, <1>2, <1>3
  <2> QED
    BY <2>1
<1>5. F[{}] = 0
  BY <1>1
<1>6. ASSUME NEW s \in SUBSET C, NEW x \in s
      PROVE  F[s] = h[x].npkts_rx + F[s \ {x}]
  <2>0. s \ {x} \in SUBSET C
    OBVIOUS
  <2>1. CASE x = z
    BY <2>0, <2>1
  <2>2. CASE x # z /\ z \notin s
    BY <1>1, <1>2, <2>0, <2>2
  <2>3. CASE x # z /\ z \in s
    <3>1. (s \ {z}) \ {x} = (s \ {x}) \ {z}
      OBVIOUS
    <3>2. /\ G[s \ {z}] = h[x].npkts_rx + G[(s \ {x}) \ {z}]
          /\ x \in B /\ s \ {z} \in SUBSET B /\ (s \ {x}) \ {z} \in SUBSET B
      BY <1>1, <1>2, <2>3, <3>1
    <3>3. F[s] = w + G[s \ {z}] /\ F[s \ {x}] = w + G[(s \ {x}) \ {z}]
      BY <2>0, <2>3
    <3>4. h[x].npkts_rx \in Nat /\ G[(s \ {x}) \ {z}] \in Nat
      BY <1>1, <3>2
    <3> HIDE DEF w, F
    <3> QED
      BY <1>3, <3>2, <3>3, <3>4
  <2> QED
    BY <2>1, <2>2, <2>3
<1>7. \A x \in C : h[x].npkts_rx \in Nat
  BY <1>1
<1> HIDE DEF F
<1> QED
  BY <1>4, <1>5, <1>6, <1>7 DEF Sums

LEMMA SumsExist ==
    ASSUME NEW n \in Nat, NEW h, \A j \in 1..n : h[j].npkts_rx \in Nat
    PROVE  \E G : Sums(G, h, 1..n)
<1> DEFINE S == {k \in Nat : k <= n => \E G : Sums(G, h, 1..k)}
<1>1. 0 \in S
  <2>1. 1..0 = {}
    OBVIOUS
  <2>2. Sums([s \in SUBSET {} |-> 0], h, {})
    BY DEF Sums
  <2> QED
    BY <2>1, <2>2
<1>2. ASSUME NEW k \in Nat, k \in S PROVE k + 1 \in S
  <2> SUFFICES ASSUME k + 1 <= n PROVE \E G : Sums(G, h, 1..(k + 1))
    OBVIOUS
  <2>1. PICK G : Sums(G, h, 1..k)
    BY <1>2
  <2>2. k + 1 \notin 1..k /\ 1..(k + 1) = 1..k \cup {k + 1} /\ h[k + 1].npkts_rx \in Nat
    OBVIOUS
  <2>3. \E F : Sums(F, h, 1..k \cup {k + 1})
    BY <2>1, <2>2, SumsGrow, Zenon
  <2> QED
    BY <2>2, <2>3, Zenon
<1> HIDE DEF S
<1>3. n \in S
  BY <1>1, <1>2, SetInduction
<1> QED
  BY <1>3 DEF S

LEMMA SumsPart ==
    ASSUME NEW G, NEW h, NEW B, Sums(G, h, B), NEW S \in SUBSET B
    PROVE  Sums([s \in SUBSET S |-> G[s]], h, S)
  BY DEF Sums

\* The function in MapThenSumSet.
Iter(f, h, B) ==
    f = [s \in SUBSET B |->
           IF s = {} THEN 0
           ELSE LET x == CHOOSE x \in s : TRUE
                IN  h[x].npkts_rx + f[s \ {x}]]

LEMMA SumsIter ==
    ASSUME NEW G, NEW h, NEW B, Sums(G, h, B)
    PROVE  Iter(G, h, B)
<1>1. /\ \A x \in B : h[x].npkts_rx \in Nat
      /\ G \in [SUBSET B -> Nat] /\ G[{}] = 0
      /\ \A s \in SUBSET B : \A x \in s : G[s] = h[x].npkts_rx + G[s \ {x}]
  BY DEF Sums
<1>2. ASSUME NEW s \in SUBSET B
      PROVE  G[s] = IF s = {} THEN 0
                    ELSE LET x == CHOOSE x \in s : TRUE
                         IN  h[x].npkts_rx + G[s \ {x}]
  <2>1. s # {} => (CHOOSE x \in s : TRUE) \in s
    OBVIOUS
  <2> QED
    BY <1>1, <2>1
<1> QED
  BY <1>1, <1>2 DEF Iter

LEMMA IterUnique ==
    ASSUME NEW G, NEW h, NEW B, IsFiniteSet(B), Sums(G, h, B), NEW f, Iter(f, h, B)
    PROVE  f[B] = G[B]
<1>1. Iter(G, h, B)
  BY SumsIter
<1> DEFINE S == {k \in Nat : \A s \in SUBSET B : Cardinality(s) = k => f[s] = G[s]}
<1>2. \A s \in SUBSET B : IsFiniteSet(s) /\ Cardinality(s) \in Nat
  BY FS_Subset, FS_CardinalityType
<1>3. 0 \in S
  <2>1. \A s \in SUBSET B : Cardinality(s) = 0 => s = {}
    BY <1>2, FS_EmptySet
  <2>2. f[{}] = G[{}]
    BY <1>1 DEF Iter
  <2> QED
    BY <2>1, <2>2
<1>4. ASSUME NEW k \in Nat, k \in S PROVE k + 1 \in S
  <2> SUFFICES ASSUME NEW s \in SUBSET B, Cardinality(s) = k + 1 PROVE f[s] = G[s]
    OBVIOUS
  <2> DEFINE x == CHOOSE x \in s : TRUE
  <2>1. s # {}
    BY FS_EmptySet
  <2>2. x \in s
    BY <2>1
  <2>3. Cardinality(s \ {x}) = k
    <3>1. IsFiniteSet(s)
      BY <1>2
    <3>2. Cardinality(s \ {x}) = Cardinality(s) - 1
      BY <2>2, <3>1, FS_RemoveElement, Zenon
    <3> QED
      BY <3>2
  <2>4. f[s \ {x}] = G[s \ {x}]
    BY <1>4, <2>3
  <2>5. f[s] = h[x].npkts_rx + f[s \ {x}] /\ G[s] = h[x].npkts_rx + G[s \ {x}]
    BY <1>1, <2>1 DEF Iter
  <2> QED
    BY <2>4, <2>5
<1> HIDE DEF S
<1>5. Nat \subseteq S
  BY <1>3, <1>4, SetInduction
<1> QED
  BY <1>2, <1>5 DEF S

LEMMA TotalIs ==
    ASSUME NEW G, NEW h, NEW B, IsFiniteSet(B), Sums(G, h, B)
    PROVE  Total(h, B) = G[B]
<1> DEFINE f == CHOOSE f : Iter(f, h, B)
<1>1. Total(h, B) = f[B]
  BY DEF Total, MapThenSumSet, MapThenFoldSet, Iter
<1>2. Iter(f, h, B)
  BY SumsIter
<1> HIDE DEF f
<1> QED
  BY <1>1, <1>2, IterUnique

\* The counters of the connections 1..n are numbers.
Counters(h, n) == \A j \in 1..n : h[j].npkts_rx \in Nat

LEMMA TotalSums ==
    ASSUME NEW n \in Nat, NEW h, Counters(h, n), NEW S \in SUBSET (1..n)
    PROVE  \E G : Sums(G, h, S) /\ IsFiniteSet(S)
<1>1. PICK G : Sums(G, h, 1..n)
  BY SumsExist DEF Counters
<1>2. Sums([s \in SUBSET S |-> G[s]], h, S)
  BY <1>1, SumsPart
<1>3. IsFiniteSet(S)
  <2>1. IsFiniteSet(1..n)
    BY FS_Interval
  <2> QED
    BY <2>1, FS_Subset
<1> QED
  BY <1>2, <1>3

\* The sum depends on nothing but the counters of the set.
LEMMA TotalSame ==
    ASSUME NEW n \in Nat, NEW h, Counters(h, n), NEW S \in SUBSET (1..n),
           NEW g, \A j \in S : g[j].npkts_rx = h[j].npkts_rx
    PROVE  Total(h, S) \in Nat /\ Total(g, S) = Total(h, S)
<1>1. PICK G : Sums(G, h, S) /\ IsFiniteSet(S)
  BY TotalSums
<1>2. Sums(G, g, S)
  BY <1>1 DEF Sums
<1>3. Total(h, S) = G[S] /\ Total(g, S) = G[S]
  BY <1>1, <1>2, TotalIs
<1>4. G[S] \in Nat
  BY <1>1 DEF Sums
<1> QED
  BY <1>3, <1>4

\* One connection taken out of the sum.
LEMMA TotalSplit ==
    ASSUME NEW n \in Nat, NEW h, Counters(h, n), NEW S \in SUBSET (1..n), NEW x \in S
    PROVE  Total(h, S) = h[x].npkts_rx + Total(h, S \ {x})
<1>1. PICK G : Sums(G, h, S) /\ IsFiniteSet(S)
  BY TotalSums
<1> DEFINE F == [s \in SUBSET (S \ {x}) |-> G[s]]
<1>2. Sums(F, h, S \ {x}) /\ IsFiniteSet(S \ {x})
  BY <1>1, SumsPart, FS_Subset
<1>3. F[S \ {x}] = G[S \ {x}]
  OBVIOUS
<1> HIDE DEF F
<1>4. Total(h, S) = G[S] /\ Total(h, S \ {x}) = G[S \ {x}]
  BY <1>1, <1>2, <1>3, TotalIs
<1>5. G[S] = h[x].npkts_rx + G[S \ {x}]
  BY <1>1 DEF Sums
<1> QED
  BY <1>4, <1>5

\* One counter goes up by one.
LEMMA TotalCount ==
    ASSUME NEW n \in Nat, NEW h, Counters(h, n), NEW S \in SUBSET (1..n),
           NEW g, Counters(g, n), NEW j \in 1..n,
           g[j].npkts_rx = h[j].npkts_rx + 1,
           \A l \in 1..n : l # j => g[l].npkts_rx = h[l].npkts_rx
    PROVE  /\ Total(h, S) \in Nat
           /\ j \in S => Total(g, S) = Total(h, S) + 1
           /\ j \notin S => Total(g, S) = Total(h, S)
<1>1. Total(h, S) \in Nat
  BY TotalSame
<1>2. CASE j \in S
  <2>1. /\ Total(h, S) = h[j].npkts_rx + Total(h, S \ {j})
        /\ Total(g, S) = g[j].npkts_rx + Total(g, S \ {j})
    BY <1>2, TotalSplit
  <2>2. /\ Total(h, S \ {j}) \in Nat
        /\ Total(g, S \ {j}) = Total(h, S \ {j})
    <3>1. S \ {j} \in SUBSET (1..n) /\ \A l \in S \ {j} : g[l].npkts_rx = h[l].npkts_rx
      OBVIOUS
    <3> QED
      BY <3>1, TotalSame
  <2>3. h[j].npkts_rx \in Nat
    BY DEF Counters
  <2> QED
    BY <1>1, <1>2, <2>1, <2>2, <2>3
<1>3. CASE j \notin S
  <2>1. \A l \in S : g[l].npkts_rx = h[l].npkts_rx
    BY <1>3
  <2> QED
    BY <1>3, <2>1, TotalSame
<1> QED
  BY <1>2, <1>3

-----------------------------------------------------------------------------
(* Every valid packet is in a counter or in a registration under way *)

\* The connections of client c, and the workers that are registering one.
Owned(c) == {j \in 1..Len(heap) : heap[j].t = c}
Registering(c) == {t \in Threads : lpc[t] # "recv" /\ heap[conn[t]].t = c}

AccInv ==
    /\ taken \in [Clients -> Nat]
    /\ \A c \in Clients : taken[c] = Total(heap, Owned(c)) + Cardinality(Registering(c))

LEMMA AccFacts ==
    ASSUME Inv
    PROVE  /\ Len(heap) \in Nat /\ Counters(heap, Len(heap))
           /\ \A c : Owned(c) \in SUBSET (1..Len(heap))
           /\ \A c : IsFiniteSet(Registering(c)) /\ Cardinality(Registering(c)) \in Nat
<1>1. Len(heap) \in Nat /\ Counters(heap, Len(heap))
  BY HeapType, LenProperties DEF Inv, DataType, Counters
<1>2. \A c : Owned(c) \in SUBSET (1..Len(heap))
  BY DEF Owned
<1>3. IsFiniteSet(Threads)
  BY StartConstants, FS_Interval DEF Threads
<1>4. \A c : Registering(c) \in SUBSET Threads
  BY DEF Registering
<1>5. \A c : IsFiniteSet(Registering(c))
  BY <1>3, <1>4, FS_Subset
<1> QED
  BY <1>1, <1>2, <1>5, FS_CardinalityType

LEMMA AccInit == Init => AccInv
<1> SUFFICES ASSUME Init PROVE AccInv
  OBVIOUS
<1>1. /\ heap = <<>> /\ taken = [c \in Clients |-> 0]
      /\ lpc = [t \in Threads |-> "recv"]
  BY Zenon DEF Init
<1>2. \A c : Registering(c) = {} /\ Owned(c) = {}
  BY <1>1 DEF Registering, Owned
<1>3. Sums([s \in SUBSET {} |-> 0], heap, {})
  BY DEF Sums
<1>4. Total(heap, {}) = 0
  BY <1>3, TotalIs, FS_EmptySet
<1>5. Cardinality({}) = 0
  BY FS_EmptySet
<1>6. ASSUME NEW c \in Clients
      PROVE  taken[c] = Total(heap, Owned(c)) + Cardinality(Registering(c))
  <2>1. Total(heap, Owned(c)) = 0 /\ Cardinality(Registering(c)) = 0
    BY <1>2, <1>4, <1>5
  <2> QED
    BY <1>1, <2>1
<1> QED
  BY <1>1, <1>6 DEF AccInv

\* Nothing is received, counted or registered.
LEMMA AccKept ==
    ASSUME Inv, AccInv, SameOwners,
           \A l \in 1..Len(heap) : heap'[l].npkts_rx = heap[l].npkts_rx,
           \A t \in Threads : lpc'[t] = "recv" <=> lpc[t] = "recv",
           UNCHANGED <<conn, taken>>
    PROVE  AccInv'
<1> SUFFICES ASSUME NEW c \in Clients
             PROVE  taken'[c] = Total(heap', Owned(c)') + Cardinality(Registering(c)')
  BY DEF AccInv
<1>1. Owned(c)' = Owned(c)
  BY DEF SameOwners, Owned
<1>2. Registering(c)' = Registering(c)
  BY DEF SameOwners, Registering, Inv, TableInv
<1>3. Total(heap', Owned(c)) = Total(heap, Owned(c))
  <2>1. \A j \in Owned(c) : heap'[j].npkts_rx = heap[j].npkts_rx
    BY DEF Owned
  <2> QED
    BY <2>1, AccFacts, TotalSame
<1> QED
  BY <1>1, <1>2, <1>3 DEF AccInv

\* What counting in connection j does to the sums.
LEMMA AccCount ==
    ASSUME Inv, NEW j \in 1..Len(heap), Counted(j), NEW c \in Clients
    PROVE  /\ Owned(c)' = Owned(c) /\ Total(heap, Owned(c)) \in Nat
           /\ Total(heap', Owned(c)') =
                Total(heap, Owned(c)) + (IF heap[j].t = c THEN 1 ELSE 0)
<1>1. /\ Len(heap') = Len(heap)
      /\ \A l \in 1..Len(heap) : l # j => heap'[l] = heap[l]
      /\ heap'[j].t = heap[j].t
      /\ heap'[j].npkts_rx = heap[j].npkts_rx + 1
  BY DEF Counted
<1>2. Owned(c)' = Owned(c)
  BY <1>1 DEF Owned
<1>3. /\ Len(heap) \in Nat /\ Counters(heap, Len(heap))
      /\ Owned(c) \in SUBSET (1..Len(heap))
  BY AccFacts
<1>4. Counters(heap', Len(heap))
  BY <1>1, <1>3 DEF Counters
<1>5. /\ Total(heap, Owned(c)) \in Nat
      /\ j \in Owned(c) => Total(heap', Owned(c)) = Total(heap, Owned(c)) + 1
      /\ j \notin Owned(c) => Total(heap', Owned(c)) = Total(heap, Owned(c))
  BY <1>1, <1>3, <1>4, TotalCount
<1>6. j \in Owned(c) <=> heap[j].t = c
  BY DEF Owned
<1> QED
  BY <1>2, <1>5, <1>6

\* A packet of a client that worker t has a connection for.
LEMMA AccKnown ==
    ASSUME Inv, AccInv, NEW j \in 1..Len(heap), Counted(j), NEW c \in Clients,
           heap[j].t = c, taken' = [taken EXCEPT ![c] = @ + 1],
           UNCHANGED <<lpc, conn>>
    PROVE  AccInv'
<1>1. /\ taken \in [Clients -> Nat] /\ taken' \in [Clients -> Nat]
      /\ \A d \in Clients : taken'[d] = taken[d] + (IF d = c THEN 1 ELSE 0)
  BY DEF AccInv
<1>2. SameOwners
  BY DEF Counted, SameOwners
<1> SUFFICES ASSUME NEW d \in Clients
             PROVE  taken'[d] = Total(heap', Owned(d)') + Cardinality(Registering(d)')
  BY <1>1 DEF AccInv
<1>3. Registering(d)' = Registering(d)
  BY <1>2 DEF SameOwners, Registering, Inv, TableInv
<1>4. /\ Owned(d)' = Owned(d) /\ Total(heap, Owned(d)) \in Nat
      /\ Total(heap', Owned(d)') = Total(heap, Owned(d)) + (IF c = d THEN 1 ELSE 0)
  BY AccCount
<1>5. Cardinality(Registering(d)) \in Nat
  BY AccFacts
<1>6. taken[d] = Total(heap, Owned(d)) + Cardinality(Registering(d))
  BY DEF AccInv
<1> QED
  BY <1>1, <1>3, <1>4, <1>5, <1>6

\* The first packet of client c at worker t: it is in the registration.
LEMMA AccFirst ==
    ASSUME Inv, AccInv, NEW t \in Threads, NEW c \in Clients, NEW r \in HeapRec,
           r.t = c, r.npkts_rx = 0, lpc[t] = "recv",
           heap' = Append(heap, r),
           conn' = [conn EXCEPT ![t] = Len(heap')],
           lpc' = [lpc EXCEPT ![t] = "lock"],
           taken' = [taken EXCEPT ![c] = @ + 1]
    PROVE  AccInv'
<1> DEFINE n == Len(heap) + 1
<1>1. /\ taken \in [Clients -> Nat] /\ taken' \in [Clients -> Nat]
      /\ \A d \in Clients : taken'[d] = taken[d] + (IF d = c THEN 1 ELSE 0)
  BY DEF AccInv
<1>2. /\ Len(heap') = n /\ Len(heap) \in Nat /\ heap'[n] = r
      /\ \A l \in 1..Len(heap) : heap'[l] = heap[l]
  BY AppendProperties, LenProperties DEF Inv, DataType
<1>3. /\ conn'[t] = n /\ lpc'[t] = "lock"
      /\ \A u \in Threads : u # t => conn'[u] = conn[u] /\ lpc'[u] = lpc[u]
  BY <1>2 DEF Inv, DataType
<1>4. \A u \in Threads : lpc[u] # "recv" => u # t /\ conn[u] \in 1..Len(heap)
  BY DEF Inv, TableInv
<1>5. /\ Counters(heap, Len(heap)) /\ Counters(heap', n)
      /\ \A d : Owned(d) \in SUBSET (1..Len(heap))
      /\ \A d : IsFiniteSet(Registering(d)) /\ Cardinality(Registering(d)) \in Nat
  <2>1. Counters(heap, Len(heap))
    BY AccFacts
  <2>2. Counters(heap', n)
    BY <1>2, <2>1 DEF Counters
  <2> QED
    BY <2>1, <2>2, AccFacts
<1> SUFFICES ASSUME NEW d \in Clients
             PROVE  taken'[d] = Total(heap', Owned(d)') + Cardinality(Registering(d)')
  BY <1>1 DEF AccInv
<1>6. taken[d] = Total(heap, Owned(d)) + Cardinality(Registering(d))
  BY DEF AccInv
<1>7. Total(heap, Owned(d)) \in Nat /\ Total(heap', Owned(d)) = Total(heap, Owned(d))
  <2>1. \A j \in Owned(d) : heap'[j].npkts_rx = heap[j].npkts_rx
    BY <1>2, <1>5
  <2> QED
    BY <1>2, <1>5, <2>1, TotalSame
<1>8. CASE d = c
  <2>1. Owned(d)' = Owned(d) \cup {n}
    BY <1>2, <1>8 DEF Owned
  <2>2. Total(heap', Owned(d)') = Total(heap', Owned(d))
    <3>1. /\ Owned(d) \cup {n} \in SUBSET (1..n) /\ n \in Owned(d) \cup {n}
          /\ (Owned(d) \cup {n}) \ {n} = Owned(d) /\ n \in Nat
      BY <1>2, <1>5
    <3>2. heap'[n].npkts_rx = 0
      BY <1>2
    <3> DEFINE h == heap'
               S == Owned(d) \cup {n}
    <3>3. Counters(h, n)
      BY <1>5
    <3> HIDE DEF n, h, S
    <3>4. Total(h, S) = h[n].npkts_rx + Total(h, S \ {n})
      BY <3>1, <3>3, TotalSplit DEF S
    <3>5. Total(heap', Owned(d) \cup {n}) = heap'[n].npkts_rx + Total(heap', Owned(d))
      BY <3>1, <3>4 DEF h, S
    <3> QED
      BY <1>7, <2>1, <3>2, <3>5
  <2>3. Registering(d)' = Registering(d) \cup {t} /\ t \notin Registering(d)
    BY <1>2, <1>3, <1>4, <1>8 DEF Registering
  <2>4. Cardinality(Registering(d)') = Cardinality(Registering(d)) + 1
    BY <1>5, <2>3, FS_AddElement
  <2> QED
    BY <1>1, <1>5, <1>6, <1>7, <1>8, <2>2, <2>4
<1>9. CASE d # c
  <2>1. Owned(d)' = Owned(d)
    BY <1>2, <1>9 DEF Owned
  <2>2. Registering(d)' = Registering(d)
    BY <1>2, <1>3, <1>4, <1>9 DEF Registering
  <2> QED
    BY <1>1, <1>5, <1>6, <1>7, <1>9, <2>1, <2>2
<1> QED
  BY <1>8, <1>9

LEMMA AccRecv ==
    ASSUME Inv, StartInv, AccInv, NEW t \in Threads, Recv(t)
    PROVE  AccInv'
<1> DEFINE c == Head(queue[t]).from
           known == {j \in hash[t] : Matches(j, c)}
<1>1. c \in Clients
  <2>1. queue[t] \in Seq([from : Clients, sig : BOOLEAN]) /\ queue[t] # <<>>
    BY DEF Recv, Inv, DataType, QueueType
  <2>2. Head(queue[t]) \in [from : Clients, sig : BOOLEAN]
    BY <2>1, HeadTailProperties
  <2> QED
    BY <2>2
<1>2. lpc[t] = "recv" /\ slot[t] = t
  BY DEF Recv, StartInv, ThreadInv
<1>3. CASE UNCHANGED work
  BY <1>3, AccKept DEF work, SameOwners
<1>4. ASSUME NEW j \in known, heap' = [heap EXCEPT ![j].npkts_rx = @ + 1],
             taken' = [taken EXCEPT ![c] = @ + 1],
             UNCHANGED <<lpc, conn, hash, conns, n_conns, cid_seed>>
      PROVE  AccInv'
  <2>1. j \in 1..Len(heap) /\ heap[j].t = c
    BY DEF Inv, TableInv, Matches
  <2>2. Counted(j)
    BY <1>4, <2>1, CountOne DEF Inv, DataType
  <2> HIDE DEF c
  <2> QED
    BY <1>1, <1>4, <2>1, <2>2, AccKnown
<1>5. CASE /\ known = {}
           /\ heap' = Append(heap, [t |-> c, wid |-> slot[t], cid |-> 0,
                                    npkts_rx |-> 0, prev |-> 0, reported |-> 0])
           /\ conn' = [conn EXCEPT ![t] = Len(heap')]
           /\ lpc' = [lpc EXCEPT ![t] = "lock"]
           /\ taken' = [taken EXCEPT ![c] = @ + 1]
           /\ UNCHANGED <<hash, conns, n_conns, cid_seed>>
  <2> DEFINE r == [t |-> c, wid |-> slot[t], cid |-> 0,
                   npkts_rx |-> 0, prev |-> 0, reported |-> 0]
  <2>1. r \in HeapRec /\ r.t = c /\ r.npkts_rx = 0
    BY <1>1, <1>2 DEF HeapRec
  <2>2. heap' = Append(heap, r)
    BY <1>5
  <2> HIDE DEF r, c, known
  <2> QED
    BY <1>1, <1>2, <1>5, <2>1, <2>2, AccFirst
<1> QED
  BY <1>3, <1>4, <1>5 DEF Recv

\* The packet of the registration gets into the counter.
LEMMA AccHash ==
    ASSUME Inv, AccInv, NEW t \in Threads, HashAndCount(t)
    PROVE  AccInv'
<1> DEFINE j == conn[t]
<1>1. /\ lpc[t] = "hash"
      /\ heap' = [heap EXCEPT ![j].npkts_rx = @ + 1]
      /\ lpc' = [lpc EXCEPT ![t] = "recv"] /\ conn' = [conn EXCEPT ![t] = 0]
      /\ taken' = taken
  BY DEF HashAndCount
<1>2. /\ lpc'[t] = "recv"
      /\ \A u \in Threads : u # t => lpc'[u] = lpc[u] /\ conn'[u] = conn[u]
  BY <1>1 DEF Inv, DataType
<1>3. j \in 1..Len(heap)
  BY <1>1 DEF Inv, TableInv
<1>4. Counted(j)
  BY <1>1, <1>3, CountOne DEF Inv, DataType
<1>5. \A l \in 1..Len(heap) : heap'[l].t = heap[l].t
  BY <1>4 DEF Counted
<1> SUFFICES ASSUME NEW d \in Clients
             PROVE  taken'[d] = Total(heap', Owned(d)') + Cardinality(Registering(d)')
  BY <1>1 DEF AccInv
<1>6. /\ Total(heap, Owned(d)) \in Nat
      /\ Total(heap', Owned(d)') =
           Total(heap, Owned(d)) + (IF heap[j].t = d THEN 1 ELSE 0)
  BY <1>3, <1>4, AccCount
<1>7. taken[d] = Total(heap, Owned(d)) + Cardinality(Registering(d))
  BY DEF AccInv
<1>8. IsFiniteSet(Registering(d)) /\ Cardinality(Registering(d)) \in Nat
  BY AccFacts
<1>9. \A u \in Threads : lpc[u] # "recv" => conn[u] \in 1..Len(heap)
  BY DEF Inv, TableInv
<1>10. CASE heap[j].t = d
  <2>1. Registering(d)' = Registering(d) \ {t} /\ t \in Registering(d)
    BY <1>1, <1>2, <1>5, <1>9, <1>10 DEF Registering
  <2>2. Cardinality(Registering(d)') = Cardinality(Registering(d)) - 1
    BY <1>8, <2>1, FS_RemoveElement
  <2> QED
    BY <1>1, <1>6, <1>7, <1>8, <1>10, <2>2
<1>11. CASE heap[j].t # d
  <2>1. Registering(d)' = Registering(d)
    BY <1>1, <1>2, <1>5, <1>9, <1>11 DEF Registering
  <2> QED
    BY <1>1, <1>6, <1>7, <1>8, <1>11, <2>1
<1> QED
  BY <1>10, <1>11

LEMMA AccTakeCid ==
    ASSUME Inv, AccInv, NEW t \in Threads, TakeCid(t)
    PROVE  AccInv'
<1> DEFINE j == conn[t]
           r == [heap[j] EXCEPT !.cid = cid_seed]
<1>1. /\ lpc[t] = "cid" /\ lpc' = [lpc EXCEPT ![t] = "list"]
      /\ heap' = [heap EXCEPT ![j] = r]
      /\ UNCHANGED <<conn, taken>>
  BY DEF TakeCid
<1>2. j \in 1..Len(heap)
  BY <1>1 DEF Inv, TableInv
<1>3. heap[j] \in HeapRec /\ cid_seed \in Nat
  BY <1>2, HeapType DEF Inv, DataType
<1> HIDE DEF j
<1>4. /\ r \in HeapRec /\ r.t = heap[j].t /\ r.wid = heap[j].wid
      /\ r.npkts_rx = heap[j].npkts_rx
  BY <1>3 DEF HeapRec
<1> HIDE DEF r
<1>5. /\ Len(heap') = Len(heap)
      /\ \A l \in 1..Len(heap) : heap'[l] = IF l = j THEN r ELSE heap[l]
  BY <1>1, <1>2, <1>4, HeapSet DEF Inv, DataType
<1>6. SameOwners /\ \A l \in 1..Len(heap) : heap'[l].npkts_rx = heap[l].npkts_rx
  BY <1>4, <1>5 DEF SameOwners
<1>7. \A u \in Threads : lpc'[u] = "recv" <=> lpc[u] = "recv"
  BY <1>1 DEF Inv, DataType
<1> QED
  BY <1>1, <1>6, <1>7, AccKept

LEMMA AccPrint ==
    ASSUME Inv, AccInv, PrintStats
    PROVE  AccInv'
<1> DEFINE j == conns[ri]
<1>1. /\ Len(heap') = Len(heap)
      /\ \A l \in 1..Len(heap) : l # j => heap'[l] = heap[l]
      /\ heap'[j].t = heap[j].t /\ heap'[j].wid = heap[j].wid
      /\ heap'[j].npkts_rx = heap[j].npkts_rx
  BY Printed
<1>2. UNCHANGED <<lpc, conn, taken>>
  BY DEF PrintStats
<1> HIDE DEF j
<1>3. SameOwners /\ \A l \in 1..Len(heap) : heap'[l].npkts_rx = heap[l].npkts_rx
  BY <1>1 DEF SameOwners
<1> QED
  BY <1>2, <1>3, AccKept

\* Registering goes on, or nothing happens to the connections.
LEMMA AccRest ==
    ASSUME Inv, AccInv, UNCHANGED <<heap, conn, taken>>,
           \/ UNCHANGED lpc
           \/ \E t \in Threads : WrLock(t) \/ ListAndUnlock(t)
    PROVE  AccInv'
<1>1. \A u \in Threads : lpc'[u] = "recv" <=> lpc[u] = "recv"
  BY DEF WrLock, ListAndUnlock, Inv, DataType
<1>2. SameOwners /\ \A l \in 1..Len(heap) : heap'[l].npkts_rx = heap[l].npkts_rx
  BY DEF SameOwners
<1> QED
  BY <1>1, <1>2, AccKept

LEMMA AccStep == Inv /\ StartInv /\ AccInv /\ [Next]_vars => AccInv'
<1> SUFFICES ASSUME Inv, StartInv, AccInv, [Next]_vars PROVE AccInv'
  OBVIOUS
<1>1. CASE UNCHANGED work
  BY <1>1, AccRest DEF work
<1>2. CASE PrintStats
  BY <1>2, AccPrint
<1>3. CASE Main \/ RdLock \/ Wake
  BY <1>1, <1>2, <1>3 DEF Main, ReadStats, EndReport, RdLock, Wake
<1>4. ASSUME NEW t \in Threads, Worker(t) \/ WrLock(t) PROVE AccInv'
  <2>1. CASE ListAndUnlock(t) \/ WrLock(t)
    <3>1. UNCHANGED <<heap, conn, taken>>
      BY <2>1 DEF ListAndUnlock, WrLock
    <3> QED
      BY <2>1, <3>1, AccRest
  <2> QED
    BY <1>1, <1>4, <2>1, AccRecv, AccTakeCid, AccHash DEF Worker
<1>5. ASSUME NEW c \in Clients, Arrive(c) PROVE AccInv'
  <2>1. UNCHANGED work
    BY <1>5, Zenon DEF Arrive
  <2> QED
    BY <1>1, <2>1
<1>6. CASE UNCHANGED vars
  BY <1>1, <1>6 DEF vars, work
<1> QED
  BY <1>3, <1>4, <1>5, <1>6 DEF Next

LEMMA AccExact == AccInv => PacketsAccountedFor
<1> SUFFICES ASSUME AccInv, NEW c \in Clients
             PROVE  taken[c] = MapThenSumSet(LAMBDA j : heap[j].npkts_rx, Owned(c))
                                 + Cardinality(Registering(c))
  BY DEF PacketsAccountedFor, Owned, Registering
<1> QED
  BY DEF AccInv, Total

\* Every valid packet that the workers have taken from their sockets is
\* counted once, for the client that sent it, or is the first packet of a
\* connection that is being registered, for any number of workers and clients.
THEOREM ServerCountsAll == Spec => []PacketsAccountedFor
<1>1. Init => AccInv
  BY AccInit
<1>2. Inv /\ StartInv /\ AccInv /\ [Next]_vars => AccInv'
  BY AccStep
<1> QED
  BY <1>1, <1>2, Invariant, AccExact, PTL DEF Spec

-----------------------------------------------------------------------------
(* The server implements a ConnRegister *)

Register == [k \in 1..Len(conns) |-> Listed(conns[k])]

LEMMA RegisterInit == Init => CR!RInit
<1> SUFFICES ASSUME Init PROVE CR!RInit
  OBVIOUS
<1>1. conns = <<>>
  BY Zenon DEF Init
<1>2. Len(conns) = 0
  BY <1>1
<1> QED
  BY <1>2 DEF CR!RInit

\* Nobody sees in the list what is not listed yet.
LEMMA RegisterKept ==
    ASSUME Inv, UNCHANGED conns,
           \A k \in 1..Len(conns) : heap'[conns[k]] = heap[conns[k]]
    PROVE  Register' = Register
  BY DEF Register, Listed

\* A packet counted in connection j is counted in its place of the list.
LEMMA RegisterCount ==
    ASSUME Inv, NEW j \in 1..Len(heap), Counted(j), UNCHANGED conns
    PROVE  CR!RNext \/ Register' = Register
<1>1. CASE \A k \in 1..Len(conns) : conns[k] # j
  <2>1. \A k \in 1..Len(conns) : heap'[conns[k]] = heap[conns[k]]
    BY <1>1 DEF Inv, ListInv, Counted
  <2> QED
    BY <2>1, RegisterKept
<1>2. ASSUME NEW k \in 1..Len(conns), conns[k] = j PROVE CR!Count(k)
  <2>1. \A l \in 1..Len(conns) : conns[l] \in 1..Len(heap) /\ (l # k => conns[l] # j)
    BY <1>2 DEF Inv, ListInv
  <2>2. \A l \in 1..Len(conns) : l # k => Listed(conns[l])' = Listed(conns[l])
    BY <2>1 DEF Counted, Listed
  <2>3. Listed(conns[k])' = [Listed(conns[k]) EXCEPT !.n = @ + 1]
    BY <1>2 DEF Counted, Listed
  <2>4. Register' = [Register EXCEPT ![k].n = @ + 1]
    BY <2>2, <2>3 DEF Register
  <2> QED
    BY <2>4 DEF CR!Count, Register
<1>3. \A k \in 1..Len(conns) : k \in DOMAIN Register
  BY DEF Register
<1> QED
  BY <1>1, <1>2, <1>3 DEF CR!RNext, Register

LEMMA RegisterList ==
    ASSUME Inv, NEW t \in Threads, ListAndUnlock(t)
    PROVE  CR!List(t, heap[conn[t]].t)
<1> DEFINE j == conn[t]
           n == Len(conns) + 1
           new == [worker |-> t, client |-> heap[j].t, n |-> 0, said |-> 0]
<1>1. lpc[t] = "list" /\ conns' = Append(conns, j) /\ UNCHANGED heap
  BY DEF ListAndUnlock
<1>2. /\ j \in 1..Len(heap) /\ heap[j].wid = t /\ heap[j].npkts_rx = 0
      /\ \A k \in 1..Len(conns) : conns[k] \in 1..Len(heap) /\ conns[k] # j
  BY <1>1 DEF Inv, TableInv, ListInv, StatInv, FreshInv
<1>3. heap[j].reported = 0
  <2>1. heap[j].reported <= heap[j].prev /\ heap[j].prev <= heap[j].npkts_rx
    BY <1>2 DEF Inv, StatInv, CountersInv
  <2> QED
    BY <1>2, <2>1, HeapType DEF Inv
<1>4. Listed(j) = new
  BY <1>2, <1>3 DEF Listed
<1>5. /\ Len(conns') = n /\ Len(conns) \in Nat /\ conns'[n] = j
      /\ \A k \in 1..Len(conns) : conns'[k] = conns[k]
  <2>1. j \in Nat /\ conns \in Seq(Nat)
    BY DEF Inv, DataType
  <2> QED
    BY <1>1, <2>1, AppendProperties, LenProperties
<1>6. \A k \in 1..Len(conns) : Listed(conns[k]).worker # t
                                 \/ Listed(conns[k]).client # heap[j].t
  BY <1>2 DEF Inv, OneConnEach, Listed
<1> HIDE DEF j, n, new
<1>7. Register' = [k \in 1..n |-> IF k = n THEN new ELSE Listed(conns[k])]
  <2>1. \A k \in 1..n : Listed(conns[k])' = IF k = n THEN new ELSE Listed(conns[k])
    BY <1>1, <1>4, <1>5 DEF Listed, n
  <2> QED
    BY <1>5, <2>1 DEF Register
<1>8. Register' = Append(Register, new)
  <2> DEFINE S == {Listed(conns[k]) : k \in 1..Len(conns)} \cup {new}
  <2>1. /\ Register \in [1..Len(conns) -> S] /\ new \in S
        /\ Register' \in [1..n -> S]
    BY <1>5, <1>7 DEF Register, n
  <2> HIDE DEF S
  <2>2. Register \in Seq(S) /\ Register' \in Seq(S) /\ n = Len(conns) + 1
    BY <1>5, <2>1, SeqDef DEF n
  <2>3. Len(Register) = Len(conns) /\ Len(Register') = n
    BY <1>5, <2>1, <2>2, LenProperties DEF n
  <2>4. /\ Append(Register, new) \in Seq(S) /\ Len(Append(Register, new)) = n
        /\ \A k \in 1..Len(conns) : Append(Register, new)[k] = Register[k]
        /\ Append(Register, new)[n] = new
    BY <2>1, <2>2, <2>3, AppendProperties
  <2>5. \A k \in 1..n : Register'[k] = Append(Register, new)[k]
    BY <1>5, <1>7, <2>2, <2>4 DEF Register
  <2> QED
    BY <2>2, <2>3, <2>4, <2>5, SeqEqual
<1> QED
  BY <1>6, <1>8 DEF CR!List, Register, new, j

LEMMA RegisterSay ==
    ASSUME Inv, PrintStats, NEW k, k = ri
    PROVE  k \in DOMAIN Register /\ CR!Say(k)
<1> DEFINE j == conns[k]
           s == heap[j].reported + (snap - heap[j].prev)
<1>1. rpc = "save" /\ UNCHANGED conns
  BY DEF PrintStats
<1>2. /\ k <= Len(conns) /\ j \in 1..Len(heap)
      /\ \A l \in 1..Len(heap) : l # j => heap'[l] = heap[l]
      /\ heap'[j].t = heap[j].t /\ heap'[j].wid = heap[j].wid
      /\ heap'[j].npkts_rx = heap[j].npkts_rx /\ heap'[j].reported = s
  BY Printed
<1>3. /\ heap[j].prev <= snap /\ snap <= heap[j].npkts_rx
      /\ heap[j].reported <= heap[j].prev
      /\ heap[j].npkts_rx \in Nat /\ heap[j].prev \in Nat
      /\ heap[j].reported \in Nat /\ snap \in Nat
  BY <1>1, <1>2, HeapType DEF Inv, DataType, StatInv, CountersInv, PrintInv
<1>4. s \in heap[j].reported..heap[j].npkts_rx
  BY <1>3
<1>5. k \in 1..Len(conns)
  BY <1>2, LenProperties DEF Inv, DataType, StatInv, PrintInv
<1>6. \A l \in 1..Len(conns) : conns[l] \in 1..Len(heap) /\ (l # k => conns[l] # j)
  BY <1>5 DEF Inv, ListInv
<1> HIDE DEF s
<1>7. \A l \in 1..Len(conns) : l # k => Listed(conns[l])' = Listed(conns[l])
  BY <1>1, <1>2, <1>6 DEF Listed
<1>8. Listed(conns[k])' = [Listed(conns[k]) EXCEPT !.said = s]
  BY <1>1, <1>2 DEF Listed
<1>9. Register' = [Register EXCEPT ![k].said = s]
  BY <1>1, <1>5, <1>7, <1>8 DEF Register
<1>10. Register[k].said = heap[j].reported /\ Register[k].n = heap[j].npkts_rx
  BY <1>5 DEF Register, Listed
<1> QED
  BY <1>4, <1>5, <1>9, <1>10 DEF CR!Say, Register

LEMMA RegisterStep == Inv /\ StartInv /\ [Next]_vars => CR!RNext \/ Register' = Register
<1> SUFFICES ASSUME Inv, StartInv, [Next]_vars
             PROVE  CR!RNext \/ Register' = Register
  OBVIOUS
<1>1. ASSUME UNCHANGED <<heap, conns>> PROVE Register' = Register
  BY <1>1, RegisterKept
<1>2. ASSUME NEW t \in Threads, Recv(t) PROVE CR!RNext \/ Register' = Register
  <2>1. CASE UNCHANGED work
    BY <1>1, <2>1 DEF work
  <2>2. ASSUME NEW j \in hash[t], heap' = [heap EXCEPT ![j].npkts_rx = @ + 1],
               UNCHANGED conns
        PROVE  CR!RNext \/ Register' = Register
    <3>1. j \in 1..Len(heap)
      BY DEF Inv, TableInv
    <3> QED
      BY <2>2, <3>1, CountOne, RegisterCount DEF Inv, DataType
  <2>3. ASSUME NEW r, heap' = Append(heap, r), UNCHANGED conns
        PROVE  Register' = Register
    <3>1. \A l \in 1..Len(heap) : heap'[l] = heap[l]
      BY <2>3, LenProperties DEF Inv, DataType
    <3> QED
      BY <2>3, <3>1, RegisterKept DEF Inv, ListInv
  <2> QED
    BY <1>2, <2>1, <2>2, <2>3 DEF Recv
<1>3. ASSUME NEW t \in Threads, WrLock(t) PROVE Register' = Register
  BY <1>1, <1>3 DEF WrLock
<1>4. ASSUME NEW t \in Threads, TakeCid(t) PROVE Register' = Register
  <2>1. conn[t] \in 1..Len(heap) /\ cid_seed \in Nat
    BY <1>4 DEF TakeCid, Inv, TableInv, DataType
  <2>2. heap' = [heap EXCEPT ![conn[t]].cid = cid_seed] /\ UNCHANGED conns
    BY <1>4 DEF TakeCid
  <2>3. \A k \in 1..Len(conns) : conns[k] # conn[t] /\ conns[k] \in 1..Len(heap)
    BY <1>4 DEF TakeCid, Inv, ListInv
  <2>4. \A k \in 1..Len(conns) : heap'[conns[k]] = heap[conns[k]]
    BY <2>2, <2>3 DEF Inv, DataType
  <2> QED
    BY <2>2, <2>4, RegisterKept
<1>5. ASSUME NEW t \in Threads, ListAndUnlock(t) PROVE CR!RNext
  <2>1. heap[conn[t]].t \in Clients
    BY <1>5, HeapType DEF ListAndUnlock, Inv, TableInv
  <2> QED
    BY <1>5, <2>1, RegisterList DEF CR!RNext
<1>6. ASSUME NEW t \in Threads, HashAndCount(t) PROVE CR!RNext \/ Register' = Register
  <2>1. conn[t] \in 1..Len(heap)
    BY <1>6 DEF HashAndCount, Inv, TableInv
  <2> QED
    BY <1>6, <2>1, CountOne, RegisterCount DEF HashAndCount, Inv, DataType
<1>7. CASE PrintStats
  <2>1. ri \in DOMAIN Register /\ CR!Say(ri)
    BY <1>7, RegisterSay
  <2> QED
    BY <2>1 DEF CR!RNext, Register
<1>8. CASE Main \/ RdLock \/ Wake
  BY <1>1, <1>7, <1>8 DEF Main, ReadStats, EndReport, RdLock, Wake, work
<1>9. ASSUME NEW t \in Threads, Worker(t) PROVE CR!RNext \/ Register' = Register
  BY <1>1, <1>2, <1>4, <1>5, <1>6, <1>9 DEF Worker, work
<1>10. ASSUME NEW c \in Clients, Arrive(c) PROVE Register' = Register
  <2>1. UNCHANGED <<heap, conns>>
    BY <1>10, Zenon DEF Arrive, work
  <2> QED
    BY <1>1, <2>1
<1>11. CASE UNCHANGED vars
  BY <1>1, <1>11 DEF vars, work
<1> QED
  BY <1>3, <1>8, <1>9, <1>10, <1>11 DEF Next

\* Whatever the workers and the report do at the same time, the list with its
\* counters is a ConnRegister, for any number of workers, clients and datagrams.
THEOREM ServerIsRegister == Spec => ImplementsRegister
<1>1. Init => CR!RInit
  BY RegisterInit
<1>2. Inv /\ StartInv /\ [Next]_vars => [CR!RNext]_Register
  BY RegisterStep
<1> QED
  BY <1>1, <1>2, Invariant, PTL DEF Spec, ImplementsRegister, CR!RSpec, Register
=============================================================================
