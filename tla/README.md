# A formal model of tcp_eyenet

TLA+ modules, TLC configurations and TLAPS proofs for the two programs of this
repository:

* `src/vns`: a UDP transport with an EyeNet (Copa-like) congestion controller.
  A sender runs flow after flow; a receiver echoes the header of every packet.
* `src/ttest`: a multi-threaded UDP traffic tester. A client sends paced bursts
  from N threads; a server counts what each client sent, with N threads.

The code under `src/` is the reference: each definition names in `PROJECT.json`
("map") the lines it stands for.

## 1. Inventory

| Component | Code | State | Operations | Status |
|---|---|---|---|---|
| transport, sender side | `vns_transport.hh`, `vns_sender.cc` | window base `largest_ack`, `seq_num`, `last_s_ts`, `last_ack_ts`, `npkts`, the buffer | `handshake`, `send_data` | `Transport` |
| packet sender | `vns_packet_sender.hh` | flow number, sender id, on/off units | `run` | `Transport`, `Endpoints` |
| receiver | `vns_receiver.cc` | none | `main`, `ack_packets` | `Transport`, `Endpoints` |
| socket | `vns_base.{hh,cc}` | file descriptor, `is_bound` | `bind_sk`, `send_data`, `recv_data` | `Endpoints` (who owns which port, who hears whom), `Transport` (the results of a receive) |
| controller | `vns_eyenet.{hh,cc}` | `cwnd`, `intersend`, `delta`, `unacked_pkts`, counters | `initialize`, `on_ack`, `on_pkt_sent` | `Eyenet`, `EyenetSpec` |
| RTT windows, loss judge | `vns_utils.{hh,cc}`: `win`, `rtt_win`, `loss_reduce` | monotonic deques, loss counters | `add`, `clear`, `update` | `Win`, `RttWin`, `Eyenet` |
| ranks, averages, random generators | `vns_utils.{hh,cc}` | | | not modelled: nothing reads a rank or an average back into a decision |
| default congestion control | `default.hh` | none | `send_data` | `Endpoints`: the cycle goes on; the flow itself is a run of iperf, another program |
| sender arguments | `vns_args.{hh,cc}` | `sender_args` | `parse_sender_args` | `Endpoints`: refusals, defaults and words; not `traffic-dist`, `off-unit` |
| `vns_transport.cc`, `vns_packet_sender.cc` | | | | commented out in full |
| ttest thread start and stop | `ttsnd.c`, `ttrcv.c` | `i`, `cmd`, `wstatus` | create, wait, release, stop, join | `TtestStart` |
| ttest client | `ttsnd.c` | per worker `seq`, `qouta`, `stats`, `stats_prev` | `snd_worker`, `start_client`, `print_all_conn_stats` | `TtestSend` |
| ttest server | `ttrcv.c`, `open_data_sockets` | hash table per worker, list of connections, `conn_lock` | `rcv_worker`, `lookup_rconn`, `register_rconn`, reports | `TtestRecv` |
| ttest arguments and rate | `ttest.c`, `calc_pkts_rate` | `prog_param_t` | `parse_args`, `main` | `TtestArgs` |
| scripts, Makefiles | | | | not modelled: no protocol state |

How they interact. `packet_sender::run` calls `tcp_transport::send_data` once per
flow; that shakes hands, asks the controller for `cwnd` and `intersend`, sends
packets, and polls the socket for echoes. Sender and receiver share only
datagrams, and by default the same port number, so that on one host they
exclude each other and on two hosts each may answer for the other. In ttest, the main thread and its workers share `cmd`, `wstatus`, the
loop counter `i` (through a pointer) and the statistics, all without a lock; the
server's connection list alone has one. Client and server share only datagrams.

What is hard here. Datagrams are lost, duplicated, reordered, and outlive the
flow and the process that sent them; the only identity is `(sid, fid, seq)`.
The sender reads its clock at two places and acts on values that are older than
the clock. Receive errors reuse a stale buffer. Data and its echo are the same bytes, and a
handshake and its answer too. A failed `bind` is printed and forgotten. In ttest: unlocked counters,
threads that start late, bursts that overrun their slot, and integers that
narrow or round. `PROJECT.json` ("hazards") lists each at its line.

## 2. Modules

| Module | What it is |
|---|---|
| `Win`, `WinProofs` | `win`, `rtt_win` as records and operators from the old object to the new one; lemmas about each method |
| `RttWin`, `MCRttWin`, `RttWinProofs` | one `rtt_win` fed with samples, against a history of all of them |
| `Eyenet` | the controller and `loss_reduce` as records and operators |
| `EyenetSpec`, `MCEyenet`, `EyenetProofs` | one controller driven through its public methods |
| `EchoWindow` | the abstract specification of a flow: a sliding window credited by echoes |
| `Transport`, `MCTransport` | sender, network, receiver and clock |
| `Endpoints`, `MCEndpoints` | several sender and receiver processes on several hosts: command lines, ports, who answers whom |
| `EndpointsProofs` | theorems about `Endpoints` |
| `TransportProofs` | theorems about `Transport`, and that it implements `EchoWindow` |
| `TtestStart`, `TtestStartProofs` | thread start, stop and join, shared by client and server |
| `TtestSend`, `MCTtestSend`, `TtestSendProofs` | the client on top of `TtestStart` |
| `TtestRecv`, `MCTtestRecv`, `TtestRecvProofs` | the server on top of `TtestStart` |
| `ConnRegister` | the abstract specification of the server's list of connections |
| `TtestArgs`, `MCTtestArgs` | the command line of ttest (theorems: end of `TtestSendProofs`) |

Operators whose name has a suffix after an underscore (`CanSend_OneMore`) are
faulty variants of the operator they are named after. No behaviour uses them;
they show that the properties notice such a fault.

### Transport

`pc` is the place in the program: `off` (between flows), `hs_send`/`hs_wait`
(the two halves of `handshake`'s loop), `start` (before line 163), `head` (line
173), `burst` (line 188), `poll` (line 214). One action is one stretch of code
between two points at which another process, or the clock, can be noticed:
`LoopTop` and `AckTimeoutReset` are lines 173-186, `SendPkt` one pass of the
inner loop, `EndBurst` lines 205-210, `PollTimeout`/`PollPacket`/`PollError` the
three results of `recv_data` with everything that follows. `curr_ts` is the
value last read; the clock `now` goes on between the reads. `buf` is the header
at the start of the buffer, because a failing `recv_data` leaves it as it was
and the code parses it again. `toReceiver`, `toSender` are the datagrams under
way (a set: each data header is transmitted once, and what is duplicated need
not leave the set when it is received). `acked` is a log of what the receiver
echoed; no decision reads it. `Relaunch` is the sender process killed, or ended,
and started again, at any time.

The sender id is drawn at random in the code, from a generator seeded with
`time(NULL) ^ getpid()`; the models draw a new one each launch, so that two
senders with the same time and process number on two hosts are left out. `on_ack`'s guard (line 250) is part of the model: with any `bn_train`
the program survives, it is false. So the controller that the transport runs
keeps its initial window of `nprobe` packets and an `intersend` of 0, which
`TypeOK` (`CongType`) states and `TypeCorrect` proves. The controller as such
is checked by `EyenetSpec`, driven by a caller that does report its acks, all but
that of packet 0, which moves the window (`largest_ack`) all the same.

### Endpoints

`Transport` has one sender, one receiver and all of the protocol between them;
`Endpoints` has any number of processes and of the protocol only what decides
who talks to whom. A command line is a record of the options given (`Option`
supplies the defaults of `vns_args.cc`). `bound` is `is_bound`: the constructor
and `main` ignore what `bind_sk` returns, so a process goes on without a port
until an assertion in `send_data` or `recv_data` ends it. The address of a
process is its host and its port; a destination text that does not parse leaves
the address 0, which is the own host (`Dst`). The data of a flow is one header,
as nothing here depends on the sequence number. A process may be killed at any
time and a new one started in its place, in either role, while datagrams of the
old one are under way (`under_way` is a set, a received datagram may stay in it).
`hops` in a datagram and `seen` are history: the code has neither. Failing
receives, windows and time stay in `Transport`: what `Endpoints` says of who is
connected and credited holds where no receive fails, because a failing one lets a
sender take its own header in the buffer for the answer (`HsError`, `PollError`).

### Controller and windows

An object is a record with the C++ member names. Times are whole milliseconds,
`cwnd` is in units of `1/Scale` packets, `delta` in halves, divisions round
down. `srtt` sizes three windows and is any mean of the samples so far. Members
that nothing reads are left out, and so is the branch after slow start: `do_ss`
is never set and `ss` ends only at `DOUBLE_MAX`. The loop of `on_ack` that
erases the map entry its range-for stands on is undefined behaviour; the model
takes the outcome where the freed node is still readable, and the other one, a
crash, is a behaviour that stops there.

### ttest

`TtestStart` has the main thread's place `mpc` and each worker's place `wpc`;
`slot` is the entry of `workers[]` a thread took by reading the loop counter
through the pointer it was given. `TtestSend` adds the reporting loop (`rpc`),
the worker's loop (`lpc`) and a clock. A burst is sent packet by packet, a
report reads and re-reads each counter in two steps. `TtestRecv` adds the
sockets' queues, the connections (`heap`), the workers' tables (`hash`) and the
shared list (`conns`) with its lock. `route` is the kernel's choice: which of
the first m sockets of a SO_REUSEPORT group a client's datagrams go to; it
changes as the workers bind theirs one by one. `ConnRegister` is what the
server's list promises: connections enter it whole and for good, one for each
worker and client, each counts one by one, and a report says of it what lies
between what was said before and what was counted. `CR` in `TtestRecv` maps the
list to it; what is being registered is invisible, `TakeCid` and `WrLock` are
stutters, `ListAndUnlock` is `List`, both ways of counting are `Count`, and
`PrintStats` is `Say`. `TtestArgs` takes one option per
step and ends with `calc_pkts_rate`; of a port it keeps only that 1 to 65535 is
accepted. `MainRelease` of `TtestSend` is lines 256 and 258 of `ttsnd.c` in one
step, since no worker reads the time of the release.

## 3. Runs

`tlc -config <cfg> <module>` for each; all finish within two minutes or so.

| Run | Configuration | Shows |
|---|---|---|
| `rtt_win` | `MCRttWin.cfg` | `ExactExtremum`: each window reports exactly the extremum of what it has not expired. `WindowsOrdered`: comparisons between windows of different lengths make sense, so the quotients of `on_ack` have the sign it takes for granted |
| `eyenet` | `MCEyenet.cfg` | `NeverExits`: `exit()` in `on_ack` is not reached. `PacketsAccountedFor`, `OutstandingIsNewest`: the accounting under reordering, duplicates and resets. `ShrinksOnlyOnBurstLoss`: what the integer division in `loss_reduce` makes of losses |
| `window` | `MCTransport_window.cfg` | `AckWasSent`, `HeadersAreFresh`, `SpinsOrBlocks`, `WindowNeverRetreats`, with trains of two, a network that delays, reorders and duplicates, failing receives that leave a stale buffer, and the sender killed and started again |
| `flows` | `MCTransport_flows.cfg` | `WindowBound`, `HandshakeSound`, `BytesAreDelivered`, `ImplementsEchoWindow` over a lossy network with echoes of the first flow arriving in the second. `RunEnds`, under fairness: the run comes to its end or stops in a poll without an end with everything outstanding lost, and nowhere else |
| `endpoints` | `MCEndpoints.cfg` | `ConnectedByReceiver`: which sender can believe it is connected without a receiver. `CreditNeedsEcho`, `BytesNeedEcho`: what is counted was echoed, whoever else sends to the address. `EchoedOnce`: when a datagram comes to rest |
| `pacing` | `MCTtestSend_pacing.cfg` | `Paced`: late bursts and what makes up for them never exceed the rate |
| `workers` | `MCTtestSend_workers.cfg` | `OwnSlot`, `StartTogether`, `ReportsAreTrue`, `FinalMissesOneBurst` (the last report, printed before the workers stop, misses at most one burst of each), and `ClientEnds` under fairness |
| `server` | `MCTtestRecv.cfg` | `NumberedInOrder`, `OneConnEach`, `PacketsAccountedFor`, `ReportsAreTrue`, `ImplementsRegister`, and `GetsThrough` under fairness |
| `args` | `MCTtestArgs.cfg` | `NeverDividesByZero`; `PacedNearTarget`: the pace is above half of the target and at most a fiftieth above it |

Three runs end in a counterexample, each a place where the code does not do what
its own text says:

| Run | Property | What happens |
|---|---|---|
| `silence` | `SilenceIsNoticed` | The poll of line 214 gets a time that is 0 or negative. If it is negative, `poll` waits for ever: a peer that goes silent is not noticed and the timeout of line 175 never runs. `RunEnds` (run `flows`) has this state as its exception, `Blocked` |
| `second_flow` | `FlowDelivers` | `npkts` is never reset between flows: in bytes mode the second flow ends before it sends |
| `narrow` | `SumCoversWorkers` | `n_cpus` is 8 bits wide in `tsnd_t`: with 256 threads or more, reports and [SUM] leave threads out |

The models show more of the kind, without a run of their own: a failing
`recvfrom` completes the handshake without a peer (`HandshakeSound` fails with
`RecvErrors = TRUE`); no acknowledgement reaches the controller (proved, see
above); packets counted between the two reads of a report are in no interval's
line; a client that sends while the server's threads start is split between two
connections; a server with `-s 0.0.0.0` binds no port (`LocalAny`); 460 Kbps is
paced at about half (`PacedNearTarget` is the most that holds); and
`-b 4294968M` wraps to 704 Kbps and is accepted.

`Endpoints` shows what its properties have to except. A sender whose `--dst-ip`
does not parse, or is its own host, with the default ports is its own peer: it
takes its own handshake for the answer and its own packets for acknowledgements.
Two senders aimed at each other connect without a receiver, and then count
nothing. A receiver started where a sender was is sent the echoes meant for
that sender, and from then on the two receivers echo one datagram back and
forth without an end. A receiver whose port is taken prints "Listening" and is
ended by the assertion of its first `recv_data`. `--bn-train 0` ends the sender
at its first packet, in a division by zero.

### Bounds, and why they are enough

* `MaxSeq`, `MaxPkts`, `MaxTime`, `MaxRuns` (Transport): a window of two packets
  (`Nprobe = 2`) and three or four packets give a full window, an ack timeout with
  a packet outstanding and with none, trains that cross both, and echoes from
  before each. Two flows and two launches are what stale echoes need; `flows`
  has the first, `window` the second, with three packets each (`silence` and
  `second_flow` have four). All of it in one
  run is more states than TLC can take with liveness: `flows` sends trains of one
  packet, in one launch, with receives that do not fail; `window` sends trains
  of two, in two launches, with failing receives and duplicates, but one flow
  each. That `WindowBound`, `HandshakeSound`, `BytesAreDelivered` and
  `ImplementsEchoWindow` hold with longer trains and over several launches, and
  `WindowBound` with failing receives, is for the proofs to say (section 4).
  `RunEnds` ends at the bound on packets in a flow that gets a second round trip
  done (`AtBound`); one echo, none, late ones, and resets are within it. The
  timeouts of 2000 and 1000 ms are 1 tick each, so that both occur in the two or
  three ticks of a run; the code relies on no ratio of them. The real values are
  covered by the proofs, which take all of these as parameters.
* `BurstDelay` is how long the sender may take from line 174 to line 210; with 1,
  as in `flows`, `window` and `silence`, the poll time is 0 or negative, and the
  sender spins or blocks.
* `Endpoints`: three processes, two of them on one host, so that two compete for
  a port and two share a path to the third; three launches, so that the port of a
  process that has ended is taken over, by either program; three different
  datagrams under way, enough for a handshake, its echo and a packet of another
  flow to meet; two hops, because a third echo differs from the second in
  nothing. The six command lines are one for each outcome of the parser:
  refused, linux, and an eyenet sender aimed at its own host, at the other host,
  or at a text that is no address. The symmetry of the two processes of one host
  is sound: the run checks invariants only.
* `EyenetSpec`: four packets, six acks, `Nprobe = 3`, `LossWindow = 1`, so that
  the window adapts and shrinks. `RttWin`: four samples on five ticks with
  `MinSz = 1`, so that samples expire and lengths grow and shrink.
* `TtestSend`: a thread is never more than `MaxLate` behind. With `pacing`,
  `MaxLate = 3` exceeds the gap of 2, so bursts overrun and make up, more than
  once. `MaxTime` is never reached: the program ends before.
* `CpuMod` is 256 in the code; `narrow` uses 2, and 3 threads for 257 or more.
* `TtestRecv`: three datagrams of two clients that differ in the port only.
* `TtestArgs`: values on each side of every limit. TLC's integers have 32 bits,
  so `Word` is 2^24, and 16778M stands for 4294968M.

### Fairness

* `Transport!FairSpec`. The sender process is scheduled (`WF` on `SenderStep`).
  Time goes on, even while the sender spins (`SF` on `Tick`). A poll that finds a
  datagram again and again returns it, and the receiver serves its socket.
  `SF` on the echo and on the receipt of the handshake: the sender repeats it
  for ever, and not every repetition is lost. Nothing is assumed of data packets,
  which the network may lose for ever. Nor is a poll with a negative time assumed
  to return by itself: with every outstanding datagram lost the program stays in
  it. So `RunEnds` promises the end of the run or that state (`Blocked`); what it
  excludes is any other way not to end, in the handshake's retries, in a spinning
  loop, or among late echoes of the flow before. It is about one launch: with
  two, liveness is more than TLC can take.
* `TtestSend!FairSpec`, `TtestRecv!FairSpec`. Threads run. The lock goes to a
  thread that keeps asking (`SF` on `WrLock`), which a fair rwlock gives; a
  report has an end, and so has a registration. `ClientEnds` also needs
  `MaxLate < Duration`: a worker so late that it misses `cmd = 1` waits for it
  for ever, and the join for the worker. Nothing in the code waits for a worker
  to see it, and with `MaxLate = Duration` TLC finds the worker left behind. How
  long the reports sleep does not matter.
* `CHECK_DEADLOCK FALSE`: the programs end, and the runs stop at their bounds.

* `Endpoints` has no fairness: what it says are invariants. That a handshake and a
  run come to an end is `RunEnds` of `Transport`.

## 4. Proofs

All are for every value of the constants, under the ASSUMEs of the modules.

**WinProofs, RttWinProofs.** `WinProofs` has a lemma for every method of `win`
and `rtt_win`, about any object; both users of the windows rest on it. `WinInv`
says of one window that its deque is ordered and that `tail` is its head: what
`add` drops from the back, and then from the front (`PushedAndExpired`), keeps
that, for any deque and any sample. `Suffix` says of two windows of one kind that
the shorter holds the newest samples of the longer, at least one; `RttInv` is
`WinInv` of the four windows and `Suffix` of those that are compared.
`ExactExtremum` alone is not inductive, since the extremum of tomorrow may be
none of today. `Supports` is inductive: for every sample that has not expired the deque
holds one that is no worse and will not expire earlier. `IInvHolds` states it for
the four windows; `WindowsAreExact`, `WindowsAgree` (the signs that `on_ack`
takes for granted) and `TypeCorrect` follow, for any number of samples, any
means, and any times that do not go back.

**EyenetProofs.** `CtlInv` is the invariant of the object, with lemmas for each
part of a method; `IInv` is that of the object together with what was sent. Two
parts of it are not obvious. The window grows by two packets per ack at most,
`cwnd <= (Nprobe + 2 * nack) * Scale`, so it never reaches `DOUBLE_MAX` and
slow start never ends. And some packet of the loss window was acknowledged
(`LrInv`), so that only more than `LossWindow` losses in one ack make the
integer division of `loss_reduce` anything but 0 (`LosingInv`). `OnAckNeverExits`,
`PacketsConserved`, `SettlementIsCumulative` and the action property
`OnlyBurstsShrink` follow. The constants are assumed to have `MaxTime` and
`Nprobe + 2 * MaxAcks` below `DoubleMax`: that is 1.8e308 in the code, and neither
milliseconds nor packets get there. `DoubleMin` is 0, because `DBL_MIN` is below
every sample of a whole millisecond.

**TransportProofs.** `TypeCorrect` first. `HeadersFresh` (`HeadersAreFresh`) is
inductive with it: everything under way is older than what the flow sends next.
The other invariants need to know how the window base moves:
`IInv == TypeOK /\ HeadersAreFresh /\ FlowInv`, where `FlowInv` ties `seq_num` to
`largest_ack`, the window and the position in the train. It is needed because a
train begun within the window may be continued outside of it, so that
`WindowBound` alone is not inductive. From `IInv` follow `AcksWereSent`,
`WindowHolds` and `BaseNeverRetreats`. `PollSpinsOrBlocks` rests on `TimeInv`
(the clocks are ordered, `intersend` is 0). `EchoInv` (an echo under way has
been logged) gives `HandshakeIsSound` and, with one lemma per action of the
abstract module, `Implementation`; both assume `RecvErrors = FALSE`, and the
second is false without it, because a stale buffer is not an echo. `BytesDelivered`
is by `LogInv`: a packet is counted when its echo leaves the network, and the log
then has one packet more that is under way no longer; `npkts` is at most the
cardinality of these. It assumes that nothing is duplicated and that receives do
not fail: otherwise an echo, or a stale buffer, counts twice.

**EndpointsProofs.** `TypeCorrect` includes that no two processes own one
address. What makes the other properties inductive is where a datagram can come
from: `Traceable` says it by the number of echoes (none: from a sender, to an
address somebody aimed at; one: from a receiver, to a sender; more: some address
was a sender's and a receiver's), and `Headed` says that a datagram with the
header of a running sender that was not echoed is on its way from that sender to
its peer, which needs the identities to be distinct (`SidInv`) and the addresses
of running processes not to change. `CreditInv` and `CycleInv` carry this over
to what was connected, credited and finished. Most actions move one process on
and leave the rest alone: `MovesOn` and `QuietStep` are the lemmas for these,
`OthersStay` the one for a start.

**TtestStartProofs.** `StartInv` ties the place of the main thread, the counter
and each worker's state: below the counter all are up, the one at the counter
may be starting, above it nobody exists. `SlotsAreOwn` and `AllStartTogether`
follow.

**TtestSendProofs.** `ClientSlots`: each step of the client is a step of
`TtestStart` or leaves it alone, so its theorems hold of the client.
`TypeCorrect`. `KeepsThePace` is by `PaceInv`, one bound per place in the loop:
what was sent, plus what the burst may still send, is within
`Allowance(t) == Burst * (Ibg + (t - start))` at the time the burst began.
`LateBurst` and `TimelyBurst` are the arithmetic of the two branches at lines
177-182. `ReportsClaimNothingTwice` is by `ReportInv`: the copy a report works
with lies between the last saved value and the counter. `FinalReportMissesOneBurst` is
by `LastInv`: the last report begins when `cmd` is 2 already, and from then on a
worker can only finish its burst, so that a counter read in it lacks at most the
burst of that moment. It assumes `NThreads < CpuMod`, without which the last
report leaves threads out (run `narrow`). `StopLeavesNobodyBehind` is the safety
half of `ClientEnds`: with `MaxLate < Duration` every worker is in its loop, or
out of it, when `cmd` becomes 2. Its invariant, `ReleaseInv`, says that the clock
has not passed `start + MaxLate` while a worker still polls for the release.

**The command line.** The last section of `TtestSendProofs` is about `TtestArgs`,
for all numbers a command line can hold and any width of the product that `-b`
wraps in (the later products stay below 2^32). `ParamTaken` says that each option keeps the parameters in their
ranges, `OptionType` that every option does. For `calc_pkts_rate`, with `l` bits
in a packet and `n` packets a second, `SentInASecond` gives
`n * l <= 1000 * rate < (n + 1) * l` and `n > 0`, the first thing to know before
`1000 / n`. `BurstPace` and `SinglePace` bound what the two branches send from
it: a burst of `n \div 20` packets in 50 ms, or one packet in `1000 \div n` ms,
where `n < 20` makes the rounding of the gap smaller than a fiftieth. `ArgsInv`
is inductive, and `ArgsTypeCorrect`, `ArgsNeverDivideByZero` and
`ArgsPacedNearTarget` follow. `CommandLineGivesConstants` closes a gap between
the modules: a client that starts has the threads, burst, gap and seconds that
`StartConstants` and `SendConstants` assume to be positive.

**TtestRecvProofs.** The server starts its workers by steps of `TtestStart`
(`ServerStarts`), which gives `ServerSlots` and `slot[t] = t`. On top of that `Inv` has one part
per hazard. `TableInv`: a connection is in the table of its own worker, or that
worker is registering it; without it `OneConnEach` is not inductive, since a
worker looks for a client in its table only. `LockInv`: the value of the lock
says who is in the critical section. `ListInv`: a number taken is the place the
connection will get, which holds only because nobody else is inside; so
`NumberedInOrder` needs both. `StatInv`: the copy a report works with lies
between the last saved value and the counter, at every place of the report,
while workers go on counting. There is a lemma per action; `Counted`,
`Numbered` and `Printed` say what an assignment to one connection changes, and
`OwnersKeepTable` and its like what it cannot disturb. From `Inv` follow
`ServerTypeCorrect`, `ConnsNumberedInOrder`, `ConnsAreOne` and
`ReportsAreHonest`; `ServerIsRegister` proves the refinement, each step being
`List`, `Count`, `Say` or a stutter of `ConnRegister`. `ServerCountsAll` is about
a sum over the connections of a client. `MapThenSumSet` is defined by a recursive
function on sets; that this function exists (`SumsExist`) and is the only one
(`IterUnique`) gives what the proof needs: the sum depends on the counters only
(`TotalSame`) and can be taken apart at any element (`TotalSplit`, `TotalCount`).
`AccInv` then goes through the actions: a packet taken is a counter up by one, or
a worker more that registers.

**Induction over data.** The library's induction theorems take an operator as a
parameter, which none of the provers can instantiate. The proofs use the form
with a set instead, `SetInduction`, from the least element of a set of numbers
(`LeastNat`), which the library states for any well-founded relation (`WFMin`).
With it a recursive function is shown to exist and its values are found by
induction: `AfterLosses` in `EyenetProofs`, the sum in `TtestRecvProofs`.

**Only model-checked.** Liveness (`RunEnds`, `ClientEnds`, `GetsThrough`) and
anything under fairness: the proof system has no ENABLED. Every invariant and
action property of a passing run, and both refinements, are theorems. Four of
them have a hypothesis: `HandshakeSound` and `ImplementsEchoWindow` that receives
do not fail, `BytesAreDelivered` that nor is anything duplicated,
`FinalMissesOneBurst` that `n_cpus` holds the number of threads. No module
declares a RECURSIVE operator.

## 5. Not modelled

* `data_rank`, `ewma` and the rates of `vns_eyenet.cc`: `get_rank` has no caller,
  and no average is read back into a decision. The distributions only draw
  values that the models choose with `\E`; `--traffic-dist` and `--off-unit` choose
  among them.
* iperf behind `default.hh`, the trace files, and what is printed.
* Byte counts of ttest beside the packet counts, as every packet of a
  connection has one length; the texts of addresses; buffer sizes of sockets.
* `vns_transport.cc` and `vns_packet_sender.cc`, commented out in full; scripts
  and Makefiles.
* A composition of the ttest client with the server. They share datagrams in one
  direction only and the server never answers: with the network between them,
  the composition says no more than `TtestRecv` under every arrival order does.
* An abstract token bucket above `TtestSend`. `Paced` is that bucket, as an
  invariant.

## 6. Plan

Done, in this order: `Win`, `RttWin`, `Eyenet`, `EyenetSpec`, `Transport` with
`EchoWindow` and its proofs, `TtestStart`, `TtestSend`, `TtestRecv`, `TtestArgs`,
the proofs of `TtestStart` and `TtestSend`; `Endpoints`; `ConnRegister` and the
proofs of `TtestRecv` and `Endpoints`;
the proofs of `Win`, `RttWin` and `EyenetSpec`, `BytesDelivered`,
`FinalReportMissesOneBurst` and `ServerCountsAll`; the proofs of `TtestArgs` and
`StopLeavesNobodyBehind`.

Next:

1. The times of `EyenetSpec` after a clock that goes back (hazard at
   `src/vns/vns_eyenet.cc:224`), which `SentAt(s) <= now` rules out.
