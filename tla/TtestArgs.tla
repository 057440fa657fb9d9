----------------------------- MODULE TtestArgs -----------------------------
(***************************************************************************)
(* What ttest makes of its command line: parse_args takes the options one  *)
(* by one, each a step, and start_client turns the rate and the packet     *)
(* length into a burst of packets and a gap between bursts.  The addresses *)
(* and the port, once they are accepted, are left out: nothing here        *)
(* depends on them.                                                        *)
(***************************************************************************)
EXTENDS Integers

CONSTANTS
    Word,           \* 2^32, the range of uint32_t
    Rates,          \* the numbers given with -b
    Lengths,        \* the numbers given with -l
    Ports,          \* the numbers given with -p
    Counts,         \* the numbers given with -P
    Seconds         \* the numbers given with -t and -i

ASSUME ArgsConstants ==
    /\ Word \in Nat \ {0}
    /\ Rates \subseteq Nat /\ Lengths \subseteq Nat
    /\ Ports \subseteq Nat /\ Counts \subseteq Nat /\ Seconds \subseteq Nat

VARIABLES
    stage,          \* "options", then "started", or why it ended before
    p,              \* prog_param_t
    ibg, np_ibg     \* what calc_pkts_rate makes of it: gap in ms, and burst

argsVars == <<stage, p, ibg, np_ibg>>

ArgsInit ==
    /\ stage = "options"
    /\ p = [mode |-> 0, pktsize |-> 1472, duration |-> 5, interval |-> 1,
            rate_kbps |-> 10000, n_cpus |-> 1]
    /\ ibg = 0 /\ np_ibg = 0

Refuse == stage' = "refused" /\ UNCHANGED <<p, ibg, np_ibg>>

Take(field, v) ==
    /\ p' = [p EXCEPT ![field] = v]
    /\ UNCHANGED <<stage, ibg, np_ibg>>

-----------------------------------------------------------------------------
(* The options *)

\* -c and -s: one of them, once, with an address that inet_pton reads.
ModeOption(m) ==
    IF p.mode # 0
    THEN Refuse
    ELSE \/ Take("mode", m)
         \/ Refuse

MaxPort == 65535

\* -p: which port was given, p does not record.
PortOption(v) ==
    IF v = 0 \/ v > MaxPort THEN Refuse ELSE UNCHANGED argsVars

\* Mutant: 0 threads stay 0.
CountFor_AsIs(v) == v

CountFor(v) == IF v = 0 THEN 1 ELSE v

MaxThreads == 1000

ThreadsOption(v) == IF v > MaxThreads THEN Refuse ELSE Take("n_cpus", CountFor(v))

\* -t and -i.
SecondsOption(field, v) == IF v = 0 THEN Refuse ELSE Take(field, v)

MaxLength == 1472

LengthOption(v) == IF v < 64 \/ v > MaxLength THEN Refuse ELSE Take("pktsize", v)

MaxRate == 1000000

\* Mutant: the lower limit is not checked.
RateRefused_MaxOnly(rate) == rate > MaxRate

RateRefused(rate) == rate < 100 \/ rate > MaxRate

\* -b with K or M; rate *= v in 32 bits.  The suffix may be missing.
RateOption(v, unit) ==
    LET rate == (unit * v) % Word IN
    IF unit \notin {1, 1000} \/ RateRefused(rate)
    THEN Refuse
    ELSE /\ p' = [p EXCEPT !.rate_kbps = rate]
         /\ UNCHANGED <<stage, ibg, np_ibg>>

Option ==
    /\ stage = "options"
    /\ \/ \E m \in {1, 2} : ModeOption(m)
       \/ \E v \in Ports : PortOption(v)
       \/ \E v \in Counts : ThreadsOption(v)
       \/ \E v \in Seconds : SecondsOption("duration", v) \/ SecondsOption("interval", v)
       \/ \E v \in Lengths : LengthOption(v)
       \/ \E v \in Rates, unit \in {0, 1, 1000} : RateOption(v, unit)

-----------------------------------------------------------------------------
(* calc_pkts_rate *)

np_sec == (p.rate_kbps * 1000) \div (p.pktsize * 8)

DefaultBurst == (np_sec * 50) \div 1000

\* Mutant: a single packet every 50 ms, however slow the rate.
Gap_Default(n) == 50

\* The gap for one packet at a time; 1000 / 0 kills the program.
Gap(n) == 1000 \div n

\* The options are over, or one is unknown: parse_args returns 0 then as well,
\* and main goes on if a mode has been set.
Start ==
    /\ stage = "options"
    /\ UNCHANGED p
    /\ \/ /\ p.mode = 0
          /\ stage' = "refused" /\ UNCHANGED <<ibg, np_ibg>>
       \/ /\ p.mode = 2
          /\ stage' = "started" /\ UNCHANGED <<ibg, np_ibg>>
       \/ /\ p.mode = 1 /\ DefaultBurst > 0
          /\ stage' = "started" /\ ibg' = 50 /\ np_ibg' = DefaultBurst
       \/ /\ p.mode = 1 /\ DefaultBurst = 0 /\ np_sec > 0
          /\ stage' = "started" /\ ibg' = Gap(np_sec) /\ np_ibg' = 1
       \/ /\ p.mode = 1 /\ np_sec = 0
          /\ stage' = "killed" /\ UNCHANGED <<ibg, np_ibg>>

ArgsNext == Option \/ Start

ArgsSpec == ArgsInit /\ [][ArgsNext]_argsVars

-----------------------------------------------------------------------------
(* Properties *)

ArgsTypeOK ==
    /\ stage \in {"options", "refused", "started", "killed"}
    /\ p \in [mode : 0..2, pktsize : 64..MaxLength, duration : Nat \ {0},
              interval : Nat \ {0}, rate_kbps : 100..MaxRate, n_cpus : 1..MaxThreads]
    /\ ibg \in Nat /\ np_ibg \in Nat

\* Kbits in a gap at the requested rate, and in the burst that is sent instead.
TargetKbits == p.rate_kbps * ibg
PacedKbits == np_ibg * p.pktsize * 8

\* Whatever sequence of options is accepted, neither division of
\* calc_pkts_rate and of snd_worker's pacing (by ibg) is by zero.
NeverDividesByZero ==
    /\ stage # "killed"
    /\ (stage = "started" /\ p.mode = 1) => (ibg > 0 /\ np_ibg > 0)

\* Rounding to whole packets and whole milliseconds: the client paces itself
\* at more than half of the rate, and at no more than a fiftieth above it.
PacedNearTarget ==
    stage = "started" /\ p.mode = 1 =>
        /\ 2 * PacedKbits > TargetKbits
        /\ PacedKbits <= TargetKbits + (TargetKbits \div 50)
=============================================================================
