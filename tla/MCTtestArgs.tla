---------------------------- MODULE MCTtestArgs ----------------------------
(***************************************************************************)
(* TtestArgs for TLC: the numbers around every limit, and rates at both    *)
(* ends of a step of the rounding.  TLC counts in 32 bits itself, so its   *)
(* uint32_t has 24; the least rate in Mbps that wraps to a legal one is    *)
(* then 16778M, where with 32 bits it is 4294968M.                         *)
(***************************************************************************)
EXTENDS TtestArgs

MCWord == 2^24
MCRates == {0, 1, 10, 99, 100, 106, 117, 118, 224, 235, 236, 300, 459, 460, 471,
            1000, 1001, 1000000, 1000001, 16778}
MCLengths == {63, 64, 576, 1000, 1472, 1473}
MCPorts == {0, 1, 65535, 65536}
MCCounts == {0, 2, 1000, 1001}
MCSeconds == {0, 1}
=============================================================================
