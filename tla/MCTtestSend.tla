---------------------------- MODULE MCTtestSend ----------------------------
(***************************************************************************)
(* TtestSend for TLC.  The configurations differ in the number of workers, *)
(* in how late they may be and in the width of n_cpus.                     *)
(***************************************************************************)
EXTENDS TtestSend
=============================================================================
