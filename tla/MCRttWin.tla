------------------------------ MODULE MCRttWin ------------------------------
(***************************************************************************)
(* RttWin on a small instance.  RTTs 1, 2 and 4 make 20 * min_rtt fall on  *)
(* both sides of the default length, so the long window grows and shrinks. *)
(***************************************************************************)
EXTENDS RttWin

MCRtts == {1, 2, 4}
=============================================================================
