------------------------------ MODULE MCEyenet ------------------------------
(***************************************************************************)
(* EyenetSpec on a small instance: a probe window of 3 packets and a loss  *)
(* window of 1, so that a single acknowledgement can give up a whole loss  *)
(* window and the window starts to adapt after five acknowledgements.      *)
(***************************************************************************)
EXTENDS EyenetSpec
=============================================================================
