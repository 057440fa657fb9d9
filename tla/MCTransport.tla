---------------------------- MODULE MCTransport ----------------------------
(***************************************************************************)
(* Transport for TLC.  The configurations differ in the mode of the flows, *)
(* in what the network does and in how many launches and flows there are.  *)
(***************************************************************************)
EXTENDS Transport

MCTwoMs == {2}
MCThreeMs == {3}
MCBytes == {2816}           \* two packets of 1408 bytes
=============================================================================
