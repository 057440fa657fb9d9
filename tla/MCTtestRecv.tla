---------------------------- MODULE MCTtestRecv ----------------------------
(***************************************************************************)
(* TtestRecv for TLC: two clients that differ in the port alone.           *)
(***************************************************************************)
EXTENDS TtestRecv

MCTwoClients == {[ip |-> 1, port |-> 1], [ip |-> 1, port |-> 2]}
=============================================================================
