---------------------------- MODULE MCEndpoints ----------------------------
(***************************************************************************)
(* Endpoints for TLC: two processes on host a, one on host b.              *)
(***************************************************************************)
EXTENDS Endpoints, TLC

CONSTANTS a1, a2, b1

MCHostOf == a1 :> "a" @@ a2 :> "a" @@ b1 :> "b"

\* The processes of host a are interchangeable (only safety is checked).
MCSymmetry == Permutations({a1, a2})

MCCommands ==
    {[prog |-> "receiver"],
     [prog |-> "sender", cong |-> "eyenet", dst_ip |-> "a"],
     [prog |-> "sender", cong |-> "eyenet", dst_ip |-> "b", switcher |-> "bytes",
      cycles |-> 2],
     [prog |-> "sender", cong |-> "eyenet", dst_ip |-> "nowhere", src_port |-> 8002,
      bn_train |-> 0],
     [prog |-> "sender", cong |-> "reno", dst_ip |-> "b"],
     [prog |-> "sender", cong |-> "eyenet"]}
=============================================================================
