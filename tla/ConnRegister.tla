---------------------------- MODULE ConnRegister ----------------------------
(***************************************************************************)
(* What the list of connections of the ttest server promises, whatever the *)
(* threads: connections are listed one at a time and for good, one for each*)
(* worker and client; each counts packets one by one; and the reports say  *)
(* of each no more than it has counted, and never take back what they said.*)
(***************************************************************************)
EXTENDS Integers, Sequences

CONSTANTS Workers, Clients

VARIABLE register   \* the connections, in the order of their numbers

Conn == [worker : Workers, client : Clients, n : Nat, said : Nat]

RInit == register = <<>>

List(w, c) ==
    /\ \A k \in DOMAIN register : register[k].worker # w \/ register[k].client # c
    /\ register' = Append(register, [worker |-> w, client |-> c, n |-> 0, said |-> 0])

Count(k) == register' = [register EXCEPT ![k].n = @ + 1]

Say(k) ==
    \E s \in register[k].said..register[k].n :
        register' = [register EXCEPT ![k].said = s]

RNext ==
    \/ \E w \in Workers, c \in Clients : List(w, c)
    \/ \E k \in DOMAIN register : Count(k) \/ Say(k)

RSpec == RInit /\ [][RNext]_register
=============================================================================
