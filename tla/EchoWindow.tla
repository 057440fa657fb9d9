----------------------------- MODULE EchoWindow -----------------------------
(***************************************************************************)
(* What the transport promises about one flow after another: a sliding     *)
(* window over packets that a peer echoes.  Packets are sent once each, in *)
(* order and in trains, no further than the window beyond `base`; a packet *)
(* is credited only after the peer has echoed it; the window moves forward *)
(* on a credit, and on expiry past everything sent.  Nothing of an earlier *)
(* flow or of an earlier sender shows.                                     *)
(***************************************************************************)
EXTENDS Integers

CONSTANTS Window,   \* packets the window holds
          Train     \* packets sent back to back, at least one

VARIABLES open,     \* a flow is in progress
          next,     \* next packet to send
          base,     \* one more than the newest credited packet
          echoed    \* the packets of this flow that the peer has echoed

wvars == <<open, next, base, echoed>>

Closed == open = FALSE /\ next = 0 /\ base = -1 /\ echoed = {}

Open ==
    /\ ~open
    /\ open' = TRUE
    /\ UNCHANGED <<next, base, echoed>>

SendOne ==
    /\ open
    /\ next <= base + Window \/ next % Train # 0
    /\ next' = next + 1
    /\ UNCHANGED <<open, base, echoed>>

Echo ==
    /\ open
    /\ \E s \in 0..(next - 1) : echoed' = echoed \cup {s}
    /\ UNCHANGED <<open, next, base>>

Credit ==
    /\ open
    /\ \E s \in echoed : base' = IF base >= s + 1 THEN base ELSE s + 1
    /\ UNCHANGED <<open, next, echoed>>

Expire ==
    /\ open /\ next % Train = 0
    /\ base' = next - 1
    /\ UNCHANGED <<open, next, echoed>>

Close ==
    /\ open
    /\ Closed'

WNext == Open \/ SendOne \/ Echo \/ Credit \/ Expire \/ Close

WSpec == Closed /\ [][WNext]_wvars
=============================================================================
