---------------------------- MODULE MCListener ----------------------------
(* Two addresses; the second and the third connection arrive on a port of   *)
(* their own, so their accepts race with the first one's.                   *)
EXTENDS Listener, TLC

CONSTANTS c1, c2, c3, p1, p2, i1, i2

TwoPorts == (c1 :> p1) @@ (c2 :> p2) @@ (c3 :> p2)
TwoAddresses == (c1 :> i1) @@ (c2 :> i1) @@ (c3 :> i2)
OneAddress == (c1 :> i1) @@ (c2 :> i1) @@ (c3 :> i1)
Pair == (c1 :> i1) @@ (c2 :> i1)
PairPorts == (c1 :> p1) @@ (c2 :> p2)
=============================================================================
