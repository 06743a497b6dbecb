------------------------------ MODULE RoutingMC ------------------------------
(***************************************************************************)
(* Instances of Routing for TLC: words of 110 values, so that the store    *)
(* runs out of them, two peers whose bases differ from this machine's in   *)
(* one word, and one that has the same base.                               *)
(***************************************************************************)
EXTENDS Routing

Here       == O(1, 0, 0, 0)
OtherPeers == {O(2, 0, 0, 0), O(1, 109, 0, 0)}
SomePeers  == OtherPeers \cup {Here}
=============================================================================
