---------------------------- MODULE XNetUpdateMC -----------------------------
(***************************************************************************)
(* An instance of XNetUpdate for TLC: two peers connect to a third, which  *)
(* may have room for one of them only.                                     *)
(***************************************************************************)
EXTENDS XNetUpdate

CONSTANTS peer1, peer2, peer3

SomePeers   == {peer1, peer2, peer3}
SomeLinks   == {<<peer2, peer1>>, <<peer3, peer1>>}
SomeClosing == {<<peer3, peer1>>}
SomeTables  == {[p \in SomePeers |-> IF p = peer1 THEN n ELSE 1] : n \in 1 .. 2}
LargeTables == {[p \in SomePeers |-> 2]}
==============================================================================
