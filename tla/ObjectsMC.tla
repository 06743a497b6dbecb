------------------------------ MODULE ObjectsMC ------------------------------
(***************************************************************************)
(* Instances of Objects for TLC: two objects with two elements each and a  *)
(* parent, definitions that chain, one that reads itself through another,  *)
(* and a key array of two that the third key replaces.                     *)
(***************************************************************************)
EXTENDS Objects

CONSTANTS o1, o2

SetSlots    == {<<o1, 1>>, <<o1, Parent>>, <<o2, 0>>}
Definitions == {<<<<o1, 0>>, <<o1, 1>>>>, <<<<o1, 0>>, <<o2, 1>>>>, <<<<o2, 1>>, <<o1, 0>>>>,
                <<<<o2, 1>>, <<o2, 0>>>>}
=============================================================================
