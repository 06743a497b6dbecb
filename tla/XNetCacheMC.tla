----------------------------- MODULE XNetCacheMC -----------------------------
(***************************************************************************)
(* Small instances of XNetCache: attributes of the server that share a     *)
(* chain of the cache or have one of their own, and readers of some.       *)
(***************************************************************************)
EXTENDS XNetCache

CONSTANTS x, y, z,   \* the attributes of the server
          p1, p2     \* the readers

\* The main program reads x and y, which share a chain; a reader reads z, which has
\* a chain to itself.
OneReader    == {p1}
ThreeSlots   == {x, y, z}
Shared       == (x :> 0) @@ (y :> 0) @@ (z :> 1)
ReadsZ       == (p1 :> z)
ReadByMain   == {x, y}
OneTwoThree  == (x :> 1) @@ (y :> 2) @@ (z :> 3)

\* One attribute and one reader, and a main program that reads nothing.
OneSlot      == {x}
OneChange    == (x :> 1)
Alone        == (x :> 0)
ReadsX       == (p1 :> x)
NothingRead  == {}

\* One attribute that only the main program reads.
NoReader     == {}
NoReads      == [r \in {} |-> x]

\* Two attributes that share a chain and are read by handlers.
TwoSlots     == {x, y}
OneEach      == (x :> 1) @@ (y :> 1)
Together     == (x :> 0) @@ (y :> 0)
BothReaders  == {p1, p2}
ReadsXY      == (p1 :> x) @@ (p2 :> y)
=============================================================================
