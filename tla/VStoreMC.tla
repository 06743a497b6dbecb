------------------------------ MODULE VStoreMC ------------------------------
(***************************************************************************)
(* Small instances of VStore: two objects, and the definitions the main    *)
(* program of each instance may give their attributes.                     *)
(***************************************************************************)
EXTENDS VStore

CONSTANTS o, p,         \* the objects
          w, x, y, z    \* the keys other than $

Path(b, ks)   == [base |-> b, keys |-> ks]
Set(s, v)     == SetEvent("SET", s, v)
Is(s, d)      == DefineFuncEvent(s, d)
Future(s, d)  == DefineEvent(s, d, Null)

Program(sends, asks, orderly, most) ==
  [ops |-> sends, reads |-> asks, orderly |-> orderly, maxOps |-> most]

TwoObjects == {o, p}
FiveKeys   == {w, x, y, z, Key}

\* A chain: y follows x, w follows y and z follows w, each by either kind of
\* definition.  A set of x reaches w in the instant that follows the two of the
\* set itself.
ReadX == Path(o, <<x>>)
ReadY == Path(o, <<y>>)
ReadW == Path(o, <<w>>)
ChainOps ==
  {Set(<<o, x>>, o), Set(<<o, x>>, p),
   Is(<<o, y>>, ReadX), Future(<<o, y>>, ReadX),
   Is(<<o, w>>, ReadY), Future(<<o, w>>, ReadY),
   Is(<<o, z>>, ReadW), Future(<<o, z>>, ReadW)}
ChainReads == {<<o, y>>, <<o, z>>}
Chain == Program(ChainOps, ChainReads, TRUE, 6)

\* Two definitions that read each other, each by either kind, and two readers that
\* meet the cycle in the notify phase.
CycleOps ==
  {Set(<<o, y>>, o),
   Is(<<o, y>>, ReadW), Future(<<o, y>>, ReadW),
   Is(<<o, w>>, ReadY), Future(<<o, w>>, ReadY),
   Future(<<o, x>>, ReadY), Future(<<o, z>>, ReadY)}
CycleReads == {<<o, y>>, <<o, w>>}
Cycle == Program(CycleOps, CycleReads, FALSE, 6)

\* The $ of an object: as a default, which reads an attribute that may itself be
\* missing, and as a name for all the attributes, in definitions of both kinds.
ReadAll == Path(o, <<Key>>)
AllOps ==
  {Set(<<o, y>>, o), Set(<<o, y>>, p), Is(<<o, w>>, ReadY),
   Is(<<o, Key>>, ReadY), Future(<<o, Key>>, ReadW),
   Future(<<o, x>>, ReadAll), Is(<<p, x>>, ReadAll)}
AllReads == {<<o, y>>, <<o, w>>, <<o, z>>, <<p, x>>}
All == Program(AllOps, AllReads, FALSE, 3)

\* A path through a value that changes: to an attribute of o that is set, or to a
\* missing one of p, for which the default of p stands in.
ReadXY == Path(o, <<x, y>>)
DynamicOps ==
  {Set(<<o, x>>, o), Set(<<o, x>>, p), Set(<<o, y>>, o), Set(<<o, y>>, p), Set(<<o, w>>, p),
   Is(<<o, z>>, ReadXY), Future(<<o, z>>, ReadXY),
   Is(<<p, Key>>, ReadW), Future(<<p, Key>>, ReadW)}
DynamicReads == {<<o, z>>, <<p, y>>}
Dynamic == Program(DynamicOps, DynamicReads, TRUE, 6)

\* An object whose $ has a value but no definition.
ReadPY == Path(p, <<y>>)
DefaultOps   == {Set(<<p, Key>>, o), Is(<<o, z>>, ReadPY), Future(<<o, z>>, ReadPY)}
DefaultReads == {<<o, z>>}

\* The definitions of these programs, other than of $, go from keys of a higher rank
\* to keys of a lower one.
ByKey == [s \in Slot |-> CASE s[2] = y -> 1 [] s[2] = w -> 2 [] s[2] = z -> 3 [] OTHER -> 0]
WithoutDefault(m) == [m EXCEPT !.ops = {e \in @ : e.slot[2] # Key}]
ASSUME PlainPrograms == Plain(Chain, ByKey) /\ Plain(WithoutDefault(Dynamic), ByKey)

SixPaths        == {ReadX, ReadY, ReadW, ReadAll, ReadXY, ReadPY}
FourPrograms    == {Chain, Cycle, All, Dynamic}
LeftoverChain   == {Program(ChainOps, ChainReads, FALSE, 5)}
DefaultValue    == {Program(DefaultOps, DefaultReads, TRUE, 3)}
=============================================================================
