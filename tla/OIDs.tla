-------------------------------- MODULE OIDs --------------------------------
(***************************************************************************)
(* Object identifiers (core/oid.h): four unsigned words, compared as two   *)
(* 64-bit halves, incremented with a carry from word to word, and added    *)
(* word by word without one.  Everything in the system is an OID: objects, *)
(* keys, numbers, booleans, names and the special values, told apart by    *)
(* their first two words.                                                  *)
(***************************************************************************)
EXTENDS Integers

CONSTANT W  \* the number of values of a word, 2^32 in the code

ASSUME WordAssumption == W \in Nat /\ W >= 2

Word == 0 .. W - 1
OID  == [a : Word, b : Word, c : Word, d : Word]

O(a, b, c, d) == [a |-> a, b |-> b, c |-> c, d |-> d]

Null == O(0, 0, 0, 0)

\* The halves m_hl and m_ll, compared as unsigned numbers: their high words first.
HalfLess(p, q) == p[1] < q[1] \/ (p[1] = q[1] /\ p[2] < q[2])

High(x) == <<x.a, x.b>>
Low(x)  == <<x.c, x.d>>

\* Mutant: the low halves are compared whatever the high ones are.
Less_low(x, y) == HalfLess(High(x), High(y)) \/ HalfLess(Low(x), Low(y))

Less(x, y) == HalfLess(High(x), High(y)) \/ (High(x) = High(y) /\ HalfLess(Low(x), Low(y)))

AtMost(x, y)  == Less(x, y) \/ x = y
AtLeast(x, y) == Less(y, x) \/ x = y

\* Mutant: without the carry into the third word.
Inc_noCarry(x) == O(x.a, x.b, x.c, (x.d + 1) % W)

\* operator++, before which (after which, for the postfix form) the value is used.
Inc(x) ==
  IF x.d # W - 1 THEN O(x.a, x.b, x.c, x.d + 1)
  ELSE IF x.c # W - 1 THEN O(x.a, x.b, x.c + 1, 0)
  ELSE IF x.b # W - 1 THEN O(x.a, x.b + 1, 0, 0)
  ELSE O((x.a + 1) % W, 0, 0, 0)

\* operator+: each word on its own.
Plus(x, y) == O((x.a + y.a) % W, (x.b + y.b) % W, (x.c + y.c) % W, (x.d + y.d) % W)
=============================================================================
