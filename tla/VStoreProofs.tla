---------------------------- MODULE VStoreProofs ----------------------------
(***************************************************************************)
(* Proofs about VStore, for any number of objects, keys and definitions    *)
(* and any main program: the locks of attributes, what a nested drain      *)
(* finds queued, and what the attributes hold once a plain program has     *)
(* nothing left to do.                                                     *)
(***************************************************************************)
EXTENDS VStore, FiniteSetTheorems, SequenceTheorems, WellFoundedInduction, TLAPS

-----------------------------------------------------------------------------
(***************************************************************************)
(* The inductive invariant.  The calls st hold the locks of the attributes *)
(* L; D are the attributes with a definition, cq the queue being drained   *)
(* and q0 the queued sets.                                                 *)
(***************************************************************************)
\* The attributes that are locked, and those that have a definition, in attributes a.
Locked(a)   == {s \in Slot : a[s].evaluating}
WithDef(a)  == {s \in Slot : a[s].def # Null}

IsLock(f)       == IsEvaluation(f) \/ (f.kind = "notify" /\ f.own)
LockOf(f)       == IF IsLock(f) THEN {f.slot} ELSE {}
Holds(st, i, s) == i \in 1 .. Len(st) /\ IsLock(st[i]) /\ st[i].slot = s

\* Each lock is held by one call.
LocksFit(L, st) ==
  /\ L \subseteq Slot
  /\ \A s \in Slot : s \in L <=> \E i \in 1 .. Len(st) : Holds(st, i, s)
  /\ \A i, j \in 1 .. Len(st) :
       IsLock(st[i]) /\ IsLock(st[j]) /\ st[i].slot = st[j].slot => i = j

\* An evaluation that waits for something has a key left, and a definition.
Proper(D, f) == IsEvaluation(f) => /\ f.at # "get" => ~AtEnd(f)
                                   /\ f.slot \in D

\* Call g may be right above f: above a synchronous operation there is only an
\* instant, and below one, or a nested drain, an Error; a GET that evaluates is of
\* the next key.
Follows(f, g) == /\ f.kind = "sync" => g.kind = "instant"
                 /\ g.kind \in {"remaining", "sync"} => f.kind = "error"
                 /\ IsEvaluation(f) /\ g.kind \in {"is", "wild"} => ~AtEnd(f)

Nested(D, st) ==
  /\ \A i \in 1 .. Len(st) : Proper(D, st[i])
  /\ \A i \in 1 .. Len(st) - 1 : Follows(st[i], st[i + 1])
  /\ st # <<>> => st[1].kind # "remaining"

\* There is at most one instant, and nested drains are above it.
NoInstant(st) == \A i \in 1 .. Len(st) : st[i].kind # "instant"
Instants(st, cq) ==
  /\ \A i, j \in 1 .. Len(st) : st[i].kind = "instant" /\ st[j].kind = "instant" => i = j
  /\ \A j \in 1 .. Len(st) :
       st[j].kind = "remaining" => \E i \in 1 .. Len(st) : i < j /\ st[i].kind = "instant"
  /\ NoInstant(st) => cq = -1

\* Below a nested drain that has still to go on to the sets one is queued, or an Error
\* above it will queue one; the set a synchronous operation waits for is queued, if
\* the operation did not start the instant itself.
Fed(st, i, q0) == q0 # <<>> \/ \E j \in 1 .. Len(st) : j > i /\ st[j].kind = "error"
SetsFit(st, q0) ==
  /\ \A i \in 1 .. Len(st) : st[i].kind = "remaining" /\ st[i].q # 0 => Fed(st, i, q0)
  /\ st # <<>> => (st[Len(st)].kind = "sync" /\ ~NoInstant(st) => q0 # <<>>)

CallsInv(L, D, st, cq, q0) ==
  /\ st \in Seq(Frame) /\ cq \in -1 .. 2
  /\ LocksFit(L, st)
  /\ Nested(D, st)
  /\ Instants(st, cq)
  /\ SetsFit(st, q0)

\* An attribute with the flag FLAG_FUNCTION has a definition.
DefsInv(a) == \A s \in Slot : a[s].isf => a[s].def # Null

IInv ==
  /\ TypeOK
  /\ queue = [k \in 0 .. 2 |-> queue[k]]
  /\ DefsInv(attr)
  /\ CallsInv(Locked(attr), WithDef(attr), stack, curq, queue[0])

-----------------------------------------------------------------------------
(***************************************************************************)
(* Sequences.                                                              *)
(***************************************************************************)
\* A sequence is a function on the numbers to its length.
LEMMA SeqIs ==
  ASSUME NEW S, NEW s \in Seq(S)
  PROVE  /\ Len(s) \in Nat /\ DOMAIN s = 1 .. Len(s)
         /\ \A i \in 1 .. Len(s) : s[i] \in S
         /\ s # <<>> => Len(s) \in Nat \ {0}
         /\ Len(s) = 0 => s = <<>>
BY EmptySeq

\* What appending an element does.
LEMMA Pushed ==
  ASSUME NEW S, NEW s \in Seq(S), NEW x \in S
  PROVE  /\ Append(s, x) \in Seq(S) /\ Append(s, x) # <<>>
         /\ Len(Append(s, x)) = Len(s) + 1
         /\ \A i \in 1 .. Len(s) : Append(s, x)[i] = s[i]
         /\ Append(s, x)[Len(s) + 1] = x
         /\ Last(Append(s, x)) = x
<1>1. /\ Append(s, x) \in Seq(S) /\ Append(s, x) # <<>>
      /\ Len(Append(s, x)) = Len(s) + 1 /\ Len(s) \in Nat
      /\ \A i \in 1 .. Len(s) : Append(s, x)[i] = s[i]
      /\ Append(s, x)[Len(s) + 1] = x
  BY AppendProperties
<1>2. Last(Append(s, x)) = x
  BY <1>1 DEF Last
<1> QED
  BY <1>1, <1>2

\* What taking the last element away leaves.
LEMMA Popped ==
  ASSUME NEW S, NEW s \in Seq(S), s # <<>>
  PROVE  /\ Front(s) \in Seq(S)
         /\ Len(s) \in Nat \ {0} /\ Len(Front(s)) = Len(s) - 1
         /\ \A i \in 1 .. Len(s) - 1 : Front(s)[i] = s[i]
         /\ Last(s) = s[Len(s)] /\ Last(s) \in S
<1>1. Len(s) \in Nat \ {0} /\ \A i \in 1 .. Len(s) : s[i] \in S
  BY SeqIs
<1>2. PICK n \in Nat : n + 1 = Len(s) /\ Len(s) - 1 = n
  <2>1. \A l \in Nat \ {0} : l - 1 \in Nat /\ l - 1 + 1 = l
    OBVIOUS
  <2> QED
    BY <1>1, <2>1, Zenon
<1>3. /\ SubSeq(s, 1, n) \in Seq(S)
      /\ Len(SubSeq(s, 1, n)) = IF 1 <= n THEN n - 1 + 1 ELSE 0
      /\ \A i \in 1 .. n - 1 + 1 : SubSeq(s, 1, n)[i] = s[1 + i - 1]
  <2>1. n \in Int /\ 1 \in Int /\ \A i \in 1 .. n : s[i] \in S
    BY <1>1, <1>2
  <2> QED
    BY <2>1, SubSeqProperties
<1>4. Front(s) = SubSeq(s, 1, n) /\ n = Len(s) - 1
  BY <1>2 DEF Front
<1>5. Len(SubSeq(s, 1, n)) = n /\ \A i \in 1 .. n : i \in 1 .. n - 1 + 1 /\ 1 + i - 1 = i
  BY <1>3
<1>6. \A i \in 1 .. n : SubSeq(s, 1, n)[i] = s[i]
  BY <1>3, <1>5
<1>7. Last(s) = s[Len(s)] /\ Last(s) \in S
  BY <1>1 DEF Last
<1> QED
  BY <1>1, <1>3, <1>4, <1>5, <1>6, <1>7

\* What taking the first element away leaves.
LEMMA Shortened ==
  ASSUME NEW S, NEW s \in Seq(S), s # <<>>
  PROVE  Tail(s) \in Seq(S) /\ Head(s) \in S
BY HeadTailProperties

\* Joining nothing, one or two elements to a sequence is appending them.
LEMMA Joins ==
  ASSUME NEW S, NEW s \in Seq(S)
  PROVE  /\ s \o <<>> = s
         /\ \A x \in S : s \o <<x>> = Append(s, x)
         /\ \A x, y \in S : s \o <<x, y>> = Append(Append(s, x), y)
<1>1. s \o <<>> = s
  BY ConcatEmptySeq
<1>2. ASSUME NEW x \in S PROVE s \o <<x>> = Append(s, x)
  BY <1>2, AppendIsConcat
<1>3. ASSUME NEW x \in S, NEW y \in S PROVE s \o <<x, y>> = Append(Append(s, x), y)
  <2>1. <<x, y>> = <<x>> \o <<y>> /\ <<x>> \in Seq(S) /\ <<y>> \in Seq(S)
    <3>1. <<x>> \in Seq(S) /\ <<y>> \in Seq(S)
      OBVIOUS
    <3>2. Append(<<x>>, y) = <<x, y>>
      <4>1. /\ <<x, y>> \in Seq(S) /\ Len(<<x, y>>) = 2
            /\ <<x, y>>[1] = x /\ <<x, y>>[2] = y
        OBVIOUS
      <4>2. Len(<<x>>) = 1 /\ <<x>>[1] = x
        OBVIOUS
      <4>3. PICK o \in Seq(S) : o = <<x>>
        BY <3>1
      <4>4. PICK t \in Seq(S) : t = <<x, y>>
        BY <4>1
      <4>5. /\ Append(o, y) \in Seq(S) /\ Len(Append(o, y)) = 2
            /\ Append(o, y)[1] = x /\ Append(o, y)[2] = y
        <5>1. Len(o) = 1 /\ o[1] = x
          BY <4>2, <4>3
        <5>2. /\ Append(o, y) \in Seq(S) /\ Len(Append(o, y)) = Len(o) + 1
              /\ Append(o, y)[Len(o) + 1] = y
          BY Pushed
        <5>3. \A i \in 1 .. Len(o) : Append(o, y)[i] = o[i]
          BY Pushed
        <5> QED
          BY <5>1, <5>2, <5>3
      <4>6. Len(t) = 2 /\ t[1] = x /\ t[2] = y
        BY <4>1, <4>4
      <4>7. Append(o, y) = t
        BY <4>5, <4>6, SeqEqual
      <4> QED
        BY <4>3, <4>4, <4>7, Zenon
    <3> QED
      BY <3>1, <3>2, AppendIsConcat
  <2>2. (s \o <<x>>) \o <<y>> = s \o (<<x>> \o <<y>>)
    BY <2>1, ConcatAssociative
  <2>3. s \o <<x>> = Append(s, x) /\ Append(s, x) \in Seq(S)
    BY <1>2, Pushed
  <2>4. Append(s, x) \o <<y>> = Append(Append(s, x), y)
    BY <2>3, AppendIsConcat
  <2> QED
    BY <2>1, <2>2, <2>3, <2>4
<1> QED
  BY <1>1, <1>2, <1>3

\* Another element in the place of the last one.
LEMMA Replaced ==
  ASSUME NEW S, NEW s \in Seq(S), s # <<>>, NEW x \in S
  PROVE  [s EXCEPT ![Len(s)] = x] = Append(Front(s), x)
<1>1. PICK n \in Nat \ {0} : n = Len(s)
  BY Popped
<1>2. PICK t \in Seq(S) : t = Front(s) /\ Len(t) = n - 1 /\ \A i \in 1 .. n - 1 : t[i] = s[i]
  BY <1>1, Popped
<1> DEFINE a == [s EXCEPT ![n] = x]
           b == Append(t, x)
<1>3. n \in 1 .. Len(s)
  BY <1>1
<1>4. a \in Seq(S) /\ Len(a) = n /\ \A i \in 1 .. n : a[i] = IF i = n THEN x ELSE s[i]
  BY <1>1, <1>3, ExceptSeq
<1>5. /\ b \in Seq(S) /\ Len(b) = Len(t) + 1
      /\ \A i \in 1 .. Len(t) : b[i] = t[i]
      /\ b[Len(t) + 1] = x
  BY Pushed
<1> HIDE DEF a, b
<1>6. Len(b) = n /\ (\A i \in 1 .. n - 1 : b[i] = s[i]) /\ b[n] = x
  BY <1>2, <1>5
<1>7. \A i \in 1 .. n : i = n \/ i \in 1 .. n - 1
  BY <1>1
<1>8. \A i \in 1 .. n : a[i] = b[i]
  BY <1>4, <1>6, <1>7
<1>9. a = b
  BY <1>4, <1>5, <1>6, <1>8, SeqEqual
<1> QED
  BY <1>1, <1>2, <1>9 DEF a, b

-----------------------------------------------------------------------------
(***************************************************************************)
(* Calls.                                                                  *)
(***************************************************************************)
\* What the calls are, by their kinds.
LEMMA Frames ==
  ASSUME NEW f \in Frame
  PROVE  /\ f.kind \in {"instant", "remaining", "sync", "error", "notify", "is", "wild", "future"}
         /\ f.kind \in {"instant", "remaining"} => f.q \in 0 .. 2
         /\ f.kind = "sync" => f = Sync
         /\ f.kind = "error" => f.n \in 0 .. 4
         /\ f.kind = "notify" => f.slot \in Slot /\ f.own \in BOOLEAN /\ f.i \in Nat \ {0}
         /\ IsEvaluation(f) =>
              /\ f.slot \in Slot /\ f.ctx \in Slot /\ f.def \in Paths /\ f.is \in BOOLEAN
              /\ f.pos \in Nat \ {0} /\ f.res \in Value /\ f.ans \in Value
              /\ f.at \in {"get", "cyclic", "none", "dep"}
         /\ IsLock(f) => f.slot \in Slot
BY DEF Frame, IsEvaluation, Sync, IsLock

\* What calls change into.
LEMMA FramesChange ==
  ASSUME NEW f \in Frame, NEW v \in Value
  PROVE  /\ f.kind = "notify" => [f EXCEPT !.i = @ + 1] \in Frame
         /\ IsEvaluation(f) =>
              /\ [f EXCEPT !.at = "dep", !.ans = v] \in Frame
              /\ \A at \in {"get", "cyclic", "none", "dep"} : [f EXCEPT !.at = at] \in Frame
              /\ [f EXCEPT !.at = "get", !.pos = @ + 1, !.res = f.ans] \in Frame
<1>1. ASSUME f.kind = "notify" PROVE [f EXCEPT !.i = @ + 1] \in Frame
  <2>1. f \in [kind : {"notify"}, slot : Slot, own : BOOLEAN, i : Nat \ {0}]
    BY <1>1 DEF Frame, Sync
  <2>2. [f EXCEPT !.i = @ + 1] \in [kind : {"notify"}, slot : Slot, own : BOOLEAN, i : Nat \ {0}]
    BY <2>1
  <2> QED
    BY <2>2 DEF Frame
<1>2. ASSUME IsEvaluation(f)
      PROVE  /\ [f EXCEPT !.at = "dep", !.ans = v] \in Frame
             /\ \A at \in {"get", "cyclic", "none", "dep"} : [f EXCEPT !.at = at] \in Frame
             /\ [f EXCEPT !.at = "get", !.pos = @ + 1, !.res = f.ans] \in Frame
  <2> DEFINE E == [kind : {"is", "wild", "future"}, slot : Slot, ctx : Slot, def : Paths, is : BOOLEAN,
                   pos : Nat \ {0}, res : Value, at : {"get", "cyclic", "none", "dep"}, ans : Value]
  <2>1. f \in E
    BY <1>2 DEF Frame, Sync, IsEvaluation
  <2>2. [f EXCEPT !.at = "dep", !.ans = v] \in E
    BY <2>1
  <2>3. ASSUME NEW at \in {"get", "cyclic", "none", "dep"} PROVE [f EXCEPT !.at = at] \in E
    BY <2>1
  <2>4. [f EXCEPT !.at = "get", !.pos = @ + 1, !.res = f.ans] \in E
    <3>1. f.pos + 1 \in Nat \ {0} /\ f.ans \in Value
      BY <2>1
    <3>2. \A k \in Nat \ {0}, u \in Value : [f EXCEPT !.at = "get", !.pos = k, !.res = u] \in E
      BY <2>1
    <3> QED
      BY <3>1, <3>2
  <2>5. \A g \in E : g \in Frame
    BY DEF Frame
  <2> HIDE DEF E
  <2> QED
    BY <2>2, <2>3, <2>4, <2>5
<1> QED
  BY <1>1, <1>2

\* What a call above the others does to the locks they hold.
LEMMA LocksPushed ==
  ASSUME NEW L, NEW st \in Seq(Frame), NEW f \in Frame, LocksFit(L, st),
         IsLock(f) => f.slot \notin L
  PROVE  LocksFit(L \cup LockOf(f), Append(st, f))
<1> DEFINE su == Append(st, f)
           n == Len(st)
<1>1. /\ su \in Seq(Frame) /\ n \in Nat /\ Len(su) = n + 1
      /\ \A i \in 1 .. n : su[i] = st[i]
      /\ su[n + 1] = f
  BY Pushed, SeqIs
<1>2. /\ L \subseteq Slot
      /\ \A s \in Slot : s \in L <=> \E i \in 1 .. n : Holds(st, i, s)
      /\ \A i, j \in 1 .. n :
           IsLock(st[i]) /\ IsLock(st[j]) /\ st[i].slot = st[j].slot => i = j
  BY DEF LocksFit
<1> HIDE DEF su, n
<1>3. \A i \in 1 .. n : i \in 1 .. Len(su) /\ i \in 1 .. Len(st)
  BY <1>1 DEF n
<1>4. \A i \in 1 .. Len(su) : i \in 1 .. n \/ i = n + 1
  BY <1>1
<1>5. n + 1 \in 1 .. Len(su)
  BY <1>1
<1>6. IsLock(f) => f.slot \in Slot
  BY Frames
<1>7. \A i \in 1 .. n : IsLock(st[i]) /\ IsLock(f) => st[i].slot # f.slot
  <2> SUFFICES ASSUME NEW i \in 1 .. n, IsLock(st[i]), IsLock(f), st[i].slot = f.slot PROVE FALSE
    OBVIOUS
  <2>1. Holds(st, i, f.slot)
    BY <1>3 DEF Holds
  <2> QED
    BY <1>2, <1>6, <2>1
<1>8. L \cup LockOf(f) \subseteq Slot
  BY <1>2, <1>6 DEF LockOf
<1>9. ASSUME NEW s \in Slot PROVE s \in L \cup LockOf(f) <=> \E i \in 1 .. Len(su) : Holds(su, i, s)
  <2>1. ASSUME s \in L PROVE \E i \in 1 .. Len(su) : Holds(su, i, s)
    <3>1. PICK i \in 1 .. n : Holds(st, i, s)
      BY <1>2, <2>1
    <3>2. Holds(su, i, s)
      BY <1>1, <1>3, <3>1 DEF Holds
    <3> QED
      BY <1>3, <3>2
  <2>2. ASSUME s \in LockOf(f) PROVE \E i \in 1 .. Len(su) : Holds(su, i, s)
    <3>1. Holds(su, n + 1, s)
      BY <1>1, <1>5, <2>2 DEF Holds, LockOf
    <3> QED
      BY <1>5, <3>1
  <2>3. ASSUME NEW i \in 1 .. Len(su), Holds(su, i, s) PROVE s \in L \cup LockOf(f)
    <3>1. CASE i = n + 1
      BY <1>1, <2>3, <3>1 DEF Holds, LockOf
    <3>2. CASE i \in 1 .. n
      <4>1. Holds(st, i, s)
        BY <1>1, <1>3, <2>3, <3>2 DEF Holds
      <4> QED
        BY <1>2, <3>2, <4>1
    <3> QED
      BY <1>4, <3>1, <3>2
  <2> QED
    BY <2>1, <2>2, <2>3
<1>10. ASSUME NEW i \in 1 .. Len(su), NEW j \in 1 .. Len(su),
              IsLock(su[i]), IsLock(su[j]), su[i].slot = su[j].slot
       PROVE  i = j
  <2>1. CASE i \in 1 .. n /\ j \in 1 .. n
    BY <1>1, <1>2, <1>10, <2>1
  <2>2. CASE i = n + 1 /\ j \in 1 .. n
    BY <1>1, <1>7, <1>10, <2>2
  <2>3. CASE i \in 1 .. n /\ j = n + 1
    BY <1>1, <1>7, <1>10, <2>3
  <2>4. CASE i = n + 1 /\ j = n + 1
    BY <2>4
  <2> QED
    BY <1>4, <2>1, <2>2, <2>3, <2>4
<1> QED
  BY <1>8, <1>9, <1>10 DEF LocksFit, su

\* What the end of the innermost call does to them.
LEMMA LocksPopped ==
  ASSUME NEW L, NEW st \in Seq(Frame), st # <<>>, LocksFit(L, st)
  PROVE  LocksFit(L \ LockOf(Last(st)), Front(st))
<1> DEFINE su == Front(st)
           f == Last(st)
           n == Len(su)
<1>1. /\ su \in Seq(Frame) /\ n \in Nat /\ Len(st) = n + 1
      /\ \A i \in 1 .. n : su[i] = st[i]
      /\ st[n + 1] = f /\ f \in Frame
  <2>1. /\ su \in Seq(Frame) /\ Len(st) \in Nat \ {0} /\ n = Len(st) - 1
        /\ \A i \in 1 .. Len(st) - 1 : su[i] = st[i]
        /\ f = st[Len(st)] /\ f \in Frame
    BY Popped
  <2> HIDE DEF su, f, n
  <2> QED
    BY <2>1
<1>2. /\ L \subseteq Slot
      /\ \A s \in Slot : s \in L <=> \E i \in 1 .. Len(st) : Holds(st, i, s)
      /\ \A i, j \in 1 .. Len(st) :
           IsLock(st[i]) /\ IsLock(st[j]) /\ st[i].slot = st[j].slot => i = j
  BY DEF LocksFit
<1> HIDE DEF su, n, f
<1>3. \A i \in 1 .. n : i \in 1 .. Len(st) /\ i # n + 1
  BY <1>1
<1>4. \A i \in 1 .. Len(st) : i \in 1 .. n \/ i = n + 1
  BY <1>1
<1>5. n + 1 \in 1 .. Len(st)
  BY <1>1
<1>6. n = Len(su)
  BY DEF n
<1>7. \A i \in 1 .. n : IsLock(st[i]) /\ IsLock(f) => st[i].slot # f.slot
  BY <1>1, <1>2, <1>3, <1>5
<1>8. ASSUME NEW s \in Slot PROVE s \in L \ LockOf(f) <=> \E i \in 1 .. n : Holds(su, i, s)
  <2>1. ASSUME s \in L \ LockOf(f) PROVE \E i \in 1 .. n : Holds(su, i, s)
    <3>1. PICK i \in 1 .. Len(st) : Holds(st, i, s)
      BY <1>2, <2>1
    <3>2. i # n + 1
      BY <1>1, <2>1, <3>1 DEF Holds, LockOf
    <3>3. i \in 1 .. n
      BY <1>4, <3>2
    <3>4. Holds(su, i, s)
      BY <1>1, <1>6, <3>1, <3>3 DEF Holds
    <3> QED
      BY <3>3, <3>4
  <2>2. ASSUME NEW i \in 1 .. n, Holds(su, i, s) PROVE s \in L \ LockOf(f)
    <3>1. Holds(st, i, s)
      BY <1>1, <1>3, <2>2 DEF Holds
    <3>2. s \in L
      BY <1>2, <1>3, <3>1
    <3>3. s \notin LockOf(f)
      BY <1>7, <3>1 DEF Holds, LockOf
    <3> QED
      BY <3>2, <3>3
  <2> QED
    BY <2>1, <2>2
<1>9. ASSUME NEW i \in 1 .. n, NEW j \in 1 .. n,
             IsLock(su[i]), IsLock(su[j]), su[i].slot = su[j].slot
      PROVE  i = j
  BY <1>1, <1>2, <1>3, <1>9
<1>10. L \ LockOf(f) \subseteq Slot
  BY <1>2
<1> QED
  BY <1>6, <1>8, <1>9, <1>10 DEF LocksFit, su, f

\* What a call above the others does to how they are nested.
LEMMA NestedPushed ==
  ASSUME NEW D, NEW st \in Seq(Frame), NEW f \in Frame, Nested(D, st), Proper(D, f),
         st # <<>> => Follows(Last(st), f),
         st = <<>> => f.kind # "remaining"
  PROVE  Nested(D, Append(st, f))
<1> DEFINE su == Append(st, f)
           n == Len(st)
<1>1. /\ su \in Seq(Frame) /\ n \in Nat /\ Len(su) = n + 1
      /\ \A i \in 1 .. n : su[i] = st[i]
      /\ su[n + 1] = f
      /\ n = 0 <=> st = <<>>
  BY Pushed, SeqIs, EmptySeq
<1>2. n # 0 => Follows(st[n], f)
  BY <1>1, SeqIs DEF Last
<1>3. /\ \A i \in 1 .. n : Proper(D, st[i])
      /\ \A i \in 1 .. n - 1 : Follows(st[i], st[i + 1])
      /\ n # 0 => st[1].kind # "remaining"
  BY <1>1 DEF Nested
<1> HIDE DEF su, n
<1>4. \A i \in 1 .. Len(su) : Proper(D, su[i])
  BY <1>1, <1>3
<1>5. ASSUME NEW i \in 1 .. Len(su) - 1 PROVE Follows(su[i], su[i + 1])
  <2>1. CASE i = n
    BY <1>1, <1>2, <2>1
  <2>2. CASE i \in 1 .. n - 1
    BY <1>1, <1>3, <2>2
  <2> QED
    BY <1>1, <2>1, <2>2
<1>6. su # <<>> => su[1].kind # "remaining"
  BY <1>1, <1>3
<1> QED
  BY <1>4, <1>5, <1>6 DEF Nested, su

\* What the end of the innermost call leaves; and what that call was above.
LEMMA NestedPopped ==
  ASSUME NEW D, NEW st \in Seq(Frame), st # <<>>, Nested(D, st)
  PROVE  /\ Nested(D, Front(st))
         /\ Proper(D, Last(st))
         /\ Front(st) # <<>> => Follows(Last(Front(st)), Last(st))
         /\ Front(st) = <<>> => Last(st).kind # "remaining"
<1> DEFINE su == Front(st)
           f == Last(st)
           n == Len(su)
<1>1. /\ su \in Seq(Frame) /\ n \in Nat /\ Len(st) = n + 1
      /\ \A i \in 1 .. n : su[i] = st[i]
      /\ st[n + 1] = f
  <2>1. /\ su \in Seq(Frame) /\ Len(st) \in Nat \ {0} /\ n = Len(st) - 1
        /\ \A i \in 1 .. Len(st) - 1 : su[i] = st[i]
        /\ f = st[Len(st)] /\ f \in Frame
    BY Popped
  <2> HIDE DEF su, f, n
  <2> QED
    BY <2>1
<1>2. su # <<>> => n # 0 /\ Last(su) = su[n]
  BY <1>1, SeqIs DEF Last
<1>3. su = <<>> => n = 0
  BY EmptySeq
<1>4. /\ \A i \in 1 .. n + 1 : Proper(D, st[i])
      /\ \A i \in 1 .. n : Follows(st[i], st[i + 1])
      /\ st[1].kind # "remaining"
  BY <1>1 DEF Nested
<1>5. n = Len(su)
  OBVIOUS
<1> HIDE DEF su, n, f
<1>6. Nested(D, su)
  <2>1. \A i \in 1 .. Len(su) : Proper(D, su[i])
    BY <1>1, <1>4, <1>5
  <2>2. \A i \in 1 .. Len(su) - 1 : Follows(su[i], su[i + 1])
    BY <1>1, <1>4, <1>5
  <2>3. su # <<>> => su[1].kind # "remaining"
    BY <1>1, <1>2, <1>4
  <2> QED
    BY <2>1, <2>2, <2>3 DEF Nested
<1>7. Proper(D, f)
  BY <1>1, <1>4
<1>8. su # <<>> => Follows(Last(su), f)
  BY <1>1, <1>2, <1>4
<1>9. su = <<>> => f.kind # "remaining"
  BY <1>1, <1>3, <1>4
<1> QED
  BY <1>6, <1>7, <1>8, <1>9 DEF su, f

\* What a call that is no instant does to the instants.
LEMMA InstantsPushed ==
  ASSUME NEW st \in Seq(Frame), NEW f \in Frame, NEW cq, Instants(st, cq),
         f.kind # "instant", f.kind = "remaining" => ~NoInstant(st)
  PROVE  /\ Instants(Append(st, f), cq)
         /\ NoInstant(Append(st, f)) <=> NoInstant(st)
<1> DEFINE su == Append(st, f)
           n == Len(st)
<1>1. /\ su \in Seq(Frame) /\ n \in Nat /\ Len(su) = n + 1
      /\ \A i \in 1 .. n : su[i] = st[i]
      /\ su[n + 1] = f
  BY Pushed, SeqIs
<1>2. /\ \A i, j \in 1 .. n : st[i].kind = "instant" /\ st[j].kind = "instant" => i = j
      /\ \A j \in 1 .. n : st[j].kind = "remaining" => \E i \in 1 .. n : i < j /\ st[i].kind = "instant"
      /\ NoInstant(st) => cq = -1
  BY DEF Instants
<1>3. NoInstant(st) <=> \A i \in 1 .. n : st[i].kind # "instant"
  BY DEF NoInstant
<1> HIDE DEF su, n
<1>4. \A i \in 1 .. Len(su) : i \in 1 .. n \/ i = n + 1
  BY <1>1
<1>5. \A i \in 1 .. n : i \in 1 .. Len(su) /\ i < n + 1
  BY <1>1
<1>6. NoInstant(su) <=> NoInstant(st)
  BY <1>1, <1>3, <1>4, <1>5 DEF NoInstant
<1>7. \A i, j \in 1 .. Len(su) : su[i].kind = "instant" /\ su[j].kind = "instant" => i = j
  BY <1>1, <1>2, <1>4
<1>8. ASSUME NEW j \in 1 .. Len(su), su[j].kind = "remaining"
      PROVE  \E i \in 1 .. Len(su) : i < j /\ su[i].kind = "instant"
  <2>1. CASE j \in 1 .. n
    <3>1. PICK i \in 1 .. n : i < j /\ st[i].kind = "instant"
      BY <1>1, <1>2, <1>8, <2>1
    <3> QED
      BY <1>1, <1>5, <3>1
  <2>2. CASE j = n + 1
    <3>1. PICK i \in 1 .. n : st[i].kind = "instant"
      BY <1>1, <1>3, <1>8, <2>2
    <3> QED
      BY <1>1, <1>5, <2>2, <3>1
  <2> QED
    BY <1>4, <2>1, <2>2
<1> QED
  BY <1>2, <1>6, <1>7, <1>8 DEF Instants, su

\* What an instant above the others does.
LEMMA InstantStarts ==
  ASSUME NEW st \in Seq(Frame), NEW q \in 0 .. 2, NEW cq, NEW cr, Instants(st, cq), NoInstant(st)
  PROVE  /\ Instants(Append(st, Instant(q)), cr)
         /\ ~NoInstant(Append(st, Instant(q)))
<1> DEFINE f == Instant(q)
           su == Append(st, f)
           n == Len(st)
<1>0. f \in Frame /\ f.kind = "instant"
  BY DEF Instant, Frame
<1>1. /\ su \in Seq(Frame) /\ n \in Nat /\ Len(su) = n + 1
      /\ \A i \in 1 .. n : su[i] = st[i]
      /\ su[n + 1] = f
  BY <1>0, Pushed, SeqIs
<1>2. \A i \in 1 .. n : st[i].kind # "instant"
  BY DEF NoInstant
<1>3. \A i \in 1 .. n : st[i].kind # "remaining"
  BY <1>2 DEF Instants
<1> HIDE DEF su, n, f
<1>4. \A i \in 1 .. Len(su) : i \in 1 .. n \/ i = n + 1
  BY <1>1
<1>5. n + 1 \in 1 .. Len(su)
  BY <1>1
<1>6. ~NoInstant(su)
  BY <1>0, <1>1, <1>5 DEF NoInstant
<1>7. \A i, j \in 1 .. Len(su) : su[i].kind = "instant" /\ su[j].kind = "instant" => i = j
  BY <1>1, <1>2, <1>4
<1>8. \A j \in 1 .. Len(su) : su[j].kind # "remaining"
  BY <1>0, <1>1, <1>3, <1>4
<1> QED
  BY <1>6, <1>7, <1>8 DEF Instants, su, f

\* What the end of the innermost call does to the instants.
LEMMA InstantsPopped ==
  ASSUME NEW st \in Seq(Frame), st # <<>>, NEW cq, Instants(st, cq)
  PROVE  /\ Last(st).kind # "instant" => /\ Instants(Front(st), cq)
                                         /\ NoInstant(Front(st)) <=> NoInstant(st)
         /\ Last(st).kind = "instant" => Instants(Front(st), -1) /\ NoInstant(Front(st))
         /\ Last(st).kind = "remaining" => ~NoInstant(Front(st))
<1> DEFINE su == Front(st)
           f == Last(st)
           n == Len(su)
<1>1. /\ su \in Seq(Frame) /\ n \in Nat /\ Len(st) = n + 1
      /\ \A i \in 1 .. n : su[i] = st[i]
      /\ st[n + 1] = f
  <2>1. /\ su \in Seq(Frame) /\ Len(st) \in Nat \ {0} /\ n = Len(st) - 1
        /\ \A i \in 1 .. Len(st) - 1 : su[i] = st[i]
        /\ f = st[Len(st)] /\ f \in Frame
    BY Popped
  <2> HIDE DEF su, f, n
  <2> QED
    BY <2>1
<1>2. /\ \A i, j \in 1 .. Len(st) : st[i].kind = "instant" /\ st[j].kind = "instant" => i = j
      /\ \A j \in 1 .. Len(st) :
           st[j].kind = "remaining" => \E i \in 1 .. Len(st) : i < j /\ st[i].kind = "instant"
      /\ NoInstant(st) => cq = -1
  BY DEF Instants
<1>3. n = Len(su)
  OBVIOUS
<1> HIDE DEF su, n, f
<1>4. \A i \in 1 .. Len(st) : i \in 1 .. n \/ i = n + 1
  BY <1>1
<1>5. \A i \in 1 .. n : i \in 1 .. Len(st) /\ i # n + 1
  BY <1>1
<1>6. n + 1 \in 1 .. Len(st)
  BY <1>1
<1>7. \A i, j \in 1 .. Len(su) : su[i].kind = "instant" /\ su[j].kind = "instant" => i = j
  BY <1>1, <1>2, <1>3, <1>5
<1>8. ASSUME NEW j \in 1 .. n, su[j].kind = "remaining"
      PROVE  \E i \in 1 .. n : i < j /\ su[i].kind = "instant"
  <2>1. PICK i \in 1 .. Len(st) : i < j /\ st[i].kind = "instant"
    BY <1>1, <1>2, <1>5, <1>8
  <2>2. i \in 1 .. n
    BY <1>1, <2>1
  <2> QED
    BY <1>1, <2>1, <2>2
<1>9. f.kind # "instant" => (NoInstant(su) <=> NoInstant(st))
  BY <1>1, <1>3, <1>4, <1>5 DEF NoInstant
<1>10. f.kind = "instant" => NoInstant(su)
  BY <1>1, <1>2, <1>3, <1>5, <1>6 DEF NoInstant
<1>11. ASSUME f.kind = "remaining" PROVE ~NoInstant(su)
  <2>1. PICK i \in 1 .. Len(st) : i < n + 1 /\ st[i].kind = "instant"
    BY <1>1, <1>2, <1>6, <1>11
  <2>2. i \in 1 .. n
    BY <1>1, <2>1
  <2> QED
    BY <1>1, <1>3, <2>1, <2>2 DEF NoInstant
<1> QED
  BY <1>2, <1>3, <1>7, <1>8, <1>9, <1>10, <1>11 DEF Instants, su, f

\* What a call above the others does to the sets they need.
LEMMA SetsPushed ==
  ASSUME NEW st \in Seq(Frame), NEW f \in Frame, NEW q0, SetsFit(st, q0),
         f.kind = "remaining" /\ f.q # 0 => q0 # <<>>,
         f.kind = "sync" => q0 # <<>>
  PROVE  SetsFit(Append(st, f), q0)
<1> DEFINE su == Append(st, f)
           n == Len(st)
<1>1. /\ su \in Seq(Frame) /\ n \in Nat /\ Len(su) = n + 1
      /\ \A i \in 1 .. n : su[i] = st[i]
      /\ su[n + 1] = f
  BY Pushed, SeqIs
<1>2. \A i \in 1 .. n : st[i].kind = "remaining" /\ st[i].q # 0 => Fed(st, i, q0)
  BY DEF SetsFit
<1>3. n = Len(st)
  OBVIOUS
<1> HIDE DEF su, n
<1>4. \A i \in 1 .. n : i \in 1 .. Len(su)
  BY <1>1
<1>5. ASSUME NEW i \in 1 .. Len(su), su[i].kind = "remaining", su[i].q # 0 PROVE Fed(su, i, q0)
  <2>1. CASE i = n + 1
    BY <1>1, <1>5, <2>1 DEF Fed
  <2>2. CASE i \in 1 .. n
    <3>1. Fed(st, i, q0)
      BY <1>1, <1>2, <1>5, <2>2
    <3>2. CASE q0 # <<>>
      BY <3>2 DEF Fed
    <3>3. CASE q0 = <<>>
      <4>1. PICK j \in 1 .. n : j > i /\ st[j].kind = "error"
        BY <1>3, <3>1, <3>3 DEF Fed
      <4> QED
        BY <1>1, <1>4, <4>1 DEF Fed
    <3> QED
      BY <3>2, <3>3
  <2> QED
    BY <1>1, <2>1, <2>2
<1>6. su[Len(su)].kind = "sync" => q0 # <<>>
  BY <1>1
<1> QED
  BY <1>5, <1>6 DEF SetsFit, su

\* Sets that are queued are enough for any calls.
LEMMA SetsFed ==
  ASSUME NEW st, NEW q0, q0 # <<>>
  PROVE  SetsFit(st, q0)
BY DEF SetsFit, Fed

\* What the end of a call other than an Error does.
LEMMA SetsPopped ==
  ASSUME NEW D, NEW st \in Seq(Frame), st # <<>>, NEW q0, NEW cq, SetsFit(st, q0), Nested(D, st),
         Instants(st, cq), Last(st).kind # "error"
  PROVE  SetsFit(Front(st), q0)
<1> DEFINE su == Front(st)
           f == Last(st)
           n == Len(su)
<1>1. /\ su \in Seq(Frame) /\ n \in Nat /\ Len(st) = n + 1
      /\ \A i \in 1 .. n : su[i] = st[i]
      /\ st[n + 1] = f
  <2>1. /\ su \in Seq(Frame) /\ Len(st) \in Nat \ {0} /\ n = Len(st) - 1
        /\ \A i \in 1 .. Len(st) - 1 : su[i] = st[i]
        /\ f = st[Len(st)] /\ f \in Frame
    BY Popped
  <2> HIDE DEF su, f, n
  <2> QED
    BY <2>1
<1>2. /\ su # <<>> => Follows(Last(su), f)
      /\ f.kind = "instant" => NoInstant(su)
  BY NestedPopped, InstantsPopped
<1>3. su # <<>> => n # 0 /\ Last(su) = su[n]
  BY <1>1, SeqIs DEF Last
<1>4. /\ n = Len(su) /\ f.kind # "error"
      /\ \A i \in 1 .. Len(st) : st[i].kind = "remaining" /\ st[i].q # 0 => Fed(st, i, q0)
  BY DEF SetsFit
<1> HIDE DEF su, n, f
<1>5. ASSUME NEW i \in 1 .. n, su[i].kind = "remaining", su[i].q # 0 PROVE Fed(su, i, q0)
  <2>1. Fed(st, i, q0)
    BY <1>1, <1>4, <1>5
  <2>2. CASE q0 # <<>>
    BY <2>2 DEF Fed
  <2>3. CASE q0 = <<>>
    <3>1. PICK j \in 1 .. Len(st) : j > i /\ st[j].kind = "error"
      BY <2>1, <2>3 DEF Fed
    <3>2. j \in 1 .. n
      BY <1>1, <1>4, <3>1
    <3> QED
      BY <1>1, <1>4, <3>1, <3>2 DEF Fed
  <2> QED
    BY <2>2, <2>3
<1>6. su # <<>> => (su[n].kind = "sync" /\ ~NoInstant(su) => q0 # <<>>)
  BY <1>2, <1>3 DEF Follows
<1> QED
  BY <1>4, <1>5, <1>6 DEF SetsFit, su

\* While sets are drained no call needs one.
LEMMA SetsDrained ==
  ASSUME NEW D, NEW st \in Seq(Frame), st # <<>>, NEW q0, NEW cq, Nested(D, st), Instants(st, cq),
         IsLoop(Last(st)), Last(st).q = 0
  PROVE  SetsFit(st, q0)
<1> DEFINE n == Len(st)
<1>1. n \in Nat \ {0} /\ Last(st) = st[n]
  BY Popped
<1>2. /\ \A i \in 1 .. n - 1 : Follows(st[i], st[i + 1])
      /\ \A i, j \in 1 .. n : st[i].kind = "instant" /\ st[j].kind = "instant" => i = j
      /\ \A j \in 1 .. n : st[j].kind = "remaining" => \E i \in 1 .. n : i < j /\ st[i].kind = "instant"
  BY DEF Nested, Instants
<1> HIDE DEF n
<1>3. n \in 1 .. n
  BY <1>1
<1>4. ASSUME NEW i \in 1 .. n, st[i].kind = "remaining", st[i].q # 0
      PROVE  \E j \in 1 .. n : j > i /\ st[j].kind = "error"
  <2>1. i # n
    BY <1>1, <1>4
  <2>2. PICK k \in 1 .. n : k < i /\ st[k].kind = "instant"
    BY <1>2, <1>4
  <2>3. st[n].kind # "instant"
    BY <1>1, <1>2, <1>3, <2>1, <2>2
  <2>4. st[n].kind = "remaining"
    BY <1>1, <2>3 DEF IsLoop
  <2>5. i < n
    BY <1>1, <2>1
  <2>6. n - 1 \in 1 .. n - 1 /\ n - 1 \in 1 .. n /\ n - 1 + 1 = n /\ i <= n - 1
    BY <1>1, <2>5
  <2>7. Follows(st[n - 1], st[n])
    BY <1>2, <2>6
  <2>8. st[n - 1].kind = "error"
    BY <2>4, <2>7 DEF Follows
  <2>9. n - 1 > i
    BY <1>4, <2>6, <2>8
  <2> QED
    BY <2>6, <2>8, <2>9
<1>5. st[n].kind # "sync"
  BY <1>1 DEF IsLoop
<1> QED
  BY <1>4, <1>5 DEF SetsFit, Fed, n

-----------------------------------------------------------------------------
(***************************************************************************)
(* What the operations on the calls do to the invariant.                   *)
(***************************************************************************)
\* A call that is no instant starts above the others.
LEMMA PushKeeps ==
  ASSUME NEW L, NEW D, NEW st, NEW cq, NEW q0, NEW f \in Frame, CallsInv(L, D, st, cq, q0),
         f.kind # "instant", Proper(D, f), IsLock(f) => f.slot \notin L,
         st # <<>> => Follows(Last(st), f),
         f.kind = "remaining" => ~NoInstant(st) /\ (f.q # 0 => q0 # <<>>),
         f.kind = "sync" => q0 # <<>>
  PROVE  CallsInv(L \cup LockOf(f), D, Append(st, f), cq, q0)
<1>1. /\ st \in Seq(Frame) /\ cq \in -1 .. 2
      /\ LocksFit(L, st) /\ Nested(D, st) /\ Instants(st, cq) /\ SetsFit(st, q0)
  BY DEF CallsInv
<1>2. st = <<>> => f.kind # "remaining"
  <2>1. st = <<>> => NoInstant(st)
    BY <1>1, EmptySeq DEF NoInstant
  <2> QED
    BY <2>1
<1>3. Append(st, f) \in Seq(Frame)
  BY <1>1, Pushed
<1>4. LocksFit(L \cup LockOf(f), Append(st, f))
  BY <1>1, LocksPushed
<1>5. Nested(D, Append(st, f))
  BY <1>1, <1>2, NestedPushed
<1>6. Instants(Append(st, f), cq)
  BY <1>1, InstantsPushed
<1>7. SetsFit(Append(st, f), q0)
  BY <1>1, SetsPushed
<1> QED
  BY <1>1, <1>3, <1>4, <1>5, <1>6, <1>7 DEF CallsInv

\* An instant starts above the others, or goes on to its next queue.
LEMMA InstantKeeps ==
  ASSUME NEW L, NEW D, NEW st, NEW cq, NEW q0, NEW q \in 0 .. 2, CallsInv(L, D, st, cq, q0),
         NoInstant(st)
  PROVE  CallsInv(L, D, Append(st, Instant(q)), q, q0)
<1> DEFINE f == Instant(q)
<1>1. /\ st \in Seq(Frame) /\ q \in -1 .. 2
      /\ LocksFit(L, st) /\ Nested(D, st) /\ Instants(st, cq) /\ SetsFit(st, q0)
  BY DEF CallsInv
<1>2. f \in Frame /\ f.kind = "instant"
  BY DEF Instant, Frame
<1>3. ~IsLock(f) /\ ~IsEvaluation(f) /\ LockOf(f) = {}
  BY <1>2 DEF IsLock, IsEvaluation, LockOf
<1>4. Instants(Append(st, f), q)
  BY <1>1, InstantStarts
<1> HIDE DEF f
<1>5. L \cup LockOf(f) = L
  BY <1>3
<1>6. Proper(D, f) /\ \A g : Follows(g, f)
  BY <1>2, <1>3 DEF Proper, Follows
<1>7. Append(st, f) \in Seq(Frame)
  BY <1>1, <1>2, Pushed
<1>8. LocksFit(L, Append(st, f))
  <2>1. LocksFit(L \cup LockOf(f), Append(st, f))
    BY <1>1, <1>2, <1>3, LocksPushed
  <2> QED
    BY <1>5, <2>1
<1>9. Nested(D, Append(st, f))
  BY <1>1, <1>2, <1>6, NestedPushed
<1>10. SetsFit(Append(st, f), q0)
  BY <1>1, <1>2, SetsPushed
<1> QED
  BY <1>1, <1>4, <1>7, <1>8, <1>9, <1>10 DEF CallsInv, f

\* The innermost call ends; an Error only with a set queued.
LEMMA PopKeeps ==
  ASSUME NEW L, NEW D, NEW st, NEW cq, NEW q0, CallsInv(L, D, st, cq, q0), st # <<>>,
         Last(st).kind = "error" => q0 # <<>>
  PROVE  /\ Last(st).kind # "instant" => CallsInv(L \ LockOf(Last(st)), D, Front(st), cq, q0)
         /\ Last(st).kind = "instant" => CallsInv(L, D, Front(st), -1, q0) /\ NoInstant(Front(st))
         /\ Last(st) \in Frame /\ Proper(D, Last(st))
         /\ Front(st) # <<>> => Follows(Last(Front(st)), Last(st))
         /\ Last(st).kind # "instant" => (NoInstant(Front(st)) <=> NoInstant(st))
         /\ Last(st).kind = "remaining" => ~NoInstant(Front(st))
         /\ IsLock(Last(st)) => Last(st).slot \in L
<1> DEFINE f == Last(st)
<1>1. /\ st \in Seq(Frame) /\ cq \in -1 .. 2 /\ -1 \in -1 .. 2
      /\ LocksFit(L, st) /\ Nested(D, st) /\ Instants(st, cq) /\ SetsFit(st, q0)
  BY DEF CallsInv
<1>2. Front(st) \in Seq(Frame) /\ f \in Frame /\ f = st[Len(st)] /\ Len(st) \in 1 .. Len(st)
  BY <1>1, Popped
<1>3. LocksFit(L \ LockOf(f), Front(st))
  BY <1>1, LocksPopped
<1>4. /\ Nested(D, Front(st)) /\ Proper(D, f)
      /\ Front(st) # <<>> => Follows(Last(Front(st)), f)
  BY <1>1, NestedPopped
<1>5. /\ f.kind # "instant" => Instants(Front(st), cq) /\ (NoInstant(Front(st)) <=> NoInstant(st))
      /\ f.kind = "instant" => Instants(Front(st), -1) /\ NoInstant(Front(st))
      /\ f.kind = "remaining" => ~NoInstant(Front(st))
  BY <1>1, InstantsPopped
<1>6. SetsFit(Front(st), q0)
  <2>1. CASE q0 # <<>>
    BY <2>1, SetsFed
  <2>2. CASE q0 = <<>>
    BY <1>1, <2>2, SetsPopped
  <2> QED
    BY <2>1, <2>2
<1>7. IsLock(f) => f.slot \in L
  <2>1. IsLock(f) => f.slot \in Slot /\ Holds(st, Len(st), f.slot)
    BY <1>2, Frames DEF Holds
  <2> QED
    BY <1>1, <1>2, <2>1 DEF LocksFit
<1>8. f.kind = "instant" => L \ LockOf(f) = L
  BY DEF LockOf, IsLock, IsEvaluation
<1> HIDE DEF f
<1>9. f.kind # "instant" => CallsInv(L \ LockOf(f), D, Front(st), cq, q0)
  BY <1>1, <1>2, <1>3, <1>4, <1>5, <1>6 DEF CallsInv
<1>10. f.kind = "instant" => CallsInv(L, D, Front(st), -1, q0)
  BY <1>1, <1>2, <1>3, <1>4, <1>5, <1>6, <1>8 DEF CallsInv
<1> QED
  BY <1>2, <1>4, <1>5, <1>7, <1>9, <1>10 DEF f

\* The innermost call goes on, as a notification or an evaluation of the same attribute.
LEMMA GoOnKeeps ==
  ASSUME NEW L, NEW D, NEW st, NEW cq, NEW q0, NEW f \in Frame, CallsInv(L, D, st, cq, q0), st # <<>>,
         f.kind = Last(st).kind, f.kind \in {"notify", "is", "wild", "future"},
         f.slot = Last(st).slot, f.kind = "notify" => f.own = Last(st).own, Proper(D, f)
  PROVE  CallsInv(L, D, Append(Front(st), f), cq, q0)
<1> DEFINE g == Last(st)
<1>1. g.kind \notin {"error", "instant"}
  OBVIOUS
<1>2. /\ CallsInv(L \ LockOf(g), D, Front(st), cq, q0)
      /\ Front(st) # <<>> => Follows(Last(Front(st)), g)
      /\ IsLock(g) => g.slot \in L
  BY <1>1, PopKeeps
<1>3. /\ IsLock(g) <=> IsLock(f)
      /\ IsLock(f) => g.slot = f.slot
      /\ LockOf(g) = LockOf(f)
  BY DEF IsLock, IsEvaluation, LockOf
<1>4. \A h : Follows(h, g) => Follows(h, f)
  BY DEF Follows
<1>5. f.kind \notin {"instant", "remaining", "sync"}
  OBVIOUS
<1> HIDE DEF g
<1>6. IsLock(f) => f.slot \notin L \ LockOf(g)
  BY <1>3 DEF LockOf
<1>7. CallsInv((L \ LockOf(g)) \cup LockOf(f), D, Append(Front(st), f), cq, q0)
  BY <1>2, <1>4, <1>5, <1>6, PushKeeps
<1>8. (L \ LockOf(g)) \cup LockOf(f) = L
  BY <1>2, <1>3 DEF LockOf
<1> QED
  BY <1>7, <1>8

\* A GET is answered.
LEMMA AnswerKeeps ==
  ASSUME NEW L, NEW D, NEW st, NEW cq, NEW q0, NEW v \in Value, CallsInv(L, D, st, cq, q0),
         st # <<>> /\ IsEvaluation(Last(st)) => ~AtEnd(Last(st))
  PROVE  /\ CallsInv(L, D, Answered(st, v), cq, q0)
         /\ NoInstant(Answered(st, v)) <=> NoInstant(st)
<1>1. st \in Seq(Frame)
  BY DEF CallsInv
<1>2. CASE ~(st # <<>> /\ IsEvaluation(Last(st)))
  BY <1>2 DEF Answered
<1>3. CASE st # <<>> /\ IsEvaluation(Last(st))
  <2> DEFINE g == Last(st)
             f == [g EXCEPT !.at = "dep", !.ans = v]
             n == Len(st)
  <2>1. /\ Front(st) \in Seq(Frame) /\ n \in Nat \ {0} /\ Len(Front(st)) = n - 1
        /\ \A i \in 1 .. n - 1 : Front(st)[i] = st[i]
        /\ g = st[n] /\ g \in Frame
    BY <1>1, <1>3, Popped
  <2>2. f \in Frame
    BY <1>3, <2>1, FramesChange
  <2>3. /\ f.kind = g.kind /\ f.slot = g.slot /\ f.def = g.def /\ f.pos = g.pos
        /\ f.kind \in {"is", "wild", "future"}
    BY <1>3, <2>1 DEF Frame, IsEvaluation, Sync
  <2>4. Answered(st, v) = [st EXCEPT ![n] = f]
    BY <1>3, <2>1 DEF Answered
  <2>5. Proper(D, g)
    BY <1>3, PopKeeps, <2>3
  <2> HIDE DEF f, g, n
  <2>6. Proper(D, f)
    BY <1>3, <2>3, <2>5 DEF Proper, AtEnd, IsEvaluation, g
  <2>7. CallsInv(L, D, Append(Front(st), f), cq, q0)
    BY <1>3, <2>2, <2>3, <2>6, GoOnKeeps DEF g
  <2>8. n \in 1 .. Len(st) /\ Len(st) = n
    BY <2>1 DEF n
  <2>9. [st EXCEPT ![n] = f] = Append(Front(st), f)
    BY <1>1, <1>3, <2>2, Replaced DEF n
  <2>10. NoInstant([st EXCEPT ![n] = f]) <=> NoInstant(st)
    <3>1. /\ Len([st EXCEPT ![n] = f]) = Len(st)
          /\ \A i \in 1 .. Len(st) : [st EXCEPT ![n] = f][i] = IF i = n THEN f ELSE st[i]
      BY <1>1, <2>2, <2>8, ExceptSeq
    <3>2. st[n].kind # "instant" /\ f.kind # "instant"
      BY <2>1, <2>3
    <3> QED
      BY <2>8, <3>1, <3>2 DEF NoInstant
  <2> QED
    BY <2>4, <2>7, <2>9, <2>10
<1> QED
  BY <1>2, <1>3

\* Sets are queued, taken by the call that drains them, and definitions added.
LEMMA QueueKeeps ==
  ASSUME NEW L, NEW D, NEW E, NEW st, NEW cq, NEW q0, NEW q1, CallsInv(L, D, st, cq, q0), D \subseteq E,
         \/ q1 = q0 \/ q1 # <<>>
         \/ st # <<>> /\ IsLoop(Last(st)) /\ Last(st).q = 0
  PROVE  CallsInv(L, E, st, cq, q1)
<1>1. /\ st \in Seq(Frame) /\ cq \in -1 .. 2
      /\ LocksFit(L, st) /\ Nested(D, st) /\ Instants(st, cq) /\ SetsFit(st, q0)
  BY DEF CallsInv
<1>2. Nested(E, st)
  BY <1>1 DEF Nested, Proper
<1>3. SetsFit(st, q1)
  BY <1>1, SetsFed, SetsDrained
<1> QED
  BY <1>1, <1>2, <1>3 DEF CallsInv

-----------------------------------------------------------------------------
(***************************************************************************)
(* Attributes, events and the invariant of a step.                         *)
(***************************************************************************)
\* The slots that a slot leads to, and the object part of a value.
LEMMA Slots ==
  ASSUME NEW s \in Slot
  PROVE  /\ Wild(s) \in Slot /\ Source(s) \in Slot
         /\ \A v \in Value, k \in Keys : <<v, k>> \in Slot
BY KeyAssumption DEF Slot, Wild, Source

\* The parts of an attribute.
LEMMA Attributes ==
  ASSUME NEW a \in [Slot -> Attribute], NEW s \in Slot
  PROVE  /\ a[s] \in Attribute /\ a[s].exists \in BOOLEAN /\ a[s].val \in Value
         /\ a[s].def \in Paths \cup {Null} /\ a[s].isf \in BOOLEAN /\ a[s].ood \in BOOLEAN
         /\ a[s].evaluating \in BOOLEAN /\ a[s].deps \in Seq(Dependent)
         /\ s \in Locked(a) <=> a[s].evaluating
         /\ s \in WithDef(a) <=> a[s].def # Null
BY DEF Attribute, Locked, WithDef

\* The attributes with another one in place of s.
LEMMA AttributeSet ==
  ASSUME NEW a \in [Slot -> Attribute], DefsInv(a), NEW s \in Slot, NEW r \in Attribute,
         r.isf => r.def # Null
  PROVE  /\ [a EXCEPT ![s] = r] \in [Slot -> Attribute]
         /\ [a EXCEPT ![s] = r][s] = r
         /\ DefsInv([a EXCEPT ![s] = r])
         /\ Locked([a EXCEPT ![s] = r])
              = IF r.evaluating THEN Locked(a) \cup {s} ELSE Locked(a) \ {s}
         /\ r.def # Null \/ a[s].def = Null => WithDef(a) \subseteq WithDef([a EXCEPT ![s] = r])
         /\ r.def # Null => s \in WithDef([a EXCEPT ![s] = r])
<1> DEFINE b == [a EXCEPT ![s] = r]
<1>1. b \in [Slot -> Attribute] /\ b[s] = r /\ \A t \in Slot : t # s => b[t] = a[t]
  OBVIOUS
<1> HIDE DEF b
<1>2. DefsInv(b)
  BY <1>1 DEF DefsInv
<1>3. \A t \in Slot : t \in Locked(b) <=> IF t = s THEN r.evaluating ELSE t \in Locked(a)
  BY <1>1 DEF Locked
<1>4. Locked(b) \subseteq Slot /\ Locked(a) \subseteq Slot
  BY DEF Locked
<1>5. Locked(b) = IF r.evaluating THEN Locked(a) \cup {s} ELSE Locked(a) \ {s}
  <2>1. CASE r.evaluating
    BY <1>3, <1>4, <2>1
  <2>2. CASE ~r.evaluating
    BY <1>3, <1>4, <2>2
  <2> QED
    BY <2>1, <2>2
<1>6. r.def # Null \/ a[s].def = Null => WithDef(a) \subseteq WithDef(b)
  BY <1>1 DEF WithDef
<1>7. r.def # Null => s \in WithDef(b)
  BY <1>1 DEF WithDef
<1> QED
  BY <1>1, <1>2, <1>5, <1>6, <1>7 DEF b

\* The parts of the invariant, as the steps need them.
LEMMA Parts ==
  ASSUME IInv
  PROVE  /\ attr \in [Slot -> Attribute] /\ DefsInv(attr)
         /\ \A k \in 0 .. 2 : queue[k] \in Seq(Event(k))
         /\ stack \in Seq(Frame) /\ curq \in -1 .. 2
         /\ program \in Programs /\ ops \in 0 .. program.maxOps
         /\ CallsInv(Locked(attr), WithDef(attr), stack, curq, queue[0])
         /\ Idle <=> NoInstant(stack)
<1>1. stack \in Seq(Frame)
  BY DEF IInv, TypeOK
<1>2. DOMAIN stack = 1 .. Len(stack)
  BY <1>1, SeqIs
<1> QED
  BY <1>2 DEF IInv, TypeOK, Idle, NoInstant

\* The queues a step leaves are queues of events.
QueuesFit(q) == /\ \A k \in 0 .. 2 : q[k] \in Seq(Event(k))
                /\ q = [k \in 0 .. 2 |-> q[k]]

\* A step keeps the invariant if it keeps its parts.
LEMMA Assembled ==
  ASSUME IInv, attr' \in [Slot -> Attribute], DefsInv(attr'), QueuesFit(queue'),
         UNCHANGED program, ops' \in 0 .. program.maxOps,
         CallsInv(Locked(attr'), WithDef(attr'), stack', curq', queue'[0])
  PROVE  IInv'
<1>1. stack' \in Seq(Frame) /\ curq' \in -1 .. 2
  BY DEF CallsInv
<1>2. TypeOK'
  BY <1>1 DEF IInv, TypeOK, QueuesFit
<1>3. (queue = [k \in 0 .. 2 |-> queue[k]])'
  BY DEF QueuesFit
<1>4. DefsInv(attr)'
  BY DEF DefsInv
<1> QED
  BY <1>2, <1>3, <1>4 DEF IInv, Locked, WithDef

\* What queueing an event does.
LEMMA Queueing ==
  ASSUME IInv, NEW k \in 0 .. 2, NEW e \in Event(k), queue' = [queue EXCEPT ![k] = Append(@, e)]
  PROVE  /\ QueuesFit(queue')
         /\ k = 0 => queue'[0] # <<>>
         /\ k # 0 => queue'[0] = queue[0]
<1>1. /\ \A j \in 0 .. 2 : queue[j] \in Seq(Event(j))
      /\ queue = [j \in 0 .. 2 |-> queue[j]]
  BY DEF IInv, TypeOK
<1>2. Append(queue[k], e) \in Seq(Event(k)) /\ Append(queue[k], e) # <<>>
  <2>1. \A S : \A s \in Seq(S), x \in S : Append(s, x) \in Seq(S) /\ Append(s, x) # <<>>
    BY Pushed
  <2> QED
    BY <1>1, <2>1
<1>3. /\ queue' = [j \in 0 .. 2 |-> queue'[j]] /\ queue'[k] = Append(queue[k], e)
      /\ \A j \in 0 .. 2 : j # k => queue'[j] = queue[j]
  BY <1>1
<1> QED
  BY <1>1, <1>2, <1>3 DEF QueuesFit

\* What taking an event from its queue does.
LEMMA Dequeueing ==
  ASSUME IInv, NEW k \in 0 .. 2, queue[k] # <<>>
  PROVE  /\ QueuesFit(Taken(k)) /\ NextEvent(k) \in Event(k)
         /\ k # 0 => Taken(k)[0] = queue[0]
         /\ \A j \in 0 .. 2 : \A e \in Event(j) :
              QueuesFit([Taken(k) EXCEPT ![j] = Append(@, e)])
<1>1. /\ \A j \in 0 .. 2 : queue[j] \in Seq(Event(j))
      /\ queue = [j \in 0 .. 2 |-> queue[j]]
  BY DEF IInv, TypeOK
<1>2. Tail(queue[k]) \in Seq(Event(k)) /\ Head(queue[k]) \in Event(k)
  BY <1>1, Shortened
<1>3. /\ Taken(k) = [j \in 0 .. 2 |-> Taken(k)[j]] /\ Taken(k)[k] = Tail(queue[k])
      /\ \A j \in 0 .. 2 : j # k => Taken(k)[j] = queue[j]
  BY <1>1 DEF Taken
<1>4. QueuesFit(Taken(k))
  BY <1>1, <1>2, <1>3 DEF QueuesFit
<1>5. ASSUME NEW j \in 0 .. 2, NEW e \in Event(j)
      PROVE  QueuesFit([Taken(k) EXCEPT ![j] = Append(@, e)])
  <2> DEFINE t == Taken(k)
             u == [t EXCEPT ![j] = Append(@, e)]
  <2>1. /\ \A i \in 0 .. 2 : t[i] \in Seq(Event(i))
        /\ t = [i \in 0 .. 2 |-> t[i]]
    BY <1>4 DEF QueuesFit
  <2> HIDE DEF t
  <2>2. Append(t[j], e) \in Seq(Event(j))
    BY <1>5, <2>1, Pushed
  <2>3. /\ u = [i \in 0 .. 2 |-> u[i]] /\ u[j] = Append(t[j], e)
        /\ \A i \in 0 .. 2 : i # j => u[i] = t[i]
    BY <2>1
  <2> HIDE DEF u
  <2>4. QueuesFit(u)
    BY <2>1, <2>2, <2>3 DEF QueuesFit
  <2> QED
    BY <2>4 DEF u, t
<1> QED
  BY <1>2, <1>3, <1>4, <1>5 DEF NextEvent

\* The events that are sent are of their queues.
LEMMA Events ==
  ASSUME NEW s \in Slot, NEW t \in Slot, NEW v \in Value, NEW d \in Paths, NEW is \in BOOLEAN
  PROVE  /\ SetEvent("SET_BYDEF", s, v) \in Event(0) /\ DefineEvent(s, d, v) \in Event(0)
         /\ DefineFuncEvent(s, d) \in Event(0) /\ OtherSet \in Event(0)
         /\ NotifyEvent(s) \in Event(1) /\ DepEvent(is, s, t) \in Event(2)
<1>1. /\ SetEvent("SET_BYDEF", s, v) \in Event(0) /\ DefineEvent(s, d, v) \in Event(0)
      /\ DefineFuncEvent(s, d) \in Event(0) /\ OtherSet \in Event(0)
  BY DEF Event, SetEvent, DefineEvent, DefineFuncEvent
<1>2. NotifyEvent(s) \in Event(1)
  BY DEF Event, NotifyEvent
<1>3. DepEvent(is, s, t) \in Event(2)
  BY DEF Event, DepEvent
<1> QED
  BY <1>1, <1>2, <1>3

\* What the events are, by their types.
LEMMA EventsAre ==
  /\ \A e \in Event(0) :
       /\ e.type \in {"SET", "SET_BYDEF"} => e.slot \in Slot /\ e.v \in Value
       /\ e.type = "DEFINE" => e.slot \in Slot /\ e.def \in Paths /\ e.init \in Value
       /\ e.type = "DEFINE_FUNC" => e.slot \in Slot /\ e.def \in Paths
  /\ \A e \in Event(1) : e.slot \in Slot
  /\ \A e \in Event(2) : e.slot \in Slot /\ e.by \in Slot
<1>1. \A e \in Event(0) :
       /\ e.type \in {"SET", "SET_BYDEF"} => e.slot \in Slot /\ e.v \in Value
       /\ e.type = "DEFINE" => e.slot \in Slot /\ e.def \in Paths /\ e.init \in Value
       /\ e.type = "DEFINE_FUNC" => e.slot \in Slot /\ e.def \in Paths
  BY DEF Event, OtherSet
<1>2. \A e \in Event(1) : e.slot \in Slot
  BY DEF Event
<1>3. \A e \in Event(2) : e.slot \in Slot /\ e.by \in Slot
  BY DEF Event
<1> QED
  BY <1>1, <1>2, <1>3

\* processInstant, with calls that fit and hold an instant if there was one.
LEMMA InstantMayStart ==
  ASSUME IInv, NEW L, NEW D, NEW c, NEW q0, CallsInv(L, D, c, curq, q0), NoInstant(c) <=> Idle,
         ProcessInstant(c)
  PROVE  CallsInv(L, D, stack', curq', q0)
<1>1. CASE Idle
  <2>1. CallsInv(L, D, Append(c, Instant(0)), 0, q0)
    BY <1>1, InstantKeeps
  <2> QED
    BY <1>1, <2>1 DEF ProcessInstant
<1>2. CASE ~Idle
  BY <1>2 DEF ProcessInstant
<1> QED
  BY <1>1, <1>2

\* The calls that start.
LEMMA Makes ==
  ASSUME NEW s \in Slot, NEW ctx \in Slot, NEW d \in Paths, NEW is \in BOOLEAN, NEW own \in BOOLEAN
  PROVE  /\ Notifying(s, own) \in Frame /\ Notifying(s, own).kind = "notify"
         /\ Notifying(s, own).slot = s /\ Notifying(s, own).own = own
         /\ \A kind \in {"is", "wild", "future"} :
              /\ Evaluation(kind, s, ctx, d, is) \in Frame
              /\ Evaluation(kind, s, ctx, d, is).kind = kind
              /\ Evaluation(kind, s, ctx, d, is).slot = s
              /\ Evaluation(kind, s, ctx, d, is).at = "get"
         /\ \A n \in 0 .. 4 : Failing(n) \in Frame /\ Failing(n).kind = "error"
         /\ Sync \in Frame /\ Sync.kind = "sync"
         /\ \A q \in 0 .. 2 : Remaining(q) \in Frame /\ Remaining(q).kind = "remaining" /\ Remaining(q).q = q
<1>1. /\ Notifying(s, own) \in Frame /\ Notifying(s, own).kind = "notify"
      /\ Notifying(s, own).slot = s /\ Notifying(s, own).own = own
  BY DEF Notifying, Frame
<1>2. d.base \in Value /\ Null \in Value
  BY PathsAssumption DEF Value
<1>3. ASSUME NEW kind \in {"is", "wild", "future"}
      PROVE  /\ Evaluation(kind, s, ctx, d, is) \in Frame
             /\ Evaluation(kind, s, ctx, d, is).kind = kind
             /\ Evaluation(kind, s, ctx, d, is).slot = s
             /\ Evaluation(kind, s, ctx, d, is).at = "get"
  BY <1>2 DEF Evaluation, Frame
<1>4. \A n \in 0 .. 4 : Failing(n) \in Frame /\ Failing(n).kind = "error"
  BY DEF Failing, Frame
<1>5. Sync \in Frame /\ Sync.kind = "sync"
  BY DEF Sync, Frame
<1>6. \A q \in 0 .. 2 : Remaining(q) \in Frame /\ Remaining(q).kind = "remaining" /\ Remaining(q).q = q
  BY DEF Remaining, Frame
<1> QED
  BY <1>1, <1>3, <1>4, <1>5, <1>6

\* Anything but an instant, a nested drain or a synchronous operation may be above
\* what is no synchronous operation, except the evaluation a GET needs.
Open(st) == st # <<>> => Last(st).kind # "sync"

\* A notification or an Error starts.
LEMMA PlainStarts ==
  ASSUME NEW L, NEW D, NEW st, NEW cq, NEW q0, NEW f \in Frame, CallsInv(L, D, st, cq, q0), Open(st),
         f.kind \in {"notify", "error"}, IsLock(f) => f.slot \notin L
  PROVE  /\ CallsInv(L \cup LockOf(f), D, Append(st, f), cq, q0)
         /\ Open(Append(st, f)) /\ st \o <<f>> = Append(st, f) /\ <<f>> \in Seq(Frame)
<1>1. st \in Seq(Frame)
  BY DEF CallsInv
<1>2. Proper(D, f)
  BY DEF Proper, IsEvaluation
<1>3. st # <<>> => Follows(Last(st), f)
  BY DEF Open, Follows
<1>4. f.kind \notin {"instant", "remaining", "sync"}
  OBVIOUS
<1>5. CallsInv(L \cup LockOf(f), D, Append(st, f), cq, q0)
  BY <1>2, <1>3, <1>4, PushKeeps
<1>6. Open(Append(st, f))
  BY <1>1, <1>4, Pushed DEF Open
<1>7. st \o <<f>> = Append(st, f)
  BY <1>1, Joins
<1> QED
  BY <1>5, <1>6, <1>7

\* The notification of the dependents of $ starts.
LEMMA WildStarts ==
  ASSUME NEW L, NEW D, NEW st, NEW cq, NEW q0, NEW s \in Slot, CallsInv(L, D, st, cq, q0), Open(st)
  PROVE  /\ CallsInv(L, D, st \o WildCall(s), cq, q0) /\ Open(st \o WildCall(s))
         /\ WildCall(s) \in Seq(Frame)
<1>1. st \in Seq(Frame)
  BY DEF CallsInv
<1>2. CASE s[2] = Key
  <2>1. WildCall(s) = <<>>
    BY <1>2 DEF WildCall
  <2> QED
    BY <1>1, <2>1, Joins
<1>3. CASE s[2] # Key
  <2> DEFINE f == Notifying(Wild(s), FALSE)
  <2>1. /\ f \in Frame /\ f.kind = "notify" /\ f.own = FALSE
    <3>1. Wild(s) \in Slot
      BY Slots
    <3> QED
      BY <3>1 DEF Notifying, Frame
  <2>2. WildCall(s) = <<f>>
    BY <1>3 DEF WildCall
  <2> HIDE DEF f
  <2>3. ~IsLock(f) /\ LockOf(f) = {}
    BY <2>1 DEF IsLock, IsEvaluation, LockOf
  <2>4. L \cup LockOf(f) = L
    BY <2>3
  <2>5. /\ CallsInv(L \cup LockOf(f), D, Append(st, f), cq, q0)
        /\ Open(Append(st, f)) /\ st \o <<f>> = Append(st, f) /\ <<f>> \in Seq(Frame)
    BY <2>1, <2>3, PlainStarts
  <2> QED
    BY <2>2, <2>4, <2>5
<1> QED
  BY <1>2, <1>3

\* The notification of an attribute's own dependents starts, unless it is locked.
LEMMA OwnStarts ==
  ASSUME NEW D, NEW st, NEW cq, NEW q0, NEW s \in Slot, attr \in [Slot -> Attribute],
         CallsInv(Locked(attr), D, st, cq, q0), Open(st)
  PROVE  /\ CallsInv(Locked(attr) \cup {s}, D, st \o OwnCall(s), cq, q0)
         /\ OwnCall(s) \in Seq(Frame)
<1>1. st \in Seq(Frame)
  BY DEF CallsInv
<1>2. CASE attr[s].evaluating
  <2>1. OwnCall(s) = <<>>
    BY <1>2 DEF OwnCall
  <2>2. Locked(attr) \cup {s} = Locked(attr)
    BY <1>2 DEF Locked
  <2>3. st \o <<>> = st /\ <<>> \in Seq(Frame)
    BY <1>1, Joins, EmptySeq
  <2> QED
    BY <2>1, <2>2, <2>3
<1>3. CASE ~attr[s].evaluating
  <2> DEFINE f == Notifying(s, TRUE)
  <2>1. f \in Frame /\ f.kind = "notify" /\ f.own = TRUE /\ f.slot = s
    BY DEF Notifying, Frame
  <2>2. OwnCall(s) = <<f>> /\ s \notin Locked(attr)
    BY <1>3 DEF OwnCall, Locked
  <2> HIDE DEF f
  <2>3. LockOf(f) = {s}
    BY <2>1 DEF IsLock, LockOf
  <2>4. /\ CallsInv(Locked(attr) \cup LockOf(f), D, Append(st, f), cq, q0)
        /\ st \o <<f>> = Append(st, f) /\ <<f>> \in Seq(Frame)
    BY <2>1, <2>2, PlainStarts
  <2> QED
    BY <2>2, <2>3, <2>4
<1> QED
  BY <1>2, <1>3

\* NOTIFY_IS starts what it starts.
LEMMA MarkStarts ==
  ASSUME NEW D, NEW st, NEW cq, NEW q0, NEW s \in Slot, NEW a \in [Slot -> Attribute],
         attr \in [Slot -> Attribute], CallsInv(Locked(attr), D, st, cq, q0), Open(st)
  PROVE  CallsInv(IF a[s].isf THEN Locked(attr) \cup {s} ELSE Locked(attr), D,
                  st \o MarkCalls(a, s), cq, q0)
<1>1. /\ st \in Seq(Frame) /\ WildCall(s) \in Seq(Frame) /\ OwnCall(s) \in Seq(Frame)
      /\ CallsInv(Locked(attr), D, st \o WildCall(s), cq, q0) /\ Open(st \o WildCall(s))
  BY WildStarts, OwnStarts DEF CallsInv
<1>2. CASE a[s].isf
  <2>1. CallsInv(Locked(attr) \cup {s}, D, (st \o WildCall(s)) \o OwnCall(s), cq, q0)
    BY <1>1, OwnStarts
  <2>2. MarkCalls(a, s) = WildCall(s) \o OwnCall(s)
    BY <1>2 DEF MarkCalls
  <2>3. (st \o WildCall(s)) \o OwnCall(s) = st \o (WildCall(s) \o OwnCall(s))
    BY <1>1, ConcatAssociative
  <2> QED
    BY <1>2, <2>1, <2>2, <2>3
<1>3. CASE ~a[s].isf
  <2>1. MarkCalls(a, s) = WildCall(s) \o <<>>
    BY <1>3 DEF MarkCalls
  <2>2. WildCall(s) \o <<>> = WildCall(s)
    BY <1>1, ConcatEmptySeq
  <2> QED
    BY <1>1, <1>3, <2>1, <2>2
<1> QED
  BY <1>2, <1>3

\* What a notification in progress is.
LEMMA Notification ==
  ASSUME IInv, stack # <<>>, Top.kind = "notify"
  PROVE  /\ Top \in Frame /\ Top.slot \in Slot /\ Top.own \in BOOLEAN /\ Top.i \in Nat \ {0}
         /\ attr[Top.slot] \in Attribute /\ attr[Top.slot].deps \in Seq(Dependent)
         /\ CallsInv(Locked(attr), WithDef(attr), NotifyNext, curq, queue[0]) /\ Open(NotifyNext)
         /\ Top.i <= Len(attr[Top.slot].deps) => NotifiedSlot \in Slot
<1>1. /\ stack \in Seq(Frame) /\ attr \in [Slot -> Attribute]
      /\ CallsInv(Locked(attr), WithDef(attr), stack, curq, queue[0])
  BY Parts
<1>2. Top \in Frame /\ Front(stack) \in Seq(Frame)
  BY <1>1, Popped DEF Top
<1>3. Top.slot \in Slot /\ Top.own \in BOOLEAN /\ Top.i \in Nat \ {0}
  BY <1>2, Frames
<1>4. attr[Top.slot] \in Attribute /\ attr[Top.slot].deps \in Seq(Dependent)
  BY <1>1, <1>3, Attributes
<1>5. Top.i <= Len(attr[Top.slot].deps) => NotifiedSlot \in Slot
  <2>1. ASSUME Top.i <= Len(attr[Top.slot].deps)
        PROVE  attr[Top.slot].deps[Top.i] \in Dependent
    <3>1. Top.i \in 1 .. Len(attr[Top.slot].deps)
      BY <1>3, <1>4, <2>1, SeqIs
    <3> QED
      BY <1>4, <3>1, SeqIs
  <2> QED
    BY <2>1 DEF NotifiedSlot, Dependent
<1> DEFINE f == [Top EXCEPT !.i = @ + 1]
<1>6. f \in Frame
  <2>1. Null \in Value
    BY DEF Value
  <2> QED
    BY <1>2, <2>1, FramesChange
<1>7. f.kind = Top.kind /\ f.slot = Top.slot /\ f.own = Top.own
  BY <1>2 DEF Frame, Sync
<1> HIDE DEF f
<1>8. Proper(WithDef(attr), f)
  BY <1>7 DEF Proper, IsEvaluation
<1>9. CallsInv(Locked(attr), WithDef(attr), Append(Front(stack), f), curq, queue[0])
  BY <1>1, <1>6, <1>7, <1>8, GoOnKeeps DEF Top
<1>10. Open(Append(Front(stack), f))
  BY <1>2, <1>6, <1>7, Pushed DEF Open
<1> QED
  BY <1>2, <1>3, <1>4, <1>5, <1>9, <1>10 DEF NotifyNext, f

-----------------------------------------------------------------------------
(***************************************************************************)
(* The steps keep the invariant.                                           *)
(***************************************************************************)
LEMMA NotifyDependentKeeps ==
  ASSUME IInv, NotifyDependent
  PROVE  IInv'
<1>1. /\ stack # <<>> /\ Top.kind = "notify" /\ Top.i <= Len(attr[Top.slot].deps)
      /\ queue' = [queue EXCEPT ![1] = Append(@, NotifyEvent(NotifiedSlot))]
      /\ stack' = NotifyNext
      /\ UNCHANGED <<attr, curq, program, ops>>
  BY DEF NotifyDependent, NotifyAt
<1>2. NotifyEvent(NotifiedSlot) \in Event(1)
  <2>1. NotifiedSlot \in Slot
    BY <1>1, Notification
  <2> QED
    BY <2>1 DEF NotifyEvent, Event
<1>3. QueuesFit(queue') /\ queue'[0] = queue[0]
  <2>1. PICK e \in Event(1) : e = NotifyEvent(NotifiedSlot)
    BY <1>2
  <2>2. queue' = [queue EXCEPT ![1] = Append(@, e)] /\ 1 \in 0 .. 2 /\ 1 # 0
    BY <1>1, <2>1
  <2> QED
    BY <2>2, Queueing
<1>4. CallsInv(Locked(attr), WithDef(attr), NotifyNext, curq, queue[0])
  BY <1>1, Notification
<1> QED
  BY <1>1, <1>3, <1>4, Parts, Assembled

LEMMA NotifyIsDependentKeeps ==
  ASSUME IInv, NotifyIsDependent
  PROVE  IInv'
<1> DEFINE s == NotifiedSlot
<1>1. /\ stack # <<>> /\ Top.kind = "notify" /\ Top.i <= Len(attr[Top.slot].deps)
      /\ attr' = Marked(attr, s)
      /\ stack' = NotifyNext \o MarkCalls(attr, s)
      /\ UNCHANGED <<queue, curq, program, ops>>
  BY DEF NotifyIsDependent, NotifyAt
<1>2. /\ s \in Slot /\ CallsInv(Locked(attr), WithDef(attr), NotifyNext, curq, queue[0])
      /\ Open(NotifyNext)
  BY <1>1, Notification
<1>3. attr \in [Slot -> Attribute] /\ DefsInv(attr) /\ QueuesFit(queue)
  BY Parts DEF QueuesFit, IInv
<1> HIDE DEF s
<1>4. CallsInv(IF attr[s].isf THEN Locked(attr) \cup {s} ELSE Locked(attr), WithDef(attr), stack', curq,
               queue[0])
  BY <1>1, <1>2, <1>3, MarkStarts
<1>5. CASE attr[s].isf
  <2> DEFINE r == [attr[s] EXCEPT !.ood = TRUE, !.evaluating = TRUE]
  <2>1. attr' = [attr EXCEPT ![s] = r]
    BY <1>1, <1>2, <1>3, <1>5 DEF Marked
  <2>2. r \in Attribute /\ r.evaluating /\ r.def = attr[s].def /\ r.isf = attr[s].isf
    BY <1>2, <1>3 DEF Attribute
  <2>3. r.def # Null
    BY <1>2, <1>3, <1>5, <2>2 DEF DefsInv
  <2> HIDE DEF r
  <2>4. /\ attr' \in [Slot -> Attribute] /\ DefsInv(attr') /\ Locked(attr') = Locked(attr) \cup {s}
        /\ WithDef(attr) \subseteq WithDef(attr')
    BY <1>2, <1>3, <2>1, <2>2, <2>3, AttributeSet
  <2>5. CallsInv(Locked(attr'), WithDef(attr'), stack', curq, queue[0])
    BY <1>4, <1>5, <2>4, QueueKeeps
  <2> QED
    BY <1>1, <1>3, <2>4, <2>5, Parts, Assembled
<1>6. CASE ~attr[s].isf
  <2>1. attr' = attr
    BY <1>1, <1>6 DEF Marked
  <2> QED
    BY <1>1, <1>3, <1>4, <1>6, <2>1, Parts, Assembled
<1> QED
  BY <1>5, <1>6

LEMMA NotifyDoneKeeps ==
  ASSUME IInv, NotifyDone
  PROVE  IInv'
<1> DEFINE s == Top.slot
           r == [attr[s] EXCEPT !.deps = <<>>, !.evaluating = @ /\ ~Top.own]
<1>1. /\ stack # <<>> /\ Top.kind = "notify"
      /\ attr' = [attr EXCEPT ![s].deps = <<>>, ![s].evaluating = @ /\ ~Top.own]
      /\ stack' = Front(stack)
      /\ UNCHANGED <<queue, curq, program, ops>>
  BY DEF NotifyDone
<1>2. /\ s \in Slot /\ Top.own \in BOOLEAN /\ attr[s] \in Attribute
  BY <1>1, Notification
<1>3. attr \in [Slot -> Attribute] /\ DefsInv(attr) /\ QueuesFit(queue)
  BY Parts DEF QueuesFit, IInv
<1>4. attr' = [attr EXCEPT ![s] = r]
  BY <1>1, <1>2, <1>3
<1>5. /\ r \in Attribute /\ r.def = attr[s].def /\ r.isf = attr[s].isf
      /\ r.evaluating <=> attr[s].evaluating /\ ~Top.own
  <2>1. PICK b \in BOOLEAN : b = (attr[s].evaluating /\ ~Top.own)
    OBVIOUS
  <2>2. <<>> \in Seq(Dependent)
    BY EmptySeq
  <2>3. r = [attr[s] EXCEPT !.deps = <<>>, !.evaluating = b]
    BY <1>2, <2>1 DEF Attribute
  <2>4. r \in Attribute /\ r.def = attr[s].def /\ r.isf = attr[s].isf /\ r.evaluating = b
    BY <1>2, <2>2, <2>3 DEF Attribute
  <2> QED
    BY <2>1, <2>4
<1>6. CallsInv(Locked(attr) \ LockOf(Top), WithDef(attr), Front(stack), curq, queue[0])
  BY <1>1, Parts, PopKeeps DEF Top
<1>7. LockOf(Top) = IF Top.own THEN {s} ELSE {}
  BY <1>1 DEF LockOf, IsLock, IsEvaluation
<1>8. s \in Locked(attr) <=> attr[s].evaluating
  BY <1>2 DEF Locked
<1>9. attr[s].isf => attr[s].def # Null
  BY <1>2, <1>3 DEF DefsInv
<1> HIDE DEF r, s
<1>10. /\ attr' \in [Slot -> Attribute] /\ DefsInv(attr')
       /\ Locked(attr') = IF r.evaluating THEN Locked(attr) \cup {s} ELSE Locked(attr) \ {s}
       /\ WithDef(attr) \subseteq WithDef(attr')
  BY <1>2, <1>3, <1>4, <1>5, <1>9, AttributeSet
<1>11. Locked(attr') = Locked(attr) \ LockOf(Top)
  BY <1>5, <1>7, <1>8, <1>10
<1>12. CallsInv(Locked(attr'), WithDef(attr'), stack', curq, queue[0])
  <2>1. CallsInv(Locked(attr'), WithDef(attr), stack', curq, queue[0])
    BY <1>1, <1>6, <1>11
  <2>2. WithDef(attr) \subseteq WithDef(attr')
    BY <1>10
  <2> QED
    BY <2>1, <2>2, QueueKeeps
<1> QED
  BY <1>1, <1>3, <1>10, <1>12, Parts, Assembled


\* The innermost call goes on, and an instant is in progress if one was.
LEMMA GoOnInstants ==
  ASSUME NEW st \in Seq(Frame), st # <<>>, NEW f \in Frame, NEW cq, Instants(st, cq),
         Last(st).kind # "instant", f.kind \notin {"instant", "remaining"}
  PROVE  NoInstant(Append(Front(st), f)) <=> NoInstant(st)
<1>1. Front(st) \in Seq(Frame)
  BY Popped
<1>2. Instants(Front(st), cq) /\ (NoInstant(Front(st)) <=> NoInstant(st))
  BY InstantsPopped
<1>3. NoInstant(Append(Front(st), f)) <=> NoInstant(Front(st))
  BY <1>1, <1>2, InstantsPushed
<1> QED
  BY <1>2, <1>3

\* What an evaluation in progress is.
LEMMA InEvaluation ==
  ASSUME IInv, Evaluating
  PROVE  /\ stack # <<>> /\ stack \in Seq(Frame) /\ Top = Last(stack) /\ Top \in Frame
         /\ IsEvaluation(Top) /\ Top.kind \in {"is", "wild", "future"}
         /\ Top.slot \in Slot /\ Top.ctx \in Slot /\ Top.is \in BOOLEAN
         /\ Top.res \in Value /\ Top.ans \in Value /\ Top.pos \in Nat \ {0}
         /\ Top.slot \in Locked(attr) /\ LockOf(Top) = {Top.slot} /\ Top.slot \in WithDef(attr)
         /\ attr[Top.slot] \in Attribute /\ attr[Top.slot].def \in Paths
         /\ Top.at # "get" => ~AtEnd(Top)
         /\ ~AtEnd(Top) => Asked(Top) \in Slot
<1>1. /\ stack # <<>> /\ stack \in Seq(Frame) /\ attr \in [Slot -> Attribute]
      /\ Top = Last(stack) /\ IsEvaluation(Top)
      /\ CallsInv(Locked(attr), WithDef(attr), stack, curq, queue[0])
  BY Parts DEF Evaluating, Top
<1>2. Top.kind \in {"is", "wild", "future"}
  BY <1>1 DEF IsEvaluation
<1>3. /\ Top \in Frame /\ Proper(WithDef(attr), Top)
      /\ IsLock(Top) => Top.slot \in Locked(attr)
  BY <1>1, <1>2, PopKeeps
<1>4. /\ Top.slot \in Slot /\ Top.ctx \in Slot /\ Top.def \in Paths /\ Top.is \in BOOLEAN
      /\ Top.pos \in Nat \ {0} /\ Top.res \in Value /\ Top.ans \in Value
  BY <1>1, <1>3, Frames
<1>5. Top.slot \in Locked(attr) /\ LockOf(Top) = {Top.slot}
  BY <1>1, <1>3 DEF IsLock, LockOf
<1>6. Top.slot \in WithDef(attr) /\ (Top.at # "get" => ~AtEnd(Top))
  BY <1>1, <1>3 DEF Proper
<1>7. attr[Top.slot] \in Attribute /\ attr[Top.slot].def \in Paths
  BY <1>1, <1>4, <1>6, Attributes
<1>8. ASSUME ~AtEnd(Top) PROVE Asked(Top) \in Slot
  <2>1. Top.def.keys \in Seq(Keys)
    BY <1>4, PathsAssumption
  <2>2. Top.pos \in 1 .. Len(Top.def.keys)
    BY <1>4, <1>8, <2>1, SeqIs DEF AtEnd
  <2>3. Top.def.keys[Top.pos] \in Keys
    BY <2>1, <2>2, SeqIs
  <2> QED
    BY <1>4, <2>3 DEF Asked, Slot
<1> QED
  BY <1>1, <1>2, <1>3, <1>4, <1>5, <1>6, <1>7, <1>8

\* A GET that evaluates keeps the invariant, for the code outside every handler and
\* for an evaluation.
LEMMA EvaluateKeeps ==
  ASSUME IInv, NEW s \in Slot, MustEvaluate(s), Evaluate(s), UNCHANGED <<queue, curq, program, ops>>,
         stack = <<>> \/ (Evaluating /\ ~AtEnd(Top))
  PROVE  IInv'
<1> DEFINE src == Source(s)
           a   == attr[src]
           k   == IF attr[s].exists THEN "is" ELSE "wild"
           f   == Evaluation(k, src, s, a.def, a.isf)
           r   == [a EXCEPT !.evaluating = TRUE]
<1>1. /\ attr \in [Slot -> Attribute] /\ DefsInv(attr) /\ stack \in Seq(Frame)
      /\ CallsInv(Locked(attr), WithDef(attr), stack, curq, queue[0])
      /\ QueuesFit(queue) /\ ops \in 0 .. program.maxOps
  BY Parts DEF QueuesFit, IInv
<1>2. src \in Slot
  BY Slots
<1>3. a \in Attribute /\ a.isf \in BOOLEAN /\ a.def \in Paths \cup {Null}
  BY <1>1, <1>2, Attributes
<1>4. a.def # Null /\ ~a.evaluating
  BY <1>1, <1>2 DEF MustEvaluate, Defined, OutOfDate, Source, DefsInv
<1>5. attr' = [attr EXCEPT ![src] = r] /\ stack' = Append(stack, f)
  BY <1>1, <1>2 DEF Evaluate
<1>6. r \in Attribute /\ r.evaluating /\ r.def = a.def /\ r.isf = a.isf
  BY <1>3 DEF Attribute
<1>7. src \in WithDef(attr) /\ src \notin Locked(attr)
  BY <1>2, <1>4 DEF WithDef, Locked
<1> HIDE DEF r
<1>8. /\ attr' \in [Slot -> Attribute] /\ DefsInv(attr') /\ Locked(attr') = Locked(attr) \cup {src}
      /\ WithDef(attr) \subseteq WithDef(attr')
  BY <1>1, <1>2, <1>4, <1>5, <1>6, AttributeSet
<1>9. /\ f \in Frame /\ f.kind = k /\ f.slot = src /\ f.at = "get"
  <2>1. k \in {"is", "wild", "future"} /\ a.def \in Paths
    BY <1>3, <1>4
  <2> HIDE DEF k, src, a
  <2> QED
    BY <1>2, <1>3, <2>1, Makes
<1>10. k \in {"is", "wild"}
  OBVIOUS
<1> HIDE DEF f, k, a, src
<1>11. IsEvaluation(f) /\ IsLock(f) /\ LockOf(f) = {src}
  BY <1>9, <1>10 DEF IsEvaluation, IsLock, LockOf
<1>12. Proper(WithDef(attr), f)
  BY <1>7, <1>9 DEF Proper
<1>13. stack # <<>> => Follows(Last(stack), f)
  <2>1. stack # <<>> => IsEvaluation(Last(stack)) /\ ~AtEnd(Last(stack))
    BY DEF Evaluating, Top
  <2> QED
    BY <1>9, <1>10, <2>1 DEF Follows, IsEvaluation
<1>14. f.kind \notin {"instant", "remaining", "sync"} /\ f.slot \notin Locked(attr)
  BY <1>7, <1>9, <1>10
<1>15. CallsInv(Locked(attr) \cup LockOf(f), WithDef(attr), stack', curq, queue[0])
  BY <1>1, <1>5, <1>9, <1>12, <1>13, <1>14, PushKeeps
<1>16. CallsInv(Locked(attr'), WithDef(attr'), stack', curq, queue[0])
  <2>1. CallsInv(Locked(attr'), WithDef(attr), stack', curq, queue[0])
    BY <1>8, <1>11, <1>15
  <2> QED
    BY <1>8, <2>1, QueueKeeps
<1> QED
  BY <1>1, <1>8, <1>16, Assembled

LEMMA GetEvaluatesKeeps ==
  ASSUME IInv, GetEvaluates
  PROVE  IInv'
<1>1. /\ Evaluating /\ ~AtEnd(Top) /\ MustEvaluate(Asked(Top)) /\ Evaluate(Asked(Top))
      /\ UNCHANGED <<queue, curq, program, ops>>
  BY DEF GetEvaluates, Asking
<1>2. Asked(Top) \in Slot
  BY <1>1, InEvaluation
<1> QED
  BY <1>1, <1>2, EvaluateKeeps

LEMMA MainGetKeeps ==
  ASSUME IInv, NEW s \in program.reads, MainGet(s)
  PROVE  IInv'
<1>1. s \in Slot
  BY Parts, ProgramsAssumption
<1>2. stack = <<>> /\ MustEvaluate(s) /\ Evaluate(s) /\ UNCHANGED <<queue, curq, program, ops>>
  BY DEF MainGet
<1> QED
  BY <1>1, <1>2, EvaluateKeeps

LEMMA GetAnswersKeeps ==
  ASSUME IInv, GetAnswers
  PROVE  IInv'
<1> DEFINE v == attr[Source(Asked(Top))].val
<1>1. /\ Evaluating /\ ~AtEnd(Top) /\ stack' = Answered(stack, v)
      /\ UNCHANGED <<attr, queue, curq, program, ops>>
  BY DEF GetAnswers, Asking
<1>2. /\ attr \in [Slot -> Attribute] /\ DefsInv(attr) /\ ops \in 0 .. program.maxOps
      /\ CallsInv(Locked(attr), WithDef(attr), stack, curq, queue[0])
      /\ QueuesFit(queue)
  BY Parts DEF QueuesFit, IInv
<1>3. v \in Value
  <2>1. Source(Asked(Top)) \in Slot
    BY <1>1, InEvaluation, Slots
  <2> QED
    BY <1>2, <2>1, Attributes
<1> HIDE DEF v
<1>4. ~AtEnd(Last(stack))
  BY <1>1 DEF Top
<1>5. CallsInv(Locked(attr), WithDef(attr), stack', curq, queue[0])
  BY <1>1, <1>2, <1>3, <1>4, AnswerKeeps
<1> QED
  BY <1>1, <1>2, <1>5, Assembled

LEMMA GetCyclicKeeps ==
  ASSUME IInv, GetCyclic
  PROVE  IInv'
<1> DEFINE at == IF attr[Asked(Top)].exists THEN "cyclic" ELSE "none"
           f  == [Top EXCEPT !.at = at]
<1>1. /\ Evaluating /\ ~AtEnd(Top) /\ stack' = Append(Front(stack), f) \o <<Failing(4)>>
      /\ UNCHANGED <<attr, queue, curq, program, ops>>
  BY DEF GetCyclic, Asking
<1>2. /\ attr \in [Slot -> Attribute] /\ DefsInv(attr) /\ ops \in 0 .. program.maxOps
      /\ CallsInv(Locked(attr), WithDef(attr), stack, curq, queue[0])
      /\ QueuesFit(queue)
  BY Parts DEF QueuesFit, IInv
<1>3. /\ stack # <<>> /\ Top \in Frame /\ Top = Last(stack) /\ IsEvaluation(Top)
      /\ Top.kind \in {"is", "wild", "future"} /\ Top.slot \in WithDef(attr)
      /\ Front(stack) \in Seq(Frame)
  BY <1>1, InEvaluation, Popped
<1>4. f \in Frame
  <2>1. at \in {"get", "cyclic", "none", "dep"} /\ Null \in Value
    BY DEF Value
  <2> HIDE DEF at
  <2> QED
    BY <1>3, <2>1, FramesChange
<1>5. f.kind = Top.kind /\ f.slot = Top.slot /\ f.def = Top.def /\ f.pos = Top.pos
  BY <1>3 DEF Frame, Sync, IsEvaluation
<1> HIDE DEF f
<1>6. Proper(WithDef(attr), f)
  BY <1>1, <1>3, <1>5 DEF Proper, AtEnd
<1>7. CallsInv(Locked(attr), WithDef(attr), Append(Front(stack), f), curq, queue[0])
  BY <1>2, <1>3, <1>4, <1>5, <1>6, GoOnKeeps
<1>8. Open(Append(Front(stack), f))
  BY <1>3, <1>4, <1>5, Pushed DEF Open
<1>9. PICK g \in Frame : g = Failing(4) /\ g.kind = "error"
  <2>1. Failing(4) \in Frame /\ Failing(4).kind = "error"
    BY DEF Failing, Frame
  <2> QED
    BY <2>1, Zenon
<1>10. ~IsLock(g) /\ Locked(attr) \cup LockOf(g) = Locked(attr)
  BY <1>9 DEF IsLock, IsEvaluation, LockOf
<1>11. CallsInv(Locked(attr), WithDef(attr), stack', curq, queue[0])
  <2>1. /\ CallsInv(Locked(attr) \cup LockOf(g), WithDef(attr), Append(Append(Front(stack), f), g), curq,
                    queue[0])
        /\ Append(Front(stack), f) \o <<g>> = Append(Append(Front(stack), f), g)
    BY <1>7, <1>8, <1>9, <1>10, PlainStarts
  <2> QED
    BY <1>1, <1>9, <1>10, <2>1
<1> QED
  BY <1>1, <1>2, <1>11, Assembled

LEMMA CyclicAnswersKeeps ==
  ASSUME IInv, CyclicAnswers
  PROVE  IInv'
<1>1. Evaluating /\ UNCHANGED <<queue, curq, program, ops>>
  BY DEF CyclicAnswers
<1>2. /\ attr \in [Slot -> Attribute] /\ DefsInv(attr) /\ ops \in 0 .. program.maxOps
      /\ CallsInv(Locked(attr), WithDef(attr), stack, curq, queue[0])
      /\ QueuesFit(queue)
  BY Parts DEF QueuesFit, IInv
<1>3. /\ Top.at \in {"cyclic", "none"}
      /\ Top.at # "get" => ~AtEnd(Top)
      /\ ~AtEnd(Top) => Asked(Top) \in Slot
      /\ Top.res \in Value /\ Null \in Value
  BY <1>1, InEvaluation DEF CyclicAnswers, Value
<1>4. ~AtEnd(Last(stack))
  BY <1>3 DEF Top
<1>5. \A v \in Value : CallsInv(Locked(attr), WithDef(attr), Answered(stack, v), curq, queue[0])
  BY <1>2, <1>4, AnswerKeeps
<1>6. CASE Top.at = "cyclic"
  <2> DEFINE s == Asked(Top)
             r == [attr[s] EXCEPT !.val = Null, !.ood = FALSE]
             v == IF Top.pos = 1 THEN Null ELSE Top.res
  <2>1. attr' = [attr EXCEPT ![s].val = Null, ![s].ood = FALSE] /\ stack' = Answered(stack, v)
    BY <1>6 DEF CyclicAnswers
  <2>2. s \in Slot /\ attr[s] \in Attribute /\ v \in Value
    BY <1>2, <1>3, <1>6, Attributes
  <2>3. attr' = [attr EXCEPT ![s] = r]
    BY <1>2, <2>1, <2>2
  <2>4. /\ r \in Attribute /\ r.evaluating = attr[s].evaluating /\ r.def = attr[s].def
        /\ r.isf = attr[s].isf
    BY <1>3, <2>2 DEF Attribute
  <2>5. (r.isf => r.def # Null) /\ (s \in Locked(attr) <=> r.evaluating)
    BY <1>2, <2>2, <2>4 DEF DefsInv, Locked
  <2> HIDE DEF r, s, v
  <2>6. /\ attr' \in [Slot -> Attribute] /\ DefsInv(attr')
        /\ Locked(attr') = IF r.evaluating THEN Locked(attr) \cup {s} ELSE Locked(attr) \ {s}
        /\ WithDef(attr) \subseteq WithDef(attr')
    BY <1>2, <2>2, <2>3, <2>4, <2>5, AttributeSet
  <2>7. Locked(attr') = Locked(attr)
    BY <2>5, <2>6
  <2>8. CallsInv(Locked(attr'), WithDef(attr'), stack', curq, queue[0])
    <3>1. CallsInv(Locked(attr'), WithDef(attr), stack', curq, queue[0])
      BY <1>5, <2>1, <2>2, <2>7
    <3> QED
      BY <2>6, <3>1, QueueKeeps
  <2> QED
    BY <1>1, <1>2, <2>6, <2>8, Assembled
<1>7. CASE Top.at = "none"
  <2>1. stack' = Answered(stack, Null) /\ attr' = attr
    BY <1>7 DEF CyclicAnswers
  <2>2. CallsInv(Locked(attr), WithDef(attr), stack', curq, queue[0])
    BY <1>3, <1>5, <2>1
  <2> QED
    BY <1>1, <1>2, <2>1, <2>2, Assembled
<1> QED
  BY <1>3, <1>6, <1>7

LEMMA AddDepKeeps ==
  ASSUME IInv, AddDep
  PROVE  IInv'
<1> DEFINE e == DepEvent(Top.is, Asked(Top), Top.ctx)
           f == [Top EXCEPT !.at = "get", !.pos = @ + 1, !.res = Top.ans]
           c == Append(Front(stack), f)
<1>1. /\ Evaluating /\ Top.at = "dep" /\ UNCHANGED <<attr, program, ops>>
      /\ queue' = [queue EXCEPT ![2] = Append(@, e)] /\ ProcessInstant(c)
  BY DEF AddDep, Sent
<1>2. /\ attr \in [Slot -> Attribute] /\ DefsInv(attr) /\ ops \in 0 .. program.maxOps
      /\ CallsInv(Locked(attr), WithDef(attr), stack, curq, queue[0])
      /\ Idle <=> NoInstant(stack)
  BY Parts
<1>3. /\ stack # <<>> /\ Top \in Frame /\ Top = Last(stack) /\ IsEvaluation(Top)
      /\ Top.kind \in {"is", "wild", "future"} /\ Top.slot \in WithDef(attr)
      /\ Asked(Top) \in Slot /\ Top.ctx \in Slot /\ Top.is \in BOOLEAN
  BY <1>1, InEvaluation
<1>4. QueuesFit(queue') /\ queue'[0] = queue[0]
  <2>1. PICK g \in Event(2) : g = e
    <3>1. e \in Event(2)
      BY <1>3 DEF DepEvent, Event
    <3> QED
      BY <3>1, Zenon
  <2>2. queue' = [queue EXCEPT ![2] = Append(@, g)] /\ 2 \in 0 .. 2 /\ 2 # 0
    BY <1>1, <2>1
  <2> QED
    BY <2>2, Queueing
<1> HIDE DEF e
<1>5. f \in Frame
  <2>1. Null \in Value
    BY DEF Value
  <2> QED
    BY <1>3, <2>1, FramesChange
<1>6. f.kind = Top.kind /\ f.slot = Top.slot /\ f.at = "get"
  BY <1>3 DEF Frame, Sync, IsEvaluation
<1> HIDE DEF f
<1>7. Proper(WithDef(attr), f)
  BY <1>3, <1>6 DEF Proper
<1>8. CallsInv(Locked(attr), WithDef(attr), c, curq, queue[0])
  BY <1>2, <1>3, <1>5, <1>6, <1>7, GoOnKeeps
<1>9. NoInstant(c) <=> Idle
  <2>1. stack \in Seq(Frame) /\ Instants(stack, curq)
    BY <1>2 DEF CallsInv
  <2>2. Last(stack).kind # "instant" /\ f.kind \notin {"instant", "remaining"}
    BY <1>3, <1>6
  <2> QED
    BY <1>2, <1>3, <1>5, <2>1, <2>2, GoOnInstants
<1> HIDE DEF c
<1>10. CallsInv(Locked(attr), WithDef(attr), stack', curq', queue[0])
  BY <1>1, <1>8, <1>9, InstantMayStart
<1> QED
  BY <1>1, <1>2, <1>4, <1>10, Assembled

\* The attributes when the end of the evaluation has unlocked its attribute, and
\* may have left a value there.
Unlocked(v, o) ==
  [attr EXCEPT ![Top.slot] = [attr[Top.slot] EXCEPT !.val = v, !.ood = o, !.evaluating = FALSE]]

\* What unlocking does.
LEMMA Unlocking ==
  ASSUME IInv, Evaluating, NEW v \in Value, NEW o \in BOOLEAN
  PROVE  /\ Unlocked(v, o) \in [Slot -> Attribute] /\ DefsInv(Unlocked(v, o))
         /\ WithDef(attr) \subseteq WithDef(Unlocked(v, o))
         /\ CallsInv(Locked(Unlocked(v, o)), WithDef(Unlocked(v, o)), Front(stack), curq, queue[0])
         /\ NoInstant(Front(stack)) <=> Idle
         /\ Front(stack) # <<>> => Follows(Last(Front(stack)), Top)
<1> DEFINE a == Unlocked(v, o)
           s == Top.slot
           r == [attr[s] EXCEPT !.val = v, !.ood = o, !.evaluating = FALSE]
<1>1. /\ attr \in [Slot -> Attribute] /\ DefsInv(attr)
      /\ CallsInv(Locked(attr), WithDef(attr), stack, curq, queue[0])
      /\ Idle <=> NoInstant(stack)
  BY Parts
<1>2. /\ stack # <<>> /\ Top = Last(stack) /\ Top.kind \in {"is", "wild", "future"}
      /\ s \in Slot /\ LockOf(Top) = {s} /\ attr[s] \in Attribute
  BY InEvaluation
<1>3. r \in Attribute /\ ~r.evaluating /\ r.def = attr[s].def /\ r.isf = attr[s].isf
  BY <1>2 DEF Attribute
<1>4. r.isf => r.def # Null
  BY <1>1, <1>2, <1>3 DEF DefsInv
<1>5. a = [attr EXCEPT ![s] = r]
  BY DEF Unlocked
<1> HIDE DEF r, s, a
<1>6. /\ a \in [Slot -> Attribute] /\ DefsInv(a) /\ Locked(a) = Locked(attr) \ {s}
      /\ r.def # Null \/ attr[s].def = Null => WithDef(attr) \subseteq WithDef(a)
  BY <1>1, <1>2, <1>3, <1>4, <1>5, AttributeSet
<1>7. WithDef(attr) \subseteq WithDef(a)
  BY <1>3, <1>6
<1>8. /\ CallsInv(Locked(attr) \ LockOf(Top), WithDef(attr), Front(stack), curq, queue[0])
      /\ NoInstant(Front(stack)) <=> NoInstant(stack)
      /\ Front(stack) # <<>> => Follows(Last(Front(stack)), Top)
  BY <1>1, <1>2, PopKeeps
<1>9. CallsInv(Locked(a), WithDef(a), Front(stack), curq, queue[0])
  <2>1. CallsInv(Locked(a), WithDef(attr), Front(stack), curq, queue[0])
    BY <1>2, <1>6, <1>8
  <2> QED
    BY <1>7, <2>1, QueueKeeps
<1> QED
  BY <1>1, <1>6, <1>7, <1>8, <1>9 DEF a

\* And an evaluation that a GET made answers it.
LEMMA Answering ==
  ASSUME IInv, Evaluating, Top.kind \in {"is", "wild"}, NEW L, NEW D, NEW v \in Value, NEW q0,
         CallsInv(L, D, Front(stack), curq, q0),
         Front(stack) # <<>> => Follows(Last(Front(stack)), Top)
  PROVE  /\ CallsInv(L, D, Answered(Front(stack), v), curq, q0)
         /\ NoInstant(Answered(Front(stack), v)) <=> NoInstant(Front(stack))
<1>1. Front(stack) # <<>> /\ IsEvaluation(Last(Front(stack))) => ~AtEnd(Last(Front(stack)))
  BY DEF Follows
<1> QED
  BY <1>1, AnswerKeeps

LEMMA FinishIsKeeps ==
  ASSUME IInv, FinishIs
  PROVE  IInv'
<1> DEFINE s == Top.slot
<1>1. /\ Evaluating /\ Top.kind = "is" /\ stack' = Answered(Front(stack), Top.res)
      /\ attr' = [attr EXCEPT ![s].val = Top.res, ![s].ood = FALSE, ![s].evaluating = FALSE]
      /\ UNCHANGED <<queue, curq, program, ops>>
  BY DEF FinishIs, Finished
<1>2. s \in Slot /\ Top.res \in Value /\ attr \in [Slot -> Attribute] /\ attr[s] \in Attribute
  BY <1>1, InEvaluation, Parts
<1>3. attr' = Unlocked(Top.res, FALSE)
  BY <1>1, <1>2 DEF Unlocked
<1> HIDE DEF s
<1>4. /\ attr' \in [Slot -> Attribute] /\ DefsInv(attr')
      /\ CallsInv(Locked(attr'), WithDef(attr'), Front(stack), curq, queue[0])
      /\ Front(stack) # <<>> => Follows(Last(Front(stack)), Top)
  BY <1>1, <1>2, <1>3, Unlocking
<1>5. CallsInv(Locked(attr'), WithDef(attr'), stack', curq, queue[0])
  BY <1>1, <1>2, <1>4, Answering
<1>6. QueuesFit(queue) /\ ops \in 0 .. program.maxOps
  BY Parts DEF QueuesFit, IInv
<1> QED
  BY <1>1, <1>4, <1>5, <1>6, Assembled

\* Unlocking alone.
LEMMA UnlockingOnly ==
  ASSUME IInv, Evaluating, attr' = [attr EXCEPT ![Top.slot].evaluating = FALSE]
  PROVE  /\ attr' \in [Slot -> Attribute] /\ DefsInv(attr') /\ WithDef(attr) \subseteq WithDef(attr')
         /\ CallsInv(Locked(attr'), WithDef(attr'), Front(stack), curq, queue[0])
         /\ NoInstant(Front(stack)) <=> Idle
         /\ Front(stack) # <<>> => Follows(Last(Front(stack)), Top)
<1> DEFINE s == Top.slot
<1>1. s \in Slot /\ attr \in [Slot -> Attribute] /\ attr[s] \in Attribute
  BY InEvaluation, Parts
<1>2. [attr[s] EXCEPT !.evaluating = FALSE]
        = [attr[s] EXCEPT !.val = attr[s].val, !.ood = attr[s].ood, !.evaluating = FALSE]
  BY <1>1 DEF Attribute
<1>3. attr' = Unlocked(attr[s].val, attr[s].ood)
  BY <1>1, <1>2 DEF Unlocked
<1>4. attr[s].val \in Value /\ attr[s].ood \in BOOLEAN
  BY <1>1 DEF Attribute
<1>5. PICK v \in Value, o \in BOOLEAN : attr' = Unlocked(v, o)
  BY <1>3, <1>4, Zenon
<1> QED
  BY <1>5, Unlocking

LEMMA FinishWildKeeps ==
  ASSUME IInv, FinishWild
  PROVE  IInv'
<1> DEFINE a == attr[Top.slot]
           e == IF a.isf THEN DefineFuncEvent(Top.ctx, a.def)
                         ELSE DefineEvent(Top.ctx, a.def, Top.res)
           c == Answered(Front(stack), Top.res)
<1>1. /\ Evaluating /\ Top.kind = "wild" /\ UNCHANGED <<program, ops>>
      /\ attr' = [attr EXCEPT ![Top.slot].evaluating = FALSE]
      /\ queue' = [queue EXCEPT ![0] = Append(@, e)] /\ ProcessInstant(c)
  BY DEF FinishWild, Finished, Sent
<1>2. /\ Top.res \in Value /\ Top.ctx \in Slot /\ a.def \in Paths
  BY <1>1, InEvaluation
<1>3. QueuesFit(queue') /\ queue'[0] # <<>>
  <2>1. PICK g \in Event(0) : g = e
    <3>1. /\ DefineFuncEvent(Top.ctx, a.def) \in Event(0)
          /\ DefineEvent(Top.ctx, a.def, Top.res) \in Event(0)
      BY <1>2 DEF DefineFuncEvent, DefineEvent, Event
    <3> QED
      BY <3>1, Zenon
  <2>2. queue' = [queue EXCEPT ![0] = Append(@, g)] /\ 0 \in 0 .. 2
    BY <1>1, <2>1
  <2> QED
    BY <2>2, Queueing
<1> HIDE DEF e, a
<1>4. /\ attr' \in [Slot -> Attribute] /\ DefsInv(attr')
      /\ CallsInv(Locked(attr'), WithDef(attr'), Front(stack), curq, queue[0])
      /\ NoInstant(Front(stack)) <=> Idle
      /\ Front(stack) # <<>> => Follows(Last(Front(stack)), Top)
  BY <1>1, UnlockingOnly
<1>5. /\ CallsInv(Locked(attr'), WithDef(attr'), c, curq, queue[0])
      /\ NoInstant(c) <=> NoInstant(Front(stack))
  BY <1>1, <1>2, <1>4, Answering
<1> HIDE DEF c
<1>6. CallsInv(Locked(attr'), WithDef(attr'), c, curq, queue'[0])
  BY <1>3, <1>5, QueueKeeps
<1>7. CallsInv(Locked(attr'), WithDef(attr'), stack', curq', queue'[0])
  BY <1>1, <1>4, <1>5, <1>6, InstantMayStart
<1>8. ops \in 0 .. program.maxOps
  BY Parts
<1> QED
  BY <1>1, <1>3, <1>4, <1>7, <1>8, Assembled

LEMMA FinishFutureKeeps ==
  ASSUME IInv, FinishFuture
  PROVE  IInv'
<1> DEFINE e == SetEvent("SET_BYDEF", Top.slot, Top.res)
<1>1. /\ Evaluating /\ Top.kind = "future" /\ UNCHANGED <<curq, program, ops>>
      /\ attr' = [attr EXCEPT ![Top.slot].evaluating = FALSE]
      /\ queue' = [queue EXCEPT ![0] = Append(@, e)]
      /\ stack' = Front(stack) \o WildCall(Top.slot)
  BY DEF FinishFuture, Finished
<1>2. Top.res \in Value /\ Top.slot \in Slot
  BY <1>1, InEvaluation
<1>3. QueuesFit(queue') /\ queue'[0] # <<>>
  <2>1. PICK g \in Event(0) : g = e
    <3>1. e \in Event(0)
      BY <1>2 DEF SetEvent, Event
    <3> QED
      BY <3>1, Zenon
  <2>2. queue' = [queue EXCEPT ![0] = Append(@, g)] /\ 0 \in 0 .. 2
    BY <1>1, <2>1
  <2> QED
    BY <2>2, Queueing
<1> HIDE DEF e
<1>4. /\ attr' \in [Slot -> Attribute] /\ DefsInv(attr')
      /\ CallsInv(Locked(attr'), WithDef(attr'), Front(stack), curq, queue[0])
      /\ Front(stack) # <<>> => Follows(Last(Front(stack)), Top)
  BY <1>1, UnlockingOnly
<1>5. Open(Front(stack))
  BY <1>1, <1>4 DEF Open, Follows
<1>6. CallsInv(Locked(attr'), WithDef(attr'), Front(stack), curq, queue'[0])
  BY <1>3, <1>4, QueueKeeps
<1>7. CallsInv(Locked(attr'), WithDef(attr'), stack', curq, queue'[0])
  BY <1>1, <1>2, <1>5, <1>6, WildStarts
<1>8. ops \in 0 .. program.maxOps
  BY Parts
<1> QED
  BY <1>1, <1>3, <1>4, <1>7, <1>8, Assembled

\* What the call that drains queue k is.
LEMMA InDrain ==
  ASSUME IInv, NEW k \in 0 .. 2, NEW types, Takes(k, types)
  PROVE  /\ stack # <<>> /\ stack \in Seq(Frame) /\ Top = Last(stack) /\ Open(stack)
         /\ IsLoop(Last(stack)) /\ Last(stack).q = k /\ queue[k] # <<>>
         /\ NextEvent(k).type \in types /\ NextEvent(k) \in Event(k) /\ QueuesFit(Taken(k))
<1>1. /\ stack # <<>> /\ Top = Last(stack) /\ IsLoop(Top) /\ Top.q = k
      /\ queue[k] # <<>> /\ NextEvent(k).type \in types
  BY DEF Takes, Draining, Top
<1>2. QueuesFit(Taken(k)) /\ NextEvent(k) \in Event(k)
  BY <1>1, Dequeueing
<1>3. Open(stack)
  BY <1>1 DEF Open, IsLoop
<1> QED
  BY <1>1, <1>2, <1>3, Parts

\* The attributes a, with s locked if it notifies.
LEMMA ValueSet ==
  ASSUME NEW a \in [Slot -> Attribute], DefsInv(a), NEW s \in Slot, NEW v \in Value
  PROVE  /\ SetValue(a, s, v) \in [Slot -> Attribute] /\ DefsInv(SetValue(a, s, v))
         /\ Locked(SetValue(a, s, v)) = IF Changes(s, v) THEN Locked(a) \cup {s} ELSE Locked(a)
         /\ WithDef(a) \subseteq WithDef(SetValue(a, s, v))
<1>1. CASE ~Changes(s, v)
  BY <1>1 DEF SetValue
<1>2. CASE Changes(s, v)
  <2> DEFINE r == [a[s] EXCEPT !.val = v, !.evaluating = TRUE]
  <2>1. a[s] \in Attribute
    OBVIOUS
  <2>2. r \in Attribute /\ r.evaluating /\ r.def = a[s].def /\ r.isf = a[s].isf
    BY <2>1 DEF Attribute
  <2>3. r.isf => r.def # Null
    BY <2>2 DEF DefsInv
  <2> HIDE DEF r
  <2> DEFINE b == [a EXCEPT ![s] = r]
  <2>4. SetValue(a, s, v) = b
    BY <1>2 DEF SetValue, r
  <2>5. /\ b \in [Slot -> Attribute] /\ DefsInv(b)
        /\ Locked(b) = IF r.evaluating THEN Locked(a) \cup {s} ELSE Locked(a) \ {s}
        /\ r.def # Null \/ a[s].def = Null => WithDef(a) \subseteq WithDef(b)
    BY <2>2, <2>3, AttributeSet
  <2> HIDE DEF b
  <2>6. Locked(b) = Locked(a) \cup {s} /\ WithDef(a) \subseteq WithDef(b)
    BY <2>2, <2>5
  <2> QED
    BY <1>2, <2>4, <2>5, <2>6
<1> QED
  BY <1>1, <1>2

LEMMA HandleSetKeeps ==
  ASSUME IInv, HandleSet
  PROVE  IInv'
<1> DEFINE e == NextEvent(0)
           s == e.slot
           v == e.v
           a == [attr EXCEPT ![s].exists = TRUE]
           r == [attr[s] EXCEPT !.exists = TRUE]
<1>1. /\ Takes(0, {"SET", "SET_BYDEF"}) /\ queue' = Taken(0) /\ attr' = SetValue(a, s, v)
      /\ stack' = IF Changes(s, v) THEN stack \o WildCall(s) \o OwnCall(s) ELSE stack
      /\ UNCHANGED <<curq, program, ops>>
  BY DEF HandleSet
<1>2. /\ attr \in [Slot -> Attribute] /\ DefsInv(attr) /\ stack \in Seq(Frame)
      /\ CallsInv(Locked(attr), WithDef(attr), stack, curq, queue[0])
      /\ ops \in 0 .. program.maxOps
  BY Parts
<1>3. /\ stack # <<>> /\ Open(stack) /\ IsLoop(Last(stack)) /\ Last(stack).q = 0
      /\ e.type \in {"SET", "SET_BYDEF"} /\ e \in Event(0) /\ QueuesFit(Taken(0))
  BY <1>1, InDrain
<1>4. s \in Slot /\ v \in Value
  BY <1>3, EventsAre
<1>5. attr[s] \in Attribute
  BY <1>2, <1>4
<1>6. /\ r \in Attribute /\ r.evaluating = attr[s].evaluating /\ r.def = attr[s].def
      /\ r.isf = attr[s].isf
  BY <1>5 DEF Attribute
<1>7. (r.isf => r.def # Null) /\ (s \in Locked(attr) <=> r.evaluating)
  BY <1>2, <1>4, <1>6 DEF DefsInv, Locked
<1>8. a = [attr EXCEPT ![s] = r]
  OBVIOUS
<1> HIDE DEF r, a, s, e, v
<1>9. /\ a \in [Slot -> Attribute] /\ DefsInv(a)
      /\ Locked(a) = IF r.evaluating THEN Locked(attr) \cup {s} ELSE Locked(attr) \ {s}
      /\ r.def # Null \/ attr[s].def = Null => WithDef(attr) \subseteq WithDef(a)
  BY <1>2, <1>4, <1>6, <1>7, <1>8, AttributeSet
<1>10. Locked(a) = Locked(attr) /\ WithDef(attr) \subseteq WithDef(a)
  BY <1>6, <1>7, <1>9
<1>11. /\ attr' \in [Slot -> Attribute] /\ DefsInv(attr')
       /\ Locked(attr') = IF Changes(s, v) THEN Locked(attr) \cup {s} ELSE Locked(attr)
       /\ WithDef(a) \subseteq WithDef(attr')
  BY <1>1, <1>4, <1>9, <1>10, ValueSet
<1>12. CallsInv(Locked(attr), WithDef(attr'), stack, curq, queue'[0])
  <2>1. WithDef(attr) \subseteq WithDef(attr')
    BY <1>10, <1>11
  <2> QED
    BY <1>2, <1>3, <2>1, QueueKeeps
<1>13. CallsInv(Locked(attr'), WithDef(attr'), stack', curq, queue'[0])
  <2>1. CASE ~Changes(s, v)
    BY <1>1, <1>11, <1>12, <2>1
  <2>2. CASE Changes(s, v)
    <3>1. CallsInv(Locked(attr), WithDef(attr'), stack \o WildCall(s), curq, queue'[0])
          /\ Open(stack \o WildCall(s))
      BY <1>3, <1>4, <1>12, WildStarts
    <3>2. CallsInv(Locked(attr) \cup {s}, WithDef(attr'), (stack \o WildCall(s)) \o OwnCall(s), curq, queue'[0])
      BY <1>2, <1>4, <3>1, OwnStarts
    <3> QED
      BY <1>1, <1>11, <2>2, <3>2
  <2> QED
    BY <2>1, <2>2
<1> QED
  BY <1>1, <1>2, <1>3, <1>11, <1>13, Assembled

LEMMA HandleOtherSetKeeps ==
  ASSUME IInv, HandleOtherSet
  PROVE  IInv'
<1>1. Takes(0, {"SET_OTHER"}) /\ queue' = Taken(0) /\ UNCHANGED <<attr, curq, stack, program, ops>>
  BY DEF HandleOtherSet
<1>2. /\ attr \in [Slot -> Attribute] /\ DefsInv(attr)
      /\ CallsInv(Locked(attr), WithDef(attr), stack, curq, queue[0])
      /\ ops \in 0 .. program.maxOps
  BY Parts
<1>3. /\ stack # <<>> /\ IsLoop(Last(stack)) /\ Last(stack).q = 0 /\ QueuesFit(Taken(0))
  BY <1>1, InDrain
<1>4. CallsInv(Locked(attr), WithDef(attr), stack, curq, queue'[0])
  BY <1>2, <1>3, QueueKeeps
<1> QED
  BY <1>1, <1>2, <1>3, <1>4, Assembled

LEMMA HandleDefineKeeps ==
  ASSUME IInv, HandleDefine
  PROVE  IInv'
<1> DEFINE e == NextEvent(0)
           s == e.slot
           a == [attr EXCEPT ![s].exists = TRUE, ![s].def = e.def, ![s].isf = FALSE, ![s].ood = FALSE]
           r == [attr[s] EXCEPT !.exists = TRUE, !.def = e.def, !.isf = FALSE, !.ood = FALSE]
<1>1. /\ Takes(0, {"DEFINE"}) /\ UNCHANGED <<curq, program, ops>>
      /\ \/ /\ e.init = Null
            /\ queue' = IF s[2] = Key THEN Taken(0)
                        ELSE [Taken(0) EXCEPT ![1] = Append(@, NotifyEvent(s))]
            /\ attr' = a
            /\ UNCHANGED stack
         \/ /\ e.init # Null
            /\ queue' = Taken(0)
            /\ attr'  = SetValue(a, s, e.init)
            /\ stack' = IF Changes(s, e.init) THEN stack \o OwnCall(s) ELSE stack
  BY DEF HandleDefine
<1>2. /\ attr \in [Slot -> Attribute] /\ DefsInv(attr) /\ stack \in Seq(Frame)
      /\ CallsInv(Locked(attr), WithDef(attr), stack, curq, queue[0])
      /\ ops \in 0 .. program.maxOps
  BY Parts
<1>3. /\ stack # <<>> /\ Open(stack) /\ IsLoop(Last(stack)) /\ Last(stack).q = 0
      /\ e.type \in {"DEFINE"} /\ e \in Event(0) /\ QueuesFit(Taken(0)) /\ queue[0] # <<>>
  BY <1>1, InDrain
<1>4. s \in Slot /\ e.def \in Paths /\ e.init \in Value
  BY <1>3, EventsAre
<1>5. attr[s] \in Attribute /\ e.def # Null
  BY <1>2, <1>4, PathsAssumption
<1>6. /\ r \in Attribute /\ r.evaluating = attr[s].evaluating /\ r.def = e.def /\ ~r.isf
  BY <1>4, <1>5 DEF Attribute
<1>7. s \in Locked(attr) <=> r.evaluating
  BY <1>4, <1>6 DEF Locked
<1>8. a = [attr EXCEPT ![s] = r]
  BY <1>2, <1>4, <1>5 DEF Attribute
<1>9. QueuesFit([Taken(0) EXCEPT ![1] = Append(@, NotifyEvent(s))])
  <2>1. NotifyEvent(s) \in Event(1)
    BY <1>4 DEF NotifyEvent, Event
  <2> QED
    BY <1>3, <2>1, Dequeueing
<1> DEFINE i == e.init
<1>10. /\ QueuesFit(queue')
       /\ \/ attr' = a /\ UNCHANGED stack
          \/ /\ attr'  = SetValue(a, s, i)
             /\ stack' = IF Changes(s, i) THEN stack \o OwnCall(s) ELSE stack
  BY <1>1, <1>3, <1>9
<1> HIDE DEF r, a, s, e, i
<1>11. i \in Value
  BY <1>4 DEF i
<1>12. /\ a \in [Slot -> Attribute] /\ DefsInv(a)
       /\ Locked(a) = IF r.evaluating THEN Locked(attr) \cup {s} ELSE Locked(attr) \ {s}
       /\ r.def # Null \/ attr[s].def = Null => WithDef(attr) \subseteq WithDef(a)
  BY <1>2, <1>4, <1>6, <1>8, AttributeSet
<1>13. Locked(a) = Locked(attr) /\ WithDef(attr) \subseteq WithDef(a)
  BY <1>5, <1>6, <1>7, <1>12
<1>14. \A D : WithDef(attr) \subseteq D => CallsInv(Locked(attr), D, stack, curq, queue'[0])
  BY <1>2, <1>3, QueueKeeps
<1>15. CASE attr' = a /\ UNCHANGED stack
  <2>1. CallsInv(Locked(attr'), WithDef(attr'), stack', curq, queue'[0])
    BY <1>13, <1>14, <1>15
  <2> QED
    BY <1>1, <1>2, <1>10, <1>12, <1>15, <2>1, Assembled
<1>16. CASE /\ attr'  = SetValue(a, s, i)
            /\ stack' = IF Changes(s, i) THEN stack \o OwnCall(s) ELSE stack
  <2>1. /\ attr' \in [Slot -> Attribute] /\ DefsInv(attr')
        /\ Locked(attr') = IF Changes(s, i) THEN Locked(attr) \cup {s} ELSE Locked(attr)
        /\ WithDef(a) \subseteq WithDef(attr')
    BY <1>4, <1>11, <1>12, <1>13, <1>16, ValueSet
  <2>2. CallsInv(Locked(attr), WithDef(attr'), stack, curq, queue'[0])
    <3>1. WithDef(attr) \subseteq WithDef(attr')
      BY <1>13, <2>1
    <3> QED
      BY <1>14, <3>1
  <2>3. CallsInv(Locked(attr'), WithDef(attr'), stack', curq, queue'[0])
    <3>1. CASE ~Changes(s, i)
      BY <1>16, <2>1, <2>2, <3>1
    <3>2. CASE Changes(s, i)
      <4>1. CallsInv(Locked(attr) \cup {s}, WithDef(attr'), stack \o OwnCall(s), curq, queue'[0])
        BY <1>2, <1>3, <1>4, <2>2, OwnStarts
      <4> QED
        BY <1>16, <2>1, <3>2, <4>1
    <3> QED
      BY <3>1, <3>2
  <2> QED
    BY <1>1, <1>2, <1>10, <2>1, <2>3, Assembled
<1> QED
  BY <1>10, <1>15, <1>16

LEMMA HandleDefineFuncKeeps ==
  ASSUME IInv, HandleDefineFunc
  PROVE  IInv'
<1> DEFINE e == NextEvent(0)
           s == e.slot
           a == [attr EXCEPT ![s].exists = TRUE, ![s].def = e.def, ![s].isf = TRUE, ![s].ood = TRUE]
           r == [attr[s] EXCEPT !.exists = TRUE, !.def = e.def, !.isf = TRUE, !.ood = TRUE]
           t == [r EXCEPT !.ood = TRUE, !.evaluating = TRUE]
<1>1. /\ Takes(0, {"DEFINE_FUNC"}) /\ queue' = Taken(0) /\ UNCHANGED <<curq, program, ops>>
      /\ attr'  = IF s[2] = Key THEN a ELSE Marked(a, s)
      /\ stack' = IF s[2] = Key THEN stack ELSE stack \o MarkCalls(a, s)
  BY DEF HandleDefineFunc
<1>2. /\ attr \in [Slot -> Attribute] /\ DefsInv(attr) /\ stack \in Seq(Frame)
      /\ CallsInv(Locked(attr), WithDef(attr), stack, curq, queue[0])
      /\ ops \in 0 .. program.maxOps
  BY Parts
<1>3. /\ stack # <<>> /\ Open(stack) /\ IsLoop(Last(stack)) /\ Last(stack).q = 0
      /\ e.type \in {"DEFINE_FUNC"} /\ e \in Event(0) /\ QueuesFit(Taken(0))
  BY <1>1, InDrain
<1>4. s \in Slot /\ e.def \in Paths
  BY <1>3, EventsAre
<1>5. attr[s] \in Attribute /\ e.def # Null
  BY <1>2, <1>4, PathsAssumption
<1>6. r \in Attribute /\ r.evaluating = attr[s].evaluating /\ r.def = e.def /\ r.isf
  BY <1>4, <1>5 DEF Attribute
<1>7. t \in Attribute /\ t.evaluating /\ t.def = e.def /\ t.isf
  BY <1>6 DEF Attribute
<1>8. s \in Locked(attr) <=> r.evaluating
  BY <1>4, <1>6 DEF Locked
<1>9. a = [attr EXCEPT ![s] = r]
  BY <1>2, <1>4, <1>5 DEF Attribute
<1> HIDE DEF r
<1>10. /\ a \in [Slot -> Attribute] /\ a[s] = r /\ DefsInv(a)
       /\ Locked(a) = IF r.evaluating THEN Locked(attr) \cup {s} ELSE Locked(attr) \ {s}
       /\ r.def # Null \/ attr[s].def = Null => WithDef(attr) \subseteq WithDef(a)
  <2> HIDE DEF s, e, a
  <2> QED
    BY <1>2, <1>4, <1>5, <1>6, <1>9, AttributeSet
<1>11. Marked(a, s) = [a EXCEPT ![s] = t]
  BY <1>6, <1>10 DEF Marked
<1> HIDE DEF t, a, s, e
<1>12. Locked(a) = Locked(attr) /\ WithDef(attr) \subseteq WithDef(a)
  BY <1>5, <1>6, <1>8, <1>10
<1>13. \A D : WithDef(attr) \subseteq D => CallsInv(Locked(attr), D, stack, curq, queue'[0])
  BY <1>2, <1>3, QueueKeeps
<1>14. CASE s[2] = Key
  <2>1. CallsInv(Locked(attr'), WithDef(attr'), stack', curq, queue'[0])
    BY <1>1, <1>12, <1>13, <1>14
  <2> QED
    BY <1>1, <1>2, <1>3, <1>10, <1>14, <2>1, Assembled
<1>15. CASE s[2] # Key
  <2>1. attr' = [a EXCEPT ![s] = t] /\ stack' = stack \o MarkCalls(a, s)
    BY <1>1, <1>11, <1>15
  <2>2. /\ attr' \in [Slot -> Attribute] /\ DefsInv(attr')
        /\ Locked(attr') = IF t.evaluating THEN Locked(a) \cup {s} ELSE Locked(a) \ {s}
        /\ t.def # Null \/ a[s].def = Null => WithDef(a) \subseteq WithDef(attr')
    BY <1>4, <1>5, <1>7, <1>10, <2>1, AttributeSet
  <2>3. Locked(attr') = Locked(attr) \cup {s} /\ WithDef(attr) \subseteq WithDef(attr')
    BY <1>5, <1>7, <1>12, <2>2
  <2>4. CallsInv(Locked(attr), WithDef(attr'), stack, curq, queue'[0])
    BY <1>13, <2>3
  <2>5. CallsInv(IF a[s].isf THEN Locked(attr) \cup {s} ELSE Locked(attr), WithDef(attr'),
                 stack \o MarkCalls(a, s), curq, queue'[0])
    BY <1>2, <1>3, <1>4, <1>10, <2>4, MarkStarts
  <2>6. CallsInv(Locked(attr'), WithDef(attr'), stack', curq, queue'[0])
    BY <1>6, <1>10, <2>1, <2>3, <2>5
  <2> QED
    BY <1>1, <1>2, <1>3, <2>2, <2>6, Assembled
<1> QED
  BY <1>14, <1>15

\* A set of numbers has a least one.
LEMMA Least ==
  ASSUME NEW T, T \subseteq Nat, T # {}
  PROVE  Min(T) \in T /\ \A y \in T : Min(T) <= y
<1>1. IsWellFoundedOn(OpToRel(<, Nat), Nat)
  BY NatLessThanWellFounded
<1>2. PICK x \in T : \A y \in T : ~(<<y, x>> \in OpToRel(<, Nat))
  BY <1>1, WFMin
<1>3. ASSUME NEW y \in T PROVE x <= y
  <2>1. ~(<<y, x>> \in OpToRel(<, Nat)) /\ x \in Nat /\ y \in Nat
    BY <1>2
  <2> QED
    BY <2>1 DEF OpToRel
<1> QED
  BY <1>3, Zenon DEF Min

\* addDependent makes dependents of dependents.
LEMMA DependentAdded ==
  ASSUME NEW s \in Seq(Dependent), NEW by \in Slot, NEW is \in BOOLEAN
  PROVE  AddDependent(s, by, is) \in Seq(Dependent)
<1> DEFINE I == {i \in 1 .. Len(s) : s[i].slot = by}
           k == Min(I)
           t == RemoveFirstMatch(s, LAMBDA d : d.slot = by)
           l == SubSeq(s, 1, k - 1)
           r == SubSeq(s, k + 1, Len(s))
<1>1. Len(s) \in Nat /\ \A i \in 1 .. Len(s) : s[i] \in Dependent
  BY SeqIs
<1>2. t \in Seq(Dependent)
  <2>1. CASE I = {}
    <3>1. t = s
      BY <2>1 DEF RemoveFirstMatch
    <3> QED
      BY <3>1
  <2>2. CASE I # {}
    <3>1. t = RemoveAt(s, k)
      BY <2>2, Zenon DEF RemoveFirstMatch, SelectInSeq
    <3>2. k \in I
      <4>1. I \subseteq Nat
        OBVIOUS
      <4> HIDE DEF I
      <4> QED
        BY <2>2, <4>1, Least
    <3>3. k \in 1 .. Len(s)
      BY <3>2
    <3>4. t = l \o r
      BY <3>1 DEF RemoveAt
    <3> HIDE DEF k, t
    <3>5. l \in Seq(Dependent)
      <4>1. \A i \in 1 .. k - 1 : s[i] \in Dependent
        BY <1>1, <3>3
      <4> QED
        BY <3>3, <4>1, SubSeqProperties
    <3>6. r \in Seq(Dependent)
      <4>1. \A i \in k + 1 .. Len(s) : s[i] \in Dependent
        BY <1>1, <3>3
      <4> QED
        BY <1>1, <3>3, <4>1, SubSeqProperties
    <3> HIDE DEF l, r
    <3> QED
      BY <3>4, <3>5, <3>6, ConcatProperties
  <2> QED
    BY <2>1, <2>2
<1>3. AddDependent(s, by, is) = <<[slot |-> by, is |-> is]>> \o t
  BY DEF AddDependent
<1>4. <<[slot |-> by, is |-> is]>> \in Seq(Dependent)
  BY DEF Dependent
<1> HIDE DEF t
<1> QED
  BY <1>2, <1>3, <1>4, ConcatProperties

LEMMA HandleDepKeeps ==
  ASSUME IInv, HandleDep
  PROVE  IInv'
<1> DEFINE e == NextEvent(2)
           s == e.slot
           n == AddDependent(attr[s].deps, e.by, e.type = "ADD_IS_DEP")
           r == [attr[s] EXCEPT !.exists = TRUE, !.deps = n]
<1>1. /\ Takes(2, {"ADDDEP", "ADD_IS_DEP"}) /\ queue' = Taken(2)
      /\ attr' = [attr EXCEPT ![s].exists = TRUE, ![s].deps = AddDependent(@, e.by, e.type = "ADD_IS_DEP")]
      /\ UNCHANGED <<stack, curq, program, ops>>
  BY DEF HandleDep
<1>2. /\ attr \in [Slot -> Attribute] /\ DefsInv(attr) /\ stack \in Seq(Frame)
      /\ CallsInv(Locked(attr), WithDef(attr), stack, curq, queue[0])
      /\ ops \in 0 .. program.maxOps
  BY Parts
<1>3. e \in Event(2) /\ QueuesFit(Taken(2)) /\ queue[2] # <<>>
  BY <1>1, InDrain
<1>4. s \in Slot /\ e.by \in Slot /\ Taken(2)[0] = queue[0]
  BY <1>3, EventsAre, Dequeueing
<1>5. attr[s] \in Attribute /\ attr[s].deps \in Seq(Dependent)
  BY <1>2, <1>4, Attributes
<1>6. n \in Seq(Dependent)
  <2>1. PICK is \in BOOLEAN : is = (e.type = "ADD_IS_DEP")
    OBVIOUS
  <2>2. n = AddDependent(attr[s].deps, e.by, is)
    BY <2>1
  <2> HIDE DEF n, s, e
  <2> QED
    BY <1>4, <1>5, <2>2, DependentAdded
<1>7. attr' = [attr EXCEPT ![s] = r]
  <2>1. attr' = [attr EXCEPT ![s].exists = TRUE, ![s].deps = n]
    BY <1>1, <1>2, <1>4, <1>5 DEF Attribute
  <2> HIDE DEF n
  <2> QED
    BY <1>2, <1>4, <1>5, <2>1 DEF Attribute
<1> HIDE DEF n
<1>8. /\ r \in Attribute /\ r.evaluating = attr[s].evaluating /\ r.def = attr[s].def
      /\ r.isf = attr[s].isf
  BY <1>5, <1>6 DEF Attribute
<1>9. (r.isf => r.def # Null) /\ (s \in Locked(attr) <=> r.evaluating)
  BY <1>2, <1>4, <1>8 DEF DefsInv, Locked
<1> HIDE DEF r, s, e
<1>10. /\ attr' \in [Slot -> Attribute] /\ DefsInv(attr')
       /\ Locked(attr') = IF r.evaluating THEN Locked(attr) \cup {s} ELSE Locked(attr) \ {s}
       /\ r.def # Null \/ attr[s].def = Null => WithDef(attr) \subseteq WithDef(attr')
  BY <1>2, <1>4, <1>7, <1>8, <1>9, AttributeSet
<1>11. Locked(attr') = Locked(attr) /\ WithDef(attr) \subseteq WithDef(attr')
  BY <1>8, <1>9, <1>10
<1>12. CallsInv(Locked(attr'), WithDef(attr'), stack', curq, queue'[0])
  <2>1. CallsInv(Locked(attr'), WithDef(attr), stack', curq, queue'[0])
    BY <1>1, <1>2, <1>4, <1>11
  <2> QED
    BY <1>11, <2>1, QueueKeeps
<1> QED
  BY <1>1, <1>2, <1>3, <1>10, <1>12, Assembled

LEMMA HandleNotifyKeeps ==
  ASSUME IInv, HandleNotify
  PROVE  IInv'
<1> DEFINE s == NextEvent(1).slot
           r == [attr[s] EXCEPT !.evaluating = TRUE]
           f == Evaluation("future", s, s, attr[s].def, FALSE)
<1>1. /\ Takes(1, {"NOTIFY"}) /\ attr[s].def # Null /\ ~attr[s].evaluating
      /\ queue' = Taken(1) /\ attr' = [attr EXCEPT ![s].evaluating = TRUE]
      /\ stack' = Append(stack, f) /\ UNCHANGED <<curq, program, ops>>
  BY DEF HandleNotify
<1>2. /\ attr \in [Slot -> Attribute] /\ DefsInv(attr) /\ stack \in Seq(Frame)
      /\ CallsInv(Locked(attr), WithDef(attr), stack, curq, queue[0])
      /\ ops \in 0 .. program.maxOps
  BY Parts
<1>3. /\ NextEvent(1) \in Event(1) /\ QueuesFit(Taken(1)) /\ queue[1] # <<>> /\ Open(stack)
  BY <1>1, InDrain
<1>4. s \in Slot /\ Taken(1)[0] = queue[0]
  BY <1>3, EventsAre, Dequeueing
<1>5. attr[s] \in Attribute /\ attr[s].def \in Paths
  BY <1>1, <1>2, <1>4, Attributes
<1>6. /\ attr' = [attr EXCEPT ![s] = r]
  BY <1>1, <1>2, <1>4
<1>7. r \in Attribute /\ r.evaluating /\ r.def = attr[s].def /\ r.isf = attr[s].isf
  BY <1>5 DEF Attribute
<1> HIDE DEF r
<1>8. /\ f \in Frame /\ f.kind = "future" /\ f.slot = s /\ f.at = "get"
  <2>1. PICK d \in Paths : d = attr[s].def
    BY <1>5
  <2>2. PICK b \in BOOLEAN : b = FALSE
    OBVIOUS
  <2>3. f = Evaluation("future", s, s, d, b)
    BY <2>1, <2>2
  <2> HIDE DEF s, f
  <2> QED
    BY <1>4, <2>3, Makes
<1>9. s \in WithDef(attr) /\ s \notin Locked(attr)
  BY <1>1, <1>4 DEF WithDef, Locked
<1> HIDE DEF f, s
<1>10. /\ attr' \in [Slot -> Attribute] /\ DefsInv(attr') /\ Locked(attr') = Locked(attr) \cup {s}
       /\ r.def # Null \/ attr[s].def = Null => WithDef(attr) \subseteq WithDef(attr')
  <2>1. r.isf => r.def # Null
    BY <1>1, <1>7
  <2> QED
    BY <1>2, <1>4, <1>6, <1>7, <2>1, AttributeSet
<1>11. IsEvaluation(f) /\ IsLock(f) /\ LockOf(f) = {s}
  BY <1>8 DEF IsEvaluation, IsLock, LockOf
<1>12. Proper(WithDef(attr), f)
  BY <1>8, <1>9 DEF Proper
<1>13. stack # <<>> => Follows(Last(stack), f)
  BY <1>3, <1>8 DEF Follows, Open
<1>14. f.kind \notin {"instant", "remaining", "sync"} /\ f.slot \notin Locked(attr)
  BY <1>8, <1>9
<1>15. CallsInv(Locked(attr) \cup LockOf(f), WithDef(attr), stack', curq, queue[0])
  BY <1>1, <1>2, <1>8, <1>12, <1>13, <1>14, PushKeeps
<1>16. CallsInv(Locked(attr'), WithDef(attr'), stack', curq, queue'[0])
  <2>1. CallsInv(Locked(attr'), WithDef(attr), stack', curq, queue'[0])
    BY <1>1, <1>4, <1>10, <1>11, <1>15
  <2>2. WithDef(attr) \subseteq WithDef(attr')
    BY <1>1, <1>7, <1>10
  <2> QED
    BY <2>1, <2>2, QueueKeeps
<1> QED
  BY <1>1, <1>2, <1>3, <1>10, <1>16, Assembled

LEMMA HandleNotifyNoneKeeps ==
  ASSUME IInv, HandleNotifyNone
  PROVE  IInv'
<1> DEFINE s == NextEvent(1).slot
           x == IF attr[s].isf \/ attr[s].def = Null THEN <<>> ELSE <<Failing(4)>>
<1>1. /\ Takes(1, {"NOTIFY"}) /\ queue' = Taken(1) /\ stack' = stack \o WildCall(s) \o x
      /\ UNCHANGED <<attr, curq, program, ops>>
  BY DEF HandleNotifyNone
<1>2. /\ attr \in [Slot -> Attribute] /\ DefsInv(attr) /\ stack \in Seq(Frame)
      /\ CallsInv(Locked(attr), WithDef(attr), stack, curq, queue[0])
      /\ ops \in 0 .. program.maxOps
  BY Parts
<1>3. NextEvent(1) \in Event(1) /\ QueuesFit(Taken(1)) /\ queue[1] # <<>> /\ Open(stack)
  BY <1>1, InDrain
<1>4. s \in Slot /\ Taken(1)[0] = queue[0]
  BY <1>3, EventsAre, Dequeueing
<1> DEFINE st == stack \o WildCall(s)
<1>5. x = <<>> \/ x = <<Failing(4)>>
  OBVIOUS
<1> HIDE DEF s, x
<1>6. CallsInv(Locked(attr), WithDef(attr), st, curq, queue[0]) /\ Open(st)
  BY <1>2, <1>3, <1>4, WildStarts
<1> HIDE DEF st
<1>7. CallsInv(Locked(attr), WithDef(attr), st \o x, curq, queue[0])
  <2>1. CASE x = <<>>
    <3>1. st \in Seq(Frame)
      BY <1>6 DEF CallsInv
    <3>2. st \o <<>> = st
      BY <3>1, ConcatEmptySeq
    <3> QED
      BY <1>6, <2>1, <3>2
  <2>2. CASE x = <<Failing(4)>>
    <3>1. PICK g \in Frame : g = Failing(4) /\ g.kind = "error"
      <4>1. Failing(4) \in Frame /\ Failing(4).kind = "error"
        BY DEF Failing, Frame
      <4> QED
        BY <4>1, Zenon
    <3>2. ~IsLock(g) /\ Locked(attr) \cup LockOf(g) = Locked(attr)
      BY <3>1 DEF IsLock, IsEvaluation, LockOf
    <3>3. /\ CallsInv(Locked(attr) \cup LockOf(g), WithDef(attr), Append(st, g), curq, queue[0])
          /\ st \o <<g>> = Append(st, g)
      BY <1>6, <3>1, <3>2, PlainStarts
    <3> QED
      BY <2>2, <3>1, <3>2, <3>3
  <2> QED
    BY <1>5, <2>1, <2>2
<1>8. CallsInv(Locked(attr), WithDef(attr), stack', curq, queue'[0])
  BY <1>1, <1>4, <1>7 DEF st
<1> QED
  BY <1>1, <1>2, <1>3, <1>8, Assembled

\* The next phase of an instant starts, or the instant ends.
LEMMA NextPhaseKeeps ==
  ASSUME IInv, NextPhase
  PROVE  IInv'
<1>1. /\ stack # <<>> /\ Top.kind = "instant" /\ UNCHANGED <<attr, queue, program, ops>>
      /\ \/ Top.q < 2 /\ curq' = Top.q + 1 /\ stack' = Append(Front(stack), Instant(Top.q + 1))
         \/ Top.q = 2 /\ curq' = -1 /\ stack' = Front(stack)
  BY DEF NextPhase
<1>2. /\ attr \in [Slot -> Attribute] /\ DefsInv(attr) /\ stack \in Seq(Frame)
      /\ CallsInv(Locked(attr), WithDef(attr), stack, curq, queue[0])
      /\ ops \in 0 .. program.maxOps /\ QueuesFit(queue) /\ Top = Last(stack)
  BY Parts DEF QueuesFit, IInv, Top
<1>3. /\ CallsInv(Locked(attr), WithDef(attr), Front(stack), -1, queue[0])
      /\ NoInstant(Front(stack)) /\ Top \in Frame
  BY <1>1, <1>2, PopKeeps
<1>4. Top.q \in 0 .. 2
  BY <1>1, <1>3, Frames
<1>5. CASE Top.q < 2 /\ curq' = Top.q + 1 /\ stack' = Append(Front(stack), Instant(Top.q + 1))
  <2>1. PICK q \in 0 .. 2 : q = Top.q + 1
    BY <1>4, <1>5
  <2>2. CallsInv(Locked(attr), WithDef(attr), Append(Front(stack), Instant(q)), q, queue[0])
    BY <1>3, InstantKeeps
  <2>3. CallsInv(Locked(attr), WithDef(attr), stack', curq', queue[0])
    BY <1>5, <2>1, <2>2
  <2> QED
    BY <1>1, <1>2, <2>3, Assembled
<1>6. CASE Top.q = 2 /\ curq' = -1 /\ stack' = Front(stack)
  <2>1. CallsInv(Locked(attr), WithDef(attr), stack', curq', queue[0])
    BY <1>3, <1>6
  <2> QED
    BY <1>1, <1>2, <2>1, Assembled
<1> QED
  BY <1>1, <1>5, <1>6

\* Another queue is drained while an instant is in progress.
LEMMA CurqKeeps ==
  ASSUME NEW L, NEW D, NEW st, NEW cq, NEW cr \in -1 .. 2, NEW q0, CallsInv(L, D, st, cq, q0),
         ~NoInstant(st)
  PROVE  CallsInv(L, D, st, cr, q0)
BY DEF CallsInv, Instants

\* The next phase of a nested drain starts, or the drain ends.
LEMMA RemainingPhaseKeeps ==
  ASSUME IInv, RemainingPhase
  PROVE  IInv'
<1>1. /\ stack # <<>> /\ Top.kind = "remaining" /\ UNCHANGED <<attr, queue, program, ops>>
      /\ queue[Top.q] = <<>>
      /\ \/ Top.q = 1 /\ curq' = 2 /\ stack' = Append(Front(stack), Remaining(2))
         \/ Top.q = 2 /\ curq' = 0 /\ stack' = Append(Front(stack), Remaining(0))
         \/ Top.q = 0 /\ curq' = 1 /\ stack' = Front(stack)
  BY DEF RemainingPhase
<1>2. /\ attr \in [Slot -> Attribute] /\ DefsInv(attr) /\ stack \in Seq(Frame)
      /\ CallsInv(Locked(attr), WithDef(attr), stack, curq, queue[0])
      /\ ops \in 0 .. program.maxOps /\ QueuesFit(queue) /\ Top = Last(stack)
  BY Parts DEF QueuesFit, IInv, Top
<1>3. /\ CallsInv(Locked(attr) \ LockOf(Top), WithDef(attr), Front(stack), curq, queue[0])
      /\ ~NoInstant(Front(stack)) /\ Top \in Frame
      /\ Front(stack) # <<>> => Follows(Last(Front(stack)), Top)
  BY <1>1, <1>2, PopKeeps
<1>4. Locked(attr) \ LockOf(Top) = Locked(attr)
  BY <1>1 DEF LockOf, IsLock, IsEvaluation
<1>5. curq' \in -1 .. 2
  BY <1>1
<1>6. CallsInv(Locked(attr), WithDef(attr), Front(stack), curq', queue[0])
  BY <1>3, <1>4, <1>5, CurqKeeps
<1>7. ASSUME NEW q \in {0, 2}, q = 2 => queue[0] # <<>>
      PROVE  CallsInv(Locked(attr), WithDef(attr), Append(Front(stack), Remaining(q)), curq', queue[0])
  <2>1. PICK g \in Frame : g = Remaining(q) /\ g.kind = "remaining" /\ g.q = q
    <3>1. Remaining(q) \in Frame /\ Remaining(q).kind = "remaining" /\ Remaining(q).q = q
      BY DEF Remaining, Frame
    <3> QED
      BY <3>1, Zenon
  <2>2. ~IsLock(g) /\ LockOf(g) = {} /\ Proper(WithDef(attr), g)
    BY <2>1 DEF IsLock, IsEvaluation, LockOf, Proper
  <2>3. Front(stack) # <<>> => Follows(Last(Front(stack)), g)
    BY <1>1, <1>3, <2>1 DEF Follows, IsEvaluation
  <2>4. CallsInv(Locked(attr) \cup LockOf(g), WithDef(attr), Append(Front(stack), g), curq', queue[0])
    BY <1>3, <1>6, <1>7, <2>1, <2>2, <2>3, PushKeeps
  <2>5. Locked(attr) \cup LockOf(g) = Locked(attr)
    BY <2>2
  <2> QED
    BY <2>1, <2>4, <2>5
<1>8. Top.q = 1 => queue[0] # <<>>
  <2>1. ASSUME Top.q = 1, queue[0] = <<>> PROVE FALSE
    <3>1. /\ Len(stack) \in Nat \ {0} /\ Top = stack[Len(stack)]
      BY <1>1, <1>2, Popped
    <3>2. Fed(stack, Len(stack), queue[0])
      BY <1>1, <1>2, <2>1, <3>1 DEF CallsInv, SetsFit
    <3>3. PICK j \in 1 .. Len(stack) : j > Len(stack)
      BY <2>1, <3>2 DEF Fed
    <3> QED
      BY <3>1, <3>3
  <2> QED
    BY <2>1
<1>9. CallsInv(Locked(attr), WithDef(attr), stack', curq', queue[0])
  <2>1. ASSUME Top.q = 1, stack' = Append(Front(stack), Remaining(2))
        PROVE  CallsInv(Locked(attr), WithDef(attr), stack', curq', queue[0])
    BY <1>7, <1>8, <2>1
  <2>2. ASSUME stack' = Append(Front(stack), Remaining(0))
        PROVE  CallsInv(Locked(attr), WithDef(attr), stack', curq', queue[0])
    <3>1. CallsInv(Locked(attr), WithDef(attr), Append(Front(stack), Remaining(0)), curq', queue[0])
      BY <1>7
    <3> QED
      BY <2>2, <3>1
  <2>3. ASSUME stack' = Front(stack)
        PROVE  CallsInv(Locked(attr), WithDef(attr), stack', curq', queue[0])
    BY <1>6, <2>3
  <2> QED
    BY <1>1, <2>1, <2>2, <2>3
<1> QED
  BY <1>1, <1>2, <1>9, Assembled

\* A synchronous operation calls processRemaining.
LEMMA SyncRemainingKeeps ==
  ASSUME IInv, SyncRemaining
  PROVE  IInv'
<1>1. /\ stack # <<>> /\ Top = Sync /\ UNCHANGED <<attr, queue, program, ops>>
      /\ IF curq = 1 THEN stack' = Append(Front(stack), Remaining(1)) /\ UNCHANGED curq
                     ELSE ProcessInstant(Front(stack))
  BY DEF SyncRemaining
<1>2. /\ attr \in [Slot -> Attribute] /\ DefsInv(attr) /\ stack \in Seq(Frame)
      /\ CallsInv(Locked(attr), WithDef(attr), stack, curq, queue[0])
      /\ ops \in 0 .. program.maxOps /\ QueuesFit(queue) /\ Top = Last(stack)
      /\ Idle <=> NoInstant(stack)
  BY Parts DEF QueuesFit, IInv, Top
<1>3. Top.kind = "sync" /\ Locked(attr) \ LockOf(Top) = Locked(attr)
  BY <1>1 DEF Sync, LockOf, IsLock, IsEvaluation
<1>4. /\ CallsInv(Locked(attr), WithDef(attr), Front(stack), curq, queue[0])
      /\ NoInstant(Front(stack)) <=> NoInstant(stack)
      /\ Front(stack) # <<>> => Follows(Last(Front(stack)), Top)
  <2>1. stack # <<>> /\ Top.kind \notin {"error", "instant"}
    BY <1>1, <1>3
  <2>2. /\ CallsInv(Locked(attr) \ LockOf(Top), WithDef(attr), Front(stack), curq, queue[0])
        /\ NoInstant(Front(stack)) <=> NoInstant(stack)
        /\ Front(stack) # <<>> => Follows(Last(Front(stack)), Top)
    BY <1>2, <2>1, PopKeeps
  <2> QED
    BY <1>3, <2>2
<1>5. CASE curq # 1
  <2>1. CallsInv(Locked(attr), WithDef(attr), stack', curq', queue[0])
    BY <1>1, <1>2, <1>4, <1>5, InstantMayStart
  <2> QED
    BY <1>1, <1>2, <2>1, Assembled
<1>6. CASE curq = 1
  <2>1. ~NoInstant(stack)
    BY <1>2, <1>6 DEF CallsInv, Instants
  <2>2. queue[0] # <<>>
    <3>1. Len(stack) \in Nat \ {0} /\ Top = stack[Len(stack)]
      BY <1>1, <1>2, Popped
    <3> QED
      BY <1>1, <1>2, <1>3, <2>1, <3>1 DEF CallsInv, SetsFit
  <2>3. PICK g \in Frame : g = Remaining(1) /\ g.kind = "remaining"
    <3>1. Remaining(1) \in Frame /\ Remaining(1).kind = "remaining"
      BY DEF Remaining, Frame
    <3> QED
      BY <3>1, Zenon
  <2>4. ~IsLock(g) /\ LockOf(g) = {} /\ Proper(WithDef(attr), g)
    BY <2>3 DEF IsLock, IsEvaluation, LockOf, Proper
  <2>5. Front(stack) # <<>> => Follows(Last(Front(stack)), g)
    BY <1>3, <1>4, <2>3 DEF Follows, IsEvaluation
  <2>6. CallsInv(Locked(attr) \cup LockOf(g), WithDef(attr), Append(Front(stack), g), curq, queue[0])
    BY <1>4, <2>1, <2>2, <2>3, <2>4, <2>5, PushKeeps
  <2>7. Locked(attr) \cup LockOf(g) = Locked(attr)
    BY <2>4
  <2>8. CallsInv(Locked(attr), WithDef(attr), stack', curq', queue[0])
    BY <1>1, <1>6, <2>3, <2>6, <2>7
  <2> QED
    BY <1>1, <1>2, <2>8, Assembled
<1> QED
  BY <1>5, <1>6

\* A synchronous set or define is sent, with the calls c in progress.
LEMMA SendKeeps ==
  ASSUME IInv, NEW c, NEW e \in Event(0), Sent(c, 0, e), UNCHANGED <<attr, program>>,
         ops' \in 0 .. program.maxOps, NoInstant(c) <=> Idle,
         CallsInv(Locked(attr), WithDef(attr), c, curq, queue'[0])
  PROVE  IInv'
<1>1. queue' = [queue EXCEPT ![0] = Append(@, e)] /\ ProcessInstant(c)
  BY DEF Sent
<1>2. QueuesFit(queue')
  <2>1. 0 \in 0 .. 2
    OBVIOUS
  <2> QED
    BY <1>1, <2>1, Queueing
<1>3. CallsInv(Locked(attr), WithDef(attr), stack', curq', queue'[0])
  BY <1>1, InstantMayStart
<1>4. attr \in [Slot -> Attribute] /\ DefsInv(attr)
  BY Parts
<1> QED
  BY <1>2, <1>3, <1>4, Assembled

LEMMA ErrorSetKeeps ==
  ASSUME IInv, ErrorSet
  PROVE  IInv'
<1> DEFINE x == IF Top.n > 0 THEN <<Failing(Top.n - 1), Sync>> ELSE <<>>
           c == Front(stack) \o x
<1>1. /\ stack # <<>> /\ Top.kind = "error" /\ Sent(c, 0, OtherSet)
      /\ UNCHANGED <<attr, program, ops>>
  BY DEF ErrorSet
<1>2. /\ stack \in Seq(Frame) /\ Top = Last(stack) /\ ops \in 0 .. program.maxOps
      /\ CallsInv(Locked(attr), WithDef(attr), stack, curq, queue[0])
      /\ Idle <=> NoInstant(stack)
  BY Parts DEF Top
<1>3. PICK e \in Event(0) : e = OtherSet
  <2>1. OtherSet \in Event(0)
    BY DEF Event
  <2> QED
    BY <2>1, Zenon
<1>4. queue'[0] # <<>>
  <2>1. queue' = [queue EXCEPT ![0] = Append(@, e)] /\ 0 \in 0 .. 2
    BY <1>1, <1>3 DEF Sent
  <2> QED
    BY <2>1, Queueing
<1>5. CallsInv(Locked(attr), WithDef(attr), stack, curq, queue'[0])
  BY <1>2, <1>4, QueueKeeps
<1>6. Locked(attr) \ LockOf(Top) = Locked(attr)
  BY <1>1 DEF LockOf, IsLock, IsEvaluation
<1>7. /\ CallsInv(Locked(attr), WithDef(attr), Front(stack), curq, queue'[0])
      /\ NoInstant(Front(stack)) <=> NoInstant(stack)
      /\ Front(stack) # <<>> => Follows(Last(Front(stack)), Top)
      /\ Top \in Frame
  <2>1. stack # <<>> /\ Top.kind # "instant"
    BY <1>1
  <2>2. /\ CallsInv(Locked(attr) \ LockOf(Top), WithDef(attr), Front(stack), curq, queue'[0])
        /\ NoInstant(Front(stack)) <=> NoInstant(stack)
        /\ Front(stack) # <<>> => Follows(Last(Front(stack)), Top)
        /\ Top \in Frame
    BY <1>2, <1>4, <1>5, <2>1, PopKeeps
  <2> QED
    BY <1>6, <2>2
<1>8. Open(Front(stack))
  BY <1>1, <1>7 DEF Open, Follows
<1>9. CallsInv(Locked(attr), WithDef(attr), c, curq, queue'[0]) /\ (NoInstant(c) <=> Idle)
  <2>1. CASE ~(Top.n > 0)
    <3>1. Front(stack) \in Seq(Frame)
      BY <1>7 DEF CallsInv
    <3>2. c = Front(stack)
      BY <2>1, <3>1, ConcatEmptySeq
    <3> HIDE DEF c
    <3> QED
      BY <1>2, <1>7, <3>2
  <2>2. CASE Top.n > 0
    <3>1. Top.n - 1 \in 0 .. 4
      <4>1. Top.n \in 0 .. 4
        BY <1>1, <1>7, Frames
      <4> QED
        BY <2>2, <4>1
    <3>2. PICK f \in Frame : f = Failing(Top.n - 1) /\ f.kind = "error"
      <4>1. \A n \in 0 .. 4 : Failing(n) \in Frame /\ Failing(n).kind = "error"
        BY DEF Failing, Frame
      <4> QED
        BY <3>1, <4>1
    <3>3. PICK g \in Frame : g = Sync /\ g.kind = "sync"
      <4>1. Sync \in Frame /\ Sync.kind = "sync"
        BY DEF Sync, Frame
      <4> QED
        BY <4>1, Zenon
    <3>4. /\ ~IsLock(f) /\ Locked(attr) \cup LockOf(f) = Locked(attr)
          /\ ~IsLock(g) /\ Locked(attr) \cup LockOf(g) = Locked(attr)
          /\ Proper(WithDef(attr), g)
      BY <3>2, <3>3 DEF IsLock, IsEvaluation, LockOf, Proper
    <3> DEFINE s == Append(Front(stack), f)
    <3>5. CallsInv(Locked(attr), WithDef(attr), s, curq, queue'[0])
      <4>1. CallsInv(Locked(attr) \cup LockOf(f), WithDef(attr), s, curq, queue'[0])
        BY <1>7, <1>8, <3>2, <3>4, PlainStarts
      <4> QED
        BY <3>4, <4>1
    <3>6. Front(stack) \in Seq(Frame) /\ Instants(Front(stack), curq)
      BY <1>7 DEF CallsInv
    <3>7. Last(s) = f /\ (NoInstant(s) <=> NoInstant(Front(stack)))
      BY <3>2, <3>6, Pushed, InstantsPushed
    <3>8. c = Append(s, g)
      <4>1. x = <<f, g>>
        BY <2>2, <3>2, <3>3
      <4>2. Front(stack) \o <<f, g>> = Append(Append(Front(stack), f), g)
        BY <3>6, Joins
      <4> HIDE DEF x
      <4> QED
        BY <4>1, <4>2
    <3> HIDE DEF s, c
    <3>9. s # <<>> => Follows(Last(s), g)
      BY <3>2, <3>3, <3>7 DEF Follows, IsEvaluation
    <3>10. CallsInv(Locked(attr) \cup LockOf(g), WithDef(attr), Append(s, g), curq, queue'[0])
      BY <1>4, <3>3, <3>4, <3>5, <3>9, PushKeeps
    <3>11. NoInstant(Append(s, g)) <=> NoInstant(s)
      <4>1. s \in Seq(Frame) /\ Instants(s, curq)
        BY <3>5 DEF CallsInv
      <4> QED
        BY <3>3, <4>1, InstantsPushed
    <3> QED
      BY <1>2, <1>7, <3>4, <3>7, <3>8, <3>10, <3>11
  <2> QED
    BY <2>1, <2>2
<1> HIDE DEF c
<1>10. Sent(c, 0, e) /\ ops' \in 0 .. program.maxOps /\ UNCHANGED <<attr, program>>
  BY <1>1, <1>2, <1>3
<1> QED
  BY <1>9, <1>10, SendKeeps

\* Code outside every handler starts a synchronous operation.
LEMMA MainStarts ==
  ASSUME IInv, stack = <<>>, NEW e \in Event(0), Sent(<<Sync>>, 0, e), UNCHANGED <<attr, program>>,
         ops' \in 0 .. program.maxOps
  PROVE  IInv'
<1>1. /\ stack \in Seq(Frame) /\ CallsInv(Locked(attr), WithDef(attr), stack, curq, queue[0])
      /\ Idle <=> NoInstant(stack)
  BY Parts
<1>2. queue'[0] # <<>>
  <2>1. queue' = [queue EXCEPT ![0] = Append(@, e)] /\ 0 \in 0 .. 2
    BY DEF Sent
  <2> QED
    BY <2>1, Queueing
<1>3. CallsInv(Locked(attr), WithDef(attr), stack, curq, queue'[0])
  BY <1>1, <1>2, QueueKeeps
<1>4. PICK g \in Frame : g = Sync /\ g.kind = "sync"
  <2>1. Sync \in Frame /\ Sync.kind = "sync"
    BY DEF Sync, Frame
  <2> QED
    BY <2>1, Zenon
<1>5. ~IsLock(g) /\ Locked(attr) \cup LockOf(g) = Locked(attr) /\ Proper(WithDef(attr), g)
  BY <1>4 DEF IsLock, IsEvaluation, LockOf, Proper
<1>6. CallsInv(Locked(attr) \cup LockOf(g), WithDef(attr), Append(stack, g), curq, queue'[0])
  BY <1>2, <1>3, <1>4, <1>5, PushKeeps
<1>7. NoInstant(Append(stack, g)) <=> NoInstant(stack)
  <2>1. Instants(stack, curq)
    BY <1>1 DEF CallsInv
  <2> QED
    BY <1>1, <1>4, <2>1, InstantsPushed
<1>8. Append(stack, g) = <<Sync>>
  BY <1>4
<1>9. CallsInv(Locked(attr), WithDef(attr), <<Sync>>, curq, queue'[0]) /\ (NoInstant(<<Sync>>) <=> Idle)
  BY <1>1, <1>5, <1>6, <1>7, <1>8
<1> QED
  BY <1>9, SendKeeps

LEMMA MainSendKeeps ==
  ASSUME IInv, NEW e \in program.ops, MainSend(e)
  PROVE  IInv'
<1>1. /\ stack = <<>> /\ ops < program.maxOps /\ ops' = ops + 1 /\ Sent(<<Sync>>, 0, e)
      /\ UNCHANGED <<attr, program>>
  BY DEF MainSend
<1>2. e \in Event(0) /\ program.maxOps \in Nat /\ ops \in 0 .. program.maxOps
  BY Parts, ProgramsAssumption
<1>3. ops' \in 0 .. program.maxOps
  BY <1>1, <1>2
<1> QED
  BY <1>1, <1>2, <1>3, MainStarts

LEMMA TickKeeps ==
  ASSUME IInv, Tick
  PROVE  IInv'
<1>1. stack = <<>> /\ Sent(<<Sync>>, 0, OtherSet) /\ UNCHANGED <<attr, program, ops>>
  BY DEF Tick
<1>2. OtherSet \in Event(0) /\ ops \in 0 .. program.maxOps
  BY Parts DEF Event
<1> QED
  BY <1>1, <1>2, MainStarts

-----------------------------------------------------------------------------
(***************************************************************************)
(* The theorems.                                                           *)
(***************************************************************************)
\* The invariant holds when the program starts.
LEMMA InitKeeps == Init => IInv
<1> SUFFICES ASSUME Init PROVE IInv
  OBVIOUS
<1>1. /\ attr = [s \in Slot |-> NoAttribute] /\ queue = [k \in 0 .. 2 |-> <<>>] /\ curq = -1
      /\ stack = <<>> /\ program \in Programs /\ ops = 0
  BY DEF Init
<1>2. NoAttribute \in Attribute
  <2>1. Null \in Value /\ <<>> \in Seq(Dependent)
    BY EmptySeq DEF Value
  <2> QED
    BY <2>1 DEF NoAttribute, Attribute
<1>3. /\ attr \in [Slot -> Attribute] /\ DefsInv(attr) /\ Locked(attr) = {}
  BY <1>1, <1>2 DEF DefsInv, Locked, NoAttribute
<1>4. TypeOK
  <2>1. \A k \in 0 .. 2 : queue[k] \in Seq(Event(k))
    BY <1>1, EmptySeq
  <2>2. stack \in Seq(Frame) /\ curq \in -1 .. 2
    BY <1>1, EmptySeq
  <2>3. ops \in 0 .. program.maxOps
    BY <1>1, ProgramsAssumption
  <2> QED
    BY <1>1, <1>3, <2>1, <2>2, <2>3 DEF TypeOK
<1>5. queue = [k \in 0 .. 2 |-> queue[k]]
  BY <1>1
<1>6. CallsInv(Locked(attr), WithDef(attr), stack, curq, queue[0])
  <2>1. stack \in Seq(Frame) /\ curq \in -1 .. 2 /\ Len(stack) = 0 /\ \A i \in 1 .. Len(stack) : FALSE
    BY <1>1, EmptySeq
  <2>2. LocksFit(Locked(attr), stack)
    BY <1>3, <2>1 DEF LocksFit
  <2>3. Nested(WithDef(attr), stack)
    BY <1>1, <2>1 DEF Nested
  <2>4. Instants(stack, curq)
    BY <1>1, <2>1 DEF Instants
  <2>5. SetsFit(stack, queue[0])
    BY <1>1, <2>1 DEF SetsFit
  <2> QED
    BY <2>1, <2>2, <2>3, <2>4, <2>5 DEF CallsInv
<1> QED
  BY <1>3, <1>4, <1>5, <1>6 DEF IInv

\* Every step of the virtual machine and of the main program keeps it.
LEMMA NextKeeps == IInv /\ [Next]_vars => IInv'
<1> SUFFICES ASSUME IInv, [Next]_vars PROVE IInv'
  OBVIOUS
<1>1. CASE NotifyDependent  BY <1>1, NotifyDependentKeeps
<1>2. CASE NotifyIsDependent  BY <1>2, NotifyIsDependentKeeps
<1>3. CASE NotifyDone  BY <1>3, NotifyDoneKeeps
<1>4. CASE GetEvaluates  BY <1>4, GetEvaluatesKeeps
<1>5. CASE GetAnswers  BY <1>5, GetAnswersKeeps
<1>6. CASE GetCyclic  BY <1>6, GetCyclicKeeps
<1>7. CASE CyclicAnswers  BY <1>7, CyclicAnswersKeeps
<1>8. CASE AddDep  BY <1>8, AddDepKeeps
<1>9. CASE FinishIs  BY <1>9, FinishIsKeeps
<1>10. CASE FinishWild  BY <1>10, FinishWildKeeps
<1>11. CASE FinishFuture  BY <1>11, FinishFutureKeeps
<1>12. CASE HandleSet  BY <1>12, HandleSetKeeps
<1>13. CASE HandleOtherSet  BY <1>13, HandleOtherSetKeeps
<1>14. CASE HandleDefine  BY <1>14, HandleDefineKeeps
<1>15. CASE HandleDefineFunc  BY <1>15, HandleDefineFuncKeeps
<1>16. CASE HandleDep  BY <1>16, HandleDepKeeps
<1>17. CASE HandleNotify  BY <1>17, HandleNotifyKeeps
<1>18. CASE HandleNotifyNone  BY <1>18, HandleNotifyNoneKeeps
<1>19. CASE NextPhase  BY <1>19, NextPhaseKeeps
<1>20. CASE RemainingPhase  BY <1>20, RemainingPhaseKeeps
<1>21. CASE SyncRemaining  BY <1>21, SyncRemainingKeeps
<1>22. CASE ErrorSet  BY <1>22, ErrorSetKeeps
<1>23. CASE Tick  BY <1>23, TickKeeps
<1>24. ASSUME NEW e \in program.ops, MainSend(e) PROVE IInv'
  BY <1>24, MainSendKeeps
<1>25. ASSUME NEW s \in program.reads, MainGet(s) PROVE IInv'
  BY <1>25, MainGetKeeps
<1>26. CASE UNCHANGED vars
  <2>1. UNCHANGED <<attr, queue, curq, stack, program, ops>>
    BY <1>26 DEF vars
  <2>2. /\ attr \in [Slot -> Attribute] /\ DefsInv(attr) /\ ops \in 0 .. program.maxOps
        /\ CallsInv(Locked(attr), WithDef(attr), stack, curq, queue[0])
        /\ QueuesFit(queue)
    BY Parts DEF QueuesFit, IInv
  <2> QED
    BY <2>1, <2>2, Assembled
<1> QED
  BY <1>1, <1>2, <1>3, <1>4, <1>5, <1>6, <1>7, <1>8, <1>9, <1>10, <1>11, <1>12, <1>13, <1>14,
     <1>15, <1>16, <1>17, <1>18, <1>19, <1>20, <1>21, <1>22, <1>23, <1>24, <1>25, <1>26
     DEF Next, Machine

\* The inductive invariant holds in every behaviour of the store.
THEOREM Inductive == Spec => []IInv
BY InitKeeps, NextKeeps, PTL DEF Spec

\* The variables have their types, and every event is in the queue of its type.
THEOREM TypeCorrect == Spec => []TypeOK
<1>1. IInv => TypeOK
  BY DEF IInv
<1> QED
  BY <1>1, Inductive, PTL

\* What the locks of attributes promise: evaluateDefinition and notifyAll unlock
\* whatever they locked, and neither is entered for an attribute it is running for.
THEOREM LocksCorrect == Spec => []LockedIsRunning
<1>1. IInv => LockedIsRunning
  <2> SUFFICES ASSUME IInv, NEW s \in Slot
               PROVE  LET running == {i \in DOMAIN stack :
                                        /\ \/ IsEvaluation(stack[i])
                                           \/ stack[i].kind = "notify" /\ stack[i].own
                                        /\ stack[i].slot = s}
                      IN  /\ attr[s].evaluating <=> running # {}
                          /\ \A i, j \in running : i = j
    BY DEF LockedIsRunning
  <2> DEFINE running == {i \in DOMAIN stack :
                           /\ \/ IsEvaluation(stack[i])
                              \/ stack[i].kind = "notify" /\ stack[i].own
                           /\ stack[i].slot = s}
  <2>1. /\ stack \in Seq(Frame) /\ DOMAIN stack = 1 .. Len(stack)
        /\ LocksFit(Locked(attr), stack)
    BY Parts, SeqIs DEF CallsInv
  <2>2. \A i : i \in running <=> Holds(stack, i, s)
    BY <2>1 DEF Holds, IsLock
  <2>3. s \in Locked(attr) <=> attr[s].evaluating
    BY DEF Locked
  <2> HIDE DEF running
  <2>4. attr[s].evaluating <=> running # {}
    BY <2>1, <2>2, <2>3 DEF LocksFit, Holds
  <2>5. ASSUME NEW i \in running, NEW j \in running PROVE i = j
    BY <2>1, <2>2 DEF LocksFit, Holds
  <2> QED
    BY <2>4, <2>5 DEF running
<1> QED
  BY <1>1, Inductive, PTL

\* processRemaining finds the sets it goes on to, however drains nest: the one a
\* synchronous operation sent stays queued, or an Error in between queues another.
THEOREM RemainingCorrect == Spec => []RemainingFindsSets
<1>1. IInv => RemainingFindsSets
  <2> SUFFICES ASSUME IInv, stack # <<>>, Top = Remaining(2), queue[0] = <<>> PROVE FALSE
    BY DEF RemainingFindsSets
  <2>1. /\ stack \in Seq(Frame) /\ SetsFit(stack, queue[0])
        /\ Top.kind = "remaining" /\ Top.q = 2
    BY Parts DEF CallsInv, Remaining
  <2>2. Len(stack) \in Nat \ {0} /\ Top = stack[Len(stack)]
    BY <2>1, Popped DEF Top
  <2>3. Fed(stack, Len(stack), queue[0])
    BY <2>1, <2>2 DEF SetsFit
  <2>4. PICK j \in 1 .. Len(stack) : j > Len(stack)
    BY <2>3 DEF Fed
  <2> QED
    BY <2>2, <2>4
<1> QED
  BY <1>1, Inductive, PTL

-----------------------------------------------------------------------------
(***************************************************************************)
(* Plain programs: the attributes settle.  The invariant of a plain        *)
(* program m with the ranks rank: attributes a, calls st, started by       *)
(* 'by', the queue being drained cq, and the events q0, q1 and q2 of the   *)
(* three queues.                                                           *)
(***************************************************************************)
Own(f)    == f.kind = "notify" /\ f.own
Calls(st) == {st[i] : i \in 1 .. Len(st)}

\* What started the calls: a read of the main program, or what it has sent.
By(st) == IF st # <<>> /\ st[1].kind = "is" THEN "read" ELSE "send"

\* Notifications run while sets are drained, and those of $ while NOTIFYs are;
\* evaluations run while NOTIFYs are drained, or for a read of the main program.
CallFits(by, cq, f) ==
  /\ f.kind \in {"sync", "instant", "notify", "is", "future"}
  /\ f.kind = "sync" => by = "send"
  /\ f.kind = "instant" => f.q = cq
  /\ f.kind = "notify" => /\ by = "send" /\ cq \in {0, 1}
                          /\ IF f.own THEN cq = 0 ELSE f.slot[2] = Key
  /\ f.kind = "future" => by = "send" /\ cq = 1
  /\ f.kind = "is" => by = "read" \/ cq = 1

\* Call g may be right above f, and anywhere above it: notifications go up the ranks,
\* evaluations go down.
Above(f, g) ==
  /\ f.kind = "sync" => g.kind = "instant"
  /\ f.kind = "instant" => g.kind \in {"notify", "future"}
  /\ f.kind = "notify" => g.kind = "notify"
  /\ f.kind = "future" => g.kind = "is"
  /\ f.kind = "is" => g.kind \in {"is", "instant"}
  /\ IsEvaluation(f) /\ IsEvaluation(g) => f.at = "get" /\ g.slot = Asked(f)
Higher(rank, f, g) ==
  /\ f.kind = "instant" => g.kind # "instant"
  /\ f.kind = "notify" => g.kind = "notify"
  /\ Own(f) /\ Own(g) => rank[f.slot] < rank[g.slot]
  /\ IsEvaluation(f) /\ IsEvaluation(g) => rank[g.slot] < rank[f.slot]

Shape(rank, st, cq) ==
  /\ st # <<>> => st[1].kind \in {"sync", "instant", "is"}
  /\ \A i \in 1 .. Len(st) : CallFits(By(st), cq, st[i])
  /\ \A i \in 1 .. Len(st) - 1 : Above(st[i], st[i + 1])
  /\ \A i, j \in 1 .. Len(st) : i < j => Higher(rank, st[i], st[j])

\* An attribute that is out of date; the entry of s among the dependents of another.
Stale(a, s) == a[s].isf /\ a[s].ood
Entry(a, s) == [slot |-> s, is |-> a[s].isf]

\* The queued sets are results of definitions, and then at most one of the main program,
\* which is drained at once.
SetFits(m, a, cq, q0, i) ==
  IF q0[i].type = "SET_BYDEF"
  THEN a[q0[i].slot].def # Null /\ ~a[q0[i].slot].isf
  ELSE i = Len(q0) /\ cq = 0 /\ q0[i] \in m.ops \cup {OtherSet}
SetsPlain(m, a, by, cq, q0) ==
  /\ by = "read" => q0 = <<>>
  /\ \A i \in 1 .. Len(q0) : SetFits(m, a, cq, q0, i)

NotifiesPlain(by, cq, q1) == q1 # <<>> => by = "send" /\ cq \in {0, 1}

\* A dependency is of a defined attribute on one of a lower rank that is up to date.
DepFits(rank, a, e) ==
  /\ a[e.by].def # Null /\ rank[e.slot] < rank[e.by] /\ e.slot[2] # Key /\ ~Stale(a, e.slot)
  /\ e = DepEvent(a[e.by].isf, e.slot, e.by)
DepsPlain(rank, a, by, cq, q2) ==
  /\ q2 # <<>> => cq # -1 /\ (by = "read" \/ cq # 0)
  /\ \A i \in 1 .. Len(q2) : DepFits(rank, a, q2[i])

SlotFits(m, rank, a, s) ==
  /\ ~a[s].exists => a[s].val = Null /\ a[s].def = Null
  /\ a[s].def # Null => s \in DefinedBy(m) /\ Ranked(rank, s, a[s].def)
  /\ s[2] = Key => ~a[s].exists /\ a[s].deps = <<>>
  /\ \A j \in 1 .. Len(a[s].deps) :
       a[a[s].deps[j].slot].def # Null /\ rank[s] < rank[a[s].deps[j].slot]

\* What s has read of r counts: r is up to date and s is a dependent of it, or the
\* dependency is queued.
Registered(a, q2, r, s) ==
  \/ \E j \in 1 .. Len(a[r].deps) : a[r].deps[j] = Entry(a, s)
  \/ \E j \in 1 .. Len(q2) : q2[j] = DepEvent(a[s].isf, r, s)
Fresh(a, q2, r, s) == ~Stale(a, r) /\ Registered(a, q2, r, s)

\* The first m keys of definition d lead along c to v, by way of attributes that s has
\* read and that have not changed since.
Through(c, d, i) == <<c[i - 1], d.keys[i]>>
Leads(a, q2, s, d, m, c) ==
  \A i \in 1 .. m : a[Through(c, d, i)].val = c[i] /\ Fresh(a, q2, Through(c, d, i), s)
Steady(a, q2, s, d, m, v) ==
  \E c \in [0 .. Len(d.keys) -> Value] : c[0] = d.base /\ c[m] = v /\ Leads(a, q2, s, d, m, c)

EvaluationFits(a, q2, f) ==
  /\ f.ctx = f.slot /\ f.def = a[f.slot].def /\ f.is = a[f.slot].isf
  /\ IF f.kind = "is" THEN Stale(a, f.slot) ELSE ~a[f.slot].isf
  /\ f.at \in {"get", "dep"}
  /\ f.pos <= Len(f.def.keys) + 1
  /\ Steady(a, q2, f.slot, f.def, f.pos - 1, f.res)
  /\ f.at = "dep" => /\ f.pos <= Len(f.def.keys)
                     /\ a[Asked(f)].val = f.ans /\ ~Stale(a, Asked(f))

\* The dependents that a notification has been through know of it.
Notified(q1, s) == \E i \in 1 .. Len(q1) : q1[i].slot = s
Told(a, q1, e)  == e = Entry(a, e.slot) => IF e.is THEN a[e.slot].ood ELSE Notified(q1, e.slot)
NotificationFits(a, q1, f) ==
  \A j \in 1 .. Len(a[f.slot].deps) : j < f.i => Told(a, q1, a[f.slot].deps[j])

\* Nobody depends upon an attribute that is out of date, once its notification is over.
Unneeded(a, F, s) == Stale(a, s) => a[s].deps = <<>> \/ \E f \in F : Own(f) /\ f.slot = s

\* A defined attribute is still to be notified, or waits for its evaluation, or has the
\* value of its definition, if only when the last set queued for it is handled.
DueBy(a, f, s) == Own(f) /\ \E j \in 1 .. Len(a[f.slot].deps) :
                               j >= f.i /\ a[f.slot].deps[j] = Entry(a, s)
Due(a, F, s)   == \E f \in F : DueBy(a, f, s)
Running(F, s)  == \E f \in F : f.kind = "future" /\ f.slot = s
Waiting(a, q1, F, s) == IF a[s].isf THEN a[s].ood ELSE Notified(q1, s) \/ Running(F, s)
SetFor(e, s) == e.type = "SET_BYDEF" /\ e.slot = s
Outcome(a, q0, s, v) ==
  \/ a[s].val = v /\ \A i \in 1 .. Len(q0) : ~SetFor(q0[i], s)
  \/ \E i \in 1 .. Len(q0) : /\ SetFor(q0[i], s) /\ q0[i].v = v
                             /\ \A j \in 1 .. Len(q0) : j > i => ~SetFor(q0[j], s)
Current(a, q0, q2, s) ==
  \E v \in Value : Outcome(a, q0, s, v) /\ Steady(a, q2, s, a[s].def, Len(a[s].def.keys), v)
Settled(a, q0, q1, q2, F, s) ==
  a[s].def # Null => Due(a, F, s) \/ Waiting(a, q1, F, s) \/ Current(a, q0, q2, s)

Typed(rank, a, F, cq, q0, q1, q2) ==
  /\ rank \in [Slot -> Nat] /\ a \in [Slot -> Attribute] /\ DefsInv(a)
  /\ F \subseteq Frame /\ cq \in -1 .. 2
  /\ q0 \in Seq(Event(0)) /\ q1 \in Seq(Event(1)) /\ q2 \in Seq(Event(2))

Queues(rank, m, a, by, cq, q0, q1, q2) ==
  SetsPlain(m, a, by, cq, q0) /\ NotifiesPlain(by, cq, q1) /\ DepsPlain(rank, a, by, cq, q2)

InCall(a, F, q1, q2) ==
  \A f \in F : /\ IsEvaluation(f) => EvaluationFits(a, q2, f)
               /\ Own(f) => NotificationFits(a, q1, f)

Data(rank, m, a, F, by, cq, q0, q1, q2) ==
  /\ Typed(rank, a, F, cq, q0, q1, q2)
  /\ Queues(rank, m, a, by, cq, q0, q1, q2)
  /\ \A s \in Slot : SlotFits(m, rank, a, s)
  /\ InCall(a, F, q1, q2)
  /\ \A s \in Slot : Unneeded(a, F, s)
  /\ \A s \in Slot : Settled(a, q0, q1, q2, F, s)

PlainInv(rank, m, a, st, cq, q0, q1, q2) ==
  /\ st \in Seq(Frame) /\ Shape(rank, st, cq)
  /\ Data(rank, m, a, Calls(st), By(st), cq, q0, q1, q2)
-----------------------------------------------------------------------------
(***************************************************************************)
(* The calls as a set, and their shape.                                    *)
(***************************************************************************)
\* A call above the others, and the end of the innermost one.
LEMMA CallsPushed ==
  ASSUME NEW st \in Seq(Frame), NEW f \in Frame
  PROVE  Calls(Append(st, f)) = Calls(st) \cup {f}
<1> DEFINE su == Append(st, f)
           n  == Len(st)
<1>1. /\ n \in Nat /\ Len(su) = n + 1
      /\ \A i \in 1 .. n : su[i] = st[i]
      /\ su[n + 1] = f
  BY Pushed, SeqIs
<1> HIDE DEF su, n
<1>2. \A i \in 1 .. n : i \in 1 .. Len(su)
  BY <1>1
<1>3. n + 1 \in 1 .. Len(su)
  BY <1>1
<1>4. \A i \in 1 .. Len(su) : i \in 1 .. n \/ i = n + 1
  BY <1>1
<1>5. Calls(st) = {st[i] : i \in 1 .. n} /\ Calls(su) = {su[i] : i \in 1 .. Len(su)}
  BY DEF Calls, n
<1>6. ASSUME NEW g \in Calls(su) PROVE g \in Calls(st) \cup {f}
  <2>1. PICK i \in 1 .. Len(su) : g = su[i]
    BY <1>5
  <2> QED
    BY <1>1, <1>4, <1>5, <2>1
<1>7. ASSUME NEW g \in Calls(st) PROVE g \in Calls(su)
  <2>1. PICK i \in 1 .. n : g = st[i]
    BY <1>5
  <2> QED
    BY <1>1, <1>2, <1>5, <2>1
<1>8. f \in Calls(su)
  BY <1>1, <1>3, <1>5
<1> QED
  BY <1>6, <1>7, <1>8 DEF su

LEMMA CallsPopped ==
  ASSUME NEW st \in Seq(Frame), st # <<>>
  PROVE  /\ Calls(st) = Calls(Front(st)) \cup {Last(st)} /\ Calls(Front(st)) \subseteq Frame
         /\ Front(st) \in Seq(Frame) /\ Last(st) \in Frame /\ Append(Front(st), Last(st)) = st
<1>1. Front(st) \in Seq(Frame) /\ Last(st) \in Frame /\ Append(Front(st), Last(st)) = st
  <2>1. /\ Front(st) \in Seq(Frame) /\ Last(st) \in Frame
        /\ Len(st) \in Nat \ {0} /\ Len(Front(st)) = Len(st) - 1
        /\ \A i \in 1 .. Len(st) - 1 : Front(st)[i] = st[i]
        /\ Last(st) = st[Len(st)]
    BY Popped
  <2>2. PICK su \in Seq(Frame) : su = Front(st)
    BY <2>1
  <2>3. PICK f \in Frame : f = Last(st)
    BY <2>1
  <2>4. /\ Append(su, f) \in Seq(Frame) /\ Len(Append(su, f)) = Len(su) + 1
        /\ \A i \in 1 .. Len(su) : Append(su, f)[i] = su[i]
        /\ Append(su, f)[Len(su) + 1] = f
    BY Pushed
  <2>5. PICK n \in Nat : n + 1 = Len(st) /\ n = Len(su)
    BY <2>1, <2>2
  <2>6. \A i \in 1 .. Len(st) : Append(su, f)[i] = st[i]
    <3> SUFFICES ASSUME NEW i \in 1 .. Len(st) PROVE Append(su, f)[i] = st[i]
      OBVIOUS
    <3>1. CASE i = n + 1
      BY <2>1, <2>3, <2>4, <2>5, <3>1
    <3>2. CASE i \in 1 .. n
      BY <2>1, <2>2, <2>4, <2>5, <3>2
    <3> QED
      BY <2>5, <3>1, <3>2
  <2>7. Append(su, f) = st
    BY <2>4, <2>5, <2>6, SeqEqual
  <2> QED
    BY <2>1, <2>2, <2>3, <2>7
<1>2. PICK su \in Seq(Frame) : su = Front(st)
  BY <1>1
<1>3. PICK f \in Frame : f = Last(st)
  BY <1>1
<1>4. Calls(Append(su, f)) = Calls(su) \cup {f}
  BY CallsPushed
<1>5. Calls(su) \subseteq Frame
  BY SeqIs DEF Calls
<1> QED
  BY <1>1, <1>2, <1>3, <1>4, <1>5

\* What started the calls stays the same above the first.
LEMMA ByFirst ==
  ASSUME NEW st \in Seq(Frame)
  PROVE  /\ By(st) \in {"read", "send"} /\ By(<<>>) = "send"
         /\ st # <<>> => By(st) = IF st[1].kind = "is" THEN "read" ELSE "send"
         /\ \A su \in Seq(Frame) : st # <<>> /\ su # <<>> /\ su[1].kind = st[1].kind => By(su) = By(st)
BY DEF By

\* A call starts above the others.
LEMMA ShapePushed ==
  ASSUME NEW rank, NEW cq, NEW st \in Seq(Frame), NEW f \in Frame, Shape(rank, st, cq),
         st # <<>> => CallFits(By(st), cq, f) /\ Above(Last(st), f),
         st = <<>> => CallFits(By(<<f>>), cq, f) /\ f.kind \in {"sync", "instant", "is"},
         \A g \in Calls(st) : Higher(rank, g, f)
  PROVE  /\ Shape(rank, Append(st, f), cq)
         /\ By(Append(st, f)) = IF st = <<>> THEN By(<<f>>) ELSE By(st)
<1> DEFINE su == Append(st, f)
           n  == Len(st)
<1>1. /\ su \in Seq(Frame) /\ su # <<>> /\ n \in Nat /\ Len(su) = n + 1
      /\ \A i \in 1 .. n : su[i] = st[i]
      /\ su[n + 1] = f
      /\ n = 0 <=> st = <<>>
  BY Pushed, SeqIs, EmptySeq
<1>2. /\ st # <<>> => st[1].kind \in {"sync", "instant", "is"}
      /\ \A i \in 1 .. n : CallFits(By(st), cq, st[i])
      /\ \A i \in 1 .. n - 1 : Above(st[i], st[i + 1])
      /\ \A i, j \in 1 .. n : i < j => Higher(rank, st[i], st[j])
  BY DEF Shape
<1>3. st # <<>> => Last(st) = st[n]
  BY DEF Last
<1>4. \A i \in 1 .. n : st[i] \in Calls(st)
  BY DEF Calls
<1> HIDE DEF su, n
<1>5. By(su) = IF st = <<>> THEN By(<<f>>) ELSE By(st)
  <2>1. CASE st = <<>>
    <3>1. su[1] = f /\ <<f>> # <<>> /\ <<f>>[1] = f
      BY <1>1, <2>1
    <3> QED
      BY <1>1, <2>1, <3>1 DEF By
  <2>2. CASE st # <<>>
    <3>1. su[1] = st[1]
      BY <1>1, <2>2
    <3> QED
      BY <1>1, <2>2, <3>1 DEF By
  <2> QED
    BY <2>1, <2>2
<1>6. su[1].kind \in {"sync", "instant", "is"}
  <2>1. CASE n = 0
    BY <1>1, <2>1
  <2>2. CASE n # 0
    BY <1>1, <1>2, <2>2
  <2> QED
    BY <2>1, <2>2
<1>7. ASSUME NEW i \in 1 .. Len(su) PROVE CallFits(By(su), cq, su[i])
  <2>1. CASE i \in 1 .. n
    <3>1. st # <<>>
      BY <1>1, <2>1
    <3> QED
      BY <1>1, <1>2, <1>5, <2>1, <3>1
  <2>2. CASE i = n + 1
    BY <1>1, <1>5, <2>2
  <2> QED
    BY <1>1, <2>1, <2>2
<1>8. ASSUME NEW i \in 1 .. Len(su) - 1 PROVE Above(su[i], su[i + 1])
  <2>1. CASE i \in 1 .. n - 1
    BY <1>1, <1>2, <2>1
  <2>2. CASE i = n
    <3>1. su[i] = st[n] /\ su[i + 1] = f /\ st # <<>>
      BY <1>1, <2>2
    <3> QED
      BY <1>3, <3>1
  <2> QED
    BY <1>1, <2>1, <2>2
<1>9. ASSUME NEW i \in 1 .. Len(su), NEW j \in 1 .. Len(su), i < j PROVE Higher(rank, su[i], su[j])
  <2>1. CASE j \in 1 .. n
    <3>1. i \in 1 .. n
      BY <1>1, <1>9, <2>1
    <3> QED
      BY <1>1, <1>2, <1>9, <2>1, <3>1
  <2>2. CASE j = n + 1
    <3>1. i \in 1 .. n
      BY <1>1, <1>9, <2>2
    <3> QED
      BY <1>1, <1>4, <2>2, <3>1
  <2> QED
    BY <1>1, <2>1, <2>2
<1>10. Shape(rank, su, cq)
  BY <1>6, <1>7, <1>8, <1>9 DEF Shape
<1> QED
  BY <1>5, <1>10 DEF su

\* The innermost call ends.
LEMMA ShapePopped ==
  ASSUME NEW rank, NEW cq, NEW st \in Seq(Frame), st # <<>>, Shape(rank, st, cq)
  PROVE  /\ Shape(rank, Front(st), cq) /\ CallFits(By(st), cq, Last(st))
         /\ Front(st) # <<>> => By(Front(st)) = By(st) /\ Above(Last(Front(st)), Last(st))
         /\ Front(st) = <<>> => /\ Last(st).kind \in {"sync", "instant", "is"}
                                /\ By(st) = IF Last(st).kind = "is" THEN "read" ELSE "send"
                                /\ By(Front(st)) = "send"
         /\ \A g \in Calls(Front(st)) : Higher(rank, g, Last(st)) /\ CallFits(By(st), cq, g)
<1> DEFINE su == Front(st)
           f  == Last(st)
           n  == Len(su)
<1>1. /\ su \in Seq(Frame) /\ n \in Nat /\ Len(st) = n + 1
      /\ \A i \in 1 .. n : su[i] = st[i]
      /\ st[n + 1] = f
      /\ n = 0 <=> su = <<>>
  <2>1. /\ su \in Seq(Frame) /\ Len(st) \in Nat \ {0} /\ n = Len(st) - 1
        /\ \A i \in 1 .. Len(st) - 1 : su[i] = st[i]
        /\ f = st[Len(st)] /\ f \in Frame
    BY Popped
  <2>2. n = 0 <=> su = <<>>
    BY <2>1, EmptySeq
  <2> HIDE DEF su, f, n
  <2> QED
    BY <2>1, <2>2
<1>2. /\ st[1].kind \in {"sync", "instant", "is"}
      /\ \A i \in 1 .. Len(st) : CallFits(By(st), cq, st[i])
      /\ \A i \in 1 .. Len(st) - 1 : Above(st[i], st[i + 1])
      /\ \A i, j \in 1 .. Len(st) : i < j => Higher(rank, st[i], st[j])
  BY DEF Shape
<1>3. su # <<>> => Last(su) = su[n]
  BY DEF Last
<1>4. Calls(su) = {su[i] : i \in 1 .. n}
  BY DEF Calls
<1>5. n = Len(su)
  OBVIOUS
<1> HIDE DEF su, n, f
<1>6. su # <<>> => By(su) = By(st)
  <2>1. su # <<>> => su[1] = st[1]
    BY <1>1
  <2> QED
    BY <2>1 DEF By
<1>7. su = <<>> => /\ f.kind \in {"sync", "instant", "is"} /\ By(su) = "send"
                   /\ By(st) = IF f.kind = "is" THEN "read" ELSE "send"
  <2>1. su = <<>> => st[1] = f
    BY <1>1
  <2> QED
    BY <1>2, <2>1 DEF By
<1>8. su # <<>> => Above(Last(su), f)
  BY <1>1, <1>2, <1>3
<1>9. \A g \in Calls(su) : Higher(rank, g, f) /\ CallFits(By(st), cq, g)
  BY <1>1, <1>2, <1>4
<1>10. CallFits(By(st), cq, f)
  BY <1>1, <1>2
<1>11. Shape(rank, su, cq)
  <2>1. su # <<>> => su[1].kind \in {"sync", "instant", "is"}
    BY <1>1, <1>2
  <2>2. ASSUME NEW i \in 1 .. Len(su) PROVE CallFits(By(su), cq, su[i])
    <3>1. su # <<>>
      BY <1>1, <1>5
    <3> QED
      BY <1>1, <1>2, <1>5, <1>6, <3>1
  <2>3. \A i \in 1 .. Len(su) - 1 : Above(su[i], su[i + 1])
    BY <1>1, <1>2, <1>5
  <2>4. \A i, j \in 1 .. Len(su) : i < j => Higher(rank, su[i], su[j])
    BY <1>1, <1>2, <1>5
  <2> QED
    BY <2>1, <2>2, <2>3, <2>4 DEF Shape
<1> QED
  BY <1>6, <1>7, <1>8, <1>9, <1>10, <1>11 DEF su, f

\* The innermost call goes on as one of the same kind for the same attribute.
SameCall(f, g) ==
  /\ g.kind = f.kind /\ g.kind \in {"notify", "is", "future"}
  /\ g.slot = f.slot
  /\ f.kind = "notify" => g.own = f.own
LEMMA ShapeGoesOn ==
  ASSUME NEW rank, NEW cq, NEW st \in Seq(Frame), st # <<>>, Shape(rank, st, cq), NEW g \in Frame,
         SameCall(Last(st), g)
  PROVE  Shape(rank, Append(Front(st), g), cq) /\ By(Append(Front(st), g)) = By(st)
<1> DEFINE su == Front(st)
           f  == Last(st)
<1>1. /\ su \in Seq(Frame) /\ f \in Frame
  BY Popped
<1>2. /\ Shape(rank, su, cq) /\ CallFits(By(st), cq, f)
      /\ su # <<>> => By(su) = By(st) /\ Above(Last(su), f)
      /\ su = <<>> => /\ f.kind \in {"sync", "instant", "is"}
                      /\ By(st) = IF f.kind = "is" THEN "read" ELSE "send"
      /\ \A h \in Calls(su) : Higher(rank, h, f)
  BY ShapePopped
<1> HIDE DEF su, f
<1>3. /\ g.kind = f.kind /\ g.kind \in {"notify", "is", "future"} /\ g.slot = f.slot
      /\ f.kind = "notify" => g.own = f.own
      /\ IsEvaluation(g) <=> IsEvaluation(f)
      /\ Own(g) <=> Own(f)
  BY DEF SameCall, Own, IsEvaluation, f
<1>4. CallFits(By(st), cq, g)
  BY <1>2, <1>3 DEF CallFits
<1>5. su # <<>> => Above(Last(su), g)
  BY <1>2, <1>3 DEF Above
<1>6. \A h \in Calls(su) : Higher(rank, h, g)
  BY <1>2, <1>3 DEF Higher
<1>7. su = <<>> => By(<<g>>) = By(st) /\ g.kind \in {"sync", "instant", "is"}
  <2>1. <<g>> # <<>> /\ <<g>>[1] = g
    OBVIOUS
  <2> QED
    BY <1>2, <1>3, <2>1 DEF By
<1>8. su # <<>> => CallFits(By(su), cq, g) /\ Above(Last(su), g)
  BY <1>2, <1>4, <1>5
<1>9. su = <<>> => CallFits(By(<<g>>), cq, g) /\ g.kind \in {"sync", "instant", "is"}
  BY <1>4, <1>7
<1>10. /\ Shape(rank, Append(su, g), cq)
       /\ By(Append(su, g)) = IF su = <<>> THEN By(<<g>>) ELSE By(su)
  BY <1>1, <1>2, <1>6, <1>8, <1>9, ShapePushed
<1> QED
  BY <1>2, <1>7, <1>10 DEF su

\* Below an instant there is the operation that started it, or the evaluations of a read.
LEMMA BelowInstant ==
  ASSUME NEW rank, NEW cq, NEW st \in Seq(Frame), st # <<>>, Shape(rank, st, cq),
         Last(st).kind = "instant"
  PROVE  \A f \in Calls(Front(st)) : f.kind = "sync" \/ (f.kind = "is" /\ By(st) = "read")
<1> DEFINE n == Len(st)
<1>1. /\ n \in Nat \ {0} /\ Last(st) = st[n] /\ Len(Front(st)) = n - 1
      /\ \A i \in 1 .. n - 1 : Front(st)[i] = st[i]
      /\ Calls(Front(st)) = {Front(st)[i] : i \in 1 .. Len(Front(st))}
  BY Popped DEF Calls
<1>2. /\ st[1].kind \in {"sync", "instant", "is"}
      /\ \A i \in 1 .. n : CallFits(By(st), cq, st[i])
      /\ \A i \in 1 .. n - 1 : Above(st[i], st[i + 1])
      /\ \A i, j \in 1 .. n : i < j => Higher(rank, st[i], st[j])
  BY DEF Shape
<1>3. By(st) = IF st[1].kind = "is" THEN "read" ELSE "send"
  BY DEF By
<1> HIDE DEF n
<1> SUFFICES ASSUME NEW k \in 1 .. n - 1
             PROVE  st[k].kind = "sync" \/ (st[k].kind = "is" /\ By(st) = "read")
  BY <1>1
<1>4. /\ Higher(rank, st[k], st[n]) /\ CallFits(By(st), cq, st[k]) /\ Higher(rank, st[1], st[n])
      /\ Above(st[1], st[2]) /\ 2 \in 1 .. n
  BY <1>1, <1>2
<1>5. st[k].kind \notin {"instant", "notify"} /\ st[1].kind \notin {"instant", "notify"}
  BY <1>1, <1>4 DEF Higher
<1>6. CASE st[1].kind = "is"
  BY <1>3, <1>4, <1>5, <1>6 DEF CallFits
<1>7. CASE st[1].kind = "sync"
  <2>1. st[2].kind = "instant"
    BY <1>4, <1>7 DEF Above
  <2>2. n = 2
    <3>1. ~(2 < n)
      <4>1. 2 < n => Higher(rank, st[2], st[n])
        BY <1>1, <1>2, <1>4
      <4> QED
        BY <1>1, <2>1, <4>1 DEF Higher
    <3> QED
      BY <1>1, <1>4, <3>1
  <2>3. k = 1
    BY <2>2
  <2> QED
    BY <1>7, <2>3
<1> QED
  BY <1>2, <1>5, <1>6, <1>7

\* Those calls fit whatever queue is drained.
LEMMA ShapeTurns ==
  ASSUME NEW rank, NEW cq, NEW cp, NEW st \in Seq(Frame), Shape(rank, st, cq),
         \A f \in Calls(st) : f.kind = "sync" \/ (f.kind = "is" /\ By(st) = "read")
  PROVE  Shape(rank, st, cp)
<1>1. \A i \in 1 .. Len(st) : st[i] \in Calls(st)
  BY DEF Calls
<1>2. \A i \in 1 .. Len(st) : CallFits(By(st), cp, st[i])
  BY <1>1 DEF Shape, CallFits
<1> QED
  BY <1>2 DEF Shape

\* Without an instant a read of the main program evaluates.
LEMMA WithoutInstant ==
  ASSUME NEW rank, NEW cq, NEW st \in Seq(Frame), Shape(rank, st, cq), NoInstant(st),
         st # <<>>, Last(st).kind # "sync"
  PROVE  /\ By(st) = "read"
         /\ \A f \in Calls(st) : f.kind = "is"
<1> DEFINE n == Len(st)
<1>1. n \in Nat \ {0} /\ Last(st) = st[n] /\ Calls(st) = {st[i] : i \in 1 .. n}
  BY Popped DEF Calls
<1>2. /\ st[1].kind \in {"sync", "instant", "is"}
      /\ \A i \in 1 .. n : CallFits(By(st), cq, st[i])
      /\ \A i \in 1 .. n - 1 : Above(st[i], st[i + 1])
  BY DEF Shape
<1>3. \A i \in 1 .. n : st[i].kind # "instant"
  BY DEF NoInstant
<1> HIDE DEF n
<1>4. st[1].kind = "is"
  <2>1. st[1].kind # "instant"
    BY <1>1, <1>3
  <2>2. ASSUME st[1].kind = "sync" PROVE FALSE
    <3>1. n # 1
      BY <1>1, <2>2
    <3>2. Above(st[1], st[2]) /\ st[2].kind # "instant"
      BY <1>1, <1>2, <1>3, <3>1
    <3> QED
      BY <2>2, <3>2 DEF Above
  <2> QED
    BY <1>2, <2>1, <2>2
<1>5. By(st) = "read"
  BY <1>4 DEF By
<1>6. \A i \in 1 .. n : st[i].kind = "is"
  BY <1>2, <1>3, <1>5 DEF CallFits
<1> QED
  BY <1>1, <1>5, <1>6

\* A synchronous operation is the first of the calls.
LEMMA SyncFirst ==
  ASSUME NEW rank, NEW cq, NEW st \in Seq(Frame), Shape(rank, st, cq), st # <<>>, Last(st).kind = "sync"
  PROVE  Front(st) = <<>>
<1>1. SUFFICES ASSUME Front(st) # <<>> PROVE FALSE
  OBVIOUS
<1>2. Above(Last(Front(st)), Last(st)) /\ Front(st) \in Seq(Frame) /\ Shape(rank, Front(st), cq)
  BY <1>1, ShapePopped, Popped
<1>3. CallFits(By(Front(st)), cq, Last(Front(st)))
  BY <1>1, <1>2, ShapePopped
<1> QED
  BY <1>2, <1>3 DEF Above, CallFits

-----------------------------------------------------------------------------
(***************************************************************************)
(* What a definition has read.                                             *)
(***************************************************************************)
\* What taking the first element away leaves, element by element.
LEMMA Behead ==
  ASSUME NEW S, NEW s \in Seq(S), s # <<>>
  PROVE  /\ Tail(s) \in Seq(S) /\ Head(s) = s[1] /\ Head(s) \in S
         /\ Len(s) \in Nat \ {0} /\ Len(Tail(s)) = Len(s) - 1
         /\ \A i \in 1 .. Len(s) - 1 : Tail(s)[i] = s[i + 1]
<1>1. Len(s) \in Nat \ {0} /\ \A i \in 1 .. Len(s) : s[i] \in S
  BY SeqIs
<1>2. Tail(s) \in Seq(S) /\ Len(Tail(s)) = Len(s) - 1 /\ \A i \in 1 .. Len(s) - 1 : Tail(s)[i] = s[i + 1]
  BY HeadTailProperties
<1>3. Head(s) = s[1]
  OBVIOUS
<1> QED
  BY <1>1, <1>2, <1>3

\* The parts of a definition.
LEMMA PathIs ==
  ASSUME NEW d \in Paths
  PROVE  /\ d.base \in Value /\ d.keys \in Seq(Keys) /\ Len(d.keys) \in Nat
         /\ \A i \in 1 .. Len(d.keys) : d.keys[i] \in Keys
         /\ \A v \in Value, i \in 1 .. Len(d.keys) : <<v, d.keys[i]>> \in Slot
<1>1. d.base \in Obj /\ d.keys \in Seq(Keys)
  BY PathsAssumption
<1>2. d.base \in Value
  BY <1>1 DEF Value
<1>3. Len(d.keys) \in Nat /\ \A i \in 1 .. Len(d.keys) : d.keys[i] \in Keys
  BY <1>1, SeqIs
<1> QED
  BY <1>1, <1>2, <1>3 DEF Slot

\* A ranked definition reads attributes of a lower rank.
LEMMA ReadsLower ==
  ASSUME NEW rank \in [Slot -> Nat], NEW s \in Slot, NEW d \in Paths, Ranked(rank, s, d),
         NEW i \in 1 .. Len(d.keys), NEW v \in Value, i = 1 => v = d.base
  PROVE  /\ <<v, d.keys[i]>> \in Slot /\ rank[<<v, d.keys[i]>>] < rank[s] /\ <<v, d.keys[i]>> # s
         /\ <<v, d.keys[i]>>[2] # Key
<1>1. <<v, d.keys[i]>> \in Slot
  BY PathIs
<1>2. d.keys[i] # Key /\ rank[<<v, d.keys[i]>>] < rank[s]
  BY DEF Ranked
<1>3. rank[s] \in Nat
  OBVIOUS
<1> QED
  BY <1>1, <1>2, <1>3

\* What the first m keys lead to stays the same while what was read keeps its value.
LEMMA SteadyKept ==
  ASSUME NEW rank \in [Slot -> Nat], NEW a, NEW b, NEW q2, NEW p2, NEW s \in Slot, NEW d \in Paths,
         Ranked(rank, s, d), NEW m \in 0 .. Len(d.keys), NEW v, Steady(a, q2, s, d, m, v),
         \A r \in Slot : rank[r] < rank[s] /\ Fresh(a, q2, r, s) =>
                           b[r].val = a[r].val /\ Fresh(b, p2, r, s)
  PROVE  Steady(b, p2, s, d, m, v)
<1>1. PICK c \in [0 .. Len(d.keys) -> Value] : c[0] = d.base /\ c[m] = v /\ Leads(a, q2, s, d, m, c)
  BY DEF Steady
<1>2. Len(d.keys) \in Nat
  BY PathIs
<1>3. ASSUME NEW i \in 1 .. m
      PROVE  b[Through(c, d, i)].val = c[i] /\ Fresh(b, p2, Through(c, d, i), s)
  <2>1. i \in 1 .. Len(d.keys) /\ i - 1 \in 0 .. Len(d.keys)
    BY <1>2
  <2>2. c[i - 1] \in Value /\ (i = 1 => c[i - 1] = d.base)
    BY <1>1, <2>1
  <2>3. PICK u \in Value : u = c[i - 1]
    BY <2>2
  <2>4. <<u, d.keys[i]>> \in Slot /\ rank[<<u, d.keys[i]>>] < rank[s]
    BY <2>1, <2>2, <2>3, ReadsLower
  <2>5. PICK r \in Slot : r = Through(c, d, i)
    BY <2>3, <2>4 DEF Through
  <2>6. rank[r] < rank[s]
    BY <2>3, <2>4, <2>5 DEF Through
  <2>7. a[r].val = c[i] /\ Fresh(a, q2, r, s)
    BY <1>1, <2>5 DEF Leads
  <2> QED
    BY <2>5, <2>6, <2>7
<1>4. Leads(b, p2, s, d, m, c)
  BY <1>3 DEF Leads
<1> QED
  BY <1>1, <1>4 DEF Steady

\* At first nothing is read.
LEMMA SteadyBegins ==
  ASSUME NEW a, NEW q2, NEW s, NEW d \in Paths
  PROVE  Steady(a, q2, s, d, 0, d.base)
<1> DEFINE c == [i \in 0 .. Len(d.keys) |-> d.base]
<1>1. d.base \in Value /\ Len(d.keys) \in Nat
  BY PathIs
<1>2. c \in [0 .. Len(d.keys) -> Value] /\ c[0] = d.base
  BY <1>1
<1>3. Leads(a, q2, s, d, 0, c)
  BY DEF Leads
<1> HIDE DEF c
<1> QED
  BY <1>2, <1>3 DEF Steady

\* Then one key after another.
LEMMA SteadyGoesOn ==
  ASSUME NEW a, NEW q2, NEW s, NEW d \in Paths, NEW m \in 0 .. Len(d.keys), NEW n \in 0 .. Len(d.keys),
         n = m + 1, NEW v, NEW w \in Value, Steady(a, q2, s, d, m, v),
         a[<<v, d.keys[n]>>].val = w, Fresh(a, q2, <<v, d.keys[n]>>, s)
  PROVE  Steady(a, q2, s, d, n, w)
<1>1. PICK c \in [0 .. Len(d.keys) -> Value] : c[0] = d.base /\ c[m] = v /\ Leads(a, q2, s, d, m, c)
  BY DEF Steady
<1>2. Len(d.keys) \in Nat
  BY PathIs
<1> DEFINE e == [c EXCEPT ![n] = w]
<1>3. /\ e \in [0 .. Len(d.keys) -> Value] /\ e[n] = w
      /\ \A i \in 0 .. Len(d.keys) : i # n => e[i] = c[i]
  BY <1>1
<1> HIDE DEF e
<1>4. e[0] = d.base /\ e[m] = v /\ n # 0
  BY <1>1, <1>2, <1>3
<1>5. ASSUME NEW i \in 1 .. n
      PROVE  a[Through(e, d, i)].val = e[i] /\ Fresh(a, q2, Through(e, d, i), s)
  <2>1. CASE i = n
    <3>1. Through(e, d, i) = <<v, d.keys[n]>>
      BY <1>2, <1>4, <2>1 DEF Through
    <3> QED
      BY <1>3, <2>1, <3>1
  <2>2. CASE i # n
    <3>1. i \in 1 .. m /\ i \in 0 .. Len(d.keys) /\ i - 1 \in 0 .. Len(d.keys) /\ i - 1 # n
      BY <1>2, <2>2
    <3>2. Through(e, d, i) = Through(c, d, i) /\ e[i] = c[i]
      BY <1>3, <2>2, <3>1 DEF Through
    <3> QED
      BY <1>1, <3>1, <3>2 DEF Leads
  <2> QED
    BY <2>1, <2>2
<1>6. Leads(a, q2, s, d, n, e)
  BY <1>5 DEF Leads
<1> QED
  BY <1>3, <1>4, <1>6 DEF Steady

\* The attribute that is read next.
LEMMA ReadNext ==
  ASSUME NEW rank \in [Slot -> Nat], NEW a, NEW q2, NEW s \in Slot, NEW d \in Paths, Ranked(rank, s, d),
         NEW m \in 0 .. Len(d.keys), NEW n \in 1 .. Len(d.keys), n = m + 1, NEW v,
         Steady(a, q2, s, d, m, v)
  PROVE  /\ v \in Value /\ <<v, d.keys[n]>> \in Slot /\ rank[<<v, d.keys[n]>>] < rank[s]
         /\ <<v, d.keys[n]>> # s /\ <<v, d.keys[n]>>[2] # Key
<1>1. PICK c \in [0 .. Len(d.keys) -> Value] : c[0] = d.base /\ c[m] = v
  BY DEF Steady
<1>2. v \in Value /\ (n = 1 => v = d.base)
  BY <1>1
<1> QED
  BY <1>2, ReadsLower

-----------------------------------------------------------------------------
(***************************************************************************)
(* Calls that start, go on and end.                                        *)
(***************************************************************************)
\* What holds of some calls holds of more.
LEMMA MoreCalls ==
  ASSUME NEW a, NEW q0, NEW q1, NEW q2, NEW F, NEW G, F \subseteq G, NEW s
  PROVE  /\ Unneeded(a, F, s) => Unneeded(a, G, s)
         /\ Due(a, F, s) => Due(a, G, s)
         /\ Waiting(a, q1, F, s) => Waiting(a, q1, G, s)
         /\ Settled(a, q0, q1, q2, F, s) => Settled(a, q0, q1, q2, G, s)
<1>1. Unneeded(a, F, s) => Unneeded(a, G, s)
  BY DEF Unneeded
<1>2. Due(a, F, s) => Due(a, G, s)
  BY DEF Due
<1>3. Running(F, s) => Running(G, s)
  BY DEF Running
<1>4. Waiting(a, q1, F, s) => Waiting(a, q1, G, s)
  BY <1>3 DEF Waiting
<1> QED
  BY <1>1, <1>2, <1>4 DEF Settled

\* A call starts.
LEMMA DataPush ==
  ASSUME NEW rank, NEW m, NEW a, NEW F, NEW by, NEW cq, NEW q0, NEW q1, NEW q2, NEW f \in Frame,
         Data(rank, m, a, F, by, cq, q0, q1, q2),
         IsEvaluation(f) => EvaluationFits(a, q2, f), Own(f) => f.i = 1
  PROVE  Data(rank, m, a, F \cup {f}, by, cq, q0, q1, q2)
<1> DEFINE G == F \cup {f}
<1>1. /\ Typed(rank, a, F, cq, q0, q1, q2) /\ Queues(rank, m, a, by, cq, q0, q1, q2)
      /\ \A s \in Slot : SlotFits(m, rank, a, s)
      /\ InCall(a, F, q1, q2)
      /\ \A s \in Slot : Unneeded(a, F, s)
      /\ \A s \in Slot : Settled(a, q0, q1, q2, F, s)
  BY DEF Data
<1>2. F \subseteq G /\ f \in G
  OBVIOUS
<1>3. Typed(rank, a, G, cq, q0, q1, q2)
  BY <1>1 DEF Typed
<1>4. Own(f) => NotificationFits(a, q1, f)
  <2>1. ASSUME Own(f), NEW j \in 1 .. Len(a[f.slot].deps) PROVE ~(j < f.i)
    BY <2>1
  <2> QED
    BY <2>1 DEF NotificationFits
<1>5. InCall(a, G, q1, q2)
  BY <1>1, <1>4 DEF InCall
<1> HIDE DEF G
<1>6. \A s \in Slot : Unneeded(a, G, s)
  BY <1>1, <1>2, MoreCalls
<1>7. \A s \in Slot : Settled(a, q0, q1, q2, G, s)
  BY <1>1, <1>2, MoreCalls
<1>8. Data(rank, m, a, G, by, cq, q0, q1, q2)
  BY <1>1, <1>3, <1>5, <1>6, <1>7 DEF Data
<1> QED
  BY <1>8 DEF G

\* A call ends.
LEMMA DataPop ==
  ASSUME NEW rank, NEW m, NEW a, NEW F, NEW G, NEW by, NEW cq, NEW q0, NEW q1, NEW q2,
         Data(rank, m, a, G, by, cq, q0, q1, q2), F \subseteq G,
         \A s \in Slot : Unneeded(a, F, s) /\ Settled(a, q0, q1, q2, F, s)
  PROVE  Data(rank, m, a, F, by, cq, q0, q1, q2)
<1>1. /\ Typed(rank, a, G, cq, q0, q1, q2) /\ Queues(rank, m, a, by, cq, q0, q1, q2)
      /\ \A s \in Slot : SlotFits(m, rank, a, s)
      /\ InCall(a, G, q1, q2)
  BY DEF Data
<1>2. Typed(rank, a, F, cq, q0, q1, q2)
  BY <1>1 DEF Typed
<1>3. InCall(a, F, q1, q2)
  BY <1>1 DEF InCall
<1> QED
  BY <1>1, <1>2, <1>3 DEF Data

\* One that is no notification by an attribute and no evaluation in the notify phase.
LEMMA DataPopPlain ==
  ASSUME NEW rank, NEW m, NEW a, NEW F, NEW f, NEW by, NEW cq, NEW q0, NEW q1, NEW q2,
         Data(rank, m, a, F \cup {f}, by, cq, q0, q1, q2), ~Own(f), f.kind # "future"
  PROVE  Data(rank, m, a, F, by, cq, q0, q1, q2)
<1> DEFINE G == F \cup {f}
<1>1. /\ Data(rank, m, a, G, by, cq, q0, q1, q2) /\ F \subseteq G
      /\ \A g \in G : g \in F \/ g = f
  OBVIOUS
<1>2. \A s \in Slot : Unneeded(a, G, s) /\ Settled(a, q0, q1, q2, G, s)
  BY DEF Data
<1> HIDE DEF G
<1>3. ASSUME NEW s \in Slot PROVE Unneeded(a, F, s)
  BY <1>1, <1>2 DEF Unneeded
<1>4. ASSUME NEW s \in Slot PROVE Settled(a, q0, q1, q2, F, s)
  <2>1. Due(a, G, s) => Due(a, F, s)
    BY <1>1 DEF Due, DueBy
  <2>2. Running(G, s) => Running(F, s)
    BY <1>1 DEF Running
  <2>3. Waiting(a, q1, G, s) => Waiting(a, q1, F, s)
    BY <2>2 DEF Waiting
  <2> QED
    BY <1>2, <2>1, <2>3 DEF Settled
<1> QED
  BY <1>1, <1>3, <1>4, DataPop

\* A notification ends when it has forgotten the dependents.
LEMMA DataPopOwn ==
  ASSUME NEW rank, NEW m, NEW a, NEW F, NEW f, NEW by, NEW cq, NEW q0, NEW q1, NEW q2,
         Data(rank, m, a, F \cup {f}, by, cq, q0, q1, q2), Own(f), a[f.slot].deps = <<>>
  PROVE  Data(rank, m, a, F, by, cq, q0, q1, q2)
<1> DEFINE G == F \cup {f}
<1>1. /\ Data(rank, m, a, G, by, cq, q0, q1, q2) /\ F \subseteq G
      /\ \A g \in G : g \in F \/ g = f
  OBVIOUS
<1>2. \A s \in Slot : Unneeded(a, G, s) /\ Settled(a, q0, q1, q2, G, s)
  BY DEF Data
<1> HIDE DEF G
<1>3. ASSUME NEW s \in Slot PROVE Unneeded(a, F, s)
  BY <1>1, <1>2 DEF Unneeded
<1>4. ASSUME NEW s \in Slot PROVE Settled(a, q0, q1, q2, F, s)
  <2>1. ~DueBy(a, f, s)
    <3>1. Len(a[f.slot].deps) = 0
      OBVIOUS
    <3> QED
      BY <3>1 DEF DueBy
  <2>2. Due(a, G, s) => Due(a, F, s)
    BY <1>1, <2>1 DEF Due
  <2>3. Running(G, s) => Running(F, s)
    BY <1>1 DEF Running, Own
  <2>4. Waiting(a, q1, G, s) => Waiting(a, q1, F, s)
    BY <2>3 DEF Waiting
  <2> QED
    BY <1>2, <2>2, <2>4 DEF Settled
<1> QED
  BY <1>1, <1>3, <1>4, DataPop

\* An evaluation in the notify phase ends when the attribute is settled without it.
LEMMA DataPopFuture ==
  ASSUME NEW rank, NEW m, NEW a, NEW F, NEW f, NEW by, NEW cq, NEW q0, NEW q1, NEW q2,
         Data(rank, m, a, F \cup {f}, by, cq, q0, q1, q2), f.kind = "future",
         Current(a, q0, q2, f.slot)
  PROVE  Data(rank, m, a, F, by, cq, q0, q1, q2)
<1> DEFINE G == F \cup {f}
<1>1. /\ Data(rank, m, a, G, by, cq, q0, q1, q2) /\ F \subseteq G
      /\ \A g \in G : g \in F \/ g = f
      /\ ~Own(f)
  BY DEF Own
<1>2. \A s \in Slot : Unneeded(a, G, s) /\ Settled(a, q0, q1, q2, G, s)
  BY DEF Data
<1> HIDE DEF G
<1>3. ASSUME NEW s \in Slot PROVE Unneeded(a, F, s)
  BY <1>1, <1>2 DEF Unneeded
<1>4. ASSUME NEW s \in Slot PROVE Settled(a, q0, q1, q2, F, s)
  <2>1. CASE s = f.slot
    BY <2>1 DEF Settled
  <2>2. CASE s # f.slot
    <3>1. Due(a, G, s) => Due(a, F, s)
      BY <1>1 DEF Due, DueBy
    <3>2. Running(G, s) => Running(F, s)
      BY <1>1, <2>2 DEF Running
    <3>3. Waiting(a, q1, G, s) => Waiting(a, q1, F, s)
      BY <3>2 DEF Waiting
    <3> QED
      BY <1>2, <3>1, <3>3 DEF Settled
  <2> QED
    BY <2>1, <2>2
<1> QED
  BY <1>1, <1>3, <1>4, DataPop

\* An evaluation goes on.
LEMMA DataEvaluates ==
  ASSUME NEW rank, NEW m, NEW a, NEW F, NEW f, NEW g \in Frame, NEW by, NEW cq, NEW q0, NEW q1, NEW q2,
         Data(rank, m, a, F \cup {f}, by, cq, q0, q1, q2), SameCall(f, g), IsEvaluation(f),
         EvaluationFits(a, q2, g)
  PROVE  Data(rank, m, a, F \cup {g}, by, cq, q0, q1, q2)
<1> DEFINE G == F \cup {f}
           H == F \cup {g} \cup {f}
           E == F \cup {g}
<1>1. H = (F \cup {f}) \cup {g} /\ E \subseteq H /\ g \in E /\ \A h \in H : h \in E \/ h = f
  OBVIOUS
<1>2. IsEvaluation(g) /\ ~Own(g) /\ ~Own(f) /\ g.kind = f.kind /\ g.slot = f.slot
  BY DEF SameCall, IsEvaluation, Own
<1> HIDE DEF H, E
<1>3. Data(rank, m, a, H, by, cq, q0, q1, q2)
  BY <1>1, <1>2, DataPush
<1>4. \A s \in Slot : Unneeded(a, H, s) /\ Settled(a, q0, q1, q2, H, s)
  BY <1>3 DEF Data
<1>5. ASSUME NEW s \in Slot PROVE Unneeded(a, E, s)
  BY <1>1, <1>2, <1>4 DEF Unneeded
<1>6. ASSUME NEW s \in Slot PROVE Settled(a, q0, q1, q2, E, s)
  <2>1. Due(a, H, s) => Due(a, E, s)
    BY <1>1, <1>2 DEF Due, DueBy
  <2>2. Running(H, s) => Running(E, s)
    BY <1>1, <1>2 DEF Running
  <2>3. Waiting(a, q1, H, s) => Waiting(a, q1, E, s)
    BY <2>2 DEF Waiting
  <2> QED
    BY <1>4, <2>1, <2>3 DEF Settled
<1>7. Data(rank, m, a, E, by, cq, q0, q1, q2)
  BY <1>1, <1>3, <1>5, <1>6, DataPop
<1> QED
  BY <1>7 DEF E

\* A notification goes on, when the dependent has been told.
LEMMA DataNotifies ==
  ASSUME NEW rank, NEW m, NEW a, NEW F, NEW f, NEW g \in Frame, NEW by, NEW cq, NEW q0, NEW q1, NEW q2,
         Data(rank, m, a, F \cup {f}, by, cq, q0, q1, q2), SameCall(f, g), Own(f), f.i \in Nat,
         g.i = f.i + 1, f.i \in 1 .. Len(a[f.slot].deps) => Told(a, q1, a[f.slot].deps[f.i])
  PROVE  Data(rank, m, a, F \cup {g}, by, cq, q0, q1, q2)
<1> DEFINE G == F \cup {f}
           E == F \cup {g}
<1>1. /\ Typed(rank, a, G, cq, q0, q1, q2) /\ Queues(rank, m, a, by, cq, q0, q1, q2)
      /\ \A s \in Slot : SlotFits(m, rank, a, s)
      /\ InCall(a, G, q1, q2)
      /\ \A s \in Slot : Unneeded(a, G, s)
      /\ \A s \in Slot : Settled(a, q0, q1, q2, G, s)
  BY DEF Data
<1>2. Own(g) /\ ~IsEvaluation(g) /\ g.kind = "notify" /\ f.kind = "notify" /\ g.slot = f.slot
  BY DEF SameCall, IsEvaluation, Own
<1>3. g \in E /\ f \in G /\ (\A h \in E : h \in F \/ h = g) /\ (\A h \in G : h \in F \/ h = f) /\ F \subseteq G
      /\ F \subseteq E
  OBVIOUS
<1>4. Typed(rank, a, E, cq, q0, q1, q2)
  BY <1>1 DEF Typed
<1> HIDE DEF G, E
<1>5. NotificationFits(a, q1, g)
  <2>1. NotificationFits(a, q1, f)
    BY <1>1, <1>3 DEF InCall
  <2>2. ASSUME NEW j \in 1 .. Len(a[f.slot].deps), j < g.i PROVE Told(a, q1, a[f.slot].deps[j])
    <3>1. CASE j < f.i
      BY <2>1, <3>1 DEF NotificationFits
    <3>2. CASE j = f.i
      BY <3>2
    <3> QED
      BY <2>2, <3>1, <3>2
  <2> QED
    BY <1>2, <2>2 DEF NotificationFits
<1>6. InCall(a, E, q1, q2)
  BY <1>1, <1>2, <1>3, <1>5 DEF InCall
<1>7. ASSUME NEW s \in Slot PROVE Unneeded(a, E, s)
  BY <1>1, <1>2, <1>3 DEF Unneeded
<1>8. ASSUME NEW s \in Slot PROVE Settled(a, q0, q1, q2, E, s)
  <2>1. DueBy(a, f, s) => DueBy(a, g, s) \/ Waiting(a, q1, E, s)
    <3> SUFFICES ASSUME DueBy(a, f, s), ~DueBy(a, g, s) PROVE Waiting(a, q1, E, s)
      OBVIOUS
    <3>1. PICK j \in 1 .. Len(a[f.slot].deps) : j >= f.i /\ a[f.slot].deps[j] = Entry(a, s)
      BY DEF DueBy
    <3>2. ~(j >= g.i)
      BY <1>2, <3>1 DEF DueBy
    <3>3. j = f.i
      BY <3>1, <3>2
    <3>4. Told(a, q1, Entry(a, s))
      BY <3>1, <3>3
    <3>5. IF a[s].isf THEN a[s].ood ELSE Notified(q1, s)
      BY <3>4 DEF Told, Entry
    <3> QED
      BY <3>5 DEF Waiting
  <2>2. Due(a, G, s) => Due(a, E, s) \/ Waiting(a, q1, E, s)
    BY <1>3, <2>1 DEF Due
  <2>3. Running(G, s) => Running(E, s)
    BY <1>2, <1>3 DEF Running
  <2>4. Waiting(a, q1, G, s) => Waiting(a, q1, E, s)
    BY <2>3 DEF Waiting
  <2> QED
    BY <1>1, <2>2, <2>4 DEF Settled
<1>9. Data(rank, m, a, E, by, cq, q0, q1, q2)
  BY <1>1, <1>4, <1>6, <1>7, <1>8 DEF Data
<1> QED
  BY <1>9 DEF E

-----------------------------------------------------------------------------
(***************************************************************************)
(* Events that are queued and taken.                                       *)
(***************************************************************************)
\* The outcome of the queued sets when another one is queued or the first is taken.
LEMMA OutcomeKept ==
  ASSUME NEW a, NEW q0 \in Seq(Event(0)), NEW e \in Event(0), NEW s, NEW v, Outcome(a, q0, s, v), ~SetFor(e, s)
  PROVE  Outcome(a, Append(q0, e), s, v)
<1> DEFINE p0 == Append(q0, e)
           n == Len(q0)
<1>1. /\ n \in Nat /\ Len(p0) = n + 1 /\ \A i \in 1 .. n : p0[i] = q0[i]
      /\ p0[n + 1] = e
  BY Pushed, SeqIs
<1>2. \/ a[s].val = v /\ \A i \in 1 .. n : ~SetFor(q0[i], s)
      \/ \E i \in 1 .. n : /\ SetFor(q0[i], s) /\ q0[i].v = v
                           /\ \A j \in 1 .. n : j > i => ~SetFor(q0[j], s)
  BY DEF Outcome
<1> HIDE DEF p0, n
<1>3. \A i \in 1 .. Len(p0) : i \in 1 .. n \/ i = n + 1
  BY <1>1
<1>4. CASE a[s].val = v /\ \A i \in 1 .. n : ~SetFor(q0[i], s)
  <2>1. \A i \in 1 .. Len(p0) : ~SetFor(p0[i], s)
    BY <1>1, <1>3, <1>4
  <2>2. Outcome(a, p0, s, v)
    BY <1>4, <2>1 DEF Outcome
  <2> QED
    BY <2>2 DEF p0
<1>5. ASSUME NEW i \in 1 .. n, SetFor(q0[i], s), q0[i].v = v, \A j \in 1 .. n : j > i => ~SetFor(q0[j], s)
      PROVE  Outcome(a, Append(q0, e), s, v)
  <2>1. i \in 1 .. Len(p0) /\ p0[i] = q0[i]
    BY <1>1
  <2>2. \A j \in 1 .. Len(p0) : j > i => ~SetFor(p0[j], s)
    BY <1>1, <1>3, <1>5
  <2>3. Outcome(a, p0, s, v)
    BY <1>5, <2>1, <2>2 DEF Outcome
  <2> QED
    BY <2>3 DEF p0
<1> QED
  BY <1>2, <1>4, <1>5

LEMMA OutcomeSet ==
  ASSUME NEW a, NEW q0 \in Seq(Event(0)), NEW e \in Event(0), NEW s, SetFor(e, s)
  PROVE  Outcome(a, Append(q0, e), s, e.v)
<1> DEFINE p0 == Append(q0, e)
           n == Len(q0)
<1>1. n \in Nat /\ Len(p0) = n + 1 /\ p0[n + 1] = e
  BY Pushed, SeqIs
<1> HIDE DEF p0, n
<1>2. n + 1 \in 1 .. Len(p0) /\ \A j \in 1 .. Len(p0) : ~(j > n + 1)
  BY <1>1
<1>3. Outcome(a, p0, s, e.v)
  BY <1>1, <1>2 DEF Outcome
<1> QED
  BY <1>3 DEF p0

LEMMA OutcomeTaken ==
  ASSUME NEW a, NEW b, NEW q0 \in Seq(Event(0)), q0 # <<>>, NEW s, NEW v, Outcome(a, q0, s, v),
         IF SetFor(Head(q0), s) THEN b[s].val = Head(q0).v ELSE b[s].val = a[s].val
  PROVE  Outcome(b, Tail(q0), s, v)
<1> DEFINE p0 == Tail(q0)
           n == Len(q0)
<1>1. /\ n \in Nat \ {0} /\ Len(p0) = n - 1 /\ \A i \in 1 .. n - 1 : p0[i] = q0[i + 1]
      /\ Head(q0) = q0[1]
  BY Behead
<1>2. \/ a[s].val = v /\ \A i \in 1 .. n : ~SetFor(q0[i], s)
      \/ \E i \in 1 .. n : /\ SetFor(q0[i], s) /\ q0[i].v = v
                           /\ \A j \in 1 .. n : j > i => ~SetFor(q0[j], s)
  BY DEF Outcome
<1>3. p0 = Tail(q0)
  OBVIOUS
<1> HIDE DEF p0, n
<1>4. \A i \in 1 .. Len(p0) : i + 1 \in 1 .. n /\ p0[i] = q0[i + 1]
  BY <1>1
<1>5. CASE a[s].val = v /\ \A i \in 1 .. n : ~SetFor(q0[i], s)
  <2>1. ~SetFor(q0[1], s)
    BY <1>1, <1>5
  <2>2. b[s].val = v
    BY <1>1, <1>5, <2>1
  <2>3. \A i \in 1 .. Len(p0) : ~SetFor(p0[i], s)
    BY <1>4, <1>5
  <2> QED
    BY <1>3, <2>2, <2>3 DEF Outcome
<1>6. ASSUME NEW i \in 1 .. n, SetFor(q0[i], s), q0[i].v = v, \A j \in 1 .. n : j > i => ~SetFor(q0[j], s)
      PROVE  Outcome(b, p0, s, v)
  <2>1. \A j \in 1 .. Len(p0) : j + 1 > i => ~SetFor(p0[j], s)
    BY <1>4, <1>6
  <2>2. CASE i = 1
    <3>1. \A j \in 1 .. Len(p0) : ~SetFor(p0[j], s)
      BY <1>1, <2>1, <2>2
    <3>2. b[s].val = v
      BY <1>1, <1>6, <2>2
    <3> QED
      BY <3>1, <3>2 DEF Outcome
  <2>3. CASE i # 1
    <3>1. PICK k \in 1 .. Len(p0) : k + 1 = i
      <4>1. i - 1 \in 1 .. Len(p0) /\ i - 1 + 1 = i
        BY <1>1, <2>3
      <4> QED
        BY <4>1
    <3>2. SetFor(p0[k], s) /\ p0[k].v = v
      BY <1>4, <1>6, <3>1
    <3>3. \A j \in 1 .. Len(p0) : j > k => ~SetFor(p0[j], s)
      BY <2>1, <3>1
    <3> QED
      BY <3>2, <3>3 DEF Outcome
  <2> QED
    BY <2>2, <2>3
<1> QED
  BY <1>2, <1>3, <1>5, <1>6

\* Another queue is drained, or other calls begin.
LEMMA DataTurns ==
  ASSUME NEW rank, NEW m, NEW a, NEW F, NEW by, NEW cq, NEW q0, NEW q1, NEW q2, NEW cp \in -1 .. 2, NEW bp,
         Data(rank, m, a, F, by, cq, q0, q1, q2), Queues(rank, m, a, bp, cp, q0, q1, q2)
  PROVE  Data(rank, m, a, F, bp, cp, q0, q1, q2)
BY DEF Data, Typed

\* A NOTIFY is queued.
LEMMA DataNotify ==
  ASSUME NEW rank, NEW m, NEW a, NEW F, NEW cq, NEW q0, NEW q1, NEW q2, NEW t \in Slot,
         Data(rank, m, a, F, "send", cq, q0, q1, q2), cq \in {0, 1}
  PROVE  /\ Data(rank, m, a, F, "send", cq, q0, Append(q1, NotifyEvent(t)), q2)
         /\ Notified(Append(q1, NotifyEvent(t)), t)
<1> DEFINE e == NotifyEvent(t)
           p1 == Append(q1, e)
<1>1. /\ Typed(rank, a, F, cq, q0, q1, q2) /\ Queues(rank, m, a, "send", cq, q0, q1, q2)
      /\ \A s \in Slot : SlotFits(m, rank, a, s)
      /\ InCall(a, F, q1, q2)
      /\ \A s \in Slot : Unneeded(a, F, s)
      /\ \A s \in Slot : Settled(a, q0, q1, q2, F, s)
  BY DEF Data
<1>2. e \in Event(1) /\ e.slot = t
  BY DEF NotifyEvent, Event
<1>3. q1 \in Seq(Event(1)) /\ Len(q1) \in Nat
  BY <1>1, SeqIs DEF Typed
<1> HIDE DEF e
<1>4. /\ p1 \in Seq(Event(1)) /\ Len(p1) = Len(q1) + 1 /\ \A i \in 1 .. Len(q1) : p1[i] = q1[i]
      /\ p1[Len(q1) + 1] = e
  BY <1>2, <1>3, Pushed
<1> HIDE DEF p1
<1>5. \A s : Notified(q1, s) => Notified(p1, s)
  BY <1>3, <1>4 DEF Notified
<1>6. Notified(p1, t)
  BY <1>2, <1>3, <1>4 DEF Notified
<1>7. Typed(rank, a, F, cq, q0, p1, q2)
  BY <1>1, <1>4 DEF Typed
<1>8. Queues(rank, m, a, "send", cq, q0, p1, q2)
  BY <1>1 DEF Queues, NotifiesPlain
<1>9. InCall(a, F, p1, q2)
  <2>1. \A x : Told(a, q1, x) => Told(a, p1, x)
    BY <1>5 DEF Told
  <2>2. ASSUME NEW f \in F, Own(f) PROVE NotificationFits(a, p1, f)
    <3>1. NotificationFits(a, q1, f)
      BY <1>1, <2>2 DEF InCall
    <3> QED
      BY <2>1, <3>1 DEF NotificationFits
  <2> QED
    BY <1>1, <2>2 DEF InCall
<1>10. \A s \in Slot : Settled(a, q0, p1, q2, F, s)
  BY <1>1, <1>5 DEF Settled, Waiting
<1>11. Data(rank, m, a, F, "send", cq, q0, p1, q2)
  BY <1>1, <1>7, <1>8, <1>9, <1>10 DEF Data
<1> QED
  BY <1>6, <1>11 DEF p1, e

\* A set is queued: an operation of the main program, or the result of an evaluation
\* that is still running.
LEMMA DataSet ==
  ASSUME NEW rank, NEW m, NEW a, NEW F, NEW cq, NEW q0, NEW q1, NEW q2, NEW e \in Event(0),
         Data(rank, m, a, F, "send", cq, q0, q1, q2),
         \A i \in 1 .. Len(q0) : q0[i].type = "SET_BYDEF",
         IF e.type = "SET_BYDEF" THEN a[e.slot].def # Null /\ ~a[e.slot].isf /\ Running(F, e.slot)
                                 ELSE cq = 0 /\ e \in m.ops \cup {OtherSet}
  PROVE  Data(rank, m, a, F, "send", cq, Append(q0, e), q1, q2)
<1> DEFINE p0 == Append(q0, e)
           n == Len(q0)
<1>1. /\ Typed(rank, a, F, cq, q0, q1, q2) /\ Queues(rank, m, a, "send", cq, q0, q1, q2)
      /\ \A s \in Slot : SlotFits(m, rank, a, s)
      /\ InCall(a, F, q1, q2)
      /\ \A s \in Slot : Unneeded(a, F, s)
      /\ \A s \in Slot : Settled(a, q0, q1, q2, F, s)
  BY DEF Data
<1>2. q0 \in Seq(Event(0)) /\ n \in Nat
  BY <1>1, SeqIs DEF Typed
<1>3. /\ p0 \in Seq(Event(0)) /\ Len(p0) = n + 1 /\ \A i \in 1 .. n : p0[i] = q0[i]
      /\ p0[n + 1] = e
  BY <1>2, Pushed
<1>4. p0 = Append(q0, e) /\ n = Len(q0)
  OBVIOUS
<1> HIDE DEF p0, n
<1>5. Typed(rank, a, F, cq, p0, q1, q2)
  BY <1>1, <1>3 DEF Typed
<1>6. \A i \in 1 .. Len(p0) : SetFits(m, a, cq, p0, i)
  <2> TAKE i \in 1 .. Len(p0)
  <2>1. CASE i = n + 1
    <3>1. p0[i] = e /\ i = Len(p0)
      BY <1>3, <2>1
    <3> QED
      BY <3>1 DEF SetFits
  <2>2. CASE i # n + 1
    <3>1. i \in 1 .. n /\ p0[i] = q0[i]
      BY <1>2, <1>3, <2>2
    <3>2. SetFits(m, a, cq, q0, i) /\ q0[i].type = "SET_BYDEF"
      BY <1>1, <1>4, <3>1 DEF Queues, SetsPlain
    <3> QED
      BY <3>1, <3>2 DEF SetFits
  <2> QED
    BY <2>1, <2>2
<1>7. Queues(rank, m, a, "send", cq, p0, q1, q2)
  BY <1>1, <1>6 DEF Queues, SetsPlain
<1>8. ASSUME NEW s \in Slot PROVE Settled(a, p0, q1, q2, F, s)
  <2> SUFFICES ASSUME a[s].def # Null, ~Due(a, F, s), ~Waiting(a, q1, F, s) PROVE Current(a, p0, q2, s)
    BY DEF Settled
  <2>1. Settled(a, q0, q1, q2, F, s)
    BY <1>1
  <2>2. PICK v \in Value : Outcome(a, q0, s, v) /\ Steady(a, q2, s, a[s].def, Len(a[s].def.keys), v)
    BY <2>1 DEF Settled, Current
  <2>3. ~SetFor(e, s)
    BY DEF SetFor, Waiting
  <2>4. Outcome(a, p0, s, v)
    BY <1>2, <1>4, <2>2, <2>3, OutcomeKept
  <2> QED
    BY <2>2, <2>4 DEF Current
<1>9. Data(rank, m, a, F, "send", cq, p0, q1, q2)
  BY <1>1, <1>5, <1>7, <1>8 DEF Data
<1> QED
  BY <1>4, <1>9

\* A dependency is queued.
LEMMA DataDep ==
  ASSUME NEW rank, NEW m, NEW a, NEW F, NEW by, NEW cq, NEW q0, NEW q1, NEW q2, NEW e \in Event(2),
         Data(rank, m, a, F, by, cq, q0, q1, q2), DepFits(rank, a, e),
         cq # -1, by = "read" \/ cq # 0
  PROVE  /\ Data(rank, m, a, F, by, cq, q0, q1, Append(q2, e))
         /\ \A r, s : Registered(a, q2, r, s) \/ e = DepEvent(a[s].isf, r, s)
                        => Registered(a, Append(q2, e), r, s)
<1> DEFINE p2 == Append(q2, e)
           n == Len(q2)
<1>1. /\ Typed(rank, a, F, cq, q0, q1, q2) /\ Queues(rank, m, a, by, cq, q0, q1, q2)
      /\ \A s \in Slot : SlotFits(m, rank, a, s)
      /\ InCall(a, F, q1, q2)
      /\ \A s \in Slot : Unneeded(a, F, s)
      /\ \A s \in Slot : Settled(a, q0, q1, q2, F, s)
  BY DEF Data
<1>2. q2 \in Seq(Event(2)) /\ n \in Nat
  BY <1>1, SeqIs DEF Typed
<1>3. /\ p2 \in Seq(Event(2)) /\ Len(p2) = n + 1 /\ \A i \in 1 .. n : p2[i] = q2[i]
      /\ p2[n + 1] = e
  BY <1>2, Pushed
<1>4. p2 = Append(q2, e) /\ n = Len(q2)
  OBVIOUS
<1> HIDE DEF p2, n
<1>5. Typed(rank, a, F, cq, q0, q1, p2)
  BY <1>1, <1>3 DEF Typed
<1>6. Queues(rank, m, a, by, cq, q0, q1, p2)
  <2>1. \A i \in 1 .. n : DepFits(rank, a, q2[i])
    BY <1>1, <1>4 DEF Queues, DepsPlain
  <2>2. \A i \in 1 .. Len(p2) : DepFits(rank, a, p2[i])
    BY <1>2, <1>3, <2>1
  <2> QED
    BY <1>1, <2>2 DEF Queues, DepsPlain
<1>7. \A r, s : Registered(a, q2, r, s) => Registered(a, p2, r, s)
  <2> SUFFICES ASSUME NEW r, NEW s, Registered(a, q2, r, s) PROVE Registered(a, p2, r, s)
    OBVIOUS
  <2>1. CASE \E j \in 1 .. n : q2[j] = DepEvent(a[s].isf, r, s)
    <3>1. PICK j \in 1 .. n : q2[j] = DepEvent(a[s].isf, r, s)
      BY <2>1
    <3>2. j \in 1 .. Len(p2) /\ p2[j] = q2[j]
      BY <1>2, <1>3
    <3> QED
      BY <3>1, <3>2 DEF Registered
  <2> QED
    BY <1>4, <2>1 DEF Registered
<1>8. \A r, s : e = DepEvent(a[s].isf, r, s) => Registered(a, p2, r, s)
  <2>1. n + 1 \in 1 .. Len(p2)
    BY <1>2, <1>3
  <2> QED
    BY <1>3, <2>1 DEF Registered
<1>9. \A r, s : Fresh(a, q2, r, s) => Fresh(a, p2, r, s)
  BY <1>7 DEF Fresh
<1>10. \A s, d, k, v : Steady(a, q2, s, d, k, v) => Steady(a, p2, s, d, k, v)
  <2>1. \A s, d, k, c : Leads(a, q2, s, d, k, c) => Leads(a, p2, s, d, k, c)
    BY <1>9 DEF Leads
  <2> QED
    BY <2>1 DEF Steady
<1>11. InCall(a, F, q1, p2)
  <2>1. \A f : EvaluationFits(a, q2, f) => EvaluationFits(a, p2, f)
    BY <1>10 DEF EvaluationFits
  <2> QED
    BY <1>1, <2>1 DEF InCall
<1>12. \A s \in Slot : Settled(a, q0, q1, p2, F, s)
  BY <1>1, <1>10 DEF Settled, Current
<1>13. Data(rank, m, a, F, by, cq, q0, q1, p2)
  BY <1>1, <1>5, <1>6, <1>11, <1>12 DEF Data
<1> QED
  BY <1>4, <1>7, <1>8, <1>13

\* An event of the main program is taken: it was the last one queued.
LEMMA DataTakeOp ==
  ASSUME NEW rank, NEW m, NEW a, NEW F, NEW by, NEW cq, NEW q0, NEW q1, NEW q2,
         Data(rank, m, a, F, by, cq, q0, q1, q2), q0 # <<>>, Head(q0).type # "SET_BYDEF"
  PROVE  /\ Tail(q0) = <<>> /\ cq = 0 /\ Head(q0) \in m.ops \cup {OtherSet}
         /\ Data(rank, m, a, F, by, cq, <<>>, q1, q2)
<1>1. /\ Typed(rank, a, F, cq, q0, q1, q2) /\ Queues(rank, m, a, by, cq, q0, q1, q2)
      /\ \A s \in Slot : SlotFits(m, rank, a, s)
      /\ InCall(a, F, q1, q2)
      /\ \A s \in Slot : Unneeded(a, F, s)
      /\ \A s \in Slot : Settled(a, q0, q1, q2, F, s)
  BY DEF Data
<1>2. /\ q0 \in Seq(Event(0)) /\ Tail(q0) \in Seq(Event(0)) /\ Head(q0) = q0[1]
      /\ Len(q0) \in Nat \ {0} /\ Len(Tail(q0)) = Len(q0) - 1
  BY <1>1, Behead DEF Typed
<1>3. SetFits(m, a, cq, q0, 1)
  BY <1>1, <1>2 DEF Queues, SetsPlain
<1>4. 1 = Len(q0) /\ cq = 0 /\ Head(q0) \in m.ops \cup {OtherSet}
  BY <1>2, <1>3 DEF SetFits
<1>5. Tail(q0) = <<>>
  <2>1. PICK t \in Seq(Event(0)) : t = Tail(q0)
    BY <1>2
  <2>2. Len(t) = 0
    BY <1>2, <1>4, <2>1
  <2> QED
    BY <2>1, <2>2, SeqIs
<1>6. <<>> \in Seq(Event(0)) /\ Len(<<>>) = 0
  BY EmptySeq
<1>7. Typed(rank, a, F, cq, <<>>, q1, q2)
  BY <1>1, <1>6 DEF Typed
<1>8. Queues(rank, m, a, by, cq, <<>>, q1, q2)
  BY <1>1, <1>6 DEF Queues, SetsPlain
<1>9. ASSUME NEW s \in Slot PROVE Settled(a, <<>>, q1, q2, F, s)
  <2> SUFFICES ASSUME a[s].def # Null, ~Due(a, F, s), ~Waiting(a, q1, F, s) PROVE Current(a, <<>>, q2, s)
    BY DEF Settled
  <2>1. Settled(a, q0, q1, q2, F, s)
    BY <1>1
  <2>2. PICK v \in Value : Outcome(a, q0, s, v) /\ Steady(a, q2, s, a[s].def, Len(a[s].def.keys), v)
    BY <2>1 DEF Settled, Current
  <2>3. ~SetFor(Head(q0), s)
    BY DEF SetFor
  <2>4. Outcome(a, <<>>, s, v)
    BY <1>2, <1>5, <2>2, <2>3, OutcomeTaken
  <2> QED
    BY <2>2, <2>4 DEF Current
<1>10. Data(rank, m, a, F, by, cq, <<>>, q1, q2)
  BY <1>1, <1>7, <1>8, <1>9 DEF Data
<1> QED
  BY <1>4, <1>5, <1>10

\* A NOTIFY is taken, when the attribute is evaluated or needs no evaluation.
LEMMA DataTakeNotify ==
  ASSUME NEW rank, NEW m, NEW a, NEW F, NEW by, NEW cq, NEW q0, NEW q1, NEW q2, NEW t,
         Data(rank, m, a, F, by, cq, q0, q1, q2), q1 # <<>>, Head(q1).slot = t,
         \A f \in F : ~Own(f),
         a[t].def = Null \/ a[t].isf \/ Running(F, t)
  PROVE  Data(rank, m, a, F, by, cq, q0, Tail(q1), q2)
<1> DEFINE p1 == Tail(q1)
           n == Len(q1)
<1>1. /\ Typed(rank, a, F, cq, q0, q1, q2) /\ Queues(rank, m, a, by, cq, q0, q1, q2)
      /\ \A s \in Slot : SlotFits(m, rank, a, s)
      /\ InCall(a, F, q1, q2)
      /\ \A s \in Slot : Unneeded(a, F, s)
      /\ \A s \in Slot : Settled(a, q0, q1, q2, F, s)
  BY DEF Data
<1>2. /\ p1 \in Seq(Event(1)) /\ n \in Nat \ {0} /\ Len(p1) = n - 1 /\ \A i \in 1 .. n - 1 : p1[i] = q1[i + 1]
      /\ Head(q1) = q1[1]
  BY <1>1, Behead DEF Typed
<1>3. p1 = Tail(q1) /\ n = Len(q1)
  OBVIOUS
<1> HIDE DEF p1, n
<1>4. Typed(rank, a, F, cq, q0, p1, q2)
  BY <1>1, <1>2 DEF Typed
<1>5. Queues(rank, m, a, by, cq, q0, p1, q2)
  BY <1>1 DEF Queues, NotifiesPlain
<1>6. InCall(a, F, p1, q2)
  BY <1>1 DEF InCall
<1>7. \A s : Notified(q1, s) => s = t \/ Notified(p1, s)
  <2> SUFFICES ASSUME NEW s, Notified(q1, s), s # t PROVE Notified(p1, s)
    OBVIOUS
  <2>1. PICK i \in 1 .. n : q1[i].slot = s
    BY <1>3 DEF Notified
  <2>2. i # 1
    BY <1>2, <2>1
  <2>3. i - 1 \in 1 .. Len(p1) /\ p1[i - 1] = q1[i]
    BY <1>2, <2>2
  <2> QED
    BY <2>1, <2>3 DEF Notified
<1>8. ASSUME NEW s \in Slot PROVE Settled(a, q0, p1, q2, F, s)
  <2>1. Settled(a, q0, q1, q2, F, s)
    BY <1>1
  <2>2. CASE s = t
    BY <2>1, <2>2 DEF Settled, Waiting
  <2>3. CASE s # t
    BY <1>7, <2>1, <2>3 DEF Settled, Waiting
  <2> QED
    BY <2>2, <2>3
<1>9. Data(rank, m, a, F, by, cq, q0, p1, q2)
  BY <1>1, <1>4, <1>5, <1>6, <1>8 DEF Data
<1> QED
  BY <1>3, <1>9

-----------------------------------------------------------------------------
(***************************************************************************)
(* Attributes that change.                                                 *)
(***************************************************************************)
\* The dependents of attributes.
LEMMA DependentsAre ==
  ASSUME NEW a \in [Slot -> Attribute], NEW s \in Slot
  PROVE  /\ a[s].deps \in Seq(Dependent) /\ Len(a[s].deps) \in Nat
         /\ \A j \in 1 .. Len(a[s].deps) : a[s].deps[j] \in Dependent /\ a[s].deps[j].slot \in Slot
<1>1. PICK n \in Seq(Dependent) : n = a[s].deps
  BY Attributes
<1>2. Len(n) \in Nat /\ \A j \in 1 .. Len(n) : n[j] \in Dependent
  BY SeqIs
<1>3. \A j \in 1 .. Len(n) : n[j].slot \in Slot
  BY <1>2 DEF Dependent
<1> QED
  BY <1>1, <1>2, <1>3

\* The parts of the invariant that the lemmas below need of an attribute.
LEMMA Defining ==
  ASSUME NEW rank, NEW m, NEW a, NEW F, NEW by, NEW cq, NEW q0, NEW q1, NEW q2,
         Data(rank, m, a, F, by, cq, q0, q1, q2)
  PROVE  /\ rank \in [Slot -> Nat] /\ a \in [Slot -> Attribute] /\ DefsInv(a) /\ F \subseteq Frame
         /\ q0 \in Seq(Event(0)) /\ q1 \in Seq(Event(1)) /\ q2 \in Seq(Event(2))
         /\ \A s \in Slot : SlotFits(m, rank, a, s) /\ Unneeded(a, F, s) /\ Settled(a, q0, q1, q2, F, s)
         /\ \A s \in Slot : a[s].def # Null => /\ a[s].def \in Paths /\ Ranked(rank, s, a[s].def)
                                               /\ s \in DefinedBy(m) /\ s[2] # Key
                                               /\ Len(a[s].def.keys) \in Nat
<1>1. /\ rank \in [Slot -> Nat] /\ a \in [Slot -> Attribute] /\ DefsInv(a) /\ F \subseteq Frame
      /\ q0 \in Seq(Event(0)) /\ q1 \in Seq(Event(1)) /\ q2 \in Seq(Event(2))
      /\ \A s \in Slot : SlotFits(m, rank, a, s) /\ Unneeded(a, F, s) /\ Settled(a, q0, q1, q2, F, s)
  BY DEF Data, Typed
<1>2. ASSUME NEW s \in Slot, a[s].def # Null
      PROVE  /\ a[s].def \in Paths /\ Ranked(rank, s, a[s].def) /\ s \in DefinedBy(m) /\ s[2] # Key
             /\ Len(a[s].def.keys) \in Nat
  <2>1. a[s].def \in Paths
    BY <1>1, <1>2, Attributes
  <2>2. Ranked(rank, s, a[s].def) /\ s \in DefinedBy(m)
    BY <1>1, <1>2 DEF SlotFits
  <2>3. Len(a[s].def.keys) \in Nat
    BY <2>1, PathIs
  <2> QED
    BY <2>1, <2>2, <2>3 DEF Ranked
<1> QED
  BY <1>1, <1>2

\* Attribute t changes, when those that have read it are notified, or need not know.
LEMMA DataTouch ==
  ASSUME NEW rank, NEW m, NEW a, NEW F, NEW by, NEW cq, NEW q0, NEW q1, NEW q2, NEW t \in Slot,
         NEW b \in [Slot -> Attribute], NEW p0 \in Seq(Event(0)),
         Data(rank, m, a, F, by, cq, q0, q1, q2), q2 = <<>>, \A f \in F : ~IsEvaluation(f),
         DefsInv(b), \A s \in Slot : s # t => b[s] = a[s],
         b[t].deps = a[t].deps, b[t].exists, t[2] # Key,
         b[t].def # Null => t \in DefinedBy(m) /\ Ranked(rank, t, b[t].def),
         a[t].def # Null => b[t].def # Null,
         \/ \E f \in F : Own(f) /\ f.slot = t /\ f.i = 1
         \/ b[t].val = a[t].val /\ ~Stale(b, t),
         \/ b[t].isf = a[t].isf /\ (a[t].ood => b[t].ood)
         \/ \A f \in F : Own(f) => f.i = 1,
         SetsPlain(m, b, by, cq, p0),
         \A s \in Slot, v \in Value : s # t /\ Outcome(a, q0, s, v) => Outcome(b, p0, s, v),
         Settled(b, p0, q1, q2, F, t)
  PROVE  Data(rank, m, b, F, by, cq, p0, q1, q2)
<1>1. /\ Typed(rank, a, F, cq, q0, q1, q2) /\ Queues(rank, m, a, by, cq, q0, q1, q2)
      /\ InCall(a, F, q1, q2)
  BY DEF Data
<1>2. /\ rank \in [Slot -> Nat] /\ a \in [Slot -> Attribute] /\ F \subseteq Frame
      /\ \A s \in Slot : SlotFits(m, rank, a, s) /\ Unneeded(a, F, s) /\ Settled(a, q0, q1, q2, F, s)
      /\ \A s \in Slot : a[s].def # Null =>
           /\ a[s].def \in Paths /\ Ranked(rank, s, a[s].def)
           /\ Len(a[s].def.keys) \in Nat
  BY Defining
<1>3. Typed(rank, b, F, cq, p0, q1, q2)
  BY <1>1 DEF Typed
<1>4. Queues(rank, m, b, by, cq, p0, q1, q2)
  <2>1. Len(q2) = 0
    OBVIOUS
  <2>2. DepsPlain(rank, b, by, cq, q2)
    BY <1>1, <2>1 DEF Queues, DepsPlain
  <2> QED
    BY <1>1, <2>2 DEF Queues
<1>5. \A s \in Slot : b[s].deps = a[s].deps /\ (a[s].def # Null => b[s].def # Null)
  OBVIOUS
<1>6. \A s \in Slot : \A j \in 1 .. Len(a[s].deps) : a[s].deps[j].slot \in Slot /\ a[s].deps[j] \in Dependent
  BY <1>2, DependentsAre
<1>7. ASSUME NEW s \in Slot PROVE SlotFits(m, rank, b, s)
  <2>1. ASSUME NEW j \in 1 .. Len(b[s].deps)
        PROVE  b[b[s].deps[j].slot].def # Null /\ rank[s] < rank[b[s].deps[j].slot]
    <3>1. j \in 1 .. Len(a[s].deps) /\ b[s].deps = a[s].deps
      BY <1>5
    <3>2. a[a[s].deps[j].slot].def # Null /\ rank[s] < rank[a[s].deps[j].slot]
      BY <1>2, <3>1 DEF SlotFits
    <3> QED
      BY <1>5, <1>6, <3>1, <3>2
  <2>2. CASE s = t
    BY <2>1, <2>2 DEF SlotFits
  <2>3. CASE s # t
    <3>1. b[s] = a[s] /\ SlotFits(m, rank, a, s)
      BY <1>2, <2>3
    <3> QED
      BY <2>1, <3>1 DEF SlotFits
  <2> QED
    BY <2>2, <2>3
<1>8. \A f \in F : Own(f) => f.slot \in Slot /\ f.i \in Nat
  <2>1. \A f \in F : f \in Frame
    BY <1>2
  <2> QED
    BY <2>1, Frames DEF Own
<1>9. ASSUME NEW f \in F, Own(f) PROVE NotificationFits(b, q1, f)
  <2> SUFFICES ASSUME NEW j \in 1 .. Len(a[f.slot].deps), j < f.i PROVE Told(b, q1, a[f.slot].deps[j])
    BY <1>5, <1>8, <1>9 DEF NotificationFits
  <2>1. Told(a, q1, a[f.slot].deps[j])
    BY <1>1, <1>9 DEF InCall, NotificationFits
  <2>2. f.slot \in Slot /\ a[f.slot].deps[j].slot \in Slot
    BY <1>6, <1>8, <1>9
  <2>3. f.i # 1
    OBVIOUS
  <2>4. b[t].isf = a[t].isf /\ (a[t].ood => b[t].ood)
    BY <1>9, <2>3
  <2>5. PICK e \in Dependent : e = a[f.slot].deps[j]
    BY <1>6, <2>2
  <2>6. CASE e.slot = t
    BY <2>1, <2>4, <2>5, <2>6 DEF Told, Entry
  <2>7. CASE e.slot # t
    <3>1. b[e.slot] = a[e.slot]
      BY <2>2, <2>5, <2>7
    <3> QED
      BY <2>1, <2>5, <3>1 DEF Told, Entry
  <2> QED
    BY <2>6, <2>7
<1>10. InCall(b, F, q1, q2)
  BY <1>9 DEF InCall
<1>11. ASSUME NEW s \in Slot PROVE Unneeded(b, F, s)
  <2>1. CASE s = t
    BY <2>1 DEF Unneeded
  <2>2. CASE s # t
    BY <1>2, <2>2 DEF Unneeded, Stale
  <2> QED
    BY <2>1, <2>2
<1>12. ASSUME NEW s \in Slot, s # t PROVE Settled(b, p0, q1, q2, F, s)
  <2>1. b[s] = a[s] /\ Entry(b, s) = Entry(a, s)
    BY <1>12 DEF Entry
  <2> SUFFICES ASSUME a[s].def # Null, ~Due(b, F, s), ~Waiting(b, q1, F, s) PROVE Current(b, p0, q2, s)
    BY <2>1 DEF Settled
  <2>2. ~Due(a, F, s) /\ ~Waiting(a, q1, F, s)
    <3>1. Due(a, F, s) => Due(b, F, s)
      BY <1>5, <1>8, <2>1 DEF Due, DueBy
    <3> QED
      BY <2>1, <3>1 DEF Waiting
  <2>3. PICK v \in Value : Outcome(a, q0, s, v) /\ Steady(a, q2, s, a[s].def, Len(a[s].def.keys), v)
    BY <1>2, <2>2 DEF Settled, Current
  <2>4. Registered(a, q2, t, s) => ~\E f \in F : Own(f) /\ f.slot = t /\ f.i = 1
    <3> SUFFICES ASSUME NEW f \in F, Own(f), f.slot = t, f.i = 1, Registered(a, q2, t, s) PROVE FALSE
      OBVIOUS
    <3>1. PICK j \in 1 .. Len(a[t].deps) : a[t].deps[j] = Entry(a, s)
      BY DEF Registered
    <3>2. j >= f.i
      BY <3>1
    <3>3. DueBy(a, f, s)
      BY <3>1, <3>2 DEF DueBy
    <3> QED
      BY <2>2, <3>3 DEF Due
  <2>5. ASSUME NEW r \in Slot, Fresh(a, q2, r, s) PROVE b[r].val = a[r].val /\ Fresh(b, q2, r, s)
    <3>1. Registered(b, q2, r, s)
      <4>1. Registered(a, q2, r, s) /\ b[r].deps = a[r].deps
        BY <1>5, <2>5 DEF Fresh
      <4> QED
        BY <2>1, <4>1 DEF Registered
    <3>2. CASE r = t
      <4>1. b[t].val = a[t].val /\ ~Stale(b, t)
        BY <2>4, <2>5, <3>2 DEF Fresh
      <4> QED
        BY <3>1, <3>2, <4>1 DEF Fresh
    <3>3. CASE r # t
      BY <2>5, <3>1, <3>3 DEF Fresh, Stale
    <3> QED
      BY <3>2, <3>3
  <2>6. Steady(b, q2, s, a[s].def, Len(a[s].def.keys), v)
    <3>1. PICK d \in Paths : d = a[s].def /\ Ranked(rank, s, d) /\ Len(d.keys) \in Nat
      BY <1>2
    <3>2. PICK n \in 0 .. Len(d.keys) : n = Len(d.keys)
      BY <3>1
    <3>3. Steady(a, q2, s, d, n, v)
      BY <2>3, <3>1, <3>2
    <3>4. Steady(b, q2, s, d, n, v)
      BY <1>2, <2>5, <3>1, <3>3, SteadyKept
    <3> QED
      BY <3>1, <3>2, <3>4
  <2>7. Outcome(b, p0, s, v)
    BY <1>12, <2>3
  <2> QED
    BY <2>1, <2>3, <2>6, <2>7 DEF Current
<1>13. \A s \in Slot : Settled(b, p0, q1, q2, F, s)
  BY <1>12
<1> QED
  BY <1>3, <1>4, <1>7, <1>10, <1>11, <1>13 DEF Data

\* Attributes that are the same but for their dependents and their locks.
Same(a, b) ==
  /\ b \in [Slot -> Attribute] /\ DefsInv(b)
  /\ \A s \in Slot : /\ b[s].exists = a[s].exists /\ b[s].val = a[s].val /\ b[s].def = a[s].def
                     /\ b[s].isf = a[s].isf /\ b[s].ood = a[s].ood

LEMMA QueuesSame ==
  ASSUME NEW rank, NEW m, NEW a, NEW F, NEW by, NEW cq, NEW q0, NEW q1, NEW q2, NEW b,
         Data(rank, m, a, F, by, cq, q0, q1, q2), Same(a, b)
  PROVE  Queues(rank, m, b, by, cq, q0, q1, q2)
<1>1. Queues(rank, m, a, by, cq, q0, q1, q2) /\ q0 \in Seq(Event(0)) /\ q2 \in Seq(Event(2))
  BY Defining DEF Data
<1>2. \A s \in Slot : b[s].def = a[s].def /\ b[s].isf = a[s].isf /\ b[s].ood = a[s].ood
  BY DEF Same
<1>3. ASSUME NEW i \in 1 .. Len(q0) PROVE SetFits(m, b, cq, q0, i)
  <2>1. SetFits(m, a, cq, q0, i)
    BY <1>1 DEF Queues, SetsPlain
  <2>2. q0[i] \in Event(0)
    BY <1>1, SeqIs
  <2>3. q0[i].type = "SET_BYDEF" => q0[i].slot \in Slot
    BY <2>2, EventsAre
  <2> QED
    BY <1>2, <2>1, <2>3 DEF SetFits
<1>4. ASSUME NEW i \in 1 .. Len(q2) PROVE DepFits(rank, b, q2[i])
  <2>1. DepFits(rank, a, q2[i])
    BY <1>1 DEF Queues, DepsPlain
  <2>2. q2[i] \in Event(2)
    BY <1>1, SeqIs
  <2>3. q2[i].slot \in Slot /\ q2[i].by \in Slot
    BY <2>2, EventsAre
  <2> QED
    BY <1>2, <2>1, <2>3 DEF DepFits, Stale
<1> QED
  BY <1>1, <1>3, <1>4 DEF Queues, SetsPlain, DepsPlain

\* Attributes are locked or unlocked.
LEMMA DataAlike ==
  ASSUME NEW rank, NEW m, NEW a, NEW F, NEW by, NEW cq, NEW q0, NEW q1, NEW q2, NEW b,
         Data(rank, m, a, F, by, cq, q0, q1, q2), Same(a, b), \A s \in Slot : b[s].deps = a[s].deps
  PROVE  Data(rank, m, b, F, by, cq, q0, q1, q2)
<1>1. /\ Typed(rank, a, F, cq, q0, q1, q2) /\ Queues(rank, m, a, by, cq, q0, q1, q2)
      /\ InCall(a, F, q1, q2)
  BY DEF Data
<1>2. /\ rank \in [Slot -> Nat] /\ a \in [Slot -> Attribute] /\ F \subseteq Frame
      /\ \A s \in Slot : SlotFits(m, rank, a, s) /\ Unneeded(a, F, s) /\ Settled(a, q0, q1, q2, F, s)
      /\ \A s \in Slot : a[s].def # Null =>
           /\ a[s].def \in Paths /\ Ranked(rank, s, a[s].def)
           /\ Len(a[s].def.keys) \in Nat
      /\ q0 \in Seq(Event(0)) /\ q2 \in Seq(Event(2))
  BY Defining
<1>3. /\ b \in [Slot -> Attribute] /\ DefsInv(b)
      /\ \A s \in Slot : /\ b[s].exists = a[s].exists /\ b[s].val = a[s].val /\ b[s].def = a[s].def
                         /\ b[s].isf = a[s].isf /\ b[s].ood = a[s].ood /\ b[s].deps = a[s].deps
  BY DEF Same
<1>4. Typed(rank, b, F, cq, q0, q1, q2)
  BY <1>1, <1>3 DEF Typed
<1>5. /\ \A s \in Slot : (Stale(b, s) <=> Stale(a, s)) /\ Entry(b, s) = Entry(a, s)
      /\ \A r, s \in Slot : Fresh(b, q2, r, s) <=> Fresh(a, q2, r, s)
  <2>1. \A s \in Slot : (Stale(b, s) <=> Stale(a, s)) /\ Entry(b, s) = Entry(a, s)
    BY <1>3 DEF Stale, Entry
  <2>2. \A r, s \in Slot : Registered(b, q2, r, s) <=> Registered(a, q2, r, s)
    BY <1>3, <2>1 DEF Registered
  <2> QED
    BY <2>1, <2>2 DEF Fresh
<1>6. ASSUME NEW s \in Slot, NEW d \in Paths, Ranked(rank, s, d), NEW n \in 0 .. Len(d.keys), NEW v,
             Steady(a, q2, s, d, n, v)
      PROVE  Steady(b, q2, s, d, n, v)
  BY <1>2, <1>3, <1>5, <1>6, SteadyKept
<1>7. Queues(rank, m, b, by, cq, q0, q1, q2)
  BY QueuesSame
<1>8. ASSUME NEW s \in Slot PROVE SlotFits(m, rank, b, s)
  <2>1. \A j \in 1 .. Len(a[s].deps) : a[s].deps[j].slot \in Slot
    BY <1>2, DependentsAre
  <2>2. SlotFits(m, rank, a, s)
    BY <1>2
  <2>3. ASSUME NEW j \in 1 .. Len(b[s].deps)
        PROVE  b[b[s].deps[j].slot].def # Null /\ rank[s] < rank[b[s].deps[j].slot]
    <3>1. j \in 1 .. Len(a[s].deps) /\ b[s].deps = a[s].deps
      BY <1>3
    <3> QED
      BY <1>3, <2>1, <2>2, <3>1 DEF SlotFits
  <2> QED
    BY <1>3, <2>2, <2>3 DEF SlotFits
<1>9. ASSUME NEW f \in F, IsEvaluation(f) PROVE EvaluationFits(b, q2, f)
  <2>1. EvaluationFits(a, q2, f)
    BY <1>1, <1>9 DEF InCall
  <2>2. f.slot \in Slot /\ f.def \in Paths /\ f.pos \in Nat \ {0} /\ f.res \in Value
    BY <1>2, <1>9, Frames
  <2>3. a[f.slot].def # Null /\ Ranked(rank, f.slot, f.def) /\ Len(f.def.keys) \in Nat
    <3>1. f.def # Null
      BY <2>2, PathsAssumption
    <3> QED
      BY <1>2, <2>1, <2>2, <3>1 DEF EvaluationFits
  <2>4. PICK n \in 0 .. Len(f.def.keys) : n = f.pos - 1
    BY <2>1, <2>2, <2>3 DEF EvaluationFits
  <2>5. Steady(b, q2, f.slot, f.def, n, f.res)
    BY <1>6, <2>1, <2>2, <2>3, <2>4 DEF EvaluationFits
  <2>6. f.at = "dep" => Asked(f) \in Slot
    <3> SUFFICES ASSUME f.at = "dep" PROVE Asked(f) \in Slot
      OBVIOUS
    <3>1. f.pos \in 1 .. Len(f.def.keys)
      BY <2>1, <2>2, <2>3 DEF EvaluationFits
    <3> QED
      BY <2>2, <3>1, PathIs DEF Asked
  <2> QED
    BY <1>3, <1>5, <2>1, <2>2, <2>4, <2>5, <2>6 DEF EvaluationFits
<1>10. ASSUME NEW f \in F, Own(f) PROVE NotificationFits(b, q1, f)
  <2>1. f.slot \in Slot
    BY <1>2, <1>10, Frames DEF Own
  <2>2. \A j \in 1 .. Len(a[f.slot].deps) : a[f.slot].deps[j].slot \in Slot
    BY <1>2, <2>1, DependentsAre
  <2>3. NotificationFits(a, q1, f)
    BY <1>1, <1>10 DEF InCall
  <2> QED
    BY <1>3, <1>5, <2>1, <2>2, <2>3 DEF NotificationFits, Told
<1>11. InCall(b, F, q1, q2)
  BY <1>9, <1>10 DEF InCall
<1>12. ASSUME NEW s \in Slot PROVE Unneeded(b, F, s)
  BY <1>2, <1>3, <1>5 DEF Unneeded
<1>13. ASSUME NEW s \in Slot PROVE Settled(b, q0, q1, q2, F, s)
  <2> SUFFICES ASSUME a[s].def # Null, ~Due(b, F, s), ~Waiting(b, q1, F, s) PROVE Current(b, q0, q2, s)
    BY <1>3 DEF Settled
  <2>1. \A f \in F : Own(f) => f.slot \in Slot
    BY <1>2, Frames DEF Own
  <2>2. ~Due(a, F, s) /\ ~Waiting(a, q1, F, s)
    <3>1. Due(a, F, s) => Due(b, F, s)
      BY <1>3, <1>5, <2>1 DEF Due, DueBy
    <3> QED
      BY <1>3, <3>1 DEF Waiting
  <2>3. PICK v \in Value : Outcome(a, q0, s, v) /\ Steady(a, q2, s, a[s].def, Len(a[s].def.keys), v)
    BY <1>2, <2>2 DEF Settled, Current
  <2>4. PICK d \in Paths : d = a[s].def /\ Ranked(rank, s, d) /\ Len(d.keys) \in Nat
    BY <1>2
  <2>5. PICK n \in 0 .. Len(d.keys) : n = Len(d.keys)
    BY <2>4
  <2>6. Steady(b, q2, s, d, n, v)
    BY <1>6, <2>3, <2>4, <2>5
  <2>7. Outcome(b, q0, s, v)
    BY <1>3, <2>3 DEF Outcome
  <2> QED
    BY <1>3, <2>4, <2>5, <2>6, <2>7 DEF Current
<1> QED
  BY <1>4, <1>7, <1>8, <1>11, <1>12, <1>13 DEF Data

\* A notification forgets the dependents: each of them knows.
LEMMA DataForget ==
  ASSUME NEW rank, NEW m, NEW a, NEW F, NEW by, NEW cq, NEW q0, NEW q1, NEW q2, NEW b, NEW t \in Slot,
         Data(rank, m, a, F, by, cq, q0, q1, q2), q2 = <<>>, \A g \in F : ~IsEvaluation(g),
         Same(a, b), \A s \in Slot : s # t => b[s].deps = a[s].deps, b[t].deps = <<>>,
         NEW f \in F, Own(f), f.slot = t, ~(f.i <= Len(a[t].deps))
  PROVE  Data(rank, m, b, F, by, cq, q0, q1, q2)
<1>1. /\ Typed(rank, a, F, cq, q0, q1, q2) /\ Queues(rank, m, a, by, cq, q0, q1, q2)
      /\ InCall(a, F, q1, q2)
  BY DEF Data
<1>2. /\ rank \in [Slot -> Nat] /\ a \in [Slot -> Attribute] /\ F \subseteq Frame
      /\ \A s \in Slot : SlotFits(m, rank, a, s) /\ Unneeded(a, F, s) /\ Settled(a, q0, q1, q2, F, s)
      /\ \A s \in Slot : a[s].def # Null =>
           /\ a[s].def \in Paths /\ Ranked(rank, s, a[s].def)
           /\ Len(a[s].def.keys) \in Nat
  BY Defining
<1>3. /\ b \in [Slot -> Attribute] /\ DefsInv(b)
      /\ \A s \in Slot : /\ b[s].exists = a[s].exists /\ b[s].val = a[s].val /\ b[s].def = a[s].def
                         /\ b[s].isf = a[s].isf /\ b[s].ood = a[s].ood
  BY DEF Same
<1>4. Typed(rank, b, F, cq, q0, q1, q2)
  BY <1>1, <1>3 DEF Typed
<1>5. Queues(rank, m, b, by, cq, q0, q1, q2)
  BY QueuesSame
<1>6. Len(b[t].deps) = 0
  OBVIOUS
<1>7. \A s \in Slot : (Stale(b, s) <=> Stale(a, s)) /\ Entry(b, s) = Entry(a, s)
  BY <1>3 DEF Stale, Entry
<1>8. \A g \in F : Own(g) => g.slot \in Slot /\ g.i \in Nat
  <2>1. \A g \in F : g \in Frame
    BY <1>2
  <2> QED
    BY <2>1, Frames DEF Own
<1>9. ASSUME NEW s \in Slot PROVE SlotFits(m, rank, b, s)
  <2>1. \A j \in 1 .. Len(a[s].deps) : a[s].deps[j].slot \in Slot
    BY <1>2, DependentsAre
  <2>2. SlotFits(m, rank, a, s)
    BY <1>2
  <2>3. ASSUME NEW j \in 1 .. Len(b[s].deps)
        PROVE  b[b[s].deps[j].slot].def # Null /\ rank[s] < rank[b[s].deps[j].slot]
    <3>1. s # t
      BY <1>6
    <3>2. j \in 1 .. Len(a[s].deps) /\ b[s].deps = a[s].deps
      BY <3>1
    <3> QED
      BY <1>3, <2>1, <2>2, <3>2 DEF SlotFits
  <2>4. s[2] = Key => b[s].deps = <<>>
    BY <2>2 DEF SlotFits
  <2> QED
    BY <1>3, <2>2, <2>3, <2>4 DEF SlotFits
<1>10. ASSUME NEW g \in F, Own(g) PROVE NotificationFits(b, q1, g)
  <2>1. g.slot \in Slot
    BY <1>8, <1>10
  <2>2. CASE g.slot = t
    BY <1>6, <2>2 DEF NotificationFits
  <2>3. CASE g.slot # t
    <3>1. \A j \in 1 .. Len(a[g.slot].deps) : a[g.slot].deps[j].slot \in Slot
      BY <1>2, <2>1, DependentsAre
    <3>2. NotificationFits(a, q1, g)
      BY <1>1, <1>10 DEF InCall
    <3>3. b[g.slot].deps = a[g.slot].deps
      BY <2>1, <2>3
    <3> QED
      BY <1>3, <1>7, <2>1, <3>1, <3>2, <3>3 DEF NotificationFits, Told
  <2> QED
    BY <2>2, <2>3
<1>11. InCall(b, F, q1, q2)
  BY <1>10 DEF InCall
<1>12. ASSUME NEW s \in Slot PROVE Unneeded(b, F, s)
  <2>1. CASE s = t
    BY <2>1 DEF Unneeded
  <2>2. CASE s # t
    BY <1>2, <1>7, <2>2 DEF Unneeded
  <2> QED
    BY <2>1, <2>2
\* A dependent that is forgotten waits for its evaluation.
<1>13. ASSUME NEW s \in Slot, NEW j \in 1 .. Len(a[t].deps), a[t].deps[j] = Entry(a, s)
       PROVE  Waiting(b, q1, F, s)
  <2>1. f.i \in Nat /\ Len(a[t].deps) \in Nat
    BY <1>2, <1>8, DependentsAre
  <2>2. j < f.i
    BY <2>1
  <2>3. NotificationFits(a, q1, f)
    BY <1>1 DEF InCall
  <2>4. Told(a, q1, Entry(a, s))
    BY <1>13, <2>2, <2>3 DEF NotificationFits
  <2>5. IF a[s].isf THEN a[s].ood ELSE Notified(q1, s)
    BY <2>4 DEF Told, Entry
  <2> QED
    BY <1>3, <2>5 DEF Waiting
<1>14. ASSUME NEW s \in Slot PROVE Settled(b, q0, q1, q2, F, s)
  <2> SUFFICES ASSUME a[s].def # Null, ~Due(b, F, s), ~Waiting(b, q1, F, s) PROVE Current(b, q0, q2, s)
    BY <1>3 DEF Settled
  <2>1. ~Waiting(a, q1, F, s)
    BY <1>3 DEF Waiting
  <2>2. ~Due(a, F, s)
    <3> SUFFICES ASSUME NEW g \in F, DueBy(a, g, s) PROVE FALSE
      BY DEF Due
    <3>1. PICK j \in 1 .. Len(a[g.slot].deps) : j >= g.i /\ a[g.slot].deps[j] = Entry(a, s)
      BY DEF DueBy
    <3>2. Own(g) /\ g.slot \in Slot
      BY <1>8 DEF DueBy
    <3>3. CASE g.slot = t
      BY <1>13, <3>1, <3>3
    <3>4. CASE g.slot # t
      <4>1. b[g.slot].deps = a[g.slot].deps
        BY <3>2, <3>4
      <4>2. DueBy(b, g, s)
        BY <1>7, <3>1, <3>2, <4>1 DEF DueBy
      <4> QED
        BY <4>2 DEF Due
    <3> QED
      BY <3>3, <3>4
  <2>3. PICK v \in Value : Outcome(a, q0, s, v) /\ Steady(a, q2, s, a[s].def, Len(a[s].def.keys), v)
    BY <1>2, <2>1, <2>2 DEF Settled, Current
  <2>4. ASSUME NEW r \in Slot, Fresh(a, q2, r, s) PROVE b[r].val = a[r].val /\ Fresh(b, q2, r, s)
    <3>1. PICK j \in 1 .. Len(a[r].deps) : a[r].deps[j] = Entry(a, s)
      BY <2>4 DEF Fresh, Registered
    <3>2. r # t
      BY <1>13, <3>1
    <3>3. b[r].deps = a[r].deps
      BY <3>2
    <3>4. Registered(b, q2, r, s)
      BY <1>7, <3>1, <3>3 DEF Registered
    <3> QED
      BY <1>3, <1>7, <2>4, <3>4 DEF Fresh
  <2>5. PICK d \in Paths : d = a[s].def /\ Ranked(rank, s, d) /\ Len(d.keys) \in Nat
    BY <1>2
  <2>6. PICK n \in 0 .. Len(d.keys) : n = Len(d.keys)
    BY <2>5
  <2>7. Steady(a, q2, s, d, n, v)
    BY <2>3, <2>5, <2>6
  <2>8. Steady(b, q2, s, d, n, v)
    BY <1>2, <2>4, <2>5, <2>7, SteadyKept
  <2>9. Outcome(b, q0, s, v)
    BY <1>3, <2>3 DEF Outcome
  <2> QED
    BY <1>3, <2>5, <2>6, <2>8, <2>9 DEF Current
<1> QED
  BY <1>4, <1>5, <1>9, <1>11, <1>12, <1>14 DEF Data

\* The evaluation of an 'is' attribute ends: nobody has read it while it was out of date.
LEMMA DataRefresh ==
  ASSUME NEW rank, NEW m, NEW a, NEW F, NEW by, NEW cq, NEW q0, NEW q1, NEW q2, NEW b, NEW t \in Slot,
         NEW v \in Value, NEW n,
         Data(rank, m, a, F, by, cq, q0, q1, q2), Stale(a, t),
         b \in [Slot -> Attribute], DefsInv(b), \A s \in Slot : s # t => b[s] = a[s],
         b[t].exists = a[t].exists, b[t].def = a[t].def, b[t].isf = a[t].isf, b[t].deps = a[t].deps,
         b[t].val = v, ~b[t].ood,
         \A f \in F : ~Own(f) /\ (IsEvaluation(f) => f.slot # t),
         Steady(a, q2, t, a[t].def, n, v), n = Len(a[t].def.keys)
  PROVE  Data(rank, m, b, F, by, cq, q0, q1, q2)
<1>1. /\ Typed(rank, a, F, cq, q0, q1, q2) /\ Queues(rank, m, a, by, cq, q0, q1, q2)
      /\ InCall(a, F, q1, q2)
  BY DEF Data
<1>2. /\ rank \in [Slot -> Nat] /\ a \in [Slot -> Attribute] /\ F \subseteq Frame
      /\ \A s \in Slot : SlotFits(m, rank, a, s) /\ Unneeded(a, F, s) /\ Settled(a, q0, q1, q2, F, s)
      /\ \A s \in Slot : a[s].def # Null =>
           /\ a[s].def \in Paths /\ Ranked(rank, s, a[s].def)
           /\ Len(a[s].def.keys) \in Nat
      /\ q0 \in Seq(Event(0)) /\ q2 \in Seq(Event(2)) /\ DefsInv(a)
  BY Defining
<1>3. /\ \A s \in Slot : /\ b[s].exists = a[s].exists /\ b[s].def = a[s].def /\ b[s].isf = a[s].isf
                         /\ b[s].deps = a[s].deps
      /\ \A s \in Slot : s # t => b[s].val = a[s].val /\ b[s].ood = a[s].ood
  OBVIOUS
<1>4. Typed(rank, b, F, cq, q0, q1, q2)
  BY <1>1 DEF Typed
<1>5. /\ \A s \in Slot : (Stale(b, s) => Stale(a, s)) /\ Entry(b, s) = Entry(a, s) /\ ~Stale(b, t)
      /\ \A r, s \in Slot : Registered(b, q2, r, s) <=> Registered(a, q2, r, s)
  <2>1. \A s \in Slot : (Stale(b, s) => Stale(a, s)) /\ Entry(b, s) = Entry(a, s) /\ ~Stale(b, t)
    BY <1>3 DEF Stale, Entry
  <2>2. \A r, s \in Slot : Registered(b, q2, r, s) <=> Registered(a, q2, r, s)
    BY <1>3, <2>1 DEF Registered
  <2> QED
    BY <2>1, <2>2
<1>6. \A r, s \in Slot : Fresh(a, q2, r, s) => b[r].val = a[r].val /\ Fresh(b, q2, r, s) /\ r # t
  BY <1>3, <1>5 DEF Fresh
<1>7. ASSUME NEW s \in Slot, NEW d \in Paths, Ranked(rank, s, d), NEW k \in 0 .. Len(d.keys), NEW w,
             Steady(a, q2, s, d, k, w)
      PROVE  Steady(b, q2, s, d, k, w)
  BY <1>2, <1>6, <1>7, SteadyKept
<1>8. Queues(rank, m, b, by, cq, q0, q1, q2)
  <2>1. ASSUME NEW i \in 1 .. Len(q0) PROVE SetFits(m, b, cq, q0, i)
    <3>1. SetFits(m, a, cq, q0, i)
      BY <1>1 DEF Queues, SetsPlain
    <3>2. q0[i] \in Event(0)
      BY <1>2, SeqIs
    <3>3. q0[i].type = "SET_BYDEF" => q0[i].slot \in Slot
      BY <3>2, EventsAre
    <3> QED
      BY <1>3, <3>1, <3>3 DEF SetFits
  <2>2. ASSUME NEW i \in 1 .. Len(q2) PROVE DepFits(rank, b, q2[i])
    <3>1. DepFits(rank, a, q2[i])
      BY <1>1 DEF Queues, DepsPlain
    <3>2. q2[i] \in Event(2)
      BY <1>2, SeqIs
    <3>3. q2[i].slot \in Slot /\ q2[i].by \in Slot
      BY <3>2, EventsAre
    <3> QED
      BY <1>3, <1>5, <3>1, <3>3 DEF DepFits
  <2> QED
    BY <1>1, <2>1, <2>2 DEF Queues, SetsPlain, DepsPlain
<1>9. ASSUME NEW s \in Slot PROVE SlotFits(m, rank, b, s)
  <2>1. \A j \in 1 .. Len(a[s].deps) : a[s].deps[j].slot \in Slot
    BY <1>2, DependentsAre
  <2>2. SlotFits(m, rank, a, s)
    BY <1>2
  <2>3. ASSUME NEW j \in 1 .. Len(b[s].deps)
        PROVE  b[b[s].deps[j].slot].def # Null /\ rank[s] < rank[b[s].deps[j].slot]
    <3>1. j \in 1 .. Len(a[s].deps) /\ b[s].deps = a[s].deps
      BY <1>3
    <3> QED
      BY <1>3, <2>1, <2>2, <3>1 DEF SlotFits
  <2>4. ~b[s].exists => s # t
    <3>1. a[t].def # Null
      BY <1>2 DEF Stale, DefsInv
    <3> QED
      BY <1>2, <1>3, <3>1 DEF SlotFits
  <2> QED
    BY <1>3, <2>2, <2>3, <2>4 DEF SlotFits
<1>10. ASSUME NEW f \in F, IsEvaluation(f) PROVE EvaluationFits(b, q2, f)
  <2>1. EvaluationFits(a, q2, f)
    BY <1>1, <1>10 DEF InCall
  <2>2. f.slot \in Slot /\ f.def \in Paths /\ f.pos \in Nat \ {0} /\ f.res \in Value /\ f.slot # t
    BY <1>2, <1>10, Frames
  <2>3. a[f.slot].def # Null /\ Ranked(rank, f.slot, f.def) /\ Len(f.def.keys) \in Nat
    <3>1. f.def # Null
      BY <2>2, PathsAssumption
    <3> QED
      BY <1>2, <2>1, <2>2, <3>1 DEF EvaluationFits
  <2>4. PICK k \in 0 .. Len(f.def.keys) : k = f.pos - 1
    BY <2>1, <2>2, <2>3 DEF EvaluationFits
  <2>5. Steady(b, q2, f.slot, f.def, k, f.res)
    BY <1>7, <2>1, <2>2, <2>3, <2>4 DEF EvaluationFits
  <2>6. f.at = "dep" => Asked(f) \in Slot /\ Asked(f) # t
    <3> SUFFICES ASSUME f.at = "dep" PROVE Asked(f) \in Slot /\ Asked(f) # t
      OBVIOUS
    <3>1. f.pos \in 1 .. Len(f.def.keys) /\ ~Stale(a, Asked(f))
      BY <2>1, <2>2, <2>3 DEF EvaluationFits
    <3> QED
      BY <2>2, <3>1, PathIs DEF Asked
  <2>7. b[f.slot] = a[f.slot]
    BY <2>2
  <2> QED
    BY <1>3, <1>5, <2>1, <2>2, <2>4, <2>5, <2>6, <2>7 DEF EvaluationFits, Stale
<1>11. InCall(b, F, q1, q2)
  BY <1>10 DEF InCall
<1>12. ASSUME NEW s \in Slot PROVE Unneeded(b, F, s)
  BY <1>2, <1>3, <1>5 DEF Unneeded
<1>13. ASSUME NEW s \in Slot, s # t PROVE Settled(b, q0, q1, q2, F, s)
  <2> SUFFICES ASSUME a[s].def # Null, ~Due(b, F, s), ~Waiting(b, q1, F, s) PROVE Current(b, q0, q2, s)
    BY <1>3 DEF Settled
  <2>1. b[s] = a[s]
    BY <1>13
  <2>2. ~Due(a, F, s) /\ ~Waiting(a, q1, F, s)
    <3>1. ~Due(a, F, s)
      BY DEF Due, DueBy
    <3> QED
      BY <2>1, <3>1 DEF Waiting
  <2>3. PICK w \in Value : Outcome(a, q0, s, w) /\ Steady(a, q2, s, a[s].def, Len(a[s].def.keys), w)
    BY <1>2, <2>2 DEF Settled, Current
  <2>4. PICK d \in Paths : d = a[s].def /\ Ranked(rank, s, d) /\ Len(d.keys) \in Nat
    BY <1>2
  <2>5. PICK k \in 0 .. Len(d.keys) : k = Len(d.keys)
    BY <2>4
  <2>6. Steady(b, q2, s, d, k, w)
    BY <1>7, <2>3, <2>4, <2>5
  <2>7. Outcome(b, q0, s, w)
    BY <2>1, <2>3 DEF Outcome
  <2> QED
    BY <2>1, <2>3, <2>4, <2>5, <2>6, <2>7 DEF Current
<1>14. Settled(b, q0, q1, q2, F, t)
  <2>1. a[t].isf /\ a[t].def # Null
    BY <1>2 DEF Stale, DefsInv
  <2>2. PICK d \in Paths : d = a[t].def /\ Ranked(rank, t, d) /\ Len(d.keys) \in Nat
    BY <1>2, <2>1
  <2>3. PICK k \in 0 .. Len(d.keys) : k = Len(d.keys) /\ k = n
    BY <2>2
  <2>4. Steady(b, q2, t, d, k, v)
    BY <1>7, <2>2, <2>3
  <2>5. ASSUME NEW i \in 1 .. Len(q0) PROVE ~SetFor(q0[i], t)
    <3>1. SetFits(m, a, cq, q0, i)
      BY <1>1 DEF Queues, SetsPlain
    <3> QED
      BY <2>1, <3>1 DEF SetFits, SetFor
  <2>6. Outcome(b, q0, t, v)
    BY <2>5 DEF Outcome
  <2>7. Current(b, q0, q2, t)
    BY <2>2, <2>3, <2>4, <2>6 DEF Current
  <2> QED
    BY <2>7 DEF Settled
<1>15. \A s \in Slot : Settled(b, q0, q1, q2, F, s)
  BY <1>13, <1>14
<1> QED
  BY <1>4, <1>8, <1>9, <1>11, <1>12, <1>15 DEF Data

\* Dependents y are x with the entry of u in place of what there was of it.
Gains(x, y, u, is) ==
  /\ \A i \in 1 .. Len(y) : y[i].slot = u \/ \E j \in 1 .. Len(x) : y[i] = x[j]
  /\ \A j \in 1 .. Len(x) : x[j].slot # u => \E i \in 1 .. Len(y) : y[i] = x[j]
  /\ \E i \in 1 .. Len(y) : y[i] = [slot |-> u, is |-> is]

LEMMA GainedOthers ==
  ASSUME NEW x, NEW y, NEW u, NEW is, Gains(x, y, u, is), NEW i \in 1 .. Len(y), y[i].slot # u
  PROVE  \E j \in 1 .. Len(x) : y[i] = x[j]
BY DEF Gains

\* A dependency that was queued is registered.
LEMMA DataRegister ==
  ASSUME NEW rank, NEW m, NEW a, NEW F, NEW by, NEW cq, NEW q0, NEW q1, NEW q2, NEW b, NEW t \in Slot,
         NEW u \in Slot, NEW e \in Event(2),
         Data(rank, m, a, F, by, cq, q0, q1, q2), q2 # <<>>, e = Head(q2), t = e.slot, u = e.by,
         \A f \in F : ~Own(f),
         b \in [Slot -> Attribute], DefsInv(b), \A s \in Slot : s # t => b[s] = a[s],
         b[t].exists, b[t].def = a[t].def, b[t].isf = a[t].isf, b[t].val = a[t].val, b[t].ood = a[t].ood,
         Gains(a[t].deps, b[t].deps, u, e.type = "ADD_IS_DEP")
  PROVE  Data(rank, m, b, F, by, cq, q0, q1, Tail(q2))
<1> DEFINE p2 == Tail(q2)
<1>1. /\ Typed(rank, a, F, cq, q0, q1, q2) /\ Queues(rank, m, a, by, cq, q0, q1, q2)
      /\ InCall(a, F, q1, q2)
  BY DEF Data
<1>2. /\ rank \in [Slot -> Nat] /\ a \in [Slot -> Attribute] /\ F \subseteq Frame
      /\ \A s \in Slot : SlotFits(m, rank, a, s) /\ Unneeded(a, F, s) /\ Settled(a, q0, q1, q2, F, s)
      /\ \A s \in Slot : a[s].def # Null =>
           /\ a[s].def \in Paths /\ Ranked(rank, s, a[s].def)
           /\ Len(a[s].def.keys) \in Nat
      /\ q0 \in Seq(Event(0)) /\ q2 \in Seq(Event(2)) /\ DefsInv(a)
  BY Defining
<1>3. \A s \in Slot : /\ b[s].def = a[s].def /\ b[s].isf = a[s].isf /\ b[s].val = a[s].val
                      /\ b[s].ood = a[s].ood
  OBVIOUS
<1>4. /\ p2 \in Seq(Event(2)) /\ Head(q2) = q2[1] /\ Len(q2) \in Nat \ {0} /\ Len(p2) = Len(q2) - 1
      /\ \A i \in 1 .. Len(q2) - 1 : p2[i] = q2[i + 1]
  BY <1>2, Behead
<1>5. p2 = Tail(q2)
  OBVIOUS
<1> HIDE DEF p2
<1>6. DepFits(rank, a, e)
  BY <1>1, <1>4 DEF Queues, DepsPlain
<1>7. /\ a[u].def # Null /\ rank[t] < rank[u] /\ t[2] # Key /\ ~Stale(a, t)
      /\ e = DepEvent(a[u].isf, t, u)
  BY <1>6 DEF DepFits
<1>8. a[u].isf \in BOOLEAN /\ a[u].isf = (e.type = "ADD_IS_DEP")
  <2>1. a[u].isf \in BOOLEAN
    BY <1>2, Attributes
  <2> QED
    BY <1>7, <2>1 DEF DepEvent
<1>9. \A s \in Slot : (Stale(b, s) <=> Stale(a, s)) /\ Entry(b, s) = Entry(a, s)
  BY <1>3 DEF Stale, Entry
<1>10. \E i \in 1 .. Len(b[t].deps) : b[t].deps[i] = Entry(a, u)
  BY <1>8 DEF Entry, Gains
<1>11. ASSUME NEW r \in Slot, NEW s \in Slot, Registered(a, q2, r, s) PROVE Registered(b, p2, r, s)
  <2>1. ASSUME NEW j \in 1 .. Len(a[r].deps), a[r].deps[j] = Entry(a, s) PROVE Registered(b, p2, r, s)
    <3>1. CASE r # t
      BY <1>9, <2>1, <3>1 DEF Registered
    <3>2. CASE r = t /\ s = u
      BY <1>9, <1>10, <3>2 DEF Registered
    <3>3. CASE r = t /\ s # u
      <4>1. a[t].deps[j].slot # u
        BY <2>1, <3>3 DEF Entry
      <4>2. PICK i \in 1 .. Len(b[t].deps) : b[t].deps[i] = a[t].deps[j]
        BY <3>3, <4>1 DEF Gains
      <4> QED
        BY <1>9, <2>1, <3>3, <4>2 DEF Registered
    <3> QED
      BY <3>1, <3>2, <3>3
  <2>2. ASSUME NEW j \in 1 .. Len(q2), q2[j] = DepEvent(a[s].isf, r, s) PROVE Registered(b, p2, r, s)
    <3>1. CASE j = 1
      <4>1. e = DepEvent(a[s].isf, r, s)
        BY <1>4, <2>2, <3>1
      <4>2. r = t /\ s = u
        BY <4>1 DEF DepEvent
      <4> QED
        BY <1>9, <1>10, <4>2 DEF Registered
    <3>2. CASE j # 1
      <4>1. j - 1 \in 1 .. Len(p2) /\ p2[j - 1] = q2[j]
        BY <1>4, <3>2
      <4> QED
        BY <1>3, <2>2, <4>1 DEF Registered
    <3> QED
      BY <3>1, <3>2
  <2> QED
    BY <1>11, <2>1, <2>2 DEF Registered
<1>12. \A r, s \in Slot : Fresh(a, q2, r, s) => b[r].val = a[r].val /\ Fresh(b, p2, r, s)
  BY <1>3, <1>9, <1>11 DEF Fresh
<1>13. ASSUME NEW s \in Slot, NEW d \in Paths, Ranked(rank, s, d), NEW k \in 0 .. Len(d.keys), NEW w,
              Steady(a, q2, s, d, k, w)
       PROVE  Steady(b, p2, s, d, k, w)
  BY <1>2, <1>12, <1>13, SteadyKept
<1>14. Typed(rank, b, F, cq, q0, q1, p2)
  BY <1>1, <1>4 DEF Typed
<1>15. Queues(rank, m, b, by, cq, q0, q1, p2)
  <2>1. ASSUME NEW i \in 1 .. Len(q0) PROVE SetFits(m, b, cq, q0, i)
    <3>1. SetFits(m, a, cq, q0, i)
      BY <1>1 DEF Queues, SetsPlain
    <3>2. q0[i] \in Event(0)
      BY <1>2, SeqIs
    <3>3. q0[i].type = "SET_BYDEF" => q0[i].slot \in Slot
      BY <3>2, EventsAre
    <3> QED
      BY <1>3, <3>1, <3>3 DEF SetFits
  <2>2. ASSUME NEW i \in 1 .. Len(p2) PROVE DepFits(rank, b, p2[i])
    <3>1. PICK j \in 1 .. Len(q2) : p2[i] = q2[j]
      <4>1. i + 1 \in 1 .. Len(q2) /\ p2[i] = q2[i + 1]
        BY <1>4
      <4> QED
        BY <4>1
    <3>2. DepFits(rank, a, q2[j])
      BY <1>1 DEF Queues, DepsPlain
    <3>3. q2[j] \in Event(2)
      BY <1>2, SeqIs
    <3>4. q2[j].slot \in Slot /\ q2[j].by \in Slot
      BY <3>3, EventsAre
    <3> QED
      BY <1>3, <1>9, <3>1, <3>2, <3>4 DEF DepFits
  <2> QED
    BY <1>1, <2>1, <2>2 DEF Queues, SetsPlain, DepsPlain
<1>16. ASSUME NEW s \in Slot PROVE SlotFits(m, rank, b, s)
  <2>1. \A j \in 1 .. Len(a[s].deps) : a[s].deps[j].slot \in Slot
    BY <1>2, DependentsAre
  <2>2. SlotFits(m, rank, a, s)
    BY <1>2
  <2>3. ASSUME NEW i \in 1 .. Len(b[s].deps)
        PROVE  b[b[s].deps[i].slot].def # Null /\ rank[s] < rank[b[s].deps[i].slot]
    <3>1. CASE s = t /\ b[s].deps[i].slot = u
      BY <1>3, <1>7, <3>1
    <3>2. CASE s # t \/ b[s].deps[i].slot # u
      <4>1. PICK j \in 1 .. Len(a[s].deps) : b[s].deps[i] = a[s].deps[j]
        <5>1. CASE s # t
          BY <5>1
        <5>2. CASE s = t
          BY <3>2, <5>2, GainedOthers
        <5> QED
          BY <5>1, <5>2
      <4> QED
        BY <1>3, <2>1, <2>2, <4>1 DEF SlotFits
    <3> QED
      BY <3>1, <3>2
  <2>4. CASE s = t
    BY <1>3, <1>7, <2>2, <2>3, <2>4 DEF SlotFits
  <2>5. CASE s # t
    <3>1. b[s] = a[s]
      BY <2>5
    <3> QED
      BY <2>2, <2>3, <3>1 DEF SlotFits
  <2> QED
    BY <2>4, <2>5
<1>17. ASSUME NEW f \in F, IsEvaluation(f) PROVE EvaluationFits(b, p2, f)
  <2>1. EvaluationFits(a, q2, f)
    BY <1>1, <1>17 DEF InCall
  <2>2. f.slot \in Slot /\ f.def \in Paths /\ f.pos \in Nat \ {0} /\ f.res \in Value
    BY <1>2, <1>17, Frames
  <2>3. a[f.slot].def # Null /\ Ranked(rank, f.slot, f.def) /\ Len(f.def.keys) \in Nat
    <3>1. f.def # Null
      BY <2>2, PathsAssumption
    <3> QED
      BY <1>2, <2>1, <2>2, <3>1 DEF EvaluationFits
  <2>4. PICK k \in 0 .. Len(f.def.keys) : k = f.pos - 1
    BY <2>1, <2>2, <2>3 DEF EvaluationFits
  <2>5. Steady(b, p2, f.slot, f.def, k, f.res)
    BY <1>13, <2>1, <2>2, <2>3, <2>4 DEF EvaluationFits
  <2>6. f.at = "dep" => Asked(f) \in Slot
    <3> SUFFICES ASSUME f.at = "dep" PROVE Asked(f) \in Slot
      OBVIOUS
    <3>1. f.pos \in 1 .. Len(f.def.keys)
      BY <2>1, <2>2, <2>3 DEF EvaluationFits
    <3> QED
      BY <2>2, <3>1, PathIs DEF Asked
  <2> QED
    BY <1>3, <1>9, <2>1, <2>2, <2>4, <2>5, <2>6 DEF EvaluationFits
<1>18. InCall(b, F, q1, p2)
  BY <1>17 DEF InCall
<1>19. ASSUME NEW s \in Slot PROVE Unneeded(b, F, s)
  <2>1. CASE s = t
    BY <1>7, <1>9, <2>1 DEF Unneeded
  <2>2. CASE s # t
    BY <1>2, <1>9, <2>2 DEF Unneeded
  <2> QED
    BY <2>1, <2>2
<1>20. ASSUME NEW s \in Slot PROVE Settled(b, q0, q1, p2, F, s)
  <2> SUFFICES ASSUME a[s].def # Null, ~Due(b, F, s), ~Waiting(b, q1, F, s) PROVE Current(b, q0, p2, s)
    BY <1>3 DEF Settled
  <2>1. ~Due(a, F, s) /\ ~Waiting(a, q1, F, s)
    <3>1. ~Due(a, F, s)
      BY DEF Due, DueBy
    <3> QED
      BY <1>3, <3>1 DEF Waiting
  <2>2. PICK w \in Value : Outcome(a, q0, s, w) /\ Steady(a, q2, s, a[s].def, Len(a[s].def.keys), w)
    BY <1>2, <2>1 DEF Settled, Current
  <2>3. PICK d \in Paths : d = a[s].def /\ Ranked(rank, s, d) /\ Len(d.keys) \in Nat
    BY <1>2
  <2>4. PICK k \in 0 .. Len(d.keys) : k = Len(d.keys)
    BY <2>3
  <2>5. Steady(b, p2, s, d, k, w)
    BY <1>13, <2>2, <2>3, <2>4
  <2>6. Outcome(b, q0, s, w)
    BY <1>3, <2>2 DEF Outcome
  <2> QED
    BY <1>3, <2>3, <2>4, <2>5, <2>6 DEF Current
<1>21. Data(rank, m, b, F, by, cq, q0, q1, p2)
  BY <1>14, <1>15, <1>16, <1>18, <1>19, <1>20 DEF Data
<1> QED
  BY <1>5, <1>21

\* What joining two sequences does, element by element.
LEMMA Joined ==
  ASSUME NEW S, NEW s \in Seq(S), NEW t \in Seq(S)
  PROVE  /\ s \o t \in Seq(S) /\ Len(s) \in Nat /\ Len(t) \in Nat /\ Len(s \o t) = Len(s) + Len(t)
         /\ \A i \in 1 .. Len(s) : i \in 1 .. Len(s \o t) /\ (s \o t)[i] = s[i]
         /\ \A i \in 1 .. Len(t) : Len(s) + i \in 1 .. Len(s \o t) /\ (s \o t)[Len(s) + i] = t[i]
         /\ \A i \in 1 .. Len(s \o t) : \/ i \in 1 .. Len(s)
                                         \/ \E j \in 1 .. Len(t) : i = Len(s) + j
<1>1. /\ s \o t \in Seq(S) /\ Len(s) \in Nat /\ Len(t) \in Nat /\ Len(s \o t) = Len(s) + Len(t)
      /\ \A i \in 1 .. Len(s) + Len(t) : (s \o t)[i] = IF i <= Len(s) THEN s[i] ELSE t[i - Len(s)]
  BY ConcatProperties, SeqIs
<1>2. PICK n \in Nat : n = Len(s)
  BY <1>1
<1>3. PICK k \in Nat : k = Len(t)
  BY <1>1
<1>4. PICK u \in Seq(S) : u = s \o t
  BY <1>1
<1>5. Len(u) = n + k /\ \A i \in 1 .. n + k : u[i] = IF i <= n THEN s[i] ELSE t[i - n]
  BY <1>1, <1>2, <1>3, <1>4
<1>6. \A i \in 1 .. n : i \in 1 .. Len(u) /\ u[i] = s[i]
  BY <1>5
<1>7. \A i \in 1 .. k : n + i \in 1 .. Len(u) /\ u[n + i] = t[i]
  BY <1>5
<1>8. ASSUME NEW i \in 1 .. Len(u) PROVE i \in 1 .. n \/ \E j \in 1 .. k : i = n + j
  <2>1. CASE i <= n
    BY <2>1
  <2>2. CASE ~(i <= n)
    <3>1. i - n \in 1 .. k /\ i = n + (i - n)
      BY <1>5, <2>2
    <3> QED
      BY <3>1
  <2> QED
    BY <2>1, <2>2
<1> QED
  BY <1>1, <1>2, <1>3, <1>4, <1>6, <1>7, <1>8

\* A part of a sequence, element by element.
LEMMA PartIs ==
  ASSUME NEW S, NEW s \in Seq(S), NEW i \in Nat, NEW k \in Nat, i + k <= Len(s)
  PROVE  /\ SubSeq(s, i + 1, i + k) \in Seq(S) /\ Len(SubSeq(s, i + 1, i + k)) = k
         /\ \A j \in 1 .. k : SubSeq(s, i + 1, i + k)[j] = s[i + j]
<1>1. Len(s) \in Nat /\ \A j \in 1 .. Len(s) : s[j] \in S
  BY SeqIs
<1>2. PICK x \in Nat : x = i + 1
  OBVIOUS
<1>3. PICK y \in Nat : y = i + k
  OBVIOUS
<1>4. \A j \in x .. y : s[j] \in S
  BY <1>1, <1>2, <1>3
<1>5. /\ SubSeq(s, x, y) \in Seq(S) /\ Len(SubSeq(s, x, y)) = IF x <= y THEN y - x + 1 ELSE 0
      /\ \A j \in 1 .. y - x + 1 : SubSeq(s, x, y)[j] = s[x + j - 1]
  BY <1>4, SubSeqProperties
<1>6. PICK t \in Seq(S) : t = SubSeq(s, x, y)
  BY <1>5
<1>7. Len(t) = k
  BY <1>2, <1>3, <1>5, <1>6
<1>8. ASSUME NEW j \in 1 .. k PROVE t[j] = s[i + j]
  <2>1. j \in 1 .. y - x + 1 /\ x + j - 1 = i + j
    BY <1>2, <1>3
  <2> QED
    BY <1>5, <1>6, <2>1
<1> QED
  BY <1>2, <1>3, <1>6, <1>7, <1>8

\* Element k is taken out of sequence s.
LEMMA TakenOut ==
  ASSUME NEW S, NEW s \in Seq(S), NEW k \in 1 .. Len(s)
  PROVE  /\ RemoveAt(s, k) \in Seq(S)
         /\ \A i \in 1 .. Len(RemoveAt(s, k)) : \E j \in 1 .. Len(s) : RemoveAt(s, k)[i] = s[j]
         /\ \A j \in 1 .. Len(s) : j # k => \E i \in 1 .. Len(RemoveAt(s, k)) : RemoveAt(s, k)[i] = s[j]
<1>1. PICK n \in Nat : n = Len(s)
  BY SeqIs
<1>2. PICK p \in Nat : p = k - 1 /\ k = p + 1
  <2>1. k \in Nat /\ k >= 1
    BY <1>1
  <2>2. k - 1 \in Nat /\ k = k - 1 + 1
    BY <2>1
  <2> QED
    BY <2>2
<1>3. PICK r \in Nat : n = k + r
  <2>1. k \in Nat /\ k <= n
    BY <1>1
  <2>2. n - k \in Nat /\ n = k + (n - k)
    BY <2>1
  <2> QED
    BY <2>2
<1>4. PICK z \in Nat : z = 0
  OBVIOUS
<1>5. PICK l \in Seq(S) : /\ l = SubSeq(s, 1, p) /\ Len(l) = p
                          /\ \A j \in 1 .. p : l[j] = s[0 + j]
  <2>1. z + p <= Len(s)
    BY <1>1, <1>2, <1>3, <1>4
  <2>2. /\ SubSeq(s, z + 1, z + p) \in Seq(S) /\ Len(SubSeq(s, z + 1, z + p)) = p
        /\ \A j \in 1 .. p : SubSeq(s, z + 1, z + p)[j] = s[z + j]
    BY <2>1, PartIs
  <2>3. z + 1 = 1 /\ z + p = p
    BY <1>4
  <2> QED
    BY <1>4, <2>2, <2>3
<1>6. PICK m \in Seq(S) : /\ m = SubSeq(s, k + 1, k + r) /\ Len(m) = r
                          /\ \A j \in 1 .. r : m[j] = s[k + j]
  <2>1. k \in Nat /\ k + r <= Len(s)
    BY <1>1, <1>3
  <2>2. /\ SubSeq(s, k + 1, k + r) \in Seq(S) /\ Len(SubSeq(s, k + 1, k + r)) = r
        /\ \A j \in 1 .. r : SubSeq(s, k + 1, k + r)[j] = s[k + j]
    BY <2>1, PartIs
  <2> QED
    BY <2>2
<1>7. PICK t : t = RemoveAt(s, k)
  OBVIOUS
<1>8. t = l \o m
  BY <1>1, <1>2, <1>3, <1>5, <1>6, <1>7 DEF RemoveAt
<1>9. /\ t \in Seq(S) /\ Len(t) = p + r
      /\ \A i \in 1 .. p : i \in 1 .. Len(t) /\ t[i] = l[i]
      /\ \A i \in 1 .. r : p + i \in 1 .. Len(t) /\ t[p + i] = m[i]
      /\ \A i \in 1 .. Len(t) : i \in 1 .. p \/ \E j \in 1 .. r : i = p + j
  <2>1. /\ l \o m \in Seq(S) /\ Len(l \o m) = Len(l) + Len(m)
        /\ \A i \in 1 .. Len(l) : i \in 1 .. Len(l \o m) /\ (l \o m)[i] = l[i]
        /\ \A i \in 1 .. Len(m) : Len(l) + i \in 1 .. Len(l \o m) /\ (l \o m)[Len(l) + i] = m[i]
    BY Joined
  <2>3. \A i \in 1 .. Len(l \o m) : i \in 1 .. Len(l) \/ \E j \in 1 .. Len(m) : i = Len(l) + j
    BY Joined
  <2>2. Len(l) = p /\ Len(m) = r
    BY <1>5, <1>6
  <2> QED
    BY <1>8, <2>1, <2>2, <2>3
<1>10. ASSUME NEW i \in 1 .. Len(t) PROVE \E j \in 1 .. n : t[i] = s[j]
  <2>1. CASE i \in 1 .. p
    <3>1. i \in 1 .. n /\ 0 + i = i
      BY <1>2, <1>3, <2>1
    <3>2. t[i] = s[i]
      BY <1>5, <1>9, <2>1, <3>1
    <3> QED
      BY <3>1, <3>2
  <2>2. ASSUME NEW j \in 1 .. r, i = p + j PROVE \E x \in 1 .. n : t[i] = s[x]
    <3>1. k + j \in 1 .. n
      BY <1>2, <1>3
    <3>2. t[i] = s[k + j]
      BY <1>6, <1>9, <2>2
    <3> QED
      BY <3>1, <3>2
  <2> QED
    BY <1>9, <2>1, <2>2
<1>11. ASSUME NEW j \in 1 .. n, j # k PROVE \E i \in 1 .. Len(t) : t[i] = s[j]
  <2>1. CASE j < k
    <3>1. j \in 1 .. p /\ 0 + j = j
      BY <1>2, <2>1
    <3>2. j \in 1 .. Len(t) /\ t[j] = s[j]
      BY <1>5, <1>9, <3>1
    <3> QED
      BY <3>2
  <2>2. CASE ~(j < k)
    <3>1. PICK x \in 1 .. r : j = k + x
      <4>1. j - k \in 1 .. r /\ j = k + (j - k)
        BY <1>2, <1>3, <1>11, <2>2
      <4> QED
        BY <4>1
    <3>2. p + x \in 1 .. Len(t) /\ t[p + x] = s[j]
      BY <1>6, <1>9, <3>1
    <3> QED
      BY <3>2
  <2> QED
    BY <2>1, <2>2
<1> QED
  BY <1>1, <1>7, <1>9, <1>10, <1>11

\* addDependent keeps the entries of the others.
LEMMA DependentGained ==
  ASSUME NEW s \in Seq(Dependent), NEW by \in Slot, NEW is \in BOOLEAN
  PROVE  Gains(s, AddDependent(s, by, is), by, is)
<1> DEFINE I == {i \in 1 .. Len(s) : s[i].slot = by}
           k == Min(I)
           n == Len(s)
           t == RemoveFirstMatch(s, LAMBDA d : d.slot = by)
           e == [slot |-> by, is |-> is]
<1>2. /\ t \in Seq(Dependent)
      /\ \A i \in 1 .. Len(t) : \E j \in 1 .. n : t[i] = s[j]
      /\ \A j \in 1 .. n : s[j].slot # by => \E i \in 1 .. Len(t) : t[i] = s[j]
  <2>1. CASE I = {}
    <3>1. t = s
      BY <2>1 DEF RemoveFirstMatch
    <3> QED
      BY <3>1
  <2>2. CASE I # {}
    <3>1. t = RemoveAt(s, k)
      BY <2>2, Zenon DEF RemoveFirstMatch, SelectInSeq
    <3>2. k \in I
      <4>1. I \subseteq Nat
        OBVIOUS
      <4> HIDE DEF I
      <4> QED
        BY <2>2, <4>1, Least
    <3>3. k \in 1 .. n /\ s[k].slot = by
      BY <3>2
    <3>4. /\ RemoveAt(s, k) \in Seq(Dependent)
          /\ \A i \in 1 .. Len(RemoveAt(s, k)) : \E j \in 1 .. Len(s) : RemoveAt(s, k)[i] = s[j]
          /\ \A j \in 1 .. Len(s) : j # k => \E i \in 1 .. Len(RemoveAt(s, k)) : RemoveAt(s, k)[i] = s[j]
      BY <3>3, TakenOut
    <3> HIDE DEF k, t, I
    <3> QED
      BY <3>1, <3>3, <3>4
  <2> QED
    BY <2>1, <2>2
<1>3. AddDependent(s, by, is) = <<e>> \o t
  BY DEF AddDependent
<1>4. PICK o \in Seq(Dependent) : o = <<e>>
  <2>1. <<e>> \in Seq(Dependent)
    BY DEF Dependent
  <2> QED
    BY <2>1
<1>5. Len(o) = 1 /\ o[1] = e /\ e.slot = by
  BY <1>4
<1>6. PICK y \in Seq(Dependent) : y = o \o t
  <2>1. o \o t \in Seq(Dependent)
    BY <1>2, Joined
  <2> QED
    BY <2>1
<1>7. n = Len(s) /\ e = [slot |-> by, is |-> is] /\ y = AddDependent(s, by, is)
  BY <1>3, <1>4, <1>6
<1> HIDE DEF t, n, I, k, e
<1>8. /\ \A i \in 1 .. 1 : i \in 1 .. Len(y) /\ y[i] = o[i]
      /\ \A i \in 1 .. Len(t) : 1 + i \in 1 .. Len(y) /\ y[1 + i] = t[i]
      /\ \A i \in 1 .. Len(y) : i \in 1 .. 1 \/ \E j \in 1 .. Len(t) : i = 1 + j
  <2>1. t \in Seq(Dependent)
    BY <1>2
  <2>2. /\ \A i \in 1 .. Len(o) : i \in 1 .. Len(o \o t) /\ (o \o t)[i] = o[i]
        /\ \A i \in 1 .. Len(t) : Len(o) + i \in 1 .. Len(o \o t) /\ (o \o t)[Len(o) + i] = t[i]
        /\ \A i \in 1 .. Len(o \o t) : i \in 1 .. Len(o) \/ \E j \in 1 .. Len(t) : i = Len(o) + j
    BY <2>1, Joined
  <2> QED
    BY <1>5, <1>6, <2>2
<1>9. 1 \in 1 .. Len(y) /\ y[1] = e
  BY <1>5, <1>8
<1>10. ASSUME NEW i \in 1 .. Len(y) PROVE y[i].slot = by \/ \E j \in 1 .. n : y[i] = s[j]
  <2>1. CASE i \in 1 .. 1
    BY <1>5, <1>9, <2>1
  <2>2. ASSUME NEW j \in 1 .. Len(t), i = 1 + j PROVE \E x \in 1 .. n : y[i] = s[x]
    <3>1. y[i] = t[j]
      BY <1>8, <2>2
    <3> QED
      BY <1>2, <3>1
  <2> QED
    BY <1>8, <2>1, <2>2
<1>11. ASSUME NEW j \in 1 .. n, s[j].slot # by PROVE \E i \in 1 .. Len(y) : y[i] = s[j]
  <2>1. PICK i \in 1 .. Len(t) : t[i] = s[j]
    BY <1>2, <1>11
  <2>2. 1 + i \in 1 .. Len(y) /\ y[1 + i] = s[j]
    BY <1>8, <2>1
  <2> QED
    BY <2>2
<1>12. Gains(s, y, by, is)
  BY <1>7, <1>9, <1>10, <1>11 DEF Gains
<1> QED
  BY <1>7, <1>12

-----------------------------------------------------------------------------
(***************************************************************************)
(* The calls and the data together.                                        *)
(***************************************************************************)
\* The innermost call and those below it.
LEMMA CallInProgress ==
  ASSUME NEW rank, NEW m, NEW a, NEW st, NEW cq, NEW q0, NEW q1, NEW q2,
         PlainInv(rank, m, a, st, cq, q0, q1, q2), st # <<>>
  PROVE  /\ st \in Seq(Frame) /\ Shape(rank, st, cq) /\ Last(st) \in Frame /\ Last(st) \in Calls(st)
         /\ Front(st) \in Seq(Frame) /\ Shape(rank, Front(st), cq)
         /\ Calls(st) = Calls(Front(st)) \cup {Last(st)} /\ Calls(Front(st)) \subseteq Frame
         /\ Data(rank, m, a, Calls(Front(st)) \cup {Last(st)}, By(st), cq, q0, q1, q2)
         /\ Data(rank, m, a, Calls(st), By(st), cq, q0, q1, q2)
         /\ CallFits(By(st), cq, Last(st))
         /\ Front(st) # <<>> => By(Front(st)) = By(st) /\ Above(Last(Front(st)), Last(st))
         /\ Front(st) = <<>> => /\ Last(st).kind \in {"sync", "instant", "is"}
                                /\ By(st) = IF Last(st).kind = "is" THEN "read" ELSE "send"
                                /\ By(Front(st)) = "send"
         /\ \A g \in Calls(Front(st)) : Higher(rank, g, Last(st)) /\ CallFits(By(st), cq, g)
         /\ By(st) \in {"read", "send"}
<1>1. /\ st \in Seq(Frame) /\ Shape(rank, st, cq)
      /\ Data(rank, m, a, Calls(st), By(st), cq, q0, q1, q2)
  BY DEF PlainInv
<1>2. /\ Calls(st) = Calls(Front(st)) \cup {Last(st)} /\ Calls(Front(st)) \subseteq Frame
      /\ Front(st) \in Seq(Frame) /\ Last(st) \in Frame
  BY <1>1, CallsPopped
<1>3. By(st) \in {"read", "send"}
  BY <1>1, ByFirst
<1>4. /\ Shape(rank, Front(st), cq) /\ CallFits(By(st), cq, Last(st))
      /\ Front(st) # <<>> => By(Front(st)) = By(st) /\ Above(Last(Front(st)), Last(st))
      /\ Front(st) = <<>> => /\ Last(st).kind \in {"sync", "instant", "is"}
                             /\ By(st) = IF Last(st).kind = "is" THEN "read" ELSE "send"
                             /\ By(Front(st)) = "send"
      /\ \A g \in Calls(Front(st)) : Higher(rank, g, Last(st)) /\ CallFits(By(st), cq, g)
  BY <1>1, ShapePopped
<1>5. Last(st) \in Calls(st)
  BY <1>2
<1>6. Data(rank, m, a, Calls(Front(st)) \cup {Last(st)}, By(st), cq, q0, q1, q2)
  BY <1>1, <1>2
<1> QED
  BY <1>1, <1>2, <1>3, <1>4, <1>5, <1>6

\* A call starts above another one.
LEMMA CallStarts ==
  ASSUME NEW rank, NEW m, NEW a, NEW st, NEW cq, NEW q0, NEW q1, NEW q2, NEW f \in Frame,
         PlainInv(rank, m, a, st, cq, q0, q1, q2), st # <<>>,
         CallFits(By(st), cq, f), Above(Last(st), f), \A g \in Calls(st) : Higher(rank, g, f),
         IsEvaluation(f) => EvaluationFits(a, q2, f), Own(f) => f.i = 1
  PROVE  /\ PlainInv(rank, m, a, Append(st, f), cq, q0, q1, q2)
         /\ By(Append(st, f)) = By(st) /\ Append(st, f) # <<>> /\ Last(Append(st, f)) = f
         /\ Calls(Append(st, f)) = Calls(st) \cup {f}
         /\ st \o <<f>> = Append(st, f) /\ st \in Seq(Frame) /\ Append(st, f) \in Seq(Frame)
<1>1. /\ st \in Seq(Frame) /\ Shape(rank, st, cq)
      /\ Data(rank, m, a, Calls(st), By(st), cq, q0, q1, q2)
  BY DEF PlainInv
<1>2. /\ Shape(rank, Append(st, f), cq) /\ By(Append(st, f)) = IF st = <<>> THEN By(<<f>>) ELSE By(st)
  BY <1>1, ShapePushed
<1>3. Calls(Append(st, f)) = Calls(st) \cup {f}
  BY <1>1, CallsPushed
<1>4. Data(rank, m, a, Calls(st) \cup {f}, By(st), cq, q0, q1, q2)
  BY <1>1, DataPush
<1>5. Append(st, f) \in Seq(Frame) /\ Append(st, f) # <<>> /\ Last(Append(st, f)) = f
  BY <1>1, Pushed
<1>6. By(Append(st, f)) = By(st)
  BY <1>2
<1>7. PlainInv(rank, m, a, Append(st, f), cq, q0, q1, q2)
  BY <1>2, <1>3, <1>4, <1>5, <1>6 DEF PlainInv
<1>8. st \o <<f>> = Append(st, f)
  BY <1>1, Joins
<1> QED
  BY <1>1, <1>3, <1>5, <1>6, <1>7, <1>8

\* The innermost call goes on.
LEMMA CallGoesOn ==
  ASSUME NEW rank, NEW m, NEW a, NEW st \in Seq(Frame), NEW cq, NEW q0, NEW q1, NEW q2, NEW g \in Frame,
         st # <<>>, Shape(rank, st, cq), SameCall(Last(st), g),
         Data(rank, m, a, Calls(Front(st)) \cup {g}, By(st), cq, q0, q1, q2)
  PROVE  /\ PlainInv(rank, m, a, Append(Front(st), g), cq, q0, q1, q2)
         /\ By(Append(Front(st), g)) = By(st) /\ Append(Front(st), g) # <<>>
         /\ Last(Append(Front(st), g)) = g
<1>1. Front(st) \in Seq(Frame)
  BY Popped
<1>2. /\ Append(Front(st), g) \in Seq(Frame) /\ Append(Front(st), g) # <<>>
      /\ Last(Append(Front(st), g)) = g
  BY <1>1, Pushed
<1>3. Calls(Append(Front(st), g)) = Calls(Front(st)) \cup {g}
  BY <1>1, CallsPushed
<1>4. Shape(rank, Append(Front(st), g), cq) /\ By(Append(Front(st), g)) = By(st)
  BY ShapeGoesOn
<1> QED
  BY <1>2, <1>3, <1>4 DEF PlainInv

\* Without any call nothing is queued for the instant that ended.
LEMMA QueuesRest ==
  ASSUME NEW rank, NEW m, NEW a, NEW by, NEW q0, NEW q1, NEW q2, NEW cp \in {-1, 0},
         Queues(rank, m, a, by, -1, q0, q1, q2)
  PROVE  /\ Queues(rank, m, a, "send", cp, q0, q1, q2)
         /\ q1 = <<>> /\ q2 = <<>>
         /\ \A i \in 1 .. Len(q0) : q0[i].type = "SET_BYDEF"
         /\ q0 = <<>> \/ by = "read" => Queues(rank, m, a, "read", cp, q0, q1, q2)
<1>1. q1 = <<>> /\ q2 = <<>> /\ Len(q2) = 0
  BY DEF Queues, NotifiesPlain, DepsPlain
<1>2. /\ \A i \in 1 .. Len(q0) : SetFits(m, a, -1, q0, i)
      /\ by = "read" => q0 = <<>>
  BY DEF Queues, SetsPlain
<1>3. \A i \in 1 .. Len(q0) : q0[i].type = "SET_BYDEF" /\ SetFits(m, a, cp, q0, i)
  BY <1>2 DEF SetFits
<1>4. /\ SetsPlain(m, a, "send", cp, q0) /\ (q0 = <<>> => SetsPlain(m, a, "read", cp, q0))
  BY <1>3 DEF SetsPlain
<1>5. \A b : NotifiesPlain(b, cp, q1) /\ DepsPlain(rank, a, b, cp, q2)
  BY <1>1 DEF NotifiesPlain, DepsPlain
<1> QED
  BY <1>1, <1>2, <1>3, <1>4, <1>5 DEF Queues

\* The innermost call ends.
LEMMA CallEnds ==
  ASSUME NEW rank, NEW m, NEW a, NEW st \in Seq(Frame), NEW cq, NEW q0, NEW q1, NEW q2,
         st # <<>>, Shape(rank, st, cq), Front(st) = <<>> /\ By(st) = "read" => cq = -1,
         Data(rank, m, a, Calls(Front(st)), By(st), cq, q0, q1, q2)
  PROVE  PlainInv(rank, m, a, Front(st), cq, q0, q1, q2)
<1>1. /\ Front(st) \in Seq(Frame) /\ Shape(rank, Front(st), cq) /\ By(st) \in {"read", "send"}
      /\ Front(st) # <<>> => By(Front(st)) = By(st)
      /\ Front(st) = <<>> => By(Front(st)) = "send"
  BY ShapePopped, Popped, ByFirst
<1>2. CASE By(Front(st)) = By(st)
  BY <1>1, <1>2 DEF PlainInv
<1>3. CASE By(Front(st)) # By(st)
  <2>1. Front(st) = <<>> /\ By(st) = "read" /\ cq = -1
    BY <1>1, <1>3
  <2>2. Queues(rank, m, a, By(st), -1, q0, q1, q2)
    BY <2>1 DEF Data
  <2>3. -1 \in {-1, 0} /\ -1 \in -1 .. 2
    OBVIOUS
  <2>4. Queues(rank, m, a, "send", -1, q0, q1, q2)
    BY <2>2, <2>3, QueuesRest
  <2>5. Data(rank, m, a, Calls(Front(st)), "send", -1, q0, q1, q2)
    BY <2>1, <2>3, <2>4, DataTurns
  <2> QED
    BY <1>1, <2>1, <2>5 DEF PlainInv
<1> QED
  BY <1>2, <1>3

\* The notification of the dependents of $ starts.
LEMMA WildCalls ==
  ASSUME NEW rank, NEW m, NEW a, NEW st, NEW cq, NEW q0, NEW q1, NEW q2, NEW s \in Slot,
         PlainInv(rank, m, a, st, cq, q0, q1, q2), st # <<>>, By(st) = "send", cq \in {0, 1},
         Last(st).kind \in {"instant", "notify"}
  PROVE  /\ PlainInv(rank, m, a, st \o WildCall(s), cq, q0, q1, q2) /\ WildCall(s) \in Seq(Frame)
         /\ By(st \o WildCall(s)) = "send" /\ st \o WildCall(s) # <<>>
         /\ Last(st \o WildCall(s)).kind \in {"instant", "notify"}
         /\ \A f \in Calls(st \o WildCall(s)) :
              f \in Calls(st) \/ (~IsLock(f) /\ ~Own(f) /\ ~IsEvaluation(f) /\ f.kind # "future")
         /\ Calls(st) \subseteq Calls(st \o WildCall(s))
<1>1. CASE s[2] = Key
  <2>1. WildCall(s) = <<>> /\ st \in Seq(Frame)
    BY <1>1 DEF WildCall, PlainInv
  <2>2. st \o <<>> = st /\ <<>> \in Seq(Frame)
    BY <2>1, Joins, EmptySeq
  <2> QED
    BY <2>1, <2>2
<1>2. CASE s[2] # Key
  <2> DEFINE f == Notifying(Wild(s), FALSE)
  <2>1. /\ f \in Frame /\ f.kind = "notify" /\ f.own = FALSE /\ f.slot = Wild(s)
    <3>1. Wild(s) \in Slot
      BY Slots
    <3> QED
      BY <3>1 DEF Notifying, Frame
  <2>2. WildCall(s) = <<f>> /\ f.slot[2] = Key
    <3>1. WildCall(s) = <<f>>
      BY <1>2 DEF WildCall
    <3>2. Wild(s)[2] = Key
      BY DEF Wild
    <3> QED
      BY <2>1, <3>1, <3>2
  <2> HIDE DEF f
  <2>3. ~IsEvaluation(f) /\ ~Own(f) /\ ~IsLock(f)
    BY <2>1 DEF IsEvaluation, Own, IsLock
  <2>4. CallFits(By(st), cq, f) /\ Above(Last(st), f)
    BY <2>1, <2>2, <2>3 DEF CallFits, Above, IsEvaluation
  <2>5. \A g \in Calls(st) : Higher(rank, g, f)
    BY <2>1, <2>3 DEF Higher
  <2>6. /\ PlainInv(rank, m, a, Append(st, f), cq, q0, q1, q2)
        /\ By(Append(st, f)) = By(st) /\ Append(st, f) # <<>> /\ Last(Append(st, f)) = f
        /\ Calls(Append(st, f)) = Calls(st) \cup {f} /\ st \o <<f>> = Append(st, f)
    BY <2>1, <2>3, <2>4, <2>5, CallStarts
  <2>7. <<f>> \in Seq(Frame)
    BY <2>1
  <2> QED
    BY <2>1, <2>2, <2>3, <2>6, <2>7
<1> QED
  BY <1>1, <1>2

-----------------------------------------------------------------------------
(***************************************************************************)
(* The steps of a plain program.                                           *)
(***************************************************************************)
PlainHolds(rank) == PlainInv(rank, program, attr, stack, curq, queue[0], queue[1], queue[2])

\* A step keeps it, in terms of the next state.
LEMMA HoldsNext ==
  ASSUME NEW rank, PlainInv(rank, program', attr', stack', curq', queue'[0], queue'[1], queue'[2])
  PROVE  PlainHolds(rank)'
BY DEF PlainHolds

\* An attribute is not locked while no call for it is in progress.
LEMMA NotRunning ==
  ASSUME IInv, NEW s \in Slot, \A f \in Calls(stack) : IsLock(f) => f.slot # s
  PROVE  attr[s].evaluating = FALSE
<1>1. LocksFit(Locked(attr), stack) /\ attr \in [Slot -> Attribute]
  BY Parts DEF CallsInv
<1>2. attr[s].evaluating \in BOOLEAN /\ (s \in Locked(attr) <=> attr[s].evaluating)
  BY <1>1, Attributes
<1>3. ~\E i \in 1 .. Len(stack) : Holds(stack, i, s)
  BY DEF Calls, Holds
<1> QED
  BY <1>1, <1>2, <1>3 DEF LocksFit

\* The queues when an event is queued or taken.
LEMMA QueueGrows ==
  ASSUME IInv, NEW k \in 0 .. 2, NEW e, queue' = [queue EXCEPT ![k] = Append(@, e)]
  PROVE  /\ queue'[k] = Append(queue[k], e)
         /\ \A j \in 0 .. 2 : j # k => queue'[j] = queue[j]
<1>1. queue = [j \in 0 .. 2 |-> queue[j]]
  BY DEF IInv
<1> QED
  BY <1>1

LEMMA QueueShrinks ==
  ASSUME IInv, NEW k \in 0 .. 2
  PROVE  /\ Taken(k)[k] = Tail(queue[k])
         /\ \A j \in 0 .. 2 : j # k => Taken(k)[j] = queue[j]
         /\ \A i \in 0 .. 2 : \A e : /\ [Taken(k) EXCEPT ![i] = Append(@, e)][i] = Append(Taken(k)[i], e)
                                      /\ \A j \in 0 .. 2 : j # i => [Taken(k) EXCEPT ![i] = Append(@, e)][j] = Taken(k)[j]
<1>1. queue = [j \in 0 .. 2 |-> queue[j]]
  BY DEF IInv
<1>2. DOMAIN Taken(k) = 0 .. 2 /\ Taken(k)[k] = Tail(queue[k])
      /\ \A j \in 0 .. 2 : j # k => Taken(k)[j] = queue[j]
  BY <1>1 DEF Taken
<1> QED
  BY <1>2

\* The attributes of the next state.
LEMMA AttributesNext ==
  ASSUME IInv'
  PROVE  attr' \in [Slot -> Attribute] /\ DefsInv(attr')
BY DEF IInv, TypeOK

\* An attribute is locked or unlocked.
LEMMA LockTurns ==
  ASSUME IInv, IInv', NEW s \in Slot, NEW b, attr' = [attr EXCEPT ![s].evaluating = b]
  PROVE  Same(attr, attr') /\ \A r \in Slot : attr'[r].deps = attr[r].deps
<1>1. attr' \in [Slot -> Attribute] /\ DefsInv(attr') /\ attr \in [Slot -> Attribute]
  BY Parts, AttributesNext
<1>2. \A r \in Slot : r # s => attr'[r] = attr[r]
  BY <1>1
<1>3. attr[s] \in Attribute /\ attr'[s] = [attr[s] EXCEPT !.evaluating = b]
  BY <1>1
<1>4. /\ attr'[s].exists = attr[s].exists /\ attr'[s].val = attr[s].val /\ attr'[s].def = attr[s].def
      /\ attr'[s].isf = attr[s].isf /\ attr'[s].ood = attr[s].ood /\ attr'[s].deps = attr[s].deps
  BY <1>3 DEF Attribute
<1>5. \A r \in Slot : /\ attr'[r].exists = attr[r].exists /\ attr'[r].val = attr[r].val
                      /\ attr'[r].def = attr[r].def /\ attr'[r].isf = attr[r].isf
                      /\ attr'[r].ood = attr[r].ood /\ attr'[r].deps = attr[r].deps
  BY <1>2, <1>4
<1> QED
  BY <1>1, <1>5 DEF Same

\* The notification in progress is one by an attribute with dependents.
LEMMA NotificationIs ==
  ASSUME IInv, NEW rank, PlainHolds(rank), stack # <<>>, Top.kind = "notify"
  PROVE  /\ Top = Last(stack) /\ stack \in Seq(Frame) /\ Top \in Frame /\ Top.slot \in Slot /\ Top.i \in Nat \ {0}
         /\ Top.own \in BOOLEAN /\ (Own(Top) <=> Top.own) /\ By(stack) = "send" /\ curq \in {0, 1}
         /\ ~Top.own => attr[Top.slot].deps = <<>>
         /\ Own(Top) => curq = 0 /\ queue[2] = <<>>
         /\ Top.i <= Len(attr[Top.slot].deps) =>
              /\ Own(Top) /\ Top.i \in 1 .. Len(attr[Top.slot].deps)
              /\ NotifiedSlot \in Slot /\ attr[Top.slot].deps[Top.i] \in Dependent
              /\ attr[NotifiedSlot].def # Null /\ rank[Top.slot] < rank[NotifiedSlot]
              /\ rank[Top.slot] \in Nat /\ rank[NotifiedSlot] \in Nat
         /\ \A f \in Calls(stack) : ~IsEvaluation(f) \/ curq # 0
<1>1. /\ Top = Last(stack) /\ stack \in Seq(Frame) /\ Top \in Frame
      /\ Data(rank, program, attr, Calls(stack), By(stack), curq, queue[0], queue[1], queue[2])
      /\ CallFits(By(stack), curq, Top)
      /\ \A g \in Calls(Front(stack)) : CallFits(By(stack), curq, g)
      /\ Calls(stack) = Calls(Front(stack)) \cup {Last(stack)}
  BY CallInProgress, ZenonT(40) DEF PlainHolds, Top
<1>2. Top.slot \in Slot /\ Top.own \in BOOLEAN /\ Top.i \in Nat \ {0}
  BY <1>1, Frames
<1>3. By(stack) = "send" /\ curq \in {0, 1} /\ IF Top.own THEN curq = 0 ELSE Top.slot[2] = Key
  BY <1>1 DEF CallFits
<1>4. Own(Top) <=> Top.own
  BY <1>2 DEF Own
<1>5. /\ rank \in [Slot -> Nat] /\ attr \in [Slot -> Attribute]
      /\ SlotFits(program, rank, attr, Top.slot)
  BY <1>1, <1>2, Defining
<1>6. ~Top.own => attr[Top.slot].deps = <<>>
  BY <1>3, <1>5 DEF SlotFits
<1>7. ASSUME Top.i <= Len(attr[Top.slot].deps)
      PROVE  /\ Own(Top) /\ Top.i \in 1 .. Len(attr[Top.slot].deps)
             /\ NotifiedSlot \in Slot /\ attr[Top.slot].deps[Top.i] \in Dependent
             /\ attr[NotifiedSlot].def # Null /\ rank[Top.slot] < rank[NotifiedSlot]
             /\ rank[Top.slot] \in Nat /\ rank[NotifiedSlot] \in Nat
  <2>1. Len(attr[Top.slot].deps) \in Nat
    BY <1>2, <1>5, DependentsAre
  <2>2. Top.i \in 1 .. Len(attr[Top.slot].deps)
    BY <1>2, <1>7, <2>1
  <2>3. Own(Top)
    <3>1. attr[Top.slot].deps = <<>> => Len(attr[Top.slot].deps) = 0
      OBVIOUS
    <3> QED
      BY <1>2, <1>4, <1>6, <2>2, <3>1
  <2>4. attr[Top.slot].deps[Top.i] \in Dependent /\ NotifiedSlot \in Slot
    BY <1>2, <1>5, <2>2, DependentsAre DEF NotifiedSlot
  <2>5. attr[NotifiedSlot].def # Null /\ rank[Top.slot] < rank[NotifiedSlot]
    BY <1>5, <2>2 DEF SlotFits, NotifiedSlot
  <2> QED
    BY <1>2, <1>5, <2>2, <2>3, <2>4, <2>5
<1>8. Own(Top) => curq = 0 /\ queue[2] = <<>>
  BY <1>1, <1>3, <1>4 DEF Data, Queues, DepsPlain
<1>9. \A f \in Calls(stack) : ~IsEvaluation(f) \/ curq # 0
  BY <1>1, <1>3 DEF CallFits, IsEvaluation
<1> QED
  BY <1>1, <1>2, <1>3, <1>4, <1>6, <1>7, <1>8, <1>9

\* The notification goes on to the next dependent.
LEMMA NotifyNextIs ==
  ASSUME NEW f \in Frame, f.kind = "notify"
  PROVE  \E g \in Frame : g = [f EXCEPT !.i = @ + 1] /\ SameCall(f, g) /\ g.i = f.i + 1
<1>1. f \in [kind : {"notify"}, slot : Slot, own : BOOLEAN, i : Nat \ {0}]
  BY DEF Frame, Sync
<1>2. Null \in Value
  BY DEF Value
<1>3. [f EXCEPT !.i = @ + 1] \in Frame
  BY <1>2, FramesChange
<1>4. /\ [f EXCEPT !.i = @ + 1].i = f.i + 1 /\ [f EXCEPT !.i = @ + 1].kind = f.kind
      /\ [f EXCEPT !.i = @ + 1].slot = f.slot /\ [f EXCEPT !.i = @ + 1].own = f.own
  BY <1>1
<1>5. SameCall(f, [f EXCEPT !.i = @ + 1])
  BY <1>4 DEF SameCall
<1> QED
  BY <1>3, <1>4, <1>5

LEMMA NotifyDependentSettles ==
  ASSUME IInv, NEW rank, PlainHolds(rank), NotifyDependent
  PROVE  PlainHolds(rank)'
<1>1. /\ stack # <<>> /\ Top.kind = "notify" /\ Top.i <= Len(attr[Top.slot].deps)
      /\ attr[Top.slot].deps[Top.i].is = FALSE
      /\ queue' = [queue EXCEPT ![1] = Append(@, NotifyEvent(NotifiedSlot))]
      /\ stack' = NotifyNext
      /\ UNCHANGED <<attr, curq, program, ops>>
  BY DEF NotifyDependent, NotifyAt
<1>2. /\ Top = Last(stack) /\ stack \in Seq(Frame) /\ Top \in Frame /\ Top.i \in Nat
      /\ By(stack) = "send" /\ curq \in {0, 1}
      /\ Own(Top) /\ NotifiedSlot \in Slot
  BY <1>1, NotificationIs
<1>3. PICK g \in Frame : g = [Top EXCEPT !.i = @ + 1] /\ SameCall(Top, g) /\ g.i = Top.i + 1
  <2>1. \E g \in Frame : g = [Top EXCEPT !.i = @ + 1] /\ SameCall(Top, g) /\ g.i = Top.i + 1
    BY <1>1, <1>2, NotifyNextIs
  <2> QED
    BY <2>1
<1>4. Shape(rank, stack, curq)
      /\ Data(rank, program, attr, Calls(Front(stack)) \cup {Top}, "send", curq, queue[0], queue[1], queue[2])
  <2>1. PlainInv(rank, program, attr, stack, curq, queue[0], queue[1], queue[2])
    BY DEF PlainHolds
  <2>2. Shape(rank, stack, curq)
        /\ Data(rank, program, attr, Calls(Front(stack)) \cup {Last(stack)}, By(stack), curq, queue[0], queue[1], queue[2])
    BY <1>1, <2>1, CallInProgress
  <2> QED
    BY <1>2, <2>2
<1>5. queue'[1] = Append(queue[1], NotifyEvent(NotifiedSlot)) /\ queue'[0] = queue[0] /\ queue'[2] = queue[2]
  <2>1. queue' = [queue EXCEPT ![1] = Append(@, NotifyEvent(NotifiedSlot))] /\ 1 \in 0 .. 2
    BY <1>1
  <2>2. /\ queue'[1] = Append(queue[1], NotifyEvent(NotifiedSlot))
        /\ \A j \in 0 .. 2 : j # 1 => queue'[j] = queue[j]
    BY <2>1, QueueGrows
  <2> QED
    BY <2>2
<1>6. /\ Data(rank, program, attr, Calls(Front(stack)) \cup {Top}, "send", curq, queue[0], queue'[1], queue[2])
      /\ Notified(queue'[1], NotifiedSlot)
  BY <1>2, <1>4, <1>5, DataNotify
<1>7. Told(attr, queue'[1], attr[Top.slot].deps[Top.i])
  BY <1>1, <1>6 DEF Told, NotifiedSlot
<1>8. Data(rank, program, attr, Calls(Front(stack)) \cup {g}, "send", curq, queue[0], queue'[1], queue[2])
  BY <1>2, <1>3, <1>6, <1>7, DataNotifies
<1>9. PlainInv(rank, program, attr, Append(Front(stack), g), curq, queue[0], queue'[1], queue[2])
  BY <1>1, <1>2, <1>3, <1>4, <1>8, CallGoesOn
<1> QED
  BY <1>1, <1>3, <1>5, <1>9, HoldsNext DEF NotifyNext

\* The innermost call and those below it, in the present state.
LEMMA Innermost ==
  ASSUME NEW rank, PlainHolds(rank), stack # <<>>
  PROVE  /\ Top = Last(stack) /\ stack \in Seq(Frame) /\ Shape(rank, stack, curq) /\ Top \in Frame
         /\ Front(stack) \in Seq(Frame) /\ Shape(rank, Front(stack), curq)
         /\ Calls(stack) = Calls(Front(stack)) \cup {Top} /\ Calls(Front(stack)) \subseteq Frame
         /\ Data(rank, program, attr, Calls(Front(stack)) \cup {Top}, By(stack), curq, queue[0], queue[1], queue[2])
         /\ CallFits(By(stack), curq, Top)
         /\ Front(stack) # <<>> => By(Front(stack)) = By(stack) /\ Above(Last(Front(stack)), Top)
         /\ Front(stack) = <<>> => /\ Top.kind \in {"sync", "instant", "is"}
                                   /\ By(stack) = IF Top.kind = "is" THEN "read" ELSE "send"
                                   /\ By(Front(stack)) = "send"
         /\ \A g \in Calls(Front(stack)) : Higher(rank, g, Top) /\ CallFits(By(stack), curq, g)
         /\ By(stack) \in {"read", "send"}
<1>1. PlainInv(rank, program, attr, stack, curq, queue[0], queue[1], queue[2])
  BY DEF PlainHolds
<1> QED
  BY <1>1, CallInProgress DEF Top

\* None of the calls evaluates; the notifications among them are of lower ranks than s;
\* only attribute s differs; and there it is only marked out of date.
NoEvaluation(F)   == \A f \in F : ~IsEvaluation(f)
OfWild(f)         == f.kind = "notify" /\ f.own = FALSE /\ f.slot[2] = Key
Lower(rank, F, s) == \A f \in F : Own(f) => rank[f.slot] < rank[s]
Others(a, b, s)   == \A r \in Slot : r # s => b[r] = a[r]
Marks(a, b, s) ==
  /\ Others(a, b, s)
  /\ b[s].deps = a[s].deps /\ b[s].exists = a[s].exists /\ b[s].def = a[s].def
  /\ b[s].val = a[s].val /\ b[s].isf /\ a[s].isf /\ b[s].ood

\* An 'is' attribute is marked out of date: the notification that does it goes on, and
\* its dependents and those of $ are notified above it.
LEMMA DataMarks ==
  ASSUME NEW rank, NEW m, NEW a, NEW F, NEW q0, NEW q1, NEW q2, NEW f \in Frame, NEW g \in Frame,
         NEW w \in Frame, NEW o \in Frame, NEW s \in Slot, NEW b \in [Slot -> Attribute],
         Data(rank, m, a, F \cup {f}, "send", 0, q0, q1, q2), q2 = <<>>,
         NoEvaluation(F \cup {f}),
         SameCall(f, g), Own(f), f.i \in Nat, g.i = f.i + 1, f.slot # s,
         a[f.slot].deps[f.i].slot = s, a[f.slot].deps[f.i].is = TRUE, f.slot \in Slot,
         ~Own(w), ~IsEvaluation(w), ~IsEvaluation(o), Own(o), o.slot = s, o.i = 1,
         a[s].def # Null, DefsInv(b), Marks(a, b, s)
  PROVE  Data(rank, m, b, F \cup {g} \cup {w} \cup {o}, "send", 0, q0, q1, q2)
<1> DEFINE G == F \cup {f} \cup {w} \cup {o}
<1>1. Data(rank, m, a, F \cup {f} \cup {w}, "send", 0, q0, q1, q2)
  BY DataPush
<1>2. Data(rank, m, a, G, "send", 0, q0, q1, q2)
  BY <1>1, DataPush
<1>3. o \in G /\ \A h \in G : ~IsEvaluation(h)
  BY DEF NoEvaluation
<1>0. /\ \A r \in Slot : r # s => b[r] = a[r]
      /\ b[s].deps = a[s].deps /\ b[s].exists = a[s].exists /\ b[s].def = a[s].def
      /\ b[s].val = a[s].val /\ b[s].isf /\ a[s].isf /\ b[s].ood
  BY DEF Marks, Others
<1>4. G = (F \cup {w} \cup {o}) \cup {f}
  OBVIOUS
<1> HIDE DEF G
<1>5. /\ a[s].def \in Paths /\ Ranked(rank, s, a[s].def) /\ s \in DefinedBy(m) /\ s[2] # Key
      /\ SlotFits(m, rank, a, s) /\ q0 \in Seq(Event(0))
  BY <1>2, Defining
<1>6. a[s].exists
  BY <1>5 DEF SlotFits
<1>7. \A r \in Slot : b[r].def = a[r].def /\ b[r].isf = a[r].isf /\ b[r].val = a[r].val
  <2>1. b[s].isf \in BOOLEAN /\ a[s].isf \in BOOLEAN
    BY <1>2, Attributes, Defining
  <2> QED
    BY <1>0, <2>1
<1>8. SetsPlain(m, b, "send", 0, q0)
  <2>1. SetsPlain(m, a, "send", 0, q0)
    BY <1>2 DEF Data, Queues
  <2>2. \A i \in 1 .. Len(q0) : q0[i].type = "SET_BYDEF" => q0[i].slot \in Slot
    BY <1>5, EventsAre
  <2>3. \A i \in 1 .. Len(q0) : SetFits(m, a, 0, q0, i) => SetFits(m, b, 0, q0, i)
    BY <1>7, <2>2 DEF SetFits
  <2> QED
    BY <2>1, <2>3 DEF SetsPlain
<1>9. \A r \in Slot, v \in Value : r # s /\ Outcome(a, q0, r, v) => Outcome(b, q0, r, v)
  BY <1>0 DEF Outcome
<1>10. Settled(b, q0, q1, q2, G, s)
  BY <1>0 DEF Settled, Waiting
<1>11. \E h \in G : Own(h) /\ h.slot = s /\ h.i = 1
  BY <1>3
<1>12. Data(rank, m, b, G, "send", 0, q0, q1, q2)
  BY <1>0, <1>2, <1>3, <1>5, <1>6, <1>8, <1>9, <1>10, <1>11, DataTouch
<1>13. Data(rank, m, b, (F \cup {w} \cup {o}) \cup {f}, "send", 0, q0, q1, q2)
  BY <1>4, <1>12
<1>14. Told(b, q1, b[f.slot].deps[f.i])
  BY <1>0 DEF Told
<1>15. Data(rank, m, b, (F \cup {w} \cup {o}) \cup {g}, "send", 0, q0, q1, q2)
  BY <1>13, <1>14, DataNotifies
<1>16. (F \cup {w} \cup {o}) \cup {g} = F \cup {g} \cup {w} \cup {o}
  OBVIOUS
<1> QED
  BY <1>15, <1>16

\* Calls st, of a step of the main program, fit while sets are drained; they are F.
Stands(rank, st, F) == st \in Seq(Frame) /\ Shape(rank, st, 0) /\ By(st) = "send" /\ Calls(st) = F

\* Two notifications start above the innermost call when that goes on.
LEMMA ShapeMarks ==
  ASSUME NEW rank, NEW st \in Seq(Frame), st # <<>>, Shape(rank, st, 0), By(st) = "send",
         NEW g \in Frame, NEW w \in Frame, NEW o \in Frame, SameCall(Last(st), g), Own(g),
         OfWild(w), Own(o), Lower(rank, Calls(Front(st)) \cup {g}, o.slot)
  PROVE  Stands(rank, Append(Append(Append(Front(st), g), w), o), Calls(Front(st)) \cup {g} \cup {w} \cup {o})
<1>1. PICK su \in Seq(Frame) : su = Append(Front(st), g)
  BY Popped, Pushed
<1>2. PICK sv \in Seq(Frame) : sv = Append(su, w)
  BY Pushed
<1>3. /\ Shape(rank, su, 0) /\ By(su) = "send"
  BY <1>1, ShapeGoesOn
<1>4. su # <<>> /\ Last(su) = g /\ Calls(su) = Calls(Front(st)) \cup {g}
  BY <1>1, Popped, Pushed, CallsPushed
<1>5. /\ g.kind = "notify" /\ ~IsEvaluation(g) /\ ~IsEvaluation(w) /\ ~IsEvaluation(o) /\ o.own /\ ~w.own
      /\ o.kind = "notify" /\ w.kind = "notify" /\ ~Own(w) /\ w.slot[2] = Key
  BY DEF Own, IsEvaluation, OfWild
<1>6. CallFits("send", 0, w) /\ CallFits("send", 0, o) /\ Above(g, w) /\ Above(w, o)
  BY <1>5 DEF CallFits, Above
<1>7. \A h \in Frame : Higher(rank, h, w)
  BY <1>5 DEF Higher
<1>8. \A h \in Calls(su) \cup {w} : Higher(rank, h, o)
  BY <1>4, <1>5 DEF Higher, Lower
<1>9. Calls(su) \subseteq Frame
  <2>1. Calls(Front(st)) \subseteq Frame
    BY CallsPopped
  <2> QED
    BY <1>4, <2>1
<1>10. Shape(rank, sv, 0) /\ By(sv) = "send"
  <2>1. \A h \in Calls(su) : Higher(rank, h, w)
    BY <1>7, <1>9
  <2>2. Shape(rank, Append(su, w), 0) /\ By(Append(su, w)) = IF su = <<>> THEN By(<<w>>) ELSE By(su)
    BY <1>3, <1>4, <1>6, <2>1, ShapePushed
  <2> QED
    BY <1>2, <1>3, <1>4, <2>2
<1>11. sv # <<>> /\ Last(sv) = w /\ Calls(sv) = Calls(su) \cup {w}
  BY <1>2, Pushed, CallsPushed
<1>12. Shape(rank, Append(sv, o), 0) /\ By(Append(sv, o)) = "send"
  <2>1. Shape(rank, Append(sv, o), 0) /\ By(Append(sv, o)) = IF sv = <<>> THEN By(<<o>>) ELSE By(sv)
    BY <1>6, <1>8, <1>10, <1>11, ShapePushed
  <2> QED
    BY <1>10, <1>11, <2>1
<1>13. Append(sv, o) \in Seq(Frame) /\ Calls(Append(sv, o)) = Calls(sv) \cup {o}
  BY Pushed, CallsPushed
<1> QED
  BY <1>1, <1>2, <1>4, <1>11, <1>12, <1>13 DEF Stands

\* The dependent that is next has no call in progress.
LEMMA NextIsIdle ==
  ASSUME IInv, NEW rank, PlainHolds(rank), stack # <<>>, Top.kind = "notify",
         Top.i <= Len(attr[Top.slot].deps)
  PROVE  /\ attr[NotifiedSlot].evaluating = FALSE
         /\ Lower(rank, Calls(stack), NotifiedSlot)
<1>1. /\ Own(Top) /\ curq = 0 /\ NotifiedSlot \in Slot /\ Top \in Frame /\ Top.slot \in Slot
      /\ rank[Top.slot] < rank[NotifiedSlot] /\ rank[Top.slot] \in Nat /\ rank[NotifiedSlot] \in Nat
      /\ \A f \in Calls(stack) : ~IsEvaluation(f)
  BY NotificationIs
<1>2. /\ Calls(stack) = Calls(Front(stack)) \cup {Top} /\ Calls(Front(stack)) \subseteq Frame
      /\ \A g \in Calls(Front(stack)) : Higher(rank, g, Top)
      /\ Data(rank, program, attr, Calls(Front(stack)) \cup {Top}, By(stack), curq, queue[0], queue[1], queue[2])
  BY Innermost
<1>3. rank \in [Slot -> Nat]
  BY <1>2 DEF Data, Typed
<1>4. ASSUME NEW f \in Calls(stack), Own(f)
      PROVE  rank[f.slot] < rank[NotifiedSlot]
  <2>1. CASE f = Top
    BY <1>1, <2>1
  <2>2. CASE f \in Calls(Front(stack))
    <3>1. rank[f.slot] < rank[Top.slot]
      BY <1>1, <1>2, <1>4, <2>2 DEF Higher
    <3>2. f.slot \in Slot
      BY <1>2, <1>4, <2>2, Frames DEF Own, IsLock
    <3>3. rank[f.slot] \in Nat
      BY <1>3, <3>2
    <3> QED
      BY <1>1, <3>1, <3>3
  <2> QED
    BY <1>2, <2>1, <2>2
<1>5. \A f \in Calls(stack) : IsLock(f) => f.slot # NotifiedSlot
  BY <1>1, <1>4 DEF IsLock, Own
<1> QED
  BY <1>1, <1>4, <1>5, NotRunning DEF Lower

\* The notifications that start.
LEMMA Notifyings ==
  ASSUME NEW s \in Slot
  PROVE  /\ Notifying(Wild(s), FALSE) \in Frame /\ Notifying(Wild(s), FALSE).kind = "notify"
         /\ Notifying(Wild(s), FALSE).own = FALSE /\ Notifying(Wild(s), FALSE).slot[2] = Key
         /\ Notifying(s, TRUE) \in Frame /\ Notifying(s, TRUE).kind = "notify"
         /\ Notifying(s, TRUE).own = TRUE /\ Notifying(s, TRUE).slot = s /\ Notifying(s, TRUE).i = 1
<1>1. PICK w \in Slot : w = Wild(s)
  BY Slots
<1>2. w[2] = Key
  BY <1>1 DEF Wild
<1>3. \A r \in Slot, b \in BOOLEAN : /\ Notifying(r, b) \in Frame /\ Notifying(r, b).kind = "notify"
                                   /\ Notifying(r, b).own = b /\ Notifying(r, b).slot = r /\ Notifying(r, b).i = 1
  BY DEF Notifying, Frame
<1> QED
  BY <1>1, <1>2, <1>3

\* The notification of the dependents of $ is a call, if any.
LEMMA WildCallIs ==
  ASSUME NEW s \in Slot
  PROVE  WildCall(s) \in Seq(Frame)
<1>1. PICK f \in Frame : f = Notifying(Wild(s), FALSE)
  BY Notifyings
<1>2. <<f>> \in Seq(Frame)
  OBVIOUS
<1> QED
  BY <1>1, <1>2, EmptySeq DEF WildCall

\* The dependents of $ are notified above the notification that goes on.
LEMMA NotifyIsDependentSettles ==
  ASSUME IInv, IInv', NEW rank, PlainHolds(rank), NotifyIsDependent
  PROVE  PlainHolds(rank)'
<1>1. /\ stack # <<>> /\ Top.kind = "notify" /\ Top.i <= Len(attr[Top.slot].deps)
      /\ attr[Top.slot].deps[Top.i].is = TRUE
      /\ attr'  = Marked(attr, NotifiedSlot)
      /\ stack' = NotifyNext \o MarkCalls(attr, NotifiedSlot)
      /\ UNCHANGED <<queue, curq, program, ops>>
  BY DEF NotifyIsDependent, NotifyAt
<1>2. /\ Top = Last(stack) /\ stack \in Seq(Frame) /\ Top \in Frame /\ Top.i \in Nat /\ Top.slot \in Slot
      /\ By(stack) = "send" /\ curq = 0 /\ queue[2] = <<>>
      /\ Own(Top) /\ NotifiedSlot \in Slot /\ Top.i \in 1 .. Len(attr[Top.slot].deps)
      /\ attr[NotifiedSlot].def # Null /\ rank[Top.slot] < rank[NotifiedSlot]
      /\ rank[Top.slot] \in Nat /\ rank[NotifiedSlot] \in Nat
      /\ \A f \in Calls(stack) : ~IsEvaluation(f)
  BY <1>1, NotificationIs
<1>3. PICK s \in Slot : s = NotifiedSlot
  BY <1>2
<1>4. PICK g \in Frame : g = [Top EXCEPT !.i = @ + 1] /\ SameCall(Top, g) /\ g.i = Top.i + 1
  <2>1. \E g \in Frame : g = [Top EXCEPT !.i = @ + 1] /\ SameCall(Top, g) /\ g.i = Top.i + 1
    BY <1>1, <1>2, NotifyNextIs
  <2> QED
    BY <2>1
<1>5. /\ Shape(rank, stack, 0) /\ Front(stack) \in Seq(Frame)
      /\ Data(rank, program, attr, Calls(Front(stack)) \cup {Top}, "send", 0, queue[0], queue[1], queue[2])
      /\ Calls(stack) = Calls(Front(stack)) \cup {Top}
  <2>1. /\ Shape(rank, stack, curq) /\ Front(stack) \in Seq(Frame)
        /\ Data(rank, program, attr, Calls(Front(stack)) \cup {Top}, By(stack), curq, queue[0], queue[1], queue[2])
        /\ Calls(stack) = Calls(Front(stack)) \cup {Top}
    BY <1>1, Innermost
  <2> QED
    BY <1>2, <2>1
<1>6. attr[s].evaluating = FALSE /\ Lower(rank, Calls(stack), s)
  BY <1>1, <1>3, NextIsIdle
<1>7. /\ attr \in [Slot -> Attribute] /\ attr[s].isf \in BOOLEAN /\ s[2] # Key
      /\ attr[Top.slot].deps[Top.i].slot = s
  <2>1. attr \in [Slot -> Attribute] /\ s[2] # Key
    BY <1>2, <1>3, <1>5, Defining
  <2> QED
    BY <1>3, <2>1, Attributes DEF NotifiedSlot
<1>8. NotifyNext = Append(Front(stack), g) /\ Append(Front(stack), g) \in Seq(Frame)
  BY <1>4, <1>5, Pushed DEF NotifyNext
<1>9. CASE ~attr[s].isf
  <2>1. attr' = attr
    BY <1>1, <1>3, <1>9 DEF Marked
  <2>2. MarkCalls(attr, s) = WildCall(s)
    <3>1. WildCall(s) \in Seq(Frame)
      BY <1>7, WildCallIs
    <3>2. WildCall(s) \o <<>> = WildCall(s)
      BY <3>1, Joins
    <3> QED
      BY <1>9, <3>2 DEF MarkCalls
  <2>3. Told(attr, queue[1], attr[Top.slot].deps[Top.i])
    BY <1>1, <1>7, <1>9 DEF Told, Entry
  <2>4. Data(rank, program, attr, Calls(Front(stack)) \cup {g}, "send", 0, queue[0], queue[1], queue[2])
    <3>1. SameCall(Top, g) /\ Own(Top) /\ Top.i \in Nat /\ g.i = Top.i + 1
      BY <1>2, <1>4
    <3>2. Data(rank, program, attr, Calls(Front(stack)) \cup {Top}, "send", 0, queue[0], queue[1], queue[2])
      BY <1>5
    <3> QED
      BY <2>3, <3>1, <3>2, DataNotifies
  <2>5. /\ PlainInv(rank, program, attr, Append(Front(stack), g), 0, queue[0], queue[1], queue[2])
        /\ By(Append(Front(stack), g)) = "send" /\ Append(Front(stack), g) # <<>>
        /\ Last(Append(Front(stack), g)) = g
    <3>1. stack # <<>> /\ stack \in Seq(Frame) /\ Shape(rank, stack, 0) /\ SameCall(Last(stack), g) /\ By(stack) = "send"
      BY <1>1, <1>2, <1>4, <1>5
    <3>2. /\ PlainInv(rank, program, attr, Append(Front(stack), g), 0, queue[0], queue[1], queue[2])
          /\ By(Append(Front(stack), g)) = By(stack) /\ Append(Front(stack), g) # <<>>
          /\ Last(Append(Front(stack), g)) = g
      BY <2>4, <3>1, CallGoesOn
    <3> QED
      BY <3>1, <3>2
  <2>6. g.kind = "notify"
    BY <1>1, <1>4 DEF SameCall
  <2>7. PlainInv(rank, program, attr, Append(Front(stack), g) \o WildCall(s), 0, queue[0], queue[1], queue[2])
    BY <2>5, <2>6, WildCalls
  <2>8. stack' = Append(Front(stack), g) \o WildCall(s)
    BY <1>1, <1>3, <1>8, <2>2
  <2> QED
    BY <1>1, <1>2, <2>1, <2>7, <2>8, HoldsNext
<1>10. CASE attr[s].isf
  <2>1. attr' = [attr EXCEPT ![s].ood = TRUE, ![s].evaluating = TRUE]
    BY <1>1, <1>3, <1>10 DEF Marked
  <2>2. attr' \in [Slot -> Attribute] /\ DefsInv(attr')
    BY AttributesNext
  <2>3. PICK b \in [Slot -> Attribute] : b = attr'
    BY <2>2
  <2>4. Marks(attr, b, s)
    <3>1. attr[s] \in Attribute
      BY <1>7
    <3>2. b[s] = [attr[s] EXCEPT !.ood = TRUE, !.evaluating = TRUE] /\ \A r \in Slot : r # s => b[r] = attr[r]
      BY <1>7, <2>1, <2>3
    <3> QED
      <4>1. /\ b[s].deps = attr[s].deps /\ b[s].exists = attr[s].exists /\ b[s].def = attr[s].def
            /\ b[s].val = attr[s].val /\ b[s].isf = attr[s].isf /\ b[s].ood = TRUE
        BY <3>1, <3>2 DEF Attribute
      <4> QED
        BY <1>10, <3>2, <4>1 DEF Marks, Others
  <2>5. PICK w \in Frame : w = Notifying(Wild(s), FALSE) /\ w.kind = "notify" /\ w.own = FALSE /\ w.slot[2] = Key
    <3>1. PICK w \in Frame : w = Notifying(Wild(s), FALSE)
      BY Notifyings
    <3>2. w.kind = "notify" /\ w.own = FALSE /\ w.slot[2] = Key
      BY <3>1, Notifyings
    <3> QED
      BY <3>1, <3>2
  <2>6. PICK o \in Frame : o = Notifying(s, TRUE) /\ o.kind = "notify" /\ o.own = TRUE /\ o.slot = s /\ o.i = 1
    <3>1. PICK o \in Frame : o = Notifying(s, TRUE)
      BY Notifyings
    <3>2. o.kind = "notify" /\ o.own = TRUE /\ o.slot = s /\ o.i = 1
      BY <3>1, Notifyings
    <3> QED
      BY <3>1, <3>2
  <2>8. ~Own(w) /\ ~IsEvaluation(w) /\ ~IsEvaluation(o) /\ Own(o) /\ Own(g)
    BY <1>2, <1>4, <2>5, <2>6 DEF Own, IsEvaluation, SameCall
  <2>9. g.slot = Top.slot /\ Top.slot # s
    BY <1>2, <1>3, <1>4 DEF SameCall
  <2>10. Data(rank, program, b, Calls(Front(stack)) \cup {g} \cup {w} \cup {o}, "send", 0, queue[0], queue[1], queue[2])
    <3>1. NoEvaluation(Calls(Front(stack)) \cup {Top})
      BY <1>2, <1>5 DEF NoEvaluation
    <3>2. DefsInv(b) /\ attr[s].def # Null
      BY <1>2, <1>3, <2>2, <2>3
    <3>3. /\ SameCall(Top, g) /\ Own(Top) /\ Top.i \in Nat /\ g.i = Top.i + 1 /\ Top.slot # s /\ Top.slot \in Slot
          /\ queue[2] = <<>> /\ attr[Top.slot].deps[Top.i].slot = s /\ attr[Top.slot].deps[Top.i].is = TRUE
      BY <1>1, <1>2, <1>4, <1>7, <2>9
    <3>4. /\ ~Own(w) /\ ~IsEvaluation(w) /\ ~IsEvaluation(o) /\ Own(o) /\ o.slot = s /\ o.i = 1
          /\ Top \in Frame
      BY <1>2, <1>10, <2>6, <2>8
    <3>5. Data(rank, program, attr, Calls(Front(stack)) \cup {Top}, "send", 0, queue[0], queue[1], queue[2])
      BY <1>5
    <3> QED
      BY <2>4, <3>1, <3>2, <3>3, <3>4, <3>5, DataMarks
  <2>11. PICK st \in Seq(Frame) : st = Append(Append(Append(Front(stack), g), w), o)
    BY <1>8, Pushed
  <2>12. /\ Shape(rank, st, 0) /\ By(st) = "send"
         /\ Calls(st) = Calls(Front(stack)) \cup {g} \cup {w} \cup {o}
    <3>1. Lower(rank, Calls(Front(stack)) \cup {g}, o.slot)
      BY <1>2, <1>3, <1>5, <1>6, <2>6, <2>9 DEF Lower
    <3>2. SameCall(Last(stack), g)
      BY <1>2, <1>4
    <3>3. stack # <<>> /\ stack \in Seq(Frame) /\ Shape(rank, stack, 0) /\ By(stack) = "send"
      BY <1>1, <1>2, <1>5
    <3>4. OfWild(w) /\ Own(o) /\ Own(g)
      BY <2>5, <2>6, <2>8 DEF OfWild
    <3>5. Stands(rank, Append(Append(Append(Front(stack), g), w), o), Calls(Front(stack)) \cup {g} \cup {w} \cup {o})
      BY <3>1, <3>2, <3>3, <3>4, ShapeMarks
    <3> QED
      BY <2>11, <3>5 DEF Stands
  <2>13. stack' = st
    <3>1. WildCall(s) = <<w>> /\ OwnCall(s) = <<o>>
      BY <1>6, <1>7, <2>5, <2>6 DEF WildCall, OwnCall
    <3>2. MarkCalls(attr, s) = <<w>> \o <<o>>
      BY <1>10, <3>1 DEF MarkCalls
    <3>3. PICK su \in Seq(Frame) : su = NotifyNext
      BY <1>8
    <3>4. su \o (<<w>> \o <<o>>) = Append(Append(su, w), o)
      <4>1. <<w>> \in Seq(Frame) /\ <<o>> \in Seq(Frame)
        OBVIOUS
      <4>2. su \o (<<w>> \o <<o>>) = (su \o <<w>>) \o <<o>>
        BY <4>1, ConcatAssociative
      <4>3. su \o <<w>> = Append(su, w) /\ Append(su, w) \in Seq(Frame)
        BY Joins, Pushed
      <4> QED
        BY <4>2, <4>3, Joins
    <3> QED
      BY <1>1, <1>3, <1>8, <2>11, <3>2, <3>3, <3>4
  <2>14. PlainInv(rank, program, b, st, 0, queue[0], queue[1], queue[2])
    BY <2>10, <2>12 DEF PlainInv
  <2> QED
    BY <1>1, <1>2, <2>3, <2>13, <2>14, HoldsNext
<1> QED
  BY <1>7, <1>9, <1>10

\* A call of the main program's step ends.
LEMMA EndHolds ==
  ASSUME NEW rank, PlainHolds(rank), stack # <<>>, NEW b, NEW p0, NEW p1, NEW p2,
         Data(rank, program, b, Calls(Front(stack)), By(stack), curq, p0, p1, p2),
         By(stack) = "send" \/ curq = -1 \/ Front(stack) # <<>>
  PROVE  PlainInv(rank, program, b, Front(stack), curq, p0, p1, p2)
<1>1. stack \in Seq(Frame) /\ Shape(rank, stack, curq)
  BY Innermost
<1> QED
  BY <1>1, CallEnds

\* The dependents of a notification are forgotten.
LEMMA Forgets ==
  ASSUME IInv, IInv', NotifyDone, Top.slot \in Slot
  PROVE  /\ Same(attr, attr') /\ attr'[Top.slot].deps = <<>>
         /\ \A s \in Slot : s # Top.slot => attr'[s].deps = attr[s].deps
<1>1. attr' = [attr EXCEPT ![Top.slot].deps = <<>>, ![Top.slot].evaluating = @ /\ ~Top.own]
  BY DEF NotifyDone
<1>2. attr' \in [Slot -> Attribute] /\ DefsInv(attr') /\ attr \in [Slot -> Attribute]
  BY Parts, AttributesNext
<1>3. PICK t \in Slot : t = Top.slot
  OBVIOUS
<1>4. \A r \in Slot : r # t => attr'[r] = attr[r]
  BY <1>1, <1>2, <1>3
<1>5. attr[t] \in Attribute
  BY <1>2
<1>6. attr'[t] = [attr[t] EXCEPT !.deps = <<>>, !.evaluating = @ /\ ~Top.own]
  BY <1>1, <1>2, <1>3
<1>7. /\ attr'[t].exists = attr[t].exists /\ attr'[t].val = attr[t].val /\ attr'[t].def = attr[t].def
      /\ attr'[t].isf = attr[t].isf /\ attr'[t].ood = attr[t].ood /\ attr'[t].deps = <<>>
  BY <1>5, <1>6 DEF Attribute
<1>8. \A r \in Slot : /\ attr'[r].exists = attr[r].exists /\ attr'[r].val = attr[r].val
                      /\ attr'[r].def = attr[r].def /\ attr'[r].isf = attr[r].isf
                      /\ attr'[r].ood = attr[r].ood
  BY <1>4, <1>7
<1> QED
  BY <1>2, <1>3, <1>4, <1>7, <1>8 DEF Same

LEMMA NotifyDoneSettles ==
  ASSUME IInv, IInv', NEW rank, PlainHolds(rank), NotifyDone
  PROVE  PlainHolds(rank)'
<1>1. /\ stack # <<>> /\ Top.kind = "notify" /\ Top.i > Len(attr[Top.slot].deps)
      /\ stack' = Front(stack)
      /\ UNCHANGED <<queue, curq, program, ops>>
  BY DEF NotifyDone
<1>2. /\ Top.slot \in Slot /\ By(stack) = "send" /\ (~Top.own => attr[Top.slot].deps = <<>>)
      /\ (Own(Top) <=> Top.own) /\ Top.i \in Nat
      /\ Own(Top) => curq = 0 /\ queue[2] = <<>>
      /\ \A f \in Calls(stack) : ~IsEvaluation(f) \/ curq # 0
  BY <1>1, NotificationIs
<1>3. /\ Data(rank, program, attr, Calls(Front(stack)) \cup {Top}, By(stack), curq, queue[0], queue[1], queue[2])
      /\ Calls(stack) = Calls(Front(stack)) \cup {Top}
  BY <1>1, Innermost
<1>4. PICK b : b = attr'
  OBVIOUS
<1>5. /\ Same(attr, b) /\ b[Top.slot].deps = <<>>
      /\ \A s \in Slot : s # Top.slot => b[s].deps = attr[s].deps
  BY <1>2, <1>4, Forgets
<1>6. PICK n \in Nat : n = Len(attr[Top.slot].deps)
  BY <1>2, <1>3, DependentsAre, Defining
<1>7. ~(Top.i <= Len(attr[Top.slot].deps))
  BY <1>1, <1>2, <1>6
<1>8. Data(rank, program, b, Calls(Front(stack)), By(stack), curq, queue[0], queue[1], queue[2])
  <2>1. CASE Own(Top)
    <3>1. \A g \in Calls(Front(stack)) \cup {Top} : ~IsEvaluation(g)
      BY <1>2, <1>3, <2>1
    <3>2. queue[2] = <<>> /\ Top \in Calls(Front(stack)) \cup {Top}
      BY <1>2, <2>1
    <3>3. Data(rank, program, b, Calls(Front(stack)) \cup {Top}, By(stack), curq, queue[0], queue[1], queue[2])
      BY <1>2, <1>3, <1>5, <1>7, <2>1, <3>1, <3>2, DataForget
    <3> QED
      BY <1>5, <2>1, <3>3, DataPopOwn
  <2>2. CASE ~Own(Top)
    <3>1. \A s \in Slot : b[s].deps = attr[s].deps
      BY <1>2, <1>5, <2>2
    <3>2. Data(rank, program, b, Calls(Front(stack)) \cup {Top}, By(stack), curq, queue[0], queue[1], queue[2])
      BY <1>3, <1>5, <3>1, DataAlike
    <3> QED
      BY <1>1, <2>2, <3>2, DataPopPlain
  <2> QED
    BY <2>1, <2>2
<1>9. PlainInv(rank, program, b, Front(stack), curq, queue[0], queue[1], queue[2])
  BY <1>1, <1>2, <1>8, EndHolds
<1> QED
  BY <1>1, <1>4, <1>9, HoldsNext

\* Evaluation f is given the answer v, and is g then.
Gets(f, g, v) ==
  /\ g \in Frame /\ g.kind = f.kind /\ g.slot = f.slot /\ g.ctx = f.ctx /\ g.def = f.def /\ g.is = f.is
  /\ g.pos = f.pos /\ g.res = f.res /\ g.at = "dep" /\ g.ans = v

LEMMA AnsweredIs ==
  ASSUME NEW st \in Seq(Frame), st # <<>>, IsEvaluation(Last(st)), NEW v \in Value
  PROVE  \E g : Gets(Last(st), g, v) /\ Answered(st, v) = Append(Front(st), g)
<1>1. PICK f \in Frame : f = Last(st)
  BY Popped
<1> DEFINE g == [f EXCEPT !.at = "dep", !.ans = v]
<1>2. f \in [kind : {"is", "wild", "future"}, slot : Slot, ctx : Slot, def : Paths, is : BOOLEAN,
             pos : Nat \ {0}, res : Value, at : {"get", "cyclic", "none", "dep"}, ans : Value]
  BY <1>1 DEF Frame, IsEvaluation, Sync
<1>3. g \in Frame
  BY <1>1, FramesChange
<1>4. Gets(f, g, v)
  BY <1>2, <1>3 DEF Gets
<1>5. PICK n \in Nat : n = Len(st)
  BY SeqIs
<1>6. st[n] = f
  BY <1>1, <1>5, Popped
<1>7. Answered(st, v) = [st EXCEPT ![n] = g]
  BY <1>1, <1>5, <1>6 DEF Answered
<1> HIDE DEF g
<1>8. Answered(st, v) = Append(Front(st), g)
  BY <1>3, <1>5, <1>7, Replaced
<1> QED
  BY <1>1, <1>4, <1>8

\* What answers a GET: the attribute itself, as no $ has a definition.
LEMMA Answer ==
  ASSUME NEW rank, NEW m, NEW F, NEW by, NEW cq, NEW q0, NEW q1, NEW q2, NEW r \in Slot,
         Data(rank, m, attr, F, by, cq, q0, q1, q2)
  PROVE  /\ Defined(r) => Stale(attr, r)
         /\ Stale(attr, r) => Defined(r) /\ Source(r) = r /\ attr[r].exists /\ attr[r].def # Null
         /\ attr[Source(r)].val = attr[r].val
<1>1. SlotFits(m, rank, attr, r) /\ attr \in [Slot -> Attribute] /\ DefsInv(attr)
  BY Defining
<1>2. PICK w \in Slot : w = Wild(r)
  BY Slots
<1>3. w[2] = Key
  BY <1>2 DEF Wild
<1>4. attr[w].val = Null /\ attr[w].def = Null
  <2>1. SlotFits(m, rank, attr, w)
    BY Defining
  <2> QED
    BY <1>3, <2>1 DEF SlotFits
<1>5. CASE attr[r].exists
  BY <1>1, <1>5 DEF Defined, OutOfDate, Stale, Source, DefsInv
<1>6. CASE ~attr[r].exists
  <2>1. attr[r].val = Null /\ attr[r].def = Null
    BY <1>1, <1>6 DEF SlotFits
  <2>2. ~Stale(attr, r)
    BY <1>1, <2>1 DEF Stale, DefsInv
  <2>3. ~Defined(r)
    BY <1>2, <1>4, <1>6 DEF Defined
  <2>4. Source(r) = w
    BY <1>2, <1>6 DEF Source
  <2> QED
    BY <1>4, <2>1, <2>2, <2>3, <2>4
<1> QED
  BY <1>5, <1>6

\* The evaluation in progress: how far it has come, and what it reads next.
LEMMA EvaluationIs ==
  ASSUME IInv, NEW rank, PlainHolds(rank), Evaluating
  PROVE  /\ stack # <<>> /\ Top \in Frame /\ IsEvaluation(Top) /\ Top.kind \in {"is", "future"}
         /\ EvaluationFits(attr, queue[2], Top) /\ Top.slot \in Slot /\ Top.def \in Paths
         /\ Top.def = attr[Top.slot].def /\ Top.is = attr[Top.slot].isf /\ Top.ctx = Top.slot
         /\ Top.pos \in Nat \ {0} /\ Top.res \in Value /\ Top.ans \in Value /\ Top.is \in BOOLEAN
         /\ Top.at \in {"get", "dep"} /\ Ranked(rank, Top.slot, Top.def) /\ rank \in [Slot -> Nat]
         /\ By(stack) = "read" \/ curq = 1
         /\ ~AtEnd(Top) => /\ Top.pos \in 1 .. Len(Top.def.keys) /\ Top.pos - 1 \in 0 .. Len(Top.def.keys)
                           /\ Asked(Top) \in Slot /\ rank[Asked(Top)] < rank[Top.slot]
                           /\ Asked(Top) # Top.slot /\ Asked(Top)[2] # Key
         /\ Steady(attr, queue[2], Top.slot, Top.def, Top.pos - 1, Top.res)
         /\ AtEnd(Top) => Top.pos - 1 = Len(Top.def.keys)
<1>1. /\ stack # <<>> /\ Top \in Frame /\ IsEvaluation(Top)
      /\ Top.slot \in Slot /\ Top.is \in BOOLEAN /\ Top.res \in Value /\ Top.ans \in Value /\ Top.pos \in Nat \ {0}
      /\ ~AtEnd(Top) => Asked(Top) \in Slot
  BY InEvaluation
<1>2. /\ Data(rank, program, attr, Calls(Front(stack)) \cup {Top}, By(stack), curq, queue[0], queue[1], queue[2])
      /\ CallFits(By(stack), curq, Top)
  BY <1>1, Innermost
<1>3. EvaluationFits(attr, queue[2], Top)
  BY <1>1, <1>2 DEF Data, InCall
<1>4. /\ Top.def = attr[Top.slot].def /\ Top.is = attr[Top.slot].isf /\ Top.ctx = Top.slot
      /\ Top.at \in {"get", "dep"} /\ Top.pos <= Len(Top.def.keys) + 1
      /\ Steady(attr, queue[2], Top.slot, Top.def, Top.pos - 1, Top.res)
  BY <1>3 DEF EvaluationFits
<1>5. Top.kind \in {"is", "future"} /\ (By(stack) = "read" \/ curq = 1)
  BY <1>1, <1>2 DEF CallFits, IsEvaluation
<1>6. Top.def \in Paths /\ attr[Top.slot].def # Null
  BY <1>1, <1>4, InEvaluation, PathsAssumption
<1>7. Ranked(rank, Top.slot, Top.def) /\ rank \in [Slot -> Nat]
  BY <1>1, <1>2, <1>4, <1>6, Defining
<1>8. PICK n \in Nat : n = Len(Top.def.keys)
  BY <1>6, PathIs
<1>9. ~AtEnd(Top) => Top.pos \in 1 .. n /\ Top.pos - 1 \in 0 .. n
  BY <1>1, <1>8 DEF AtEnd
<1>10. AtEnd(Top) => Top.pos - 1 = n
  BY <1>1, <1>4, <1>8 DEF AtEnd
<1>11. ~AtEnd(Top) => /\ rank[Asked(Top)] < rank[Top.slot]
                      /\ Asked(Top) # Top.slot /\ Asked(Top)[2] # Key
  <2> SUFFICES ASSUME ~AtEnd(Top)
               PROVE  /\ rank[Asked(Top)] < rank[Top.slot]
                      /\ Asked(Top) # Top.slot /\ Asked(Top)[2] # Key
    OBVIOUS
  <2>1. PICK p \in 1 .. Len(Top.def.keys) : p = Top.pos /\ p = (Top.pos - 1) + 1 /\ Top.pos - 1 \in 0 .. Len(Top.def.keys)
    BY <1>1, <1>8, <1>9
  <2>2. PICK s \in Slot : s = Top.slot
    BY <1>1
  <2>3. PICK d \in Paths : d = Top.def
    BY <1>6
  <2>4. PICK k \in 0 .. Len(d.keys) : k = Top.pos - 1
    BY <2>1, <2>3
  <2>5. Ranked(rank, s, d) /\ Steady(attr, queue[2], s, d, k, Top.res) /\ p \in 1 .. Len(d.keys) /\ p = k + 1
    BY <1>4, <1>7, <2>1, <2>2, <2>3, <2>4
  <2>6. /\ rank[<<Top.res, d.keys[p]>>] < rank[s]
        /\ <<Top.res, d.keys[p]>> # s /\ <<Top.res, d.keys[p]>>[2] # Key
    BY <1>7, <2>5, ReadNext
  <2>7. Asked(Top) = <<Top.res, d.keys[p]>>
    BY <2>1, <2>3 DEF Asked
  <2> QED
    BY <2>2, <2>6, <2>7
<1> QED
  BY <1>1, <1>3, <1>4, <1>5, <1>6, <1>7, <1>8, <1>9, <1>10, <1>11

\* An attribute is locked or unlocked, and the calls stay.
LEMMA LockSettles ==
  ASSUME IInv, IInv', NEW s \in Slot, NEW b, attr' = [attr EXCEPT ![s].evaluating = b],
         NEW rank, NEW m, NEW F, NEW by, NEW cq, NEW q0, NEW q1, NEW q2,
         Data(rank, m, attr, F, by, cq, q0, q1, q2)
  PROVE  Data(rank, m, attr', F, by, cq, q0, q1, q2)
<1>1. PICK c : c = attr'
  OBVIOUS
<1>2. Same(attr, c) /\ \A r \in Slot : c[r].deps = attr[r].deps
  <2>1. Same(attr, attr') /\ \A r \in Slot : attr'[r].deps = attr[r].deps
    BY LockTurns
  <2> QED
    BY <1>1, <2>1
<1>3. Data(rank, m, c, F, by, cq, q0, q1, q2)
  BY <1>2, DataAlike
<1> QED
  BY <1>1, <1>3

\* The evaluation that a GET of r starts.
LEMMA Starts ==
  ASSUME NEW a \in [Slot -> Attribute], DefsInv(a), NEW q2, NEW r \in Slot, Stale(a, r)
  PROVE  \E f \in Frame : /\ f = Evaluation("is", r, r, a[r].def, a[r].isf)
                          /\ f.kind = "is" /\ f.slot = r /\ EvaluationFits(a, q2, f) /\ IsEvaluation(f)
<1>1. PICK d \in Paths : d = a[r].def
  <2>1. a[r].def \in Paths \cup {Null} /\ a[r].def # Null
    BY Attributes DEF DefsInv, Stale
  <2> QED
    BY <2>1
<1>2. PICK is \in BOOLEAN : is = a[r].isf /\ is = TRUE
  BY Attributes DEF Stale
<1> DEFINE f == Evaluation("is", r, r, d, is)
<1>3. f \in Frame /\ f.kind = "is" /\ f.slot = r /\ f.at = "get"
  BY Makes
<1>4. f.ctx = r /\ f.def = d /\ f.is = is /\ f.pos = 1 /\ f.res = d.base
  BY DEF Evaluation
<1> HIDE DEF f
<1>5. PICK n \in Nat : n = Len(d.keys)
  BY PathIs
<1>6. Steady(a, q2, r, d, 0, d.base)
  BY SteadyBegins
<1>7. EvaluationFits(a, q2, f)
  <2>1. f.pos <= Len(f.def.keys) + 1 /\ f.pos - 1 = 0
    BY <1>4, <1>5
  <2>2. Steady(a, q2, f.slot, f.def, f.pos - 1, f.res)
    BY <1>3, <1>4, <1>6, <2>1
  <2> QED
    BY <1>1, <1>2, <1>3, <1>4, <2>1, <2>2 DEF EvaluationFits
<1>8. IsEvaluation(f)
  BY <1>3 DEF IsEvaluation
<1> QED
  BY <1>1, <1>2, <1>3, <1>7, <1>8 DEF f

\* An evaluation starts for the GET of another one.
LEMMA EvaluationStarts ==
  ASSUME NEW rank, NEW m, NEW a, NEW st \in Seq(Frame), NEW cq, NEW q0, NEW q1, NEW q2, NEW f \in Frame,
         PlainInv(rank, m, a, st, cq, q0, q1, q2), st # <<>>,
         IsEvaluation(Last(st)), Last(st).at = "get", f.kind = "is", f.slot = Asked(Last(st)),
         rank[f.slot] < rank[Last(st).slot], f.slot \in Slot, EvaluationFits(a, q2, f)
  PROVE  PlainInv(rank, m, a, Append(st, f), cq, q0, q1, q2)
<1>1. PICK g \in Frame : g = Last(st)
  BY Popped
<1>2. /\ CallFits(By(st), cq, g) /\ Calls(st) = Calls(Front(st)) \cup {g} /\ Calls(Front(st)) \subseteq Frame
      /\ \A h \in Calls(Front(st)) : Higher(rank, h, g)
      /\ Data(rank, m, a, Calls(st), By(st), cq, q0, q1, q2)
  BY <1>1, CallInProgress
<1>3. g.kind \in {"is", "future"} /\ IsEvaluation(f) /\ ~Own(f) /\ ~Own(g) /\ g.slot \in Slot
  BY <1>1, <1>2, Frames DEF CallFits, IsEvaluation, Own
<1>4. CallFits(By(st), cq, f) /\ Above(Last(st), f)
  BY <1>1, <1>2, <1>3 DEF CallFits, Above
<1>5. rank \in [Slot -> Nat]
  BY <1>2 DEF Data, Typed
<1>6. ASSUME NEW h \in Calls(st) PROVE Higher(rank, h, f)
  <2>1. CASE h = g
    BY <1>1, <1>3, <2>1 DEF Higher
  <2>2. CASE h \in Calls(Front(st))
    <3>1. Higher(rank, h, g) /\ h \in Frame
      BY <1>2, <2>2
    <3>2. h.kind # "notify"
      BY <1>3, <3>1 DEF Higher
    <3>3. CASE IsEvaluation(h)
      <4>1. rank[g.slot] < rank[h.slot] /\ rank[f.slot] < rank[g.slot]
        BY <1>1, <1>3, <3>1, <3>3 DEF Higher
      <4>2. rank[g.slot] \in Nat /\ rank[h.slot] \in Nat /\ rank[f.slot] \in Nat
        BY <1>3, <1>5, <3>1, <3>3, Frames
      <4>3. rank[f.slot] < rank[h.slot]
        BY <4>1, <4>2
      <4> QED
        BY <1>3, <3>2, <4>3 DEF Higher
    <3>4. CASE ~IsEvaluation(h)
      BY <1>3, <3>2, <3>4 DEF Higher
    <3> QED
      BY <3>3, <3>4
  <2> QED
    BY <1>2, <2>1, <2>2
<1> QED
  BY <1>3, <1>4, <1>6, CallStarts

LEMMA GetEvaluatesSettles ==
  ASSUME IInv, IInv', NEW rank, PlainHolds(rank), GetEvaluates
  PROVE  PlainHolds(rank)'
<1>1. /\ Evaluating /\ Top.at = "get" /\ ~AtEnd(Top) /\ MustEvaluate(Asked(Top)) /\ Evaluate(Asked(Top))
      /\ UNCHANGED <<queue, curq, program, ops>>
  BY DEF GetEvaluates, Asking
<1>2. /\ stack # <<>> /\ Top \in Frame /\ IsEvaluation(Top)
      /\ Asked(Top) \in Slot /\ rank[Asked(Top)] < rank[Top.slot]
  BY <1>1, EvaluationIs
<1>3. PICK r \in Slot : r = Asked(Top)
  BY <1>2
<1>4. /\ Top = Last(stack) /\ stack \in Seq(Frame) /\ Shape(rank, stack, curq)
      /\ Data(rank, program, attr, Calls(stack), By(stack), curq, queue[0], queue[1], queue[2])
  <2>1. /\ Top = Last(stack) /\ stack \in Seq(Frame) /\ Shape(rank, stack, curq)
        /\ Calls(stack) = Calls(Front(stack)) \cup {Top}
        /\ Data(rank, program, attr, Calls(Front(stack)) \cup {Top}, By(stack), curq, queue[0], queue[1], queue[2])
    BY <1>2, Innermost
  <2> QED
    BY <2>1
<1>5. Stale(attr, r) /\ Source(r) = r /\ attr[r].exists
  <2>1. Defined(r)
    BY <1>1, <1>3 DEF MustEvaluate
  <2> QED
    BY <1>4, <2>1, Answer
<1>6. /\ attr' = [attr EXCEPT ![r].evaluating = TRUE]
      /\ stack' = Append(stack, Evaluation("is", r, r, attr[r].def, attr[r].isf))
  BY <1>1, <1>3, <1>5 DEF Evaluate
<1>7. Data(rank, program, attr', Calls(stack), By(stack), curq, queue[0], queue[1], queue[2])
  BY <1>4, <1>6, LockSettles
<1>8. PICK b \in [Slot -> Attribute] : b = attr'
  BY AttributesNext
<1>9. DefsInv(b) /\ Stale(b, r) /\ b[r].def = attr[r].def /\ b[r].isf = attr[r].isf
  <2>1. Same(attr, attr') /\ DefsInv(attr')
    BY <1>6, LockTurns, AttributesNext
  <2> QED
    BY <1>5, <1>8, <2>1 DEF Same, Stale
<1>10. PICK f \in Frame : /\ f = Evaluation("is", r, r, b[r].def, b[r].isf)
                          /\ f.kind = "is" /\ f.slot = r /\ EvaluationFits(b, queue[2], f)
  <2>1. \E f \in Frame : /\ f = Evaluation("is", r, r, b[r].def, b[r].isf)
                         /\ f.kind = "is" /\ f.slot = r /\ EvaluationFits(b, queue[2], f) /\ IsEvaluation(f)
    BY <1>9, Starts
  <2> QED
    BY <2>1
<1>11. PlainInv(rank, program, b, stack, curq, queue[0], queue[1], queue[2])
  BY <1>4, <1>7, <1>8 DEF PlainInv
<1>12. f.slot = Asked(Last(stack)) /\ rank[f.slot] < rank[Last(stack).slot] /\ Last(stack).at = "get"
       /\ IsEvaluation(Last(stack))
  BY <1>1, <1>2, <1>3, <1>4, <1>10
<1>13. PlainInv(rank, program, b, Append(stack, f), curq, queue[0], queue[1], queue[2])
  BY <1>2, <1>4, <1>10, <1>11, <1>12, EvaluationStarts
<1> QED
  BY <1>1, <1>6, <1>8, <1>9, <1>10, <1>13, HoldsNext

\* The main program reads an attribute when no set is left over.
LEMMA MainGetSettles ==
  ASSUME IInv, IInv', NEW rank, Plain(program, rank), PlainHolds(rank), NEW r \in program.reads, MainGet(r)
  PROVE  PlainHolds(rank)'
<1>1. /\ stack = <<>> /\ queue[0] = <<>> /\ MustEvaluate(r) /\ Evaluate(r) /\ r \in Slot
      /\ UNCHANGED <<queue, curq, program, ops>>
  BY Parts, ProgramsAssumption DEF MainGet, Plain
<1>2. /\ Data(rank, program, attr, Calls(stack), By(stack), curq, queue[0], queue[1], queue[2])
      /\ Shape(rank, stack, curq)
  BY DEF PlainHolds, PlainInv
<1>3. curq = -1
  <2>1. NoInstant(stack)
    BY <1>1 DEF NoInstant
  <2> QED
    BY <2>1, Parts DEF CallsInv, Instants
<1>4. Stale(attr, r) /\ Source(r) = r /\ attr[r].exists
  <2>1. Defined(r)
    BY <1>1 DEF MustEvaluate
  <2> QED
    BY <1>1, <1>2, <2>1, Answer
<1>5. /\ attr' = [attr EXCEPT ![r].evaluating = TRUE]
      /\ stack' = Append(stack, Evaluation("is", r, r, attr[r].def, attr[r].isf))
  BY <1>1, <1>4 DEF Evaluate
<1>6. Data(rank, program, attr', Calls(stack), By(stack), curq, queue[0], queue[1], queue[2])
  BY <1>1, <1>2, <1>5, LockSettles
<1>7. PICK b \in [Slot -> Attribute] : b = attr'
  BY AttributesNext
<1>8. DefsInv(b) /\ Stale(b, r) /\ b[r].def = attr[r].def /\ b[r].isf = attr[r].isf
  <2>1. Same(attr, attr') /\ DefsInv(attr')
    BY <1>1, <1>5, LockTurns, AttributesNext
  <2> QED
    BY <1>1, <1>4, <1>7, <2>1 DEF Same, Stale
<1>9. PICK f \in Frame : /\ f = Evaluation("is", r, r, b[r].def, b[r].isf)
                         /\ f.kind = "is" /\ f.slot = r /\ EvaluationFits(b, queue[2], f) /\ IsEvaluation(f)
  <2>1. \E f \in Frame : /\ f = Evaluation("is", r, r, b[r].def, b[r].isf)
                         /\ f.kind = "is" /\ f.slot = r /\ EvaluationFits(b, queue[2], f) /\ IsEvaluation(f)
    BY <1>1, <1>8, Starts
  <2> QED
    BY <2>1
<1>10. Data(rank, program, b, {}, "read", -1, queue[0], queue[1], queue[2])
  <2>1. Calls(stack) = {}
    BY <1>1 DEF Calls
  <2>2. Data(rank, program, b, {}, By(stack), -1, queue[0], queue[1], queue[2])
    BY <1>3, <1>6, <1>7, <2>1
  <2>3. Queues(rank, program, b, By(stack), -1, queue[0], queue[1], queue[2])
    BY <2>2 DEF Data
  <2>4. -1 \in {-1, 0} /\ -1 \in -1 .. 2
    OBVIOUS
  <2>5. Queues(rank, program, b, "read", -1, queue[0], queue[1], queue[2])
    BY <1>1, <2>3, <2>4, QueuesRest
  <2> QED
    BY <2>2, <2>4, <2>5, DataTurns
<1>11. Data(rank, program, b, {} \cup {f}, "read", -1, queue[0], queue[1], queue[2])
  <2>1. ~Own(f)
    BY <1>9 DEF Own
  <2> QED
    BY <1>9, <1>10, <2>1, DataPush
<1>12. PICK st \in Seq(Frame) : st = <<>> /\ Calls(st) = {}
  <2>1. <<>> \in Seq(Frame) /\ Calls(<<>>) = {}
    BY <1>1, EmptySeq DEF Calls
  <2> QED
    BY <2>1
<1>13. By(<<f>>) = "read" /\ CallFits("read", -1, f)
  BY <1>9 DEF By, CallFits
<1>14. Shape(rank, Append(st, f), -1) /\ By(Append(st, f)) = "read"
  <2>1. Shape(rank, Append(st, f), -1) /\ By(Append(st, f)) = IF st = <<>> THEN By(<<f>>) ELSE By(st)
    BY <1>1, <1>2, <1>3, <1>9, <1>12, <1>13, ShapePushed, ZenonT(40)
  <2> QED
    BY <1>12, <1>13, <2>1
<1>15. Append(st, f) \in Seq(Frame) /\ Calls(Append(st, f)) = {} \cup {f}
  BY <1>12, Pushed, CallsPushed
<1>16. PlainInv(rank, program, b, Append(st, f), -1, queue[0], queue[1], queue[2])
  BY <1>11, <1>14, <1>15 DEF PlainInv
<1> QED
  BY <1>1, <1>3, <1>5, <1>7, <1>8, <1>9, <1>12, <1>16, HoldsNext

\* An evaluation in progress, among the calls.
LEMMA EvaluationAmong ==
  ASSUME NEW rank, NEW m, NEW a, NEW F, NEW f \in Frame, NEW by, NEW cq, NEW q0, NEW q1, NEW q2,
         Data(rank, m, a, F \cup {f}, by, cq, q0, q1, q2), f.kind \in {"is", "future"}
  PROVE  /\ IsEvaluation(f) /\ EvaluationFits(a, q2, f) /\ f.slot \in Slot /\ f.def \in Paths
         /\ f.pos \in Nat \ {0} /\ f.res \in Value /\ f.ans \in Value /\ f.is \in BOOLEAN
         /\ a[f.slot].def # Null /\ Ranked(rank, f.slot, f.def) /\ rank \in [Slot -> Nat]
         /\ Len(f.def.keys) \in Nat
<1>1. IsEvaluation(f)
  BY DEF IsEvaluation
<1>2. EvaluationFits(a, q2, f)
  BY <1>1 DEF Data, InCall
<1>3. /\ f.slot \in Slot /\ f.def \in Paths /\ f.pos \in Nat \ {0} /\ f.res \in Value /\ f.ans \in Value
      /\ f.is \in BOOLEAN
  BY <1>1, Frames
<1>4. f.def = a[f.slot].def
  BY <1>2 DEF EvaluationFits
<1>5. a[f.slot].def # Null
  BY <1>3, <1>4, PathsAssumption
<1>6. Ranked(rank, f.slot, f.def) /\ rank \in [Slot -> Nat]
  BY <1>3, <1>4, <1>5, Defining
<1> QED
  BY <1>1, <1>2, <1>3, <1>5, <1>6, PathIs

\* An evaluation is answered with the value of an attribute that is up to date.
LEMMA DataAnswers ==
  ASSUME NEW rank, NEW m, NEW a, NEW F, NEW f \in Frame, NEW g, NEW v, NEW by, NEW cq, NEW q0, NEW q1, NEW q2,
         Data(rank, m, a, F \cup {f}, by, cq, q0, q1, q2), f.kind \in {"is", "future"},
         Gets(f, g, v), ~AtEnd(f), a[Asked(f)].val = v, ~Stale(a, Asked(f))
  PROVE  Data(rank, m, a, F \cup {g}, by, cq, q0, q1, q2) /\ SameCall(f, g)
<1>1. /\ IsEvaluation(f) /\ EvaluationFits(a, q2, f) /\ f.pos \in Nat \ {0} /\ Len(f.def.keys) \in Nat
  BY EvaluationAmong
<1>2. f.pos <= Len(f.def.keys)
  BY <1>1 DEF AtEnd
<1>3. /\ g \in Frame /\ g.kind = f.kind /\ g.slot = f.slot /\ g.ctx = f.ctx /\ g.def = f.def /\ g.is = f.is
      /\ g.pos = f.pos /\ g.res = f.res /\ g.at = "dep" /\ g.ans = v
  BY DEF Gets
<1>4. Asked(g) = Asked(f)
  BY <1>3 DEF Asked
<1>5. EvaluationFits(a, q2, g)
  BY <1>1, <1>2, <1>3, <1>4 DEF EvaluationFits
<1>6. SameCall(f, g)
  BY <1>3 DEF SameCall
<1> QED
  BY <1>1, <1>3, <1>5, <1>6, DataEvaluates

LEMMA GetAnswersSettles ==
  ASSUME IInv, NEW rank, PlainHolds(rank), GetAnswers
  PROVE  PlainHolds(rank)'
<1>1. /\ Evaluating /\ Top.at = "get" /\ ~AtEnd(Top) /\ ~Defined(Asked(Top))
      /\ stack' = Answered(stack, attr[Source(Asked(Top))].val)
      /\ UNCHANGED <<attr, queue, curq, program, ops>>
  BY DEF GetAnswers, Asking
<1>2. /\ stack # <<>> /\ Top \in Frame /\ IsEvaluation(Top) /\ Top.kind \in {"is", "future"}
      /\ Asked(Top) \in Slot
  BY <1>1, EvaluationIs
<1>3. /\ Top = Last(stack) /\ stack \in Seq(Frame) /\ Shape(rank, stack, curq)
      /\ Data(rank, program, attr, Calls(Front(stack)) \cup {Top}, By(stack), curq, queue[0], queue[1], queue[2])
  BY <1>2, Innermost
<1>4. PICK r \in Slot : r = Asked(Top)
  BY <1>2
<1>5. ~Stale(attr, r) /\ attr[Source(r)].val = attr[r].val
  BY <1>1, <1>3, <1>4, Answer
<1>6. PICK v \in Value : v = attr[r].val
  BY Parts, Attributes
<1>7. PICK g : Gets(Top, g, v) /\ Answered(stack, v) = Append(Front(stack), g)
  BY <1>2, <1>3, AnsweredIs
<1>8. Data(rank, program, attr, Calls(Front(stack)) \cup {g}, By(stack), curq, queue[0], queue[1], queue[2]) /\ SameCall(Top, g)
  <2>1. attr[Asked(Top)].val = v /\ ~Stale(attr, Asked(Top)) /\ Gets(Top, g, v) /\ ~AtEnd(Top)
        /\ Top \in Frame /\ Top.kind \in {"is", "future"}
    BY <1>1, <1>2, <1>4, <1>5, <1>6, <1>7
  <2>2. Data(rank, program, attr, Calls(Front(stack)) \cup {Top}, By(stack), curq, queue[0], queue[1], queue[2])
    BY <1>3
  <2>3. Data(rank, program, attr, Calls(Front(stack)) \cup {g}, By(stack), curq, queue[0], queue[1], queue[2])
    BY <2>1, <2>2, DataAnswers
  <2>4. SameCall(Top, g)
    BY <2>1 DEF Gets, SameCall
  <2> QED
    BY <2>3, <2>4
<1>9. g \in Frame
  BY <1>7 DEF Gets
<1>10. PlainInv(rank, program, attr, Append(Front(stack), g), curq, queue[0], queue[1], queue[2])
  BY <1>2, <1>3, <1>8, <1>9, CallGoesOn
<1>11. stack' = Append(Front(stack), g)
  BY <1>1, <1>4, <1>5, <1>6, <1>7
<1> QED
  BY <1>1, <1>10, <1>11, HoldsNext

\* An evaluation goes on from the answer, when the dependency is queued.
Proceeds(f, g) ==
  /\ g \in Frame /\ g.kind = f.kind /\ g.slot = f.slot /\ g.ctx = f.ctx /\ g.def = f.def /\ g.is = f.is
  /\ g.pos = f.pos + 1 /\ g.res = f.ans /\ g.at = "get"

LEMMA ProceedsIs ==
  ASSUME NEW f \in Frame, IsEvaluation(f)
  PROVE  Proceeds(f, [f EXCEPT !.at = "get", !.pos = @ + 1, !.res = f.ans])
<1>1. f \in [kind : {"is", "wild", "future"}, slot : Slot, ctx : Slot, def : Paths, is : BOOLEAN,
             pos : Nat \ {0}, res : Value, at : {"get", "cyclic", "none", "dep"}, ans : Value]
  BY DEF Frame, IsEvaluation, Sync
<1>2. [f EXCEPT !.at = "get", !.pos = @ + 1, !.res = f.ans] \in Frame
  <2>1. Null \in Value
    BY DEF Value
  <2> QED
    BY <2>1, FramesChange
<1> QED
  BY <1>1, <1>2 DEF Proceeds

LEMMA DataProceeds ==
  ASSUME NEW rank, NEW m, NEW a, NEW F, NEW f \in Frame, NEW g, NEW by, NEW cq, NEW q0, NEW q1, NEW q2,
         Data(rank, m, a, F \cup {f}, by, cq, q0, q1, q2), f.kind \in {"is", "future"}, f.at = "dep",
         Proceeds(f, g), cq # -1, by = "read" \/ cq # 0
  PROVE  /\ Data(rank, m, a, F \cup {g}, by, cq, q0, q1, Append(q2, DepEvent(f.is, Asked(f), f.ctx)))
         /\ SameCall(f, g)
<1>1. /\ IsEvaluation(f) /\ EvaluationFits(a, q2, f) /\ f.slot \in Slot /\ f.def \in Paths
      /\ f.pos \in Nat \ {0} /\ f.res \in Value /\ f.ans \in Value /\ f.is \in BOOLEAN
      /\ a[f.slot].def # Null /\ Ranked(rank, f.slot, f.def) /\ rank \in [Slot -> Nat]
      /\ Len(f.def.keys) \in Nat
  BY EvaluationAmong
<1>2. /\ f.ctx = f.slot /\ f.def = a[f.slot].def /\ f.is = a[f.slot].isf
      /\ f.pos <= Len(f.def.keys) /\ a[Asked(f)].val = f.ans /\ ~Stale(a, Asked(f))
      /\ IF f.kind = "is" THEN Stale(a, f.slot) ELSE ~a[f.slot].isf
      /\ Steady(a, q2, f.slot, f.def, f.pos - 1, f.res)
  BY <1>1 DEF EvaluationFits
<1>3. PICK s \in Slot : s = f.slot
  BY <1>1
<1>4. PICK d \in Paths : d = f.def
  BY <1>1
<1>5. PICK p \in 1 .. Len(d.keys) : p = f.pos
  BY <1>1, <1>2, <1>4
<1>6. PICK k \in 0 .. Len(d.keys) : k = f.pos - 1 /\ p = k + 1
  BY <1>1, <1>2, <1>4, <1>5
<1>7. PICK v : v = f.res
  OBVIOUS
<1>8. PICK r : r = <<v, d.keys[p]>>
  OBVIOUS
<1>9. Asked(f) = r
  BY <1>4, <1>5, <1>7, <1>8 DEF Asked
<1>10. r \in Slot /\ rank[r] < rank[s] /\ r[2] # Key
  <2>1. Ranked(rank, s, d) /\ Steady(a, q2, s, d, k, v)
    BY <1>1, <1>2, <1>3, <1>4, <1>6, <1>7
  <2> QED
    BY <1>1, <1>6, <1>8, <2>1, ReadNext
<1>11. PICK e \in Event(2) : e = DepEvent(f.is, Asked(f), f.ctx) /\ e = DepEvent(a[s].isf, r, s)
  BY <1>1, <1>2, <1>3, <1>9, <1>10, Events
<1>12. e.slot = r /\ e.by = s
  BY <1>11 DEF DepEvent
<1>13. DepFits(rank, a, e)
  BY <1>1, <1>2, <1>3, <1>9, <1>10, <1>11, <1>12 DEF DepFits
<1>14. PICK p2 : p2 = Append(q2, e)
  OBVIOUS
<1>15. Data(rank, m, a, F \cup {f}, by, cq, q0, q1, p2)
  BY <1>13, <1>14, DataDep
<1>16. Registered(a, p2, r, s)
  <2>1. \A x, y : Registered(a, q2, x, y) \/ e = DepEvent(a[y].isf, x, y) => Registered(a, Append(q2, e), x, y)
    <3>1. Data(rank, m, a, F \cup {f}, by, cq, q0, q1, Append(q2, e))
      BY <1>14, <1>15
    <3> QED
      BY <1>13, <3>1, DataDep
  <2> QED
    BY <1>11, <1>14, <2>1
<1>17. EvaluationFits(a, p2, f)
  BY <1>15, EvaluationAmong
<1>18. Steady(a, p2, s, d, k, v)
  BY <1>3, <1>4, <1>6, <1>7, <1>17 DEF EvaluationFits
<1>19. Fresh(a, p2, r, s) /\ a[r].val = f.ans
  BY <1>2, <1>9, <1>16 DEF Fresh
<1>20. Steady(a, p2, s, d, p, f.ans)
  <2>1. p \in 0 .. Len(d.keys)
    OBVIOUS
  <2> QED
    BY <1>1, <1>6, <1>8, <1>18, <1>19, <2>1, SteadyGoesOn
<1>21. /\ g \in Frame /\ g.kind = f.kind /\ g.slot = f.slot /\ g.ctx = f.ctx /\ g.def = f.def /\ g.is = f.is
       /\ g.pos = f.pos + 1 /\ g.res = f.ans /\ g.at = "get"
  BY DEF Proceeds
<1>22. EvaluationFits(a, p2, g)
  <2>1. g.pos <= Len(g.def.keys) + 1 /\ g.pos - 1 = p
    BY <1>1, <1>2, <1>5, <1>21
  <2>2. Steady(a, p2, g.slot, g.def, g.pos - 1, g.res)
    BY <1>3, <1>4, <1>20, <1>21, <2>1
  <2> QED
    BY <1>2, <1>21, <2>1, <2>2 DEF EvaluationFits
<1>23. SameCall(f, g)
  BY <1>21 DEF SameCall
<1>24. Data(rank, m, a, F \cup {g}, by, cq, q0, q1, p2)
  BY <1>1, <1>15, <1>21, <1>22, <1>23, DataEvaluates
<1> QED
  BY <1>11, <1>14, <1>23, <1>24

\* An instant in progress drains a queue.
LEMMA InstantDrains ==
  ASSUME NEW rank, NEW cq, NEW st \in Seq(Frame), Shape(rank, st, cq), ~NoInstant(st)
  PROVE  cq # -1
<1>1. PICK i \in 1 .. Len(st) : st[i].kind = "instant"
  BY DEF NoInstant
<1>2. st[i].q = cq
  BY <1>1 DEF Shape, CallFits
<1>3. st[i] \in Frame
  BY SeqIs
<1>4. st[i].q \in 0 .. 2
  BY <1>1, <1>3, Frames
<1> QED
  BY <1>2, <1>4

\* An instant starts above the evaluations of a read.
LEMMA InstantAbove ==
  ASSUME NEW rank, NEW m, NEW a, NEW st, NEW q0, NEW q1, NEW q2, NEW q \in 0 .. 2,
         PlainInv(rank, m, a, st, q, q0, q1, q2), st # <<>>,
         \A f \in Calls(st) : f.kind \in {"sync", "is"}
  PROVE  PlainInv(rank, m, a, Append(st, Instant(q)), q, q0, q1, q2)
<1>1. PICK f \in Frame : f = Instant(q) /\ f.kind = "instant" /\ f.q = q
  <2>1. Instant(q) \in Frame
    BY DEF Instant, Frame
  <2>2. Instant(q).kind = "instant" /\ Instant(q).q = q
    BY DEF Instant
  <2> QED
    BY <2>1, <2>2
<1>2. ~IsEvaluation(f) /\ ~Own(f)
  BY <1>1 DEF IsEvaluation, Own
<1>3. CallFits(By(st), q, f)
  BY <1>1 DEF CallFits
<1>4. Last(st) \in Calls(st)
  <2>1. st \in Seq(Frame)
    BY DEF PlainInv
  <2>2. PICK g : g = Last(st)
    OBVIOUS
  <2>3. Calls(st) = Calls(Front(st)) \cup {g}
    BY <2>1, <2>2, CallsPopped
  <2> QED
    BY <2>2, <2>3
<1>5. Above(Last(st), f)
  BY <1>1, <1>2, <1>4 DEF Above
<1>6. \A g \in Calls(st) : Higher(rank, g, f)
  BY <1>1, <1>2 DEF Higher
<1> QED
  BY <1>1, <1>2, <1>3, <1>5, <1>6, CallStarts

LEMMA AddDepSettles ==
  ASSUME IInv, NEW rank, PlainHolds(rank), AddDep
  PROVE  PlainHolds(rank)'
<1>1. /\ Evaluating /\ Top.at = "dep"
      /\ queue' = [queue EXCEPT ![2] = Append(@, DepEvent(Top.is, Asked(Top), Top.ctx))]
      /\ ProcessInstant(Append(Front(stack), [Top EXCEPT !.at = "get", !.pos = @ + 1, !.res = Top.ans]))
      /\ UNCHANGED <<attr, program, ops>>
  BY DEF AddDep, Sent
<1>2. /\ stack # <<>> /\ Top \in Frame /\ IsEvaluation(Top) /\ Top.kind \in {"is", "future"}
      /\ By(stack) = "read" \/ curq = 1
  BY <1>1, EvaluationIs
<1>3. /\ Top = Last(stack) /\ stack \in Seq(Frame) /\ Shape(rank, stack, curq)
      /\ Data(rank, program, attr, Calls(Front(stack)) \cup {Top}, By(stack), curq, queue[0], queue[1], queue[2])
      /\ Calls(stack) = Calls(Front(stack)) \cup {Top} /\ Front(stack) \in Seq(Frame)
  BY <1>2, Innermost
<1>4. PICK g : g = [Top EXCEPT !.at = "get", !.pos = @ + 1, !.res = Top.ans]
  OBVIOUS
<1>5. Proceeds(Top, g) /\ g \in Frame
  BY <1>2, <1>4, ProceedsIs DEF Proceeds
<1>6. SameCall(Top, g) /\ g.kind = Top.kind
  BY <1>2, <1>5 DEF SameCall, Proceeds
<1>7. PICK e : e = DepEvent(Top.is, Asked(Top), Top.ctx)
  OBVIOUS
<1>8. queue'[2] = Append(queue[2], e) /\ queue'[0] = queue[0] /\ queue'[1] = queue[1]
  <2>1. queue' = [queue EXCEPT ![2] = Append(@, e)] /\ 2 \in 0 .. 2
    BY <1>1, <1>7
  <2>2. /\ queue'[2] = Append(queue[2], e)
        /\ \A j \in 0 .. 2 : j # 2 => queue'[j] = queue[j]
    BY <2>1, QueueGrows
  <2> QED
    BY <2>2
<1>9. CASE ~Idle
  <2>1. curq # -1
    <3>1. ~NoInstant(stack)
      BY <1>9, Parts
    <3> QED
      BY <1>3, <3>1, InstantDrains
  <2>2. By(stack) = "read" \/ curq # 0
    BY <1>2
  <2>3. Data(rank, program, attr, Calls(Front(stack)) \cup {g}, By(stack), curq, queue[0], queue[1], Append(queue[2], e))
    BY <1>1, <1>2, <1>3, <1>5, <1>7, <2>1, <2>2, DataProceeds
  <2>4. PlainInv(rank, program, attr, Append(Front(stack), g), curq, queue[0], queue[1], Append(queue[2], e))
    BY <1>2, <1>3, <1>5, <1>6, <2>3, CallGoesOn
  <2>5. stack' = Append(Front(stack), g) /\ curq' = curq
    BY <1>1, <1>4, <1>9 DEF ProcessInstant
  <2> QED
    BY <1>1, <1>8, <2>4, <2>5, HoldsNext
<1>10. CASE Idle
  <2>1. NoInstant(stack)
    BY <1>10, Parts
  <2>2. curq = -1
    BY <2>1, Parts DEF CallsInv, Instants
  <2>3. By(stack) = "read" /\ \A f \in Calls(stack) : f.kind = "is"
    <3>1. Last(stack).kind # "sync"
      BY <1>2, <1>3
    <3> QED
      BY <1>2, <1>3, <2>1, <3>1, WithoutInstant
  <2>4. Shape(rank, stack, 0)
    BY <1>3, <2>3, ShapeTurns
  <2>5. Data(rank, program, attr, Calls(Front(stack)) \cup {Top}, "read", 0, queue[0], queue[1], queue[2])
    <3>1. Data(rank, program, attr, Calls(Front(stack)) \cup {Top}, "read", -1, queue[0], queue[1], queue[2])
      BY <1>3, <2>2, <2>3
    <3>2. Queues(rank, program, attr, "read", -1, queue[0], queue[1], queue[2])
      BY <3>1 DEF Data
    <3>3. 0 \in {-1, 0} /\ 0 \in -1 .. 2
      OBVIOUS
    <3>4. Queues(rank, program, attr, "read", 0, queue[0], queue[1], queue[2])
      BY <3>2, <3>3, QueuesRest
    <3> QED
      BY <3>1, <3>3, <3>4, DataTurns
  <2>6. Data(rank, program, attr, Calls(Front(stack)) \cup {g}, "read", 0, queue[0], queue[1], Append(queue[2], e))
    <3>1. PICK cq, by : cq = 0 /\ cq # -1 /\ by = "read"
      OBVIOUS
    <3>3. Data(rank, program, attr, Calls(Front(stack)) \cup {Top}, by, cq, queue[0], queue[1], queue[2])
      BY <2>5, <3>1
    <3>4. Data(rank, program, attr, Calls(Front(stack)) \cup {g}, by, cq, queue[0], queue[1], Append(queue[2], e))
      BY <1>1, <1>2, <1>5, <1>7, <3>1, <3>3, DataProceeds
    <3> QED
      BY <3>1, <3>4
  <2>7. /\ PlainInv(rank, program, attr, Append(Front(stack), g), 0, queue[0], queue[1], Append(queue[2], e))
        /\ Append(Front(stack), g) # <<>>
    <3>1. SameCall(Last(stack), g)
      BY <1>3, <1>6
    <3>2. Data(rank, program, attr, Calls(Front(stack)) \cup {g}, By(stack), 0, queue[0], queue[1], Append(queue[2], e))
      BY <2>3, <2>6
    <3>3. PlainInv(rank, program, attr, Append(Front(stack), g), 0, queue[0], queue[1], Append(queue[2], e))
      BY <1>2, <1>3, <1>5, <2>4, <3>1, <3>2, CallGoesOn
    <3>4. Append(Front(stack), g) # <<>>
      BY <1>3, <1>5, Pushed
    <3> QED
      BY <3>3, <3>4
  <2>8. \A f \in Calls(Append(Front(stack), g)) : f.kind \in {"sync", "is"}
    <3>1. Calls(Append(Front(stack), g)) = Calls(Front(stack)) \cup {g}
      BY <1>3, <1>5, CallsPushed
    <3> QED
      BY <1>3, <1>6, <2>3, <3>1
  <2>9. PlainInv(rank, program, attr, Append(Append(Front(stack), g), Instant(0)), 0, queue[0], queue[1], Append(queue[2], e))
    <3>1. 0 \in 0 .. 2
      OBVIOUS
    <3> QED
      BY <2>7, <2>8, <3>1, InstantAbove
  <2>10. stack' = Append(Append(Front(stack), g), Instant(0)) /\ curq' = 0
    BY <1>1, <1>4, <1>10 DEF ProcessInstant
  <2> QED
    BY <1>1, <1>8, <2>9, <2>10, HoldsNext
<1> QED
  BY <1>9, <1>10

\* The attribute whose evaluation ends is given its value.
LEMMA Refreshes ==
  ASSUME IInv, IInv', FinishIs, Top.slot \in Slot
  PROVE  /\ attr' \in [Slot -> Attribute] /\ DefsInv(attr')
         /\ \A s \in Slot : s # Top.slot => attr'[s] = attr[s]
         /\ attr'[Top.slot].exists = attr[Top.slot].exists /\ attr'[Top.slot].def = attr[Top.slot].def
         /\ attr'[Top.slot].isf = attr[Top.slot].isf /\ attr'[Top.slot].deps = attr[Top.slot].deps
         /\ attr'[Top.slot].val = Top.res /\ ~attr'[Top.slot].ood
<1>1. attr' = [attr EXCEPT ![Top.slot].val = Top.res, ![Top.slot].ood = FALSE,
                           ![Top.slot].evaluating = FALSE]
  BY DEF FinishIs
<1>2. attr' \in [Slot -> Attribute] /\ DefsInv(attr') /\ attr \in [Slot -> Attribute]
  BY Parts, AttributesNext
<1>3. PICK t \in Slot : t = Top.slot
  OBVIOUS
<1>4. \A s \in Slot : s # t => attr'[s] = attr[s]
  BY <1>1, <1>2, <1>3
<1>5. attr[t] \in Attribute
  BY <1>2
<1>6. attr'[t] = [attr[t] EXCEPT !.val = Top.res, !.ood = FALSE, !.evaluating = FALSE]
  BY <1>1, <1>2, <1>3
<1>7. /\ attr'[t].exists = attr[t].exists /\ attr'[t].def = attr[t].def
      /\ attr'[t].isf = attr[t].isf /\ attr'[t].deps = attr[t].deps
      /\ attr'[t].val = Top.res /\ ~attr'[t].ood
  BY <1>5, <1>6 DEF Attribute
<1> QED
  BY <1>2, <1>3, <1>4, <1>7

\* The attributes and the queues when an 'is' attribute has been evaluated.
LEMMA FinishIsData ==
  ASSUME IInv, IInv', NEW rank, PlainHolds(rank), FinishIs
  PROVE  /\ Data(rank, program, attr', Calls(Front(stack)), By(stack), curq, queue[0], queue[1], queue[2])
         /\ attr'[Top.slot].val = Top.res /\ ~Stale(attr', Top.slot)
<1>1. Evaluating /\ Top.kind = "is" /\ Top.at = "get" /\ AtEnd(Top)
  BY DEF FinishIs, Finished
<1>2. /\ stack # <<>> /\ Top \in Frame /\ IsEvaluation(Top) /\ Top.slot \in Slot /\ Top.res \in Value
      /\ EvaluationFits(attr, queue[2], Top) /\ Top.def = attr[Top.slot].def /\ rank \in [Slot -> Nat]
      /\ Steady(attr, queue[2], Top.slot, Top.def, Top.pos - 1, Top.res) /\ Top.pos - 1 = Len(Top.def.keys)
  BY <1>1, EvaluationIs
<1>3. /\ Data(rank, program, attr, Calls(Front(stack)) \cup {Top}, By(stack), curq, queue[0], queue[1], queue[2])
      /\ \A g \in Calls(Front(stack)) : Higher(rank, g, Top)
      /\ Calls(Front(stack)) \subseteq Frame
  BY <1>2, Innermost
<1>4. ~Own(Top) /\ Top.kind # "future" /\ Top.kind # "notify"
  BY <1>1 DEF Own
<1>5. Data(rank, program, attr, Calls(Front(stack)), By(stack), curq, queue[0], queue[1], queue[2])
  BY <1>3, <1>4, DataPopPlain
<1>6. PICK t \in Slot : t = Top.slot
  BY <1>2
<1>7. Stale(attr, t)
  BY <1>1, <1>2, <1>6 DEF EvaluationFits
<1>8. ASSUME NEW f \in Calls(Front(stack))
      PROVE  ~Own(f) /\ (IsEvaluation(f) => f.slot # t)
  <2>1. Higher(rank, f, Top) /\ f \in Frame
    BY <1>3
  <2>2. ~Own(f)
    BY <1>4, <2>1 DEF Higher, Own
  <2>3. IsEvaluation(f) => f.slot # Top.slot
    <3>1. IsEvaluation(f) => rank[Top.slot] < rank[f.slot]
      BY <1>2, <2>1 DEF Higher
    <3>2. rank[Top.slot] \in Nat
      BY <1>2
    <3> QED
      BY <3>1, <3>2
  <2> QED
    BY <1>6, <2>2, <2>3
<1>9. PICK b \in [Slot -> Attribute] : b = attr'
  BY AttributesNext
<1>10. /\ DefsInv(b) /\ \A s \in Slot : s # t => b[s] = attr[s]
       /\ b[t].exists = attr[t].exists /\ b[t].def = attr[t].def
       /\ b[t].isf = attr[t].isf /\ b[t].deps = attr[t].deps
       /\ b[t].val = Top.res /\ ~b[t].ood
  BY <1>2, <1>6, <1>9, Refreshes
<1>11. PICK n : n = Top.pos - 1
  OBVIOUS
<1>12. Steady(attr, queue[2], t, attr[t].def, n, Top.res) /\ n = Len(attr[t].def.keys)
  BY <1>2, <1>6, <1>11
<1>13. Data(rank, program, b, Calls(Front(stack)), By(stack), curq, queue[0], queue[1], queue[2])
  BY <1>2, <1>5, <1>7, <1>8, <1>10, <1>12, DataRefresh
<1>14. ~Stale(b, t)
  BY <1>10 DEF Stale
<1> QED
  BY <1>6, <1>9, <1>10, <1>13, <1>14

LEMMA FinishIsSettles ==
  ASSUME IInv, IInv', NEW rank, PlainHolds(rank), FinishIs
  PROVE  PlainHolds(rank)'
<1>1. /\ Evaluating /\ Top.kind = "is" /\ stack' = Answered(Front(stack), Top.res)
      /\ UNCHANGED <<queue, curq, program, ops>>
  BY DEF FinishIs, Finished
<1>2. stack # <<>> /\ Top \in Frame /\ IsEvaluation(Top) /\ Top.res \in Value
  BY <1>1, EvaluationIs
<1>3. PICK b : b = attr'
  OBVIOUS
<1>4. /\ Data(rank, program, b, Calls(Front(stack)), By(stack), curq, queue[0], queue[1], queue[2])
      /\ b[Top.slot].val = Top.res /\ ~Stale(b, Top.slot)
  BY <1>3, FinishIsData
<1>5. /\ Top = Last(stack) /\ stack \in Seq(Frame) /\ Front(stack) \in Seq(Frame) /\ Shape(rank, Front(stack), curq)
      /\ Calls(stack) = Calls(Front(stack)) \cup {Top}
      /\ Front(stack) # <<>> => By(Front(stack)) = By(stack) /\ Above(Last(Front(stack)), Top)
      /\ \A g \in Calls(Front(stack)) : CallFits(By(stack), curq, g)
  BY <1>2, Innermost
<1>6. CASE Front(stack) = <<>>
  <2>1. Calls(Front(stack)) = {}
    BY <1>6 DEF Calls
  <2>2. NoInstant(stack)
    <3>1. \A f \in Calls(stack) : f.kind # "instant"
      BY <1>1, <1>5, <2>1
    <3> QED
      BY <3>1 DEF Calls, NoInstant
  <2>3. curq = -1
    BY <2>2, Parts DEF CallsInv, Instants
  <2>4. PlainInv(rank, program, b, Front(stack), curq, queue[0], queue[1], queue[2])
    BY <1>2, <1>4, <2>3, EndHolds
  <2>5. stack' = Front(stack)
    BY <1>1, <1>6 DEF Answered
  <2> QED
    BY <1>1, <1>3, <2>4, <2>5, HoldsNext
<1>7. CASE Front(stack) # <<>>
  <2>1. PICK st \in Seq(Frame) : st = Front(stack)
    BY <1>5
  <2>2. PICK h \in Frame : h = Last(st)
    BY <1>7, <2>1, Popped
  <2>3. Calls(st) = Calls(Front(st)) \cup {h}
    BY <1>7, <2>1, <2>2, CallsPopped
  <2>4. CallFits(By(stack), curq, h) /\ Above(h, Top)
    BY <1>5, <1>7, <2>1, <2>2, <2>3
  <2>5. h.kind \in {"is", "future"}
    BY <1>1, <2>4 DEF CallFits, Above
  <2>6. IsEvaluation(h)
    BY <2>5 DEF IsEvaluation
  <2>7. h.at = "get" /\ Top.slot = Asked(h)
    BY <1>2, <2>4, <2>6 DEF Above
  <2>8. ~AtEnd(h)
    <3>1. Follows(Last(Front(stack)), Last(stack))
      <4>1. CallsInv(Locked(attr), WithDef(attr), stack, curq, queue[0])
        BY Parts
      <4>2. Last(stack).kind # "error"
        BY <1>1, <1>5
      <4> QED
        BY <1>2, <1>7, <4>1, <4>2, PopKeeps
    <3>2. Follows(h, Top)
      BY <1>5, <2>1, <2>2, <3>1
    <3> QED
      BY <1>1, <2>6, <3>2 DEF Follows
  <2>9. PICK v \in Value : v = Top.res
    BY <1>2
  <2>10. PICK g : Gets(h, g, v) /\ Answered(st, v) = Append(Front(st), g)
    BY <1>7, <2>1, <2>2, <2>6, AnsweredIs
  <2>11. PICK by : by = By(stack) /\ by = By(st)
    BY <1>5, <1>7, <2>1
  <2>12. Data(rank, program, b, Calls(Front(st)) \cup {h}, by, curq, queue[0], queue[1], queue[2])
    BY <1>4, <2>1, <2>3, <2>11
  <2>13. Data(rank, program, b, Calls(Front(st)) \cup {g}, by, curq, queue[0], queue[1], queue[2])
    <3>1. b[Asked(h)].val = v /\ ~Stale(b, Asked(h))
      BY <1>4, <2>7, <2>9
    <3> QED
      BY <2>5, <2>8, <2>10, <2>12, <3>1, DataAnswers
  <2>14. SameCall(Last(st), g) /\ g \in Frame
    BY <2>2, <2>5, <2>10 DEF Gets, SameCall
  <2>15. PlainInv(rank, program, b, Append(Front(st), g), curq, queue[0], queue[1], queue[2])
    BY <1>5, <1>7, <2>1, <2>11, <2>13, <2>14, CallGoesOn
  <2>16. stack' = Append(Front(st), g)
    BY <1>1, <2>1, <2>9, <2>10
  <2> QED
    BY <1>1, <1>3, <2>15, <2>16, HoldsNext
<1> QED
  BY <1>6, <1>7

LEMMA FinishFutureSettles ==
  ASSUME IInv, IInv', NEW rank, PlainHolds(rank), FinishFuture
  PROVE  PlainHolds(rank)'
<1>1. /\ Evaluating /\ Top.kind = "future" /\ AtEnd(Top)
      /\ queue' = [queue EXCEPT ![0] = Append(@, SetEvent("SET_BYDEF", Top.slot, Top.res))]
      /\ attr'  = [attr EXCEPT ![Top.slot].evaluating = FALSE]
      /\ stack' = Front(stack) \o WildCall(Top.slot)
      /\ UNCHANGED <<curq, program, ops>>
  BY DEF FinishFuture, Finished
<1>2. /\ stack # <<>> /\ Top \in Frame /\ IsEvaluation(Top) /\ Top.slot \in Slot /\ Top.res \in Value
      /\ EvaluationFits(attr, queue[2], Top) /\ Top.def = attr[Top.slot].def /\ rank \in [Slot -> Nat]
      /\ Steady(attr, queue[2], Top.slot, Top.def, Top.pos - 1, Top.res) /\ Top.pos - 1 = Len(Top.def.keys)
      /\ Top.def \in Paths
  BY <1>1, EvaluationIs
<1>3. /\ Data(rank, program, attr, Calls(Front(stack)) \cup {Top}, By(stack), curq, queue[0], queue[1], queue[2])
      /\ CallFits(By(stack), curq, Top) /\ Front(stack) \in Seq(Frame)
      /\ Front(stack) # <<>> => By(Front(stack)) = By(stack) /\ Above(Last(Front(stack)), Top)
      /\ Front(stack) = <<>> => Top.kind \in {"sync", "instant", "is"}
      /\ \A g \in Calls(Front(stack)) : CallFits(By(stack), curq, g)
  BY <1>2, Innermost
<1>4. By(stack) = "send" /\ curq = 1
  BY <1>1, <1>3 DEF CallFits
<1>5. PICK t \in Slot : t = Top.slot
  BY <1>2
<1>6. PICK e \in Event(0) : e = SetEvent("SET_BYDEF", Top.slot, Top.res)
  BY <1>2, Events
<1>7. e.type = "SET_BYDEF" /\ e.slot = t /\ e.v = Top.res /\ SetFor(e, t)
  BY <1>5, <1>6 DEF SetEvent, SetFor
<1>8. queue'[0] = Append(queue[0], e) /\ queue'[1] = queue[1] /\ queue'[2] = queue[2]
  <2>1. queue' = [queue EXCEPT ![0] = Append(@, e)] /\ 0 \in 0 .. 2
    BY <1>1, <1>6
  <2>2. /\ queue'[0] = Append(queue[0], e)
        /\ \A j \in 0 .. 2 : j # 0 => queue'[j] = queue[j]
    BY <2>1, QueueGrows
  <2> QED
    BY <2>2
<1>9. attr[t].def # Null /\ ~attr[t].isf
  <2>1. ~attr[t].isf
    BY <1>1, <1>2, <1>5 DEF EvaluationFits
  <2> QED
    BY <1>2, <1>5, <2>1, PathsAssumption
<1>10. PICK F : F = Calls(Front(stack))
  OBVIOUS
<1>11. Data(rank, program, attr, F \cup {Top}, "send", 1, Append(queue[0], e), queue[1], queue[2])
  <2>1. Data(rank, program, attr, F \cup {Top}, "send", 1, queue[0], queue[1], queue[2])
    BY <1>3, <1>4, <1>10
  <2>2. SetsPlain(program, attr, "send", 1, queue[0])
    BY <2>1 DEF Data, Queues
  <2>3. \A i \in 1 .. Len(queue[0]) : queue[0][i].type = "SET_BYDEF"
    BY <2>2 DEF SetsPlain, SetFits
  <2>4. Running(F \cup {Top}, t)
    BY <1>1, <1>5 DEF Running
  <2> QED
    BY <1>7, <1>9, <2>1, <2>3, <2>4, DataSet
<1>12. Current(attr, Append(queue[0], e), queue[2], t)
  <2>1. Outcome(attr, Append(queue[0], e), t, Top.res)
    <3>1. Outcome(attr, Append(queue[0], e), t, e.v)
      <4>1. queue[0] \in Seq(Event(0))
        BY Parts
      <4> QED
        BY <1>7, <4>1, OutcomeSet
    <3> QED
      BY <1>7, <3>1
  <2>2. PICK n : n = Top.pos - 1
    OBVIOUS
  <2>3. Steady(attr, queue[2], t, attr[t].def, n, Top.res) /\ n = Len(attr[t].def.keys)
    BY <1>2, <1>5, <2>2
  <2> QED
    BY <1>2, <2>1, <2>3 DEF Current
<1>13. Data(rank, program, attr, F, "send", 1, Append(queue[0], e), queue[1], queue[2])
  BY <1>1, <1>5, <1>11, <1>12, DataPopFuture
<1>14. Data(rank, program, attr', F, "send", 1, Append(queue[0], e), queue[1], queue[2])
  BY <1>1, <1>2, <1>13, LockSettles
<1>15. PICK b, p0 : b = attr' /\ p0 = queue'[0]
  OBVIOUS
<1>17. Data(rank, program, b, Calls(Front(stack)), By(stack), curq, p0, queue[1], queue[2])
  BY <1>4, <1>8, <1>10, <1>14, <1>15
<1>18. PICK st \in Seq(Frame) : st = Front(stack)
  BY <1>3
<1>19. PlainInv(rank, program, b, st, 1, p0, queue[1], queue[2])
  BY <1>2, <1>4, <1>17, <1>18, EndHolds
<1>20. st # <<>> /\ By(st) = "send"
  BY <1>1, <1>3, <1>4, <1>18
<1>21. Last(st).kind = "instant"
  <2>1. PICK h \in Frame : h = Last(st) /\ Calls(st) = Calls(Front(st)) \cup {h}
    BY <1>20, CallsPopped
  <2>2. CallFits("send", 1, h) /\ Above(h, Top)
    BY <1>3, <1>4, <1>18, <1>20, <2>1
  <2>3. h.kind = "instant"
    BY <1>1, <2>2 DEF CallFits, Above
  <2> QED
    BY <2>1, <2>3
<1>22. PlainInv(rank, program, b, st \o WildCall(t), 1, p0, queue[1], queue[2])
  <2>1. PICK cq : cq = 1
    OBVIOUS
  <2>2. PlainInv(rank, program, b, st \o WildCall(t), cq, p0, queue[1], queue[2])
    BY <1>19, <1>20, <1>21, <2>1, WildCalls
  <2> QED
    BY <2>1, <2>2
<1>23. stack' = st \o WildCall(t)
  BY <1>1, <1>5, <1>18
<1> QED
  BY <1>1, <1>4, <1>8, <1>15, <1>22, <1>23, HoldsNext

\* An instant starts above a synchronous operation, the evaluations of a read, or nothing.
LEMMA InstantBegins ==
  ASSUME NEW rank, NEW m, NEW a, NEW st, NEW q0, NEW q1, NEW q2, NEW q \in 0 .. 2,
         PlainInv(rank, m, a, st, q, q0, q1, q2),
         \A f \in Calls(st) : f.kind \in {"sync", "is"}
  PROVE  PlainInv(rank, m, a, Append(st, Instant(q)), q, q0, q1, q2)
<1>1. CASE st # <<>>
  BY <1>1, InstantAbove
<1>2. CASE st = <<>>
  <2>1. PICK f \in Frame : f = Instant(q) /\ f.kind = "instant" /\ f.q = q
    <3>1. Instant(q) \in Frame
      BY DEF Instant, Frame
    <3>2. Instant(q).kind = "instant" /\ Instant(q).q = q
      BY DEF Instant
    <3> QED
      BY <3>1, <3>2
  <2>2. ~IsEvaluation(f) /\ ~Own(f)
    BY <2>1 DEF IsEvaluation, Own
  <2>3. /\ st \in Seq(Frame) /\ Shape(rank, st, q) /\ By(st) = "send" /\ Calls(st) = {}
        /\ Data(rank, m, a, Calls(st), By(st), q, q0, q1, q2)
    BY <1>2 DEF PlainInv, By, Calls
  <2>4. By(<<f>>) = "send" /\ CallFits("send", q, f)
    BY <2>1 DEF By, CallFits
  <2>5. Shape(rank, Append(st, f), q) /\ By(Append(st, f)) = "send"
    <3>1. Shape(rank, Append(st, f), q) /\ By(Append(st, f)) = IF st = <<>> THEN By(<<f>>) ELSE By(st)
      BY <1>2, <2>1, <2>3, <2>4, ShapePushed, ZenonT(40)
    <3> QED
      BY <1>2, <2>4, <3>1
  <2>6. Append(st, f) \in Seq(Frame) /\ Calls(Append(st, f)) = Calls(st) \cup {f}
    BY <2>3, Pushed, CallsPushed
  <2>7. Data(rank, m, a, Calls(st) \cup {f}, By(st), q, q0, q1, q2)
    BY <2>2, <2>3, DataPush
  <2> QED
    BY <2>1, <2>3, <2>5, <2>6, <2>7 DEF PlainInv
<1> QED
  BY <1>1, <1>2

\* The next queue is drained when one is empty.
LEMMA QueuesTurn ==
  ASSUME NEW rank, NEW m, NEW a, NEW by, NEW cq \in 0 .. 2, NEW q0 \in Seq(Event(0)), NEW q1, NEW q2, NEW cp,
         Queues(rank, m, a, by, cq, q0, q1, q2),
         cq = 0 => q0 = <<>>, cq = 1 => q1 = <<>>, cq = 2 => q2 = <<>>,
         cq < 2 => cp = cq + 1, cq = 2 => cp = -1
  PROVE  Queues(rank, m, a, by, cp, q0, q1, q2)
<1>1. SetsPlain(m, a, by, cq, q0) /\ NotifiesPlain(by, cq, q1) /\ DepsPlain(rank, a, by, cq, q2)
  BY DEF Queues
<1>2. SetsPlain(m, a, by, cp, q0)
  <2>1. ASSUME NEW i \in 1 .. Len(q0) PROVE SetFits(m, a, cp, q0, i)
    <3>1. cq # 0
      <4>1. q0 # <<>>
        BY Len(<<>>) = 0
      <4> QED
        BY <4>1
    <3>2. SetFits(m, a, cq, q0, i)
      BY <1>1 DEF SetsPlain
    <3> QED
      BY <3>1, <3>2 DEF SetFits
  <2> QED
    BY <1>1, <2>1 DEF SetsPlain
<1>3. NotifiesPlain(by, cp, q1)
  BY <1>1 DEF NotifiesPlain
<1>4. DepsPlain(rank, a, by, cp, q2)
  <2>1. q2 # <<>> => cp # -1 /\ cp # 0
    <3>1. CASE cq = 2
      BY <3>1
    <3>2. CASE cq \in 0 .. 1
      BY <3>2
    <3> QED
      BY <3>1, <3>2
  <2> QED
    BY <1>1, <2>1 DEF DepsPlain
<1> QED
  BY <1>2, <1>3, <1>4 DEF Queues

LEMMA NextPhaseSettles ==
  ASSUME IInv, NEW rank, PlainHolds(rank), NextPhase
  PROVE  PlainHolds(rank)'
<1>1. /\ stack # <<>> /\ Top.kind = "instant" /\ queue[Top.q] = <<>>
      /\ \/ Top.q < 2 /\ curq' = Top.q + 1 /\ stack' = Append(Front(stack), Instant(Top.q + 1))
         \/ Top.q = 2 /\ curq' = -1 /\ stack' = Front(stack)
      /\ UNCHANGED <<attr, queue, program, ops>>
  BY DEF NextPhase
<1>2. /\ Top = Last(stack) /\ stack \in Seq(Frame) /\ Shape(rank, stack, curq) /\ Top \in Frame
      /\ Front(stack) \in Seq(Frame) /\ Shape(rank, Front(stack), curq)
      /\ Data(rank, program, attr, Calls(Front(stack)) \cup {Top}, By(stack), curq, queue[0], queue[1], queue[2])
      /\ CallFits(By(stack), curq, Top)
      /\ Front(stack) # <<>> => By(Front(stack)) = By(stack)
      /\ Front(stack) = <<>> => /\ By(stack) = IF Top.kind = "is" THEN "read" ELSE "send"
                                /\ By(Front(stack)) = "send"
  BY <1>1, Innermost
<1>3. curq = Top.q /\ curq \in 0 .. 2 /\ By(Front(stack)) = By(stack)
  <2>1. curq = Top.q
    BY <1>1, <1>2 DEF CallFits
  <2>2. Top.q \in 0 .. 2
    BY <1>1, <1>2, Frames
  <2> QED
    BY <1>1, <1>2, <2>1, <2>2
<1>4. \A f \in Calls(Front(stack)) : f.kind = "sync" \/ (f.kind = "is" /\ By(Front(stack)) = "read")
  <2>1. \A f \in Calls(Front(stack)) : f.kind = "sync" \/ (f.kind = "is" /\ By(stack) = "read")
    BY <1>1, <1>2, BelowInstant
  <2> QED
    BY <1>3, <2>1
<1>5. ~Own(Top) /\ Top.kind # "future"
  BY <1>1 DEF Own
<1>6. PICK cp \in -1 .. 2 : cp = IF curq = 2 THEN -1 ELSE curq + 1
  BY <1>3
<1>7. Shape(rank, Front(stack), cp)
  BY <1>2, <1>4, ShapeTurns
<1>8. Data(rank, program, attr, Calls(Front(stack)), By(stack), curq, queue[0], queue[1], queue[2])
  BY <1>2, <1>5, DataPopPlain
<1>9. Queues(rank, program, attr, By(stack), cp, queue[0], queue[1], queue[2])
  <2>1. Queues(rank, program, attr, By(stack), curq, queue[0], queue[1], queue[2]) /\ queue[0] \in Seq(Event(0))
    BY <1>8 DEF Data, Typed
  <2>2. /\ curq = 0 => queue[0] = <<>>
        /\ curq = 1 => queue[1] = <<>>
        /\ curq = 2 => queue[2] = <<>>
    BY <1>1, <1>3
  <2>3. (curq < 2 => cp = curq + 1) /\ (curq = 2 => cp = -1)
    BY <1>6
  <2> QED
    BY <1>3, <2>1, <2>2, <2>3, QueuesTurn
<1>10. Data(rank, program, attr, Calls(Front(stack)), By(Front(stack)), cp, queue[0], queue[1], queue[2])
  <2>1. Data(rank, program, attr, Calls(Front(stack)), By(stack), cp, queue[0], queue[1], queue[2])
    BY <1>8, <1>9, DataTurns
  <2> QED
    BY <1>3, <2>1
<1>11. PlainInv(rank, program, attr, Front(stack), cp, queue[0], queue[1], queue[2])
  BY <1>2, <1>7, <1>10 DEF PlainInv
<1>12. CASE curq = 2
  <2>1. curq' = cp /\ stack' = Front(stack)
    BY <1>1, <1>3, <1>6, <1>12
  <2> QED
    BY <1>1, <1>11, <2>1, HoldsNext
<1>13. CASE curq # 2
  <2>1. cp \in 0 .. 2 /\ curq' = cp /\ stack' = Append(Front(stack), Instant(cp))
    BY <1>1, <1>3, <1>6, <1>13
  <2>2. \A f \in Calls(Front(stack)) : f.kind \in {"sync", "is"}
    BY <1>4
  <2>3. PlainInv(rank, program, attr, Append(Front(stack), Instant(cp)), cp, queue[0], queue[1], queue[2])
    BY <1>11, <2>1, <2>2, InstantBegins
  <2> QED
    BY <1>1, <2>1, <2>3, HoldsNext
<1> QED
  BY <1>12, <1>13

\* Without any call no queue is drained.
LEMMA AtRest ==
  ASSUME IInv, NoInstant(stack)
  PROVE  Idle /\ curq = -1
<1>1. Instants(stack, curq) /\ (Idle <=> NoInstant(stack))
  BY Parts DEF CallsInv
<1> QED
  BY <1>1 DEF Instants

\* The main program sends an event: an instant starts that drains it.
LEMMA SendSettles ==
  ASSUME IInv, NEW rank, PlainHolds(rank), stack = <<>>, NEW e \in Event(0),
         e \in program.ops \cup {OtherSet}, e.type # "SET_BYDEF",
         Sent(<<Sync>>, 0, e), UNCHANGED <<attr, program>>
  PROVE  PlainHolds(rank)'
<1>1. NoInstant(stack) /\ stack \in Seq(Frame)
  BY EmptySeq DEF NoInstant
<1>2. Idle /\ curq = -1
  BY <1>1, AtRest
<1>3. /\ queue' = [queue EXCEPT ![0] = Append(@, e)]
      /\ stack' = Append(<<Sync>>, Instant(0)) /\ curq' = 0
  BY <1>2 DEF Sent, ProcessInstant
<1>4. queue'[0] = Append(queue[0], e) /\ queue'[1] = queue[1] /\ queue'[2] = queue[2]
  <2>1. 0 \in 0 .. 2
    OBVIOUS
  <2>2. /\ queue'[0] = Append(queue[0], e)
        /\ \A j \in 0 .. 2 : j # 0 => queue'[j] = queue[j]
    BY <1>3, <2>1, QueueGrows
  <2> QED
    BY <2>2
<1>5. /\ By(stack) = "send" /\ Calls(stack) = {} /\ Shape(rank, stack, curq)
      /\ Data(rank, program, attr, Calls(stack), By(stack), curq, queue[0], queue[1], queue[2])
  <2>1. By(stack) = "send" /\ Calls(stack) = {}
    BY DEF By, Calls
  <2> QED
    BY <2>1 DEF PlainHolds, PlainInv
<1>6. Data(rank, program, attr, {}, "send", -1, queue[0], queue[1], queue[2])
  BY <1>2, <1>5
<1>7. /\ Queues(rank, program, attr, "send", 0, queue[0], queue[1], queue[2])
      /\ \A i \in 1 .. Len(queue[0]) : queue[0][i].type = "SET_BYDEF"
  <2>1. Queues(rank, program, attr, "send", -1, queue[0], queue[1], queue[2])
    BY <1>6 DEF Data
  <2>2. 0 \in {-1, 0}
    OBVIOUS
  <2> QED
    BY <2>1, <2>2, QueuesRest
<1>8. PICK cq \in -1 .. 2 : cq = 0
  OBVIOUS
<1>9. Data(rank, program, attr, {}, "send", cq, queue[0], queue[1], queue[2])
  BY <1>6, <1>7, <1>8, DataTurns
<1>10. Data(rank, program, attr, {}, "send", cq, Append(queue[0], e), queue[1], queue[2])
  BY <1>7, <1>8, <1>9, DataSet
<1>11. PICK f \in Frame : f = Sync /\ f.kind = "sync"
  <2>1. Sync \in Frame /\ Sync.kind = "sync"
    BY DEF Sync, Frame
  <2> QED
    BY <2>1
<1>12. ~IsEvaluation(f) /\ ~Own(f)
  BY <1>11 DEF IsEvaluation, Own
<1>13. Data(rank, program, attr, {} \cup {f}, "send", cq, Append(queue[0], e), queue[1], queue[2])
  BY <1>10, <1>12, DataPush
<1>14. Shape(rank, Append(stack, f), cq) /\ By(Append(stack, f)) = "send"
  <2>1. By(<<f>>) = "send" /\ CallFits("send", cq, f)
    BY <1>11, <1>12 DEF By, CallFits
  <2>2. Shape(rank, stack, cq)
    BY <1>1, <1>5, ShapeTurns
  <2>3. Shape(rank, Append(stack, f), cq) /\ By(Append(stack, f)) = IF stack = <<>> THEN By(<<f>>) ELSE By(stack)
    <3>1. \A g \in Calls(stack) : Higher(rank, g, f)
      BY <1>5
    <3> QED
      BY <1>1, <1>11, <2>1, <2>2, <3>1, ShapePushed
  <2> QED
    BY <2>1, <2>3
<1>15. Append(stack, f) \in Seq(Frame) /\ Calls(Append(stack, f)) = {} \cup {f}
  BY <1>1, <1>5, CallsPushed, Pushed
<1>16. PlainInv(rank, program, attr, Append(stack, f), cq, Append(queue[0], e), queue[1], queue[2])
  BY <1>13, <1>14, <1>15 DEF PlainInv
<1>17. \A g \in Calls(Append(stack, f)) : g.kind \in {"sync", "is"}
  BY <1>11, <1>15
<1>18. PlainInv(rank, program, attr, Append(Append(stack, f), Instant(cq)), cq, Append(queue[0], e), queue[1], queue[2])
  <2>1. cq \in 0 .. 2
    BY <1>8
  <2> QED
    BY <1>16, <1>17, <2>1, InstantBegins
<1>19. Append(stack, f) = <<Sync>>
  BY <1>11
<1> QED
  BY <1>3, <1>4, <1>8, <1>18, <1>19, HoldsNext

\* An operation of a plain program is no result of a definition.
LEMMA PlainOps ==
  ASSUME NEW rank, IInv, Plain(program, rank), NEW e \in program.ops \cup {OtherSet}
  PROVE  e \in Event(0) /\ PlainOp(program, rank, e) /\ e.type # "SET_BYDEF"
<1>1. e \in Event(0)
  BY Parts, ProgramsAssumption DEF Event
<1>2. PlainOp(program, rank, e)
  BY DEF Plain, PlainOp
<1> QED
  BY <1>1, <1>2 DEF PlainOp, OtherSet

LEMMA MainSendSettles ==
  ASSUME IInv, NEW rank, Plain(program, rank), PlainHolds(rank), NEW e \in program.ops, MainSend(e)
  PROVE  PlainHolds(rank)'
<1>1. e \in Event(0) /\ e.type # "SET_BYDEF"
  BY PlainOps
<1> QED
  BY <1>1, SendSettles DEF MainSend

LEMMA TickSettles ==
  ASSUME IInv, NEW rank, Plain(program, rank), PlainHolds(rank), Tick
  PROVE  PlainHolds(rank)'
<1>1. PICK e : e = OtherSet
  OBVIOUS
<1>2. e \in Event(0) /\ e.type # "SET_BYDEF"
  BY <1>1, PlainOps
<1> QED
  BY <1>1, <1>2, SendSettles DEF Tick

\* A synchronous operation drains what it has sent.
LEMMA SyncRemainingSettles ==
  ASSUME IInv, NEW rank, PlainHolds(rank), SyncRemaining
  PROVE  PlainHolds(rank)'
<1>1. /\ stack # <<>> /\ Top = Sync /\ UNCHANGED <<attr, queue, program, ops>>
      /\ IF curq = 1 THEN stack' = Append(Front(stack), Remaining(1)) /\ UNCHANGED curq
                     ELSE ProcessInstant(Front(stack))
  BY DEF SyncRemaining
<1>2. /\ Top = Last(stack) /\ stack \in Seq(Frame) /\ Shape(rank, stack, curq) /\ Top \in Frame
      /\ Front(stack) \in Seq(Frame) /\ Shape(rank, Front(stack), curq)
      /\ Data(rank, program, attr, Calls(Front(stack)) \cup {Top}, By(stack), curq, queue[0], queue[1], queue[2])
      /\ Front(stack) = <<>> => By(stack) = IF Top.kind = "is" THEN "read" ELSE "send"
  BY <1>1, Innermost
<1>3. Top.kind = "sync" /\ ~Own(Top)
  BY <1>1 DEF Sync, Own
<1>4. Front(stack) = <<>>
  BY <1>1, <1>2, <1>3, SyncFirst
<1>5. By(stack) = "send" /\ By(Front(stack)) = "send" /\ Calls(Front(stack)) = {}
  BY <1>2, <1>3, <1>4 DEF By, Calls
<1>6. NoInstant(stack)
  <2>1. Len(Front(stack)) = 0
    BY <1>4
  <2>2. Len(stack) = 1 /\ stack[1] = Top
    <3>1. Len(stack) \in Nat \ {0} /\ Len(Front(stack)) = Len(stack) - 1 /\ Last(stack) = stack[Len(stack)]
      BY <1>1, <1>2, Popped
    <3>2. PICK n \in Nat \ {0} : n = Len(stack)
      BY <3>1
    <3>3. PICK l : l = Len(Front(stack))
      OBVIOUS
    <3>4. l = n - 1 /\ l = 0
      BY <2>1, <3>1, <3>2, <3>3
    <3>5. n = 1
      BY <3>4
    <3> QED
      BY <1>2, <3>1, <3>2, <3>5
  <2> QED
    BY <1>3, <2>2 DEF NoInstant
<1>7. Idle /\ curq = -1
  BY <1>6, AtRest
<1>8. stack' = Append(Front(stack), Instant(0)) /\ curq' = 0
  BY <1>1, <1>7 DEF ProcessInstant
<1>9. Data(rank, program, attr, Calls(Front(stack)), "send", -1, queue[0], queue[1], queue[2])
  <2>1. Data(rank, program, attr, Calls(Front(stack)), By(stack), curq, queue[0], queue[1], queue[2])
    BY <1>2, <1>3, DataPopPlain
  <2> QED
    BY <1>5, <1>7, <2>1
<1>10. Queues(rank, program, attr, "send", 0, queue[0], queue[1], queue[2])
  <2>1. Queues(rank, program, attr, "send", -1, queue[0], queue[1], queue[2])
    BY <1>9 DEF Data
  <2>2. 0 \in {-1, 0}
    OBVIOUS
  <2> QED
    BY <2>1, <2>2, QueuesRest
<1>11. PICK cq \in -1 .. 2 : cq = 0
  OBVIOUS
<1>12. Data(rank, program, attr, Calls(Front(stack)), By(Front(stack)), cq, queue[0], queue[1], queue[2])
  BY <1>5, <1>9, <1>10, <1>11, DataTurns
<1>13. Shape(rank, Front(stack), cq)
  BY <1>2, <1>5, ShapeTurns
<1>14. PlainInv(rank, program, attr, Front(stack), cq, queue[0], queue[1], queue[2])
  BY <1>2, <1>12, <1>13 DEF PlainInv
<1>15. PlainInv(rank, program, attr, Append(Front(stack), Instant(cq)), cq, queue[0], queue[1], queue[2])
  <2>1. cq \in 0 .. 2 /\ \A g \in Calls(Front(stack)) : g.kind \in {"sync", "is"}
    BY <1>5, <1>11
  <2> QED
    BY <1>14, <2>1, InstantBegins
<1> QED
  BY <1>1, <1>8, <1>11, <1>15, HoldsNext

\* The instant that drains queue k, and what is below it.
LEMMA Drains ==
  ASSUME IInv, NEW rank, PlainHolds(rank), NEW k \in 0 .. 2, NEW types, Takes(k, types)
  PROVE  /\ stack # <<>> /\ Top = Last(stack) /\ stack \in Seq(Frame) /\ Top.kind = "instant" /\ curq = k
         /\ Shape(rank, stack, k) /\ Calls(stack) \subseteq Frame
         /\ queue[k] # <<>> /\ NextEvent(k) = Head(queue[k]) /\ NextEvent(k) \in Event(k)
         /\ NextEvent(k).type \in types
         /\ Data(rank, program, attr, Calls(stack), By(stack), k, queue[0], queue[1], queue[2])
         /\ \A f \in Calls(stack) : f.kind \in {"sync", "instant"} \/ (f.kind = "is" /\ By(stack) = "read")
         /\ k < 2 => By(stack) = "send"
<1>1. /\ stack # <<>> /\ IsLoop(Top) /\ Top.q = k /\ queue[k] # <<>> /\ NextEvent(k).type \in types
  BY DEF Takes, Draining
<1>2. NextEvent(k) \in Event(k) /\ NextEvent(k) = Head(queue[k])
  BY InDrain DEF NextEvent
<1>3. /\ Top = Last(stack) /\ stack \in Seq(Frame) /\ Shape(rank, stack, curq) /\ Top \in Frame
      /\ Calls(stack) = Calls(Front(stack)) \cup {Top} /\ Calls(Front(stack)) \subseteq Frame
      /\ Data(rank, program, attr, Calls(Front(stack)) \cup {Top}, By(stack), curq, queue[0], queue[1], queue[2])
      /\ CallFits(By(stack), curq, Top) /\ By(stack) \in {"read", "send"}
  BY <1>1, Innermost
<1>4. Top.kind = "instant" /\ curq = k
  BY <1>1, <1>3 DEF CallFits, IsLoop
<1>5. \A f \in Calls(Front(stack)) : f.kind = "sync" \/ (f.kind = "is" /\ By(stack) = "read")
  BY <1>1, <1>3, <1>4, BelowInstant
<1>6. Data(rank, program, attr, Calls(stack), By(stack), k, queue[0], queue[1], queue[2])
  BY <1>3, <1>4
<1>7. k < 2 => By(stack) = "send"
  <2>1. Queues(rank, program, attr, By(stack), k, queue[0], queue[1], queue[2])
    BY <1>6 DEF Data
  <2>2. (queue[0] # <<>> \/ queue[1] # <<>>) => By(stack) # "read"
    BY <2>1 DEF Queues, SetsPlain, NotifiesPlain
  <2>3. k < 2 => k = 0 \/ k = 1
    OBVIOUS
  <2> QED
    BY <1>1, <1>3, <2>2, <2>3
<1>8. Shape(rank, stack, k) /\ Calls(stack) \subseteq Frame
  BY <1>3, <1>4
<1>9. \A f \in Calls(stack) : f.kind \in {"sync", "instant"} \/ (f.kind = "is" /\ By(stack) = "read")
  BY <1>3, <1>4, <1>5
<1> QED
  BY <1>1, <1>2, <1>3, <1>4, <1>6, <1>7, <1>8, <1>9

\* While sets or NOTIFYs are taken nothing is notified, evaluated or locked.
LEMMA DrainsFree ==
  ASSUME IInv, NEW rank, PlainHolds(rank), NEW k \in 0 .. 1, NEW types, Takes(k, types)
  PROVE  /\ By(stack) = "send"
         /\ Data(rank, program, attr, Calls(stack), "send", k, queue[0], queue[1], queue[2])
         /\ PlainInv(rank, program, attr, stack, k, queue[0], queue[1], queue[2])
         /\ NoEvaluation(Calls(stack)) /\ \A f \in Calls(stack) : ~Own(f)
         /\ \A s \in Slot : attr[s].evaluating = FALSE
         /\ k = 0 => queue[2] = <<>>
<1>1. k \in 0 .. 2 /\ k < 2
  OBVIOUS
<1>2. /\ Data(rank, program, attr, Calls(stack), By(stack), k, queue[0], queue[1], queue[2])
      /\ \A f \in Calls(stack) : f.kind \in {"sync", "instant"} \/ (f.kind = "is" /\ By(stack) = "read")
      /\ By(stack) = "send" /\ stack \in Seq(Frame) /\ Shape(rank, stack, k)
  BY <1>1, Drains
<1>3. \A f \in Calls(stack) : ~IsEvaluation(f) /\ ~Own(f) /\ ~IsLock(f)
  BY <1>2 DEF IsEvaluation, Own, IsLock
<1>4. \A s \in Slot : attr[s].evaluating = FALSE
  BY <1>3, NotRunning
<1>5. k = 0 => queue[2] = <<>>
  BY <1>2 DEF Data, Queues, DepsPlain
<1>6. PlainInv(rank, program, attr, stack, k, queue[0], queue[1], queue[2])
  BY <1>2 DEF PlainInv
<1> QED
  BY <1>2, <1>3, <1>4, <1>5, <1>6 DEF NoEvaluation

\* The calls stay when an event has been taken.
LEMMA TakeHolds ==
  ASSUME IInv, NEW rank, PlainHolds(rank), NEW k \in 0 .. 2, NEW types, Takes(k, types), NEW b, NEW p0, NEW p1, NEW p2,
         Data(rank, program, b, Calls(stack), By(stack), k, p0, p1, p2)
  PROVE  PlainInv(rank, program, b, stack, k, p0, p1, p2)
<1>1. stack \in Seq(Frame) /\ Shape(rank, stack, k)
  BY Drains
<1> QED
  BY <1>1 DEF PlainInv

\* An operation of the main program is taken.
LEMMA TakesOp ==
  ASSUME IInv, NEW rank, PlainHolds(rank), NEW types, Takes(0, types), "SET_BYDEF" \notin types
  PROVE  /\ NextEvent(0) \in program.ops \cup {OtherSet} /\ Taken(0)[0] = <<>>
         /\ Taken(0)[1] = queue[1] /\ Taken(0)[2] = queue[2] /\ queue[2] = <<>>
         /\ Data(rank, program, attr, Calls(stack), "send", 0, <<>>, queue[1], queue[2])
         /\ PlainInv(rank, program, attr, stack, 0, <<>>, queue[1], queue[2])
<1>1. PICK k \in 0 .. 1 : k = 0 /\ k \in 0 .. 2
  OBVIOUS
<1>2. Takes(k, types)
  BY <1>1
<1>3. /\ NextEvent(k) = Head(queue[k]) /\ NextEvent(k).type \in types /\ queue[k] # <<>>
  BY <1>1, <1>2, Drains
<1>4. /\ Data(rank, program, attr, Calls(stack), "send", k, queue[0], queue[1], queue[2])
      /\ By(stack) = "send" /\ (k = 0 => queue[2] = <<>>)
  BY <1>1, <1>2, DrainsFree
<1>5. Head(queue[0]).type # "SET_BYDEF" /\ queue[0] # <<>> /\ NextEvent(0) = Head(queue[0])
  BY <1>1, <1>3
<1>6. /\ Tail(queue[0]) = <<>> /\ Head(queue[0]) \in program.ops \cup {OtherSet}
      /\ Data(rank, program, attr, Calls(stack), "send", k, <<>>, queue[1], queue[2])
  BY <1>4, <1>5, DataTakeOp
<1>7. Taken(k)[k] = Tail(queue[k]) /\ \A j \in 0 .. 2 : j # k => Taken(k)[j] = queue[j]
  BY <1>1, QueueShrinks
<1>8. Taken(0)[0] = <<>> /\ Taken(0)[1] = queue[1] /\ Taken(0)[2] = queue[2]
  <2>1. PICK T : T = Taken(k)
    OBVIOUS
  <2>2. T = Taken(0)
    BY <1>1, <2>1
  <2>3. 1 \in 0 .. 2 /\ 2 \in 0 .. 2 /\ 1 # k /\ 2 # k
    BY <1>1
  <2>4. T[k] = <<>> /\ T[1] = queue[1] /\ T[2] = queue[2]
    BY <1>1, <1>6, <1>7, <2>1, <2>3
  <2> QED
    BY <1>1, <2>2, <2>4
<1>9. PlainInv(rank, program, attr, stack, k, <<>>, queue[1], queue[2])
  BY <1>1, <1>2, <1>4, <1>6, TakeHolds
<1> QED
  BY <1>1, <1>4, <1>5, <1>6, <1>8, <1>9

LEMMA HandleOtherSetSettles ==
  ASSUME IInv, NEW rank, PlainHolds(rank), HandleOtherSet
  PROVE  PlainHolds(rank)'
<1>1. Takes(0, {"SET_OTHER"}) /\ queue' = Taken(0) /\ UNCHANGED <<attr, curq, stack, program, ops>>
  BY DEF HandleOtherSet
<1>2. /\ Taken(0)[0] = <<>> /\ Taken(0)[1] = queue[1] /\ Taken(0)[2] = queue[2]
      /\ PlainInv(rank, program, attr, stack, 0, <<>>, queue[1], queue[2])
  <2>1. "SET_BYDEF" \notin {"SET_OTHER"}
    OBVIOUS
  <2> QED
    BY <1>1, <2>1, TakesOp
<1>3. curq = 0
  <2>1. 0 \in 0 .. 2
    OBVIOUS
  <2> QED
    BY <1>1, <2>1, Drains
<1> QED
  BY <1>1, <1>2, <1>3, HoldsNext

LEMMA HandleDefineSettles ==
  ASSUME IInv, IInv', NEW rank, Plain(program, rank), PlainHolds(rank), HandleDefine
  PROVE  PlainHolds(rank)'
<1> DEFINE e == NextEvent(0)
           t == e.slot
<1>1. /\ Takes(0, {"DEFINE"}) /\ UNCHANGED <<curq, program, ops>>
      /\ \/ /\ e.init = Null
            /\ queue' = IF t[2] = Key THEN Taken(0)
                        ELSE [Taken(0) EXCEPT ![1] = Append(@, NotifyEvent(t))]
            /\ attr' = [attr EXCEPT ![t].exists = TRUE, ![t].def = e.def, ![t].isf = FALSE, ![t].ood = FALSE]
            /\ UNCHANGED stack
         \/ e.init # Null
  BY DEF HandleDefine
<1> HIDE DEF e, t
<1>2. /\ e \in program.ops \cup {OtherSet} /\ Taken(0)[0] = <<>>
      /\ Taken(0)[1] = queue[1] /\ Taken(0)[2] = queue[2] /\ queue[2] = <<>>
      /\ Data(rank, program, attr, Calls(stack), "send", 0, <<>>, queue[1], queue[2])
  <2>1. "SET_BYDEF" \notin {"DEFINE"}
    OBVIOUS
  <2> QED
    BY <1>1, <2>1, TakesOp DEF e
<1>3. e.type = "DEFINE" /\ curq = 0 /\ stack \in Seq(Frame) /\ Shape(rank, stack, 0) /\ By(stack) = "send"
  <2>1. 0 \in 0 .. 2 /\ 0 < 2
    OBVIOUS
  <2>2. NextEvent(0).type \in {"DEFINE"} /\ curq = 0 /\ stack \in Seq(Frame) /\ Shape(rank, stack, 0) /\ By(stack) = "send"
    BY <1>1, <2>1, Drains
  <2> QED
    BY <2>2 DEF e
<1>4. e \in program.ops /\ e.init = Null /\ Ranked(rank, t, e.def) /\ t \in DefinedBy(program)
      /\ t \in Slot /\ e.def \in Paths /\ t[2] # Key
  <2>1. e \in Event(0) /\ PlainOp(program, rank, e)
    BY <1>2, PlainOps
  <2>2. e \in program.ops
    BY <1>2, <1>3 DEF OtherSet
  <2>3. e.init = Null /\ Ranked(rank, t, e.def)
    BY <1>3, <2>1 DEF PlainOp, OtherSet, t
  <2>4. t \in Slot /\ e.def \in Paths
    BY <1>3, <2>1, EventsAre DEF t
  <2>5. t \in DefinedBy(program)
    BY <1>3, <2>2 DEF DefinedBy, t
  <2> QED
    BY <2>2, <2>3, <2>4, <2>5 DEF Ranked
<1>5. /\ queue' = [Taken(0) EXCEPT ![1] = Append(@, NotifyEvent(t))]
      /\ attr' = [attr EXCEPT ![t].exists = TRUE, ![t].def = e.def, ![t].isf = FALSE, ![t].ood = FALSE]
      /\ UNCHANGED stack
  BY <1>1, <1>4
<1>6. queue'[1] = Append(queue[1], NotifyEvent(t)) /\ queue'[0] = <<>> /\ queue'[2] = queue[2]
  <2>1. 0 \in 0 .. 2 /\ 1 \in 0 .. 2
    OBVIOUS
  <2>2. \A i \in 0 .. 2 : \A x : /\ [Taken(0) EXCEPT ![i] = Append(@, x)][i] = Append(Taken(0)[i], x)
                             /\ \A j \in 0 .. 2 : j # i => [Taken(0) EXCEPT ![i] = Append(@, x)][j] = Taken(0)[j]
    BY <2>1, QueueShrinks
  <2>3. queue'[1] = Append(Taken(0)[1], NotifyEvent(t)) /\ \A j \in 0 .. 2 : j # 1 => queue'[j] = Taken(0)[j]
    BY <1>5, <2>1, <2>2
  <2> QED
    BY <1>2, <2>3
<1>7. PICK cq : cq = 0
  OBVIOUS
<1>8. /\ Data(rank, program, attr, Calls(stack), "send", cq, <<>>, queue'[1], queue[2])
      /\ Notified(queue'[1], t)
  BY <1>2, <1>4, <1>6, <1>7, DataNotify
<1>9. PICK b \in [Slot -> Attribute] : b = attr' /\ DefsInv(b)
  BY AttributesNext
<1>10. /\ \A s \in Slot : s # t => b[s] = attr[s]
       /\ b[t].deps = attr[t].deps /\ b[t].exists /\ b[t].val = attr[t].val
       /\ b[t].def = e.def /\ ~b[t].isf
  <2>1. attr \in [Slot -> Attribute]
    BY Parts
  <2>2. attr[t] \in Attribute
    BY <1>4, <2>1
  <2>3. /\ \A s \in Slot : s # t => b[s] = attr[s]
        /\ b[t] = [attr[t] EXCEPT !.exists = TRUE, !.def = e.def, !.isf = FALSE, !.ood = FALSE]
    BY <1>4, <1>5, <1>9, <2>1
  <2> QED
    BY <2>2, <2>3 DEF Attribute
<1>11. NoEvaluation(Calls(stack)) /\ \A f \in Calls(stack) : ~Own(f)
  <2>1. 0 \in 0 .. 1
    OBVIOUS
  <2> QED
    BY <1>1, <2>1, DrainsFree
<1>12. Data(rank, program, b, Calls(stack), "send", cq, <<>>, queue'[1], queue[2])
  <2>1. <<>> \in Seq(Event(0)) /\ Len(<<>>) = 0
    BY EmptySeq
  <2>2. PICK p0 \in Seq(Event(0)) : p0 = <<>> /\ Len(p0) = 0
    BY <2>1
  <2>3. SetsPlain(program, b, "send", cq, p0)
    BY <2>2 DEF SetsPlain
  <2>4. \A s \in Slot, v \in Value : s # t /\ Outcome(attr, p0, s, v) => Outcome(b, p0, s, v)
    BY <1>10 DEF Outcome
  <2>5. Settled(b, p0, queue'[1], queue[2], Calls(stack), t)
    BY <1>8, <1>10 DEF Settled, Waiting
  <2>6. ~Stale(b, t)
    BY <1>10 DEF Stale
  <2>7. e.def # Null
    BY <1>4, PathsAssumption
  <2>8. \A f \in Calls(stack) : ~IsEvaluation(f)
    BY <1>11 DEF NoEvaluation
  <2>9. Data(rank, program, attr, Calls(stack), "send", cq, p0, queue'[1], queue[2])
    BY <1>8, <2>2
  <2>10. /\ queue[2] = <<>> /\ DefsInv(b) /\ t \in Slot /\ t[2] # Key
         /\ t \in DefinedBy(program) /\ Ranked(rank, t, b[t].def) /\ b[t].def # Null
         /\ \A f \in Calls(stack) : Own(f) => f.i = 1
    BY <1>2, <1>4, <1>9, <1>10, <1>11, <2>7
  <2>11. Data(rank, program, b, Calls(stack), "send", cq, p0, queue'[1], queue[2])
    <3>1. PICK F, q1, q2, a : F = Calls(stack) /\ q1 = queue'[1] /\ q2 = queue[2] /\ a = attr
      OBVIOUS
    <3>5. /\ Data(rank, program, a, F, "send", cq, p0, q1, q2) /\ q2 = <<>> /\ \A f \in F : ~IsEvaluation(f)
      BY <2>8, <2>9, <2>10, <3>1
    <3>6. /\ \A s \in Slot : s # t => b[s] = a[s]
          /\ b[t].deps = a[t].deps /\ b[t].exists
          /\ \/ \E f \in F : Own(f) /\ f.slot = t /\ f.i = 1
             \/ b[t].val = a[t].val /\ ~Stale(b, t)
          /\ \/ b[t].isf = a[t].isf /\ (a[t].ood => b[t].ood)
             \/ \A f \in F : Own(f) => f.i = 1
      BY <1>10, <2>6, <2>10, <3>1
    <3>7. /\ \A s \in Slot, v \in Value : s # t /\ Outcome(a, p0, s, v) => Outcome(b, p0, s, v)
          /\ Settled(b, p0, q1, q2, F, t)
      BY <2>4, <2>5, <3>1
    <3>8. Data(rank, program, b, F, "send", cq, p0, q1, q2)
      BY <2>3, <2>10, <3>5, <3>6, <3>7, DataTouch, ZenonT(40)
    <3> QED
      BY <3>1, <3>8
  <2> QED
    BY <2>2, <2>11
<1>13. PlainInv(rank, program, b, stack, 0, <<>>, queue'[1], queue[2])
  BY <1>3, <1>7, <1>12 DEF PlainInv
<1> QED
  BY <1>1, <1>3, <1>5, <1>6, <1>9, <1>13, HoldsNext

\* Calls st, which notify the dependents of s and no others of an attribute, fit the
\* attributes and the queues.
Announces(rank, st, s, r0) ==
  /\ PlainInv(rank, program, attr, st, 0, r0, queue[1], queue[2]) /\ st \in Seq(Frame)
  /\ By(st) = "send" /\ NoEvaluation(Calls(st))
  /\ \A f \in Calls(st) : Own(f) => f.i = 1
  /\ \E f \in Calls(st) : Own(f) /\ f.slot = s /\ f.i = 1

\* While sets are taken an attribute that changes tells its dependents and those of $.
LEMMA Announced ==
  ASSUME IInv, NEW rank, PlainHolds(rank), NEW types, Takes(0, types), NEW s \in Slot, NEW r0,
         PlainInv(rank, program, attr, stack, 0, r0, queue[1], queue[2])
  PROVE  /\ Announces(rank, (stack \o WildCall(s)) \o OwnCall(s), s, r0)
         /\ (stack \o WildCall(s)) \o OwnCall(s) = stack \o (WildCall(s) \o OwnCall(s))
<1>1. PICK k \in 0 .. 1 : k = 0 /\ k \in 0 .. 2
  OBVIOUS
<1>2. Takes(k, types)
  BY <1>1
<1>3. stack # <<>> /\ Top = Last(stack) /\ stack \in Seq(Frame) /\ Top.kind = "instant"
  BY <1>1, <1>2, Drains
<1>4. /\ By(stack) = "send" /\ NoEvaluation(Calls(stack)) /\ \A f \in Calls(stack) : ~Own(f)
      /\ attr[s].evaluating = FALSE
  BY <1>1, <1>2, DrainsFree
<1>5. PICK cq \in {0, 1} : cq = 0
  OBVIOUS
<1>6. PlainInv(rank, program, attr, stack, cq, r0, queue[1], queue[2])
  BY <1>5
<1>7. Last(stack).kind \in {"instant", "notify"}
  BY <1>3
<1>8. /\ PlainInv(rank, program, attr, stack \o WildCall(s), cq, r0, queue[1], queue[2]) /\ WildCall(s) \in Seq(Frame)
      /\ By(stack \o WildCall(s)) = "send" /\ stack \o WildCall(s) # <<>>
      /\ Last(stack \o WildCall(s)).kind \in {"instant", "notify"}
      /\ \A f \in Calls(stack \o WildCall(s)) :
           f \in Calls(stack) \/ (~IsLock(f) /\ ~Own(f) /\ ~IsEvaluation(f) /\ f.kind # "future")
  BY <1>3, <1>4, <1>6, <1>7, WildCalls
<1>9. PICK st : st = stack \o WildCall(s)
  OBVIOUS
<1>10. \A f \in Calls(st) : ~Own(f) /\ ~IsEvaluation(f)
  BY <1>4, <1>8, <1>9 DEF NoEvaluation
<1>11. OwnCall(s) = <<Notifying(s, TRUE)>>
  BY <1>4 DEF OwnCall
<1>12. PICK o \in Frame : o = Notifying(s, TRUE)
  BY Notifyings
<1>13. o.kind = "notify" /\ o.own = TRUE /\ o.slot = s /\ o.i = 1
  BY <1>12, Notifyings
<1>14. Own(o) /\ ~IsEvaluation(o)
  BY <1>13 DEF Own, IsEvaluation
<1>15. /\ PlainInv(rank, program, attr, st \o <<o>>, cq, r0, queue[1], queue[2])
       /\ By(st \o <<o>>) = "send" /\ st \o <<o>> # <<>>
       /\ Calls(st \o <<o>>) = Calls(st) \cup {o}
  <2>1. PlainInv(rank, program, attr, st, cq, r0, queue[1], queue[2]) /\ st # <<>> /\ By(st) = "send"
    BY <1>8, <1>9
  <2>2. CallFits(By(st), cq, o) /\ Above(Last(st), o)
    BY <1>5, <1>8, <1>9, <1>13, <1>14, <2>1 DEF CallFits, Above, IsEvaluation
  <2>3. \A g \in Calls(st) : Higher(rank, g, o)
    BY <1>10, <1>13, <1>14 DEF Higher
  <2>4. PICK q1, q2 : q1 = queue[1] /\ q2 = queue[2]
    OBVIOUS
  <2>6. PlainInv(rank, program, attr, st, cq, r0, q1, q2)
    BY <2>1, <2>4
  <2>7. /\ PlainInv(rank, program, attr, Append(st, o), cq, r0, q1, q2)
        /\ By(Append(st, o)) = By(st) /\ Append(st, o) # <<>>
        /\ Calls(Append(st, o)) = Calls(st) \cup {o} /\ st \o <<o>> = Append(st, o)
    BY <1>13, <1>14, <2>1, <2>2, <2>3, <2>6, CallStarts
  <2> QED
    BY <2>1, <2>4, <2>7
<1>16. Announces(rank, st \o <<o>>, s, r0)
  <2>1. /\ PlainInv(rank, program, attr, st \o <<o>>, 0, r0, queue[1], queue[2])
        /\ By(st \o <<o>>) = "send"
    BY <1>5, <1>15
  <2>2. NoEvaluation(Calls(st \o <<o>>))
    BY <1>10, <1>14, <1>15 DEF NoEvaluation
  <2>3. \A f \in Calls(st \o <<o>>) : Own(f) => f.i = 1
    BY <1>10, <1>13, <1>15
  <2>4. \E f \in Calls(st \o <<o>>) : Own(f) /\ f.slot = s /\ f.i = 1
    BY <1>13, <1>14, <1>15
  <2>5. st \o <<o>> \in Seq(Frame)
    BY <2>1 DEF PlainInv
  <2> QED
    BY <2>1, <2>2, <2>3, <2>4, <2>5 DEF Announces
<1>17. (stack \o WildCall(s)) \o OwnCall(s) = stack \o (WildCall(s) \o OwnCall(s))
  <2>1. OwnCall(s) \in Seq(Frame)
    <3>1. <<o>> \in Seq(Frame)
      OBVIOUS
    <3> QED
      BY <1>11, <1>12, <3>1
  <2>2. stack \in Seq(Frame) /\ WildCall(s) \in Seq(Frame)
    BY <1>3, <1>8
  <2>3. PICK w \in Seq(Frame) : w = WildCall(s)
    BY <2>2
  <2>4. PICK o1 \in Seq(Frame) : o1 = OwnCall(s)
    BY <2>1
  <2>5. (stack \o w) \o o1 = stack \o (w \o o1)
    BY <2>2, ConcatAssociative
  <2> QED
    BY <2>3, <2>4, <2>5
<1> QED
  BY <1>9, <1>11, <1>12, <1>16, <1>17

\* What remains of the queued sets when attribute t has been set from the first one: of
\* the main program, or the result of its definition.
SetTaken(a, r0, p0, t, v) ==
  \/ r0 = <<>> /\ p0 = <<>> /\ a[t].def = Null
  \/ r0 # <<>> /\ p0 = Tail(r0) /\ SetFor(Head(r0), t) /\ Head(r0).v = v /\ a[t].def # Null /\ ~a[t].isf

\* Attributes b have the value v for t, and t may have been missing in a.
Sets(a, b, t, v) ==
  /\ Others(a, b, t)
  /\ b[t].exists /\ b[t].val = v
  /\ b[t].deps = a[t].deps /\ b[t].def = a[t].def /\ b[t].isf = a[t].isf /\ b[t].ood = a[t].ood

\* What is read of other attributes is the same.
LEMMA SetsSteady ==
  ASSUME NEW rank \in [Slot -> Nat], NEW a, NEW b, NEW q2, NEW t \in Slot, NEW v, NEW d \in Paths,
         Ranked(rank, t, d), Sets(a, b, t, v), NEW n \in 0 .. Len(d.keys), NEW w, Steady(a, q2, t, d, n, w)
  PROVE  Steady(b, q2, t, d, n, w)
<1>1. ASSUME NEW r \in Slot, rank[r] < rank[t], Fresh(a, q2, r, t)
      PROVE  b[r].val = a[r].val /\ Fresh(b, q2, r, t)
  <2>1. r # t
    BY <1>1
  <2>2. b[r] = a[r] /\ b[t].isf = a[t].isf
    BY <2>1 DEF Sets, Others
  <2> QED
    BY <1>1, <2>2 DEF Fresh, Registered, Entry, Stale
<1> QED
  BY <1>1, SteadyKept

LEMMA SetsSettled ==
  ASSUME NEW rank, NEW m, NEW a, NEW F, NEW cq, NEW r0, NEW q1, NEW q2, NEW t \in Slot, NEW v,
         NEW b, NEW p0, Data(rank, m, a, F, "send", cq, r0, q1, q2), Sets(a, b, t, v), SetTaken(a, r0, p0, t, v)
  PROVE  Settled(b, p0, q1, q2, F, t)
<1>1. /\ Others(a, b, t) /\ b[t].val = v /\ b[t].isf = a[t].isf
      /\ b[t].deps = a[t].deps /\ b[t].def = a[t].def
  BY DEF Sets
<1>2. CASE a[t].def = Null
  BY <1>1, <1>2 DEF Settled
<1>3. CASE a[t].def # Null
  <2>1. /\ r0 # <<>> /\ p0 = Tail(r0) /\ SetFor(Head(r0), t) /\ Head(r0).v = v /\ ~a[t].isf
    BY <1>3 DEF SetTaken
  <2>2. /\ rank \in [Slot -> Nat] /\ r0 \in Seq(Event(0)) /\ Settled(a, r0, q1, q2, F, t) /\ F \subseteq Frame
        /\ a[t].def \in Paths /\ Ranked(rank, t, a[t].def) /\ Len(a[t].def.keys) \in Nat
    BY <1>3, Defining
  <2>3. CASE Due(a, F, t)
    <3>1. PICK f \in F : DueBy(a, f, t)
      BY <2>3 DEF Due
    <3>2. f.slot \in Slot
      BY <2>2, <3>1, Frames DEF DueBy, Own
    <3>3. b[f.slot].deps = a[f.slot].deps
      BY <1>1, <3>2 DEF Others
    <3>4. DueBy(b, f, t)
      BY <1>1, <3>1, <3>3 DEF DueBy, Entry
    <3> QED
      BY <3>4 DEF Due, Settled
  <2>4. CASE Waiting(a, q1, F, t)
    BY <1>1, <2>1, <2>4 DEF Waiting, Settled
  <2>5. CASE Current(a, r0, q2, t)
    <3>1. PICK w \in Value : Outcome(a, r0, t, w) /\ Steady(a, q2, t, a[t].def, Len(a[t].def.keys), w)
      BY <2>5 DEF Current
    <3>2. Outcome(b, p0, t, w)
      BY <1>1, <2>1, <2>2, <3>1, OutcomeTaken
    <3>3. PICK n \in Nat : n = Len(a[t].def.keys)
      BY <2>2
    <3>4. Steady(b, q2, t, a[t].def, n, w)
      <4>1. n \in 0 .. Len(a[t].def.keys)
        BY <3>3
      <4> QED
        BY <2>2, <3>1, <3>3, <4>1, SetsSteady
    <3> QED
      BY <1>1, <3>1, <3>2, <3>3, <3>4 DEF Current, Settled
  <2> QED
    BY <1>3, <2>2, <2>3, <2>4, <2>5 DEF Settled
<1> QED
  BY <1>2, <1>3

\* The sets that remain fit.
LEMMA SetsRemain ==
  ASSUME NEW rank, NEW m, NEW a, NEW F, NEW cq, NEW r0, NEW q1, NEW q2, NEW t \in Slot, NEW v,
         NEW b, NEW p0, Data(rank, m, a, F, "send", cq, r0, q1, q2), Sets(a, b, t, v), SetTaken(a, r0, p0, t, v)
  PROVE  p0 \in Seq(Event(0)) /\ SetsPlain(m, b, "send", cq, p0)
<1>1. CASE r0 = <<>>
  <2>1. p0 = <<>> /\ Len(p0) = 0
    BY <1>1 DEF SetTaken
  <2> QED
    BY <2>1, EmptySeq DEF SetsPlain
<1>2. CASE r0 # <<>>
  <2>1. p0 = Tail(r0)
    BY <1>2 DEF SetTaken
  <2>2. r0 \in Seq(Event(0)) /\ SetsPlain(m, a, "send", cq, r0)
    <3>1. r0 \in Seq(Event(0))
      BY Defining
    <3> QED
      BY <3>1 DEF Data, Queues
  <2>3. /\ p0 \in Seq(Event(0)) /\ Len(r0) \in Nat \ {0} /\ Len(p0) = Len(r0) - 1
        /\ \A i \in 1 .. Len(r0) - 1 : p0[i] = r0[i + 1]
    BY <1>2, <2>1, <2>2, Behead
  <2>4. ASSUME NEW i \in 1 .. Len(p0) PROVE SetFits(m, b, cq, p0, i)
    <3>1. i + 1 \in 1 .. Len(r0) /\ i \in 1 .. Len(r0) - 1 /\ (i + 1 = Len(r0) => i = Len(p0))
      BY <2>3
    <3>2. SetFits(m, a, cq, r0, i + 1) /\ p0[i] = r0[i + 1] /\ p0[i] \in Event(0)
      BY <2>2, <2>3, <3>1 DEF SetsPlain
    <3>3. p0[i].type = "SET_BYDEF" => p0[i].slot \in Slot
      BY <3>2, EventsAre
    <3>4. \A s \in Slot : b[s].def = a[s].def /\ b[s].isf = a[s].isf
      BY DEF Sets, Others
    <3> QED
      BY <3>1, <3>2, <3>3, <3>4 DEF SetFits
  <2> QED
    BY <2>3, <2>4 DEF SetsPlain
<1> QED
  BY <1>1, <1>2

\* Attribute t is set.
LEMMA DataSets ==
  ASSUME NEW rank, NEW m, NEW a, NEW F, NEW cq, NEW r0, NEW q1, NEW q2, NEW t \in Slot, NEW v,
         NEW b \in [Slot -> Attribute], NEW p0, Data(rank, m, a, F, "send", cq, r0, q1, q2), q2 = <<>>,
         NoEvaluation(F), \A f \in F : Own(f) => f.i = 1, t[2] # Key, DefsInv(b),
         Sets(a, b, t, v), SetTaken(a, r0, p0, t, v),
         (\E f \in F : Own(f) /\ f.slot = t /\ f.i = 1) \/ a[t].val = v
  PROVE  Data(rank, m, b, F, "send", cq, p0, q1, q2)
<1>1. p0 \in Seq(Event(0)) /\ SetsPlain(m, b, "send", cq, p0) /\ Settled(b, p0, q1, q2, F, t)
  BY SetsRemain, SetsSettled
<1>2. /\ \A s \in Slot : s # t => b[s] = a[s]
      /\ b[t].deps = a[t].deps /\ b[t].exists /\ b[t].val = v
      /\ b[t].def = a[t].def /\ b[t].isf = a[t].isf /\ b[t].ood = a[t].ood
  BY DEF Sets, Others
<1>3. /\ a[t].def # Null => t \in DefinedBy(m) /\ Ranked(rank, t, a[t].def)
      /\ r0 \in Seq(Event(0)) /\ DefsInv(a)
  BY Defining
<1>4. ~a[t].isf
  BY <1>3 DEF SetTaken, DefsInv
<1>5. ASSUME NEW s \in Slot, NEW w \in Value, s # t, Outcome(a, r0, s, w) PROVE Outcome(b, p0, s, w)
  <2>1. b[s].val = a[s].val
    BY <1>2, <1>5
  <2>2. CASE r0 = <<>>
    <3>1. p0 = r0
      BY <2>2 DEF SetTaken
    <3> QED
      BY <1>5, <2>1, <3>1 DEF Outcome
  <2>3. CASE r0 # <<>>
    <3>1. p0 = Tail(r0) /\ ~SetFor(Head(r0), s)
      BY <1>5, <2>3 DEF SetTaken, SetFor
    <3>2. Outcome(b, Tail(r0), s, w)
      BY <1>3, <1>5, <2>1, <2>3, <3>1, OutcomeTaken
    <3> QED
      BY <3>1, <3>2
  <2> QED
    BY <2>2, <2>3
<1>6. /\ \/ \E f \in F : Own(f) /\ f.slot = t /\ f.i = 1
         \/ b[t].val = a[t].val /\ ~Stale(b, t)
      /\ \/ b[t].isf = a[t].isf /\ (a[t].ood => b[t].ood)
         \/ \A f \in F : Own(f) => f.i = 1
  BY <1>2, <1>4 DEF Stale
<1>7. \A f \in F : ~IsEvaluation(f)
  BY DEF NoEvaluation
<1>8. \A s \in Slot, w \in Value : s # t /\ Outcome(a, r0, s, w) => Outcome(b, p0, s, w)
  BY <1>5
<1>9. PICK p \in Seq(Event(0)) : p = p0
  BY <1>1
<1>10. /\ SetsPlain(m, b, "send", cq, p) /\ Settled(b, p, q1, q2, F, t)
       /\ \A s \in Slot, w \in Value : s # t /\ Outcome(a, r0, s, w) => Outcome(b, p, s, w)
  BY <1>1, <1>8, <1>9
<1>11. /\ b[t].def # Null => t \in DefinedBy(m) /\ Ranked(rank, t, b[t].def)
       /\ a[t].def # Null => b[t].def # Null
  BY <1>2, <1>3
<1>12. PICK by : by = "send"
  OBVIOUS
<1>13. Data(rank, m, a, F, by, cq, r0, q1, q2) /\ SetsPlain(m, b, by, cq, p)
  BY <1>10, <1>12
<1>14. Data(rank, m, b, F, by, cq, p, q1, q2)
  BY <1>2, <1>6, <1>7, <1>10, <1>11, <1>13, DataTouch
<1> QED
  BY <1>9, <1>12, <1>14

\* The set that is taken, and what remains of the queue.
LEMMA SetIs ==
  ASSUME IInv, NEW rank, Plain(program, rank), PlainHolds(rank), Takes(0, {"SET", "SET_BYDEF"}),
         NEW s \in Slot, NEW v, s = NextEvent(0).slot, v = NextEvent(0).v
  PROVE  /\ s[2] # Key
         /\ \E r0 : /\ PlainInv(rank, program, attr, stack, 0, r0, queue[1], queue[2])
                    /\ SetTaken(attr, r0, Taken(0)[0], s, v)
<1>1. PICK k \in 0 .. 1 : k = 0 /\ k \in 0 .. 2
  OBVIOUS
<1>2. Takes(k, {"SET", "SET_BYDEF"})
  BY <1>1
<1>3. /\ NextEvent(k) = Head(queue[k]) /\ NextEvent(k) \in Event(k) /\ queue[k] # <<>>
      /\ NextEvent(k).type \in {"SET", "SET_BYDEF"}
  BY <1>1, <1>2, Drains
<1>4. /\ Data(rank, program, attr, Calls(stack), "send", k, queue[0], queue[1], queue[2])
      /\ PlainInv(rank, program, attr, stack, k, queue[0], queue[1], queue[2])
  BY <1>1, <1>2, DrainsFree
<1>5. Taken(0)[0] = Tail(queue[0])
  <2>1. Taken(k)[k] = Tail(queue[k])
    BY <1>1, QueueShrinks
  <2> QED
    BY <1>1, <2>1
<1>6. PICK e : e = NextEvent(0) /\ e = Head(queue[0]) /\ e \in Event(0) /\ e.type \in {"SET", "SET_BYDEF"}
  BY <1>1, <1>3
<1>7. attr[s].def # Null => s \in DefinedBy(program) /\ s[2] # Key
  BY <1>4, Defining
<1>8. CASE e.type = "SET"
  <2>1. Takes(0, {"SET"}) /\ "SET_BYDEF" \notin {"SET"}
    BY <1>6, <1>8 DEF Takes
  <2>2. /\ NextEvent(0) \in program.ops \cup {OtherSet} /\ Taken(0)[0] = <<>>
        /\ PlainInv(rank, program, attr, stack, 0, <<>>, queue[1], queue[2])
    BY <2>1, TakesOp
  <2>3. PlainOp(program, rank, e)
    BY <1>6, <2>2, PlainOps
  <2>4. s[2] # Key /\ s \notin DefinedBy(program)
    BY <1>6, <1>8, <2>3 DEF PlainOp, OtherSet
  <2>5. SetTaken(attr, <<>>, Taken(0)[0], s, v)
    BY <1>7, <2>2, <2>4 DEF SetTaken
  <2> QED
    BY <2>2, <2>4, <2>5
<1>9. CASE e.type = "SET_BYDEF"
  <2>1. SetsPlain(program, attr, "send", k, queue[0]) /\ queue[0] \in Seq(Event(0))
    BY <1>4, Defining DEF Data, Queues
  <2>2. Len(queue[0]) \in Nat \ {0} /\ Head(queue[0]) = queue[0][1]
    <3>1. queue[0] # <<>>
      BY <1>1, <1>3
    <3>2. PICK q0 \in Seq(Event(0)) : q0 = queue[0]
      BY <2>1
    <3>3. Len(q0) \in Nat \ {0} /\ Head(q0) = q0[1]
      BY <3>1, <3>2, Behead
    <3> QED
      BY <3>2, <3>3
  <2>3. SetFits(program, attr, k, queue[0], 1)
    <3>1. 1 \in 1 .. Len(queue[0])
      BY <2>2
    <3> QED
      BY <2>1, <3>1 DEF SetsPlain
  <2>4. attr[s].def # Null /\ ~attr[s].isf
    BY <1>6, <1>9, <2>2, <2>3 DEF SetFits
  <2>5. SetTaken(attr, queue[0], Taken(0)[0], s, v)
    <3>1. SetFor(Head(queue[0]), s) /\ Head(queue[0]).v = v
      BY <1>6, <1>9 DEF SetFor
    <3> QED
      BY <1>1, <1>3, <1>5, <2>4, <3>1 DEF SetTaken
  <2>6. PlainInv(rank, program, attr, stack, 0, queue[0], queue[1], queue[2])
    BY <1>1, <1>4
  <2> QED
    BY <1>7, <2>4, <2>5, <2>6
<1> QED
  BY <1>6, <1>8, <1>9

\* The attributes when a set has been handled.
LEMMA SetChanges ==
  ASSUME IInv, IInv', NEW s \in Slot, NEW v,
         attr' = SetValue([attr EXCEPT ![s].exists = TRUE], s, v)
  PROVE  Sets(attr, attr', s, v) /\ attr' \in [Slot -> Attribute] /\ DefsInv(attr')
<1>1. attr \in [Slot -> Attribute] /\ attr' \in [Slot -> Attribute] /\ DefsInv(attr')
  BY Parts, AttributesNext
<1>2. PICK r \in Attribute : r = attr[s]
  BY <1>1
<1>3. PICK b \in [Slot -> Attribute] : b = attr'
  BY <1>1
<1>4. CASE Changes(s, v)
  <2>1. b = [[attr EXCEPT ![s].exists = TRUE] EXCEPT ![s].val = v, ![s].evaluating = TRUE]
    BY <1>3, <1>4 DEF SetValue
  <2>2. /\ b[s] = [[r EXCEPT !.exists = TRUE] EXCEPT !.val = v, !.evaluating = TRUE]
        /\ \A t \in Slot : t # s => b[t] = attr[t]
    BY <1>1, <1>2, <2>1
  <2>3. /\ b[s].exists /\ b[s].val = v /\ b[s].deps = r.deps /\ b[s].def = r.def
        /\ b[s].isf = r.isf /\ b[s].ood = r.ood
    BY <2>2 DEF Attribute
  <2> QED
    BY <1>1, <1>2, <1>3, <2>2, <2>3 DEF Sets, Others
<1>5. CASE ~Changes(s, v)
  <2>1. b = [attr EXCEPT ![s].exists = TRUE]
    BY <1>3, <1>5 DEF SetValue
  <2>2. /\ b[s] = [r EXCEPT !.exists = TRUE]
        /\ \A t \in Slot : t # s => b[t] = attr[t]
    BY <1>1, <1>2, <2>1
  <2>3. /\ b[s].exists /\ b[s].val = r.val /\ b[s].deps = r.deps /\ b[s].def = r.def
        /\ b[s].isf = r.isf /\ b[s].ood = r.ood
    BY <2>2 DEF Attribute
  <2>4. r.val = v
    BY <1>2, <1>5 DEF Changes
  <2> QED
    BY <1>1, <1>2, <1>3, <2>2, <2>3, <2>4 DEF Sets, Others
<1> QED
  BY <1>4, <1>5

\* The calls when it has been handled.
LEMMA SetHolds ==
  ASSUME IInv, NEW rank, NEW st, NEW s \in Slot, NEW v, NEW b \in [Slot -> Attribute], NEW r0, NEW p0,
         DefsInv(b), s[2] # Key, queue[2] = <<>>, Sets(attr, b, s, v), SetTaken(attr, r0, p0, s, v),
         PlainInv(rank, program, attr, st, 0, r0, queue[1], queue[2]), By(st) = "send",
         NoEvaluation(Calls(st)), \A f \in Calls(st) : Own(f) => f.i = 1,
         (\E f \in Calls(st) : Own(f) /\ f.slot = s /\ f.i = 1) \/ attr[s].val = v
  PROVE  PlainInv(rank, program, b, st, 0, p0, queue[1], queue[2])
<1>1. /\ Data(rank, program, attr, Calls(st), "send", 0, r0, queue[1], queue[2])
      /\ st \in Seq(Frame) /\ Shape(rank, st, 0)
  BY DEF PlainInv
<1>2. PICK cq, q1, q2, F : cq = 0 /\ q1 = queue[1] /\ q2 = queue[2] /\ F = Calls(st)
  OBVIOUS
<1>6. Data(rank, program, attr, F, "send", cq, r0, q1, q2) /\ q2 = <<>> /\ NoEvaluation(F)
  BY <1>1, <1>2
<1>7. /\ \A f \in F : Own(f) => f.i = 1
      /\ (\E f \in F : Own(f) /\ f.slot = s /\ f.i = 1) \/ attr[s].val = v
  BY <1>2
<1>8. Data(rank, program, b, F, "send", cq, p0, q1, q2)
  BY <1>6, <1>7, DataSets
<1> QED
  BY <1>1, <1>2, <1>8 DEF PlainInv

LEMMA HandleSetSettles ==
  ASSUME IInv, IInv', NEW rank, Plain(program, rank), PlainHolds(rank), HandleSet
  PROVE  PlainHolds(rank)'
<1> DEFINE e == NextEvent(0)
<1>1. /\ Takes(0, {"SET", "SET_BYDEF"}) /\ queue' = Taken(0)
      /\ attr' = SetValue([attr EXCEPT ![e.slot].exists = TRUE], e.slot, e.v)
      /\ stack' = IF Changes(e.slot, e.v) THEN (stack \o WildCall(e.slot)) \o OwnCall(e.slot) ELSE stack
      /\ UNCHANGED <<curq, program, ops>>
  BY DEF HandleSet
<1>2. curq = 0 /\ e \in Event(0) /\ e.type \in {"SET", "SET_BYDEF"} /\ stack \in Seq(Frame)
  <2>1. 0 \in 0 .. 2
    OBVIOUS
  <2> QED
    BY <1>1, <2>1, Drains
<1>3. PICK s \in Slot : s = e.slot
  BY <1>2, EventsAre
<1>4. PICK v : v = e.v
  OBVIOUS
<1> HIDE DEF e
<1>5. s[2] # Key /\ \E r0 : /\ PlainInv(rank, program, attr, stack, 0, r0, queue[1], queue[2])
                            /\ SetTaken(attr, r0, Taken(0)[0], s, v)
  BY <1>1, <1>3, <1>4, SetIs DEF e
<1>6. PICK r0 : /\ PlainInv(rank, program, attr, stack, 0, r0, queue[1], queue[2])
                /\ SetTaken(attr, r0, Taken(0)[0], s, v)
  BY <1>5
<1>7. Sets(attr, attr', s, v) /\ attr' \in [Slot -> Attribute] /\ DefsInv(attr')
  BY <1>1, <1>3, <1>4, SetChanges
<1>8. PICK b \in [Slot -> Attribute] : b = attr'
  BY <1>7
<1>9. PICK p0 : p0 = Taken(0)[0]
  OBVIOUS
<1>10. /\ queue[2] = <<>> /\ NoEvaluation(Calls(stack)) /\ \A f \in Calls(stack) : ~Own(f)
       /\ By(stack) = "send"
  <2>1. PICK k \in 0 .. 1 : k = 0
    OBVIOUS
  <2> QED
    BY <1>1, <2>1, DrainsFree
<1>11. queue'[0] = p0 /\ queue'[1] = queue[1] /\ queue'[2] = queue[2]
  <2>1. 0 \in 0 .. 2 /\ 1 \in 0 .. 2 /\ 2 \in 0 .. 2
    OBVIOUS
  <2>2. \A j \in 0 .. 2 : j # 0 => Taken(0)[j] = queue[j]
    BY <2>1, QueueShrinks
  <2> QED
    BY <1>1, <1>9, <2>1, <2>2
<1>12. \E st : /\ stack' = st /\ PlainInv(rank, program, b, st, 0, p0, queue[1], queue[2])
  <2>1. CASE Changes(s, v)
    <3>1. PICK st : st = (stack \o WildCall(s)) \o OwnCall(s)
      OBVIOUS
    <3>2. Announces(rank, st, s, r0)
      BY <1>1, <1>6, <3>1, Announced
    <3>3. /\ PlainInv(rank, program, attr, st, 0, r0, queue[1], queue[2])
          /\ By(st) = "send" /\ NoEvaluation(Calls(st))
          /\ \A f \in Calls(st) : Own(f) => f.i = 1
          /\ \E f \in Calls(st) : Own(f) /\ f.slot = s /\ f.i = 1
      BY <3>2 DEF Announces
    <3>4. PlainInv(rank, program, b, st, 0, p0, queue[1], queue[2])
      BY <1>5, <1>6, <1>7, <1>8, <1>9, <1>10, <3>3, SetHolds
    <3> QED
      BY <1>1, <1>3, <1>4, <2>1, <3>1, <3>4
  <2>2. CASE ~Changes(s, v)
    <3>1. attr[s].val = v
      BY <2>2 DEF Changes
    <3>2. PlainInv(rank, program, b, stack, 0, p0, queue[1], queue[2])
      BY <1>5, <1>6, <1>7, <1>8, <1>9, <1>10, <3>1, SetHolds
    <3> QED
      BY <1>1, <1>3, <1>4, <2>2, <3>2
  <2> QED
    BY <2>1, <2>2
<1> QED
  BY <1>1, <1>2, <1>8, <1>11, <1>12, HoldsNext

\* The definition that is taken.
LEMMA FuncIs ==
  ASSUME IInv, NEW rank, Plain(program, rank), PlainHolds(rank), Takes(0, {"DEFINE_FUNC"}),
         NEW e, e = NextEvent(0)
  PROVE  /\ e.slot \in Slot /\ e.def \in Paths /\ e.def # Null /\ Ranked(rank, e.slot, e.def)
         /\ e.slot \in DefinedBy(program) /\ e.slot[2] # Key
<1>1. NextEvent(0).type \in {"DEFINE_FUNC"}
  <2>1. 0 \in 0 .. 2
    OBVIOUS
  <2> QED
    BY <2>1, Drains
<1>2. "SET_BYDEF" \notin {"DEFINE_FUNC"}
  OBVIOUS
<1>3. NextEvent(0) \in program.ops \cup {OtherSet}
  BY <1>2, TakesOp
<1>4. e \in Event(0) /\ PlainOp(program, rank, e) /\ e.type = "DEFINE_FUNC"
  BY <1>1, <1>3, PlainOps
<1>5. e.slot \in Slot /\ e.def \in Paths /\ Ranked(rank, e.slot, e.def)
  BY <1>4, EventsAre DEF PlainOp, OtherSet
<1>6. e \in program.ops
  BY <1>3, <1>4 DEF OtherSet
<1>7. e.slot \in DefinedBy(program)
  BY <1>4, <1>6 DEF DefinedBy
<1> QED
  BY <1>5, <1>7, PathsAssumption DEF Ranked

\* Attribute t is given the 'is' definition d.
Defines(a, b, t, d) ==
  /\ Others(a, b, t)
  /\ b[t].exists /\ b[t].deps = a[t].deps /\ b[t].def = d /\ b[t].isf /\ b[t].ood

LEMMA FuncChanges ==
  ASSUME IInv, IInv', NEW t \in Slot, NEW d,
         attr' = Marked([attr EXCEPT ![t].exists = TRUE, ![t].def = d, ![t].isf = TRUE, ![t].ood = TRUE], t)
  PROVE  Defines(attr, attr', t, d) /\ attr' \in [Slot -> Attribute] /\ DefsInv(attr')
<1>1. attr \in [Slot -> Attribute] /\ attr' \in [Slot -> Attribute] /\ DefsInv(attr')
  BY Parts, AttributesNext
<1>2. PICK r \in Attribute : r = attr[t]
  BY <1>1
<1>3. PICK a : a = [attr EXCEPT ![t].exists = TRUE, ![t].def = d, ![t].isf = TRUE, ![t].ood = TRUE]
  OBVIOUS
<1>4. /\ a[t] = [r EXCEPT !.exists = TRUE, !.def = d, !.isf = TRUE, !.ood = TRUE]
      /\ \A s \in Slot : s # t => a[s] = attr[s]
      /\ DOMAIN a = Slot
  BY <1>1, <1>2, <1>3
<1>5. a[t].isf
  BY <1>4 DEF Attribute
<1>6. attr' = [a EXCEPT ![t].ood = TRUE, ![t].evaluating = TRUE]
  BY <1>3, <1>5 DEF Marked
<1>7. PICK b \in [Slot -> Attribute] : b = attr'
  BY <1>1
<1>8. PICK x : x = a[t]
  OBVIOUS
<1>9. b[t] = [x EXCEPT !.ood = TRUE, !.evaluating = TRUE] /\ \A s \in Slot : s # t => b[s] = attr[s]
  BY <1>4, <1>6, <1>7, <1>8
<1>10. b[t].exists /\ b[t].deps = r.deps /\ b[t].def = d /\ b[t].isf /\ b[t].ood
  <2>1. x = [r EXCEPT !.exists = TRUE, !.def = d, !.isf = TRUE, !.ood = TRUE]
    BY <1>4, <1>8
  <2> QED
    BY <1>9, <2>1 DEF Attribute
<1> QED
  BY <1>1, <1>2, <1>7, <1>9, <1>10 DEF Defines, Others

\* What is told of it fits.
LEMMA DataDefines ==
  ASSUME NEW rank, NEW m, NEW a, NEW F, NEW cq, NEW q1, NEW q2, NEW t \in Slot, NEW d \in Paths,
         NEW b \in [Slot -> Attribute], Data(rank, m, a, F, "send", cq, <<>>, q1, q2), q2 = <<>>,
         NoEvaluation(F), \A f \in F : Own(f) => f.i = 1, t[2] # Key, DefsInv(b), d # Null,
         t \in DefinedBy(m), Ranked(rank, t, d), Defines(a, b, t, d),
         \E f \in F : Own(f) /\ f.slot = t /\ f.i = 1
  PROVE  Data(rank, m, b, F, "send", cq, <<>>, q1, q2)
<1>1. PICK p0 \in Seq(Event(0)) : p0 = <<>> /\ Len(p0) = 0
  BY EmptySeq
<1>2. PICK by : by = "send"
  OBVIOUS
<1>3. /\ \A s \in Slot : s # t => b[s] = a[s]
      /\ b[t].exists /\ b[t].deps = a[t].deps /\ b[t].def = d /\ b[t].isf /\ b[t].ood
  BY DEF Defines, Others
<1>4. SetsPlain(m, b, by, cq, p0)
  BY <1>1, <1>2 DEF SetsPlain
<1>5. \A s \in Slot, v \in Value : s # t /\ Outcome(a, p0, s, v) => Outcome(b, p0, s, v)
  BY <1>3 DEF Outcome
<1>6. Settled(b, p0, q1, q2, F, t)
  BY <1>3 DEF Settled, Waiting
<1>7. \A f \in F : ~IsEvaluation(f)
  BY DEF NoEvaluation
<1>8. Data(rank, m, a, F, by, cq, p0, q1, q2)
  BY <1>1, <1>2
<1>9. Ranked(rank, t, b[t].def) /\ b[t].def # Null
  BY <1>3
<1>10. Data(rank, m, b, F, by, cq, p0, q1, q2)
  BY <1>3, <1>4, <1>5, <1>6, <1>7, <1>8, <1>9, DataTouch
<1> QED
  BY <1>1, <1>2, <1>10

LEMMA HandleDefineFuncSettles ==
  ASSUME IInv, IInv', NEW rank, Plain(program, rank), PlainHolds(rank), HandleDefineFunc
  PROVE  PlainHolds(rank)'
<1> DEFINE e == NextEvent(0)
           a(t) == [attr EXCEPT ![t].exists = TRUE, ![t].def = e.def, ![t].isf = TRUE, ![t].ood = TRUE]
<1>1. /\ Takes(0, {"DEFINE_FUNC"}) /\ queue' = Taken(0)
      /\ attr' = IF e.slot[2] = Key THEN a(e.slot) ELSE Marked(a(e.slot), e.slot)
      /\ stack' = IF e.slot[2] = Key THEN stack ELSE stack \o MarkCalls(a(e.slot), e.slot)
      /\ UNCHANGED <<curq, program, ops>>
  BY DEF HandleDefineFunc
<1>2. /\ e.slot \in Slot /\ e.def \in Paths /\ e.def # Null /\ Ranked(rank, e.slot, e.def)
      /\ e.slot \in DefinedBy(program) /\ e.slot[2] # Key
  <2>1. PICK x : x = e
    OBVIOUS
  <2>2. /\ x.slot \in Slot /\ x.def \in Paths /\ x.def # Null /\ Ranked(rank, x.slot, x.def)
        /\ x.slot \in DefinedBy(program) /\ x.slot[2] # Key
    BY <1>1, <2>1, FuncIs
  <2> QED
    BY <2>1, <2>2
<1>3. PICK t \in Slot : t = e.slot
  BY <1>2
<1>4. PICK d \in Paths : d = e.def
  BY <1>2
<1> HIDE DEF e, a
<1>5. attr' = Marked(a(t), t) /\ stack' = stack \o MarkCalls(a(t), t)
  BY <1>1, <1>2, <1>3
<1>6. Defines(attr, attr', t, d) /\ attr' \in [Slot -> Attribute] /\ DefsInv(attr')
  <2>1. a(t) = [attr EXCEPT ![t].exists = TRUE, ![t].def = d, ![t].isf = TRUE, ![t].ood = TRUE]
    BY <1>4 DEF a, e
  <2> QED
    BY <1>5, <2>1, FuncChanges
<1>7. a(t)[t].isf
  <2>1. attr \in [Slot -> Attribute]
    BY Parts
  <2>2. attr[t] \in Attribute
    BY <2>1
  <2>3. a(t)[t] = [attr[t] EXCEPT !.exists = TRUE, !.def = e.def, !.isf = TRUE, !.ood = TRUE]
    BY <2>1 DEF a
  <2> QED
    BY <2>2, <2>3 DEF Attribute
<1>8. stack' = stack \o (WildCall(t) \o OwnCall(t))
  BY <1>5, <1>7 DEF MarkCalls
<1>9. /\ Taken(0)[0] = <<>> /\ Taken(0)[1] = queue[1] /\ Taken(0)[2] = queue[2] /\ queue[2] = <<>>
      /\ PlainInv(rank, program, attr, stack, 0, <<>>, queue[1], queue[2])
  <2>1. "SET_BYDEF" \notin {"DEFINE_FUNC"}
    OBVIOUS
  <2> QED
    BY <1>1, <2>1, TakesOp
<1>10. PICK r0 : r0 = <<>>
  OBVIOUS
<1>11. /\ Announces(rank, (stack \o WildCall(t)) \o OwnCall(t), t, r0)
       /\ (stack \o WildCall(t)) \o OwnCall(t) = stack \o (WildCall(t) \o OwnCall(t))
  <2>1. PlainInv(rank, program, attr, stack, 0, r0, queue[1], queue[2])
    BY <1>9, <1>10
  <2> QED
    BY <1>1, <2>1, Announced
<1>12. PICK st : st = stack' /\ Announces(rank, st, t, r0)
  BY <1>8, <1>11
<1>13. PICK b \in [Slot -> Attribute] : b = attr'
  BY <1>6
<1>14. PICK q1 : q1 = queue[1]
  OBVIOUS
<1>15. PICK q2 : q2 = queue[2] /\ q2 = <<>>
  BY <1>9
<1>16. /\ PlainInv(rank, program, attr, st, 0, r0, q1, q2) /\ By(st) = "send" /\ NoEvaluation(Calls(st))
       /\ \A f \in Calls(st) : Own(f) => f.i = 1
       /\ \E f \in Calls(st) : Own(f) /\ f.slot = t /\ f.i = 1
  BY <1>12, <1>14, <1>15 DEF Announces
<1>17. Data(rank, program, attr, Calls(st), "send", 0, <<>>, q1, q2) /\ st \in Seq(Frame) /\ Shape(rank, st, 0)
  BY <1>10, <1>16 DEF PlainInv
<1>18. PICK F, cq : F = Calls(st) /\ cq = 0
  OBVIOUS
<1>20. Data(rank, program, b, F, "send", cq, <<>>, q1, q2)
  <2>1. Data(rank, program, attr, F, "send", cq, <<>>, q1, q2) /\ NoEvaluation(F)
    BY <1>16, <1>17, <1>18
  <2>2. (\A f \in F : Own(f) => f.i = 1) /\ \E f \in F : Own(f) /\ f.slot = t /\ f.i = 1
    BY <1>16, <1>18
  <2>3. /\ t[2] # Key /\ DefsInv(b) /\ d # Null /\ t \in DefinedBy(program) /\ Ranked(rank, t, d)
        /\ Defines(attr, b, t, d)
    BY <1>2, <1>3, <1>4, <1>6, <1>13
  <2> QED
    BY <1>15, <2>1, <2>2, <2>3, DataDefines
<1>21. PlainInv(rank, program, b, st, 0, <<>>, q1, q2)
  BY <1>16, <1>17, <1>18, <1>20 DEF PlainInv
<1>22. curq = 0
  <2>1. 0 \in 0 .. 2
    OBVIOUS
  <2> QED
    BY <1>1, <2>1, Drains
<1> QED
  BY <1>1, <1>9, <1>12, <1>13, <1>14, <1>15, <1>21, <1>22, HoldsNext

\* Attributes a and b, before and after attribute u is made a dependent of t.
Depends(a, b, t, u, is) ==
  /\ b \in [Slot -> Attribute] /\ DefsInv(b) /\ Others(a, b, t)
  /\ b[t].exists /\ b[t].def = a[t].def /\ b[t].isf = a[t].isf
  /\ b[t].val = a[t].val /\ b[t].ood = a[t].ood
  /\ Gains(a[t].deps, b[t].deps, u, is)

LEMMA DepChanges ==
  ASSUME IInv, IInv', NEW t \in Slot, NEW u \in Slot, NEW is \in BOOLEAN, NEW x,
         x = AddDependent(attr[t].deps, u, is),
         attr' = [attr EXCEPT ![t].exists = TRUE, ![t].deps = x]
  PROVE  Depends(attr, attr', t, u, is)
<1>1. attr \in [Slot -> Attribute] /\ attr' \in [Slot -> Attribute] /\ DefsInv(attr')
  BY Parts, AttributesNext
<1>2. PICK r \in Attribute : r = attr[t]
  BY <1>1
<1>3. PICK b \in [Slot -> Attribute] : b = attr'
  BY <1>1
<1>4. x = AddDependent(r.deps, u, is)
  BY <1>2
<1>5. b[t] = [r EXCEPT !.exists = TRUE, !.deps = x] /\ \A s \in Slot : s # t => b[s] = attr[s]
  BY <1>1, <1>2, <1>3, <1>4
<1>6. /\ b[t].exists /\ b[t].def = r.def /\ b[t].isf = r.isf /\ b[t].val = r.val /\ b[t].ood = r.ood
      /\ b[t].deps = x
  BY <1>5 DEF Attribute
<1>7. Gains(r.deps, x, u, is)
  <2>1. r.deps \in Seq(Dependent)
    BY DEF Attribute
  <2> QED
    BY <1>4, <2>1, DependentGained
<1> QED
  BY <1>1, <1>2, <1>3, <1>5, <1>6, <1>7 DEF Depends, Others

LEMMA HandleDepSettles ==
  ASSUME IInv, IInv', NEW rank, PlainHolds(rank), HandleDep
  PROVE  PlainHolds(rank)'
<1> DEFINE x == NextEvent(2)
           n == AddDependent(attr[x.slot].deps, x.by, x.type = "ADD_IS_DEP")
<1>1. /\ Takes(2, {"ADDDEP", "ADD_IS_DEP"}) /\ queue' = Taken(2)
      /\ attr' = [attr EXCEPT ![x.slot].exists = TRUE,
                    ![x.slot].deps = AddDependent(@, x.by, x.type = "ADD_IS_DEP")]
      /\ UNCHANGED <<stack, curq, program, ops>>
  BY DEF HandleDep
<1>2. PICK k \in 0 .. 2 : k = 2
  OBVIOUS
<1>3. /\ curq = k /\ stack \in Seq(Frame) /\ Shape(rank, stack, k) /\ queue[k] # <<>>
      /\ NextEvent(k) = Head(queue[k]) /\ NextEvent(k) \in Event(k)
      /\ Data(rank, program, attr, Calls(stack), By(stack), k, queue[0], queue[1], queue[2])
      /\ \A f \in Calls(stack) : f.kind \in {"sync", "instant"} \/ (f.kind = "is" /\ By(stack) = "read")
  <2>1. Takes(k, {"ADDDEP", "ADD_IS_DEP"})
    BY <1>1, <1>2
  <2> QED
    BY <2>1, Drains
<1>4. PICK e \in Event(2) : e = x /\ e = Head(queue[2])
  BY <1>2, <1>3
<1>17. attr' = [attr EXCEPT ![x.slot].exists = TRUE, ![x.slot].deps = n]
  <2>1. attr \in [Slot -> Attribute] /\ x.slot \in Slot
    BY <1>4, EventsAre, Parts
  <2>2. attr[x.slot] \in Attribute
    BY <2>1
  <2> QED
    BY <1>1, <2>1, <2>2 DEF Attribute
<1> HIDE DEF x
<1>5. PICK t \in Slot : t = e.slot
  BY EventsAre
<1>6. PICK u \in Slot : u = e.by
  BY EventsAre
<1>7. PICK is \in BOOLEAN : is = (e.type = "ADD_IS_DEP")
  OBVIOUS
<1>8. /\ n = AddDependent(attr[t].deps, u, is)
      /\ attr' = [attr EXCEPT ![t].exists = TRUE, ![t].deps = n]
  <2>1. n = AddDependent(attr[t].deps, u, is)
    BY <1>4, <1>5, <1>6, <1>7
  <2> HIDE DEF n
  <2> QED
    BY <1>4, <1>5, <1>17, <2>1
<1> HIDE DEF n
<1>18. Depends(attr, attr', t, u, is)
  <2>1. PICK y : y = n
    OBVIOUS
  <2>2. /\ t \in Slot /\ u \in Slot /\ is \in BOOLEAN /\ y = AddDependent(attr[t].deps, u, is)
        /\ attr' = [attr EXCEPT ![t].exists = TRUE, ![t].deps = y]
    BY <1>5, <1>6, <1>7, <1>8, <2>1
  <2> QED
    BY <2>2, DepChanges
<1>9. /\ attr' \in [Slot -> Attribute] /\ DefsInv(attr') /\ \A s \in Slot : s # t => attr'[s] = attr[s]
      /\ attr'[t].exists /\ attr'[t].def = attr[t].def /\ attr'[t].isf = attr[t].isf
      /\ attr'[t].val = attr[t].val /\ attr'[t].ood = attr[t].ood
      /\ Gains(attr[t].deps, attr'[t].deps, u, is)
  BY <1>18 DEF Depends, Others
<1>10. PICK b \in [Slot -> Attribute] : b = attr'
  BY <1>9
<1>11. Taken(k)[k] = Tail(queue[k]) /\ \A j \in 0 .. 2 : j # k => Taken(k)[j] = queue[j]
  BY QueueShrinks
<1>12. queue'[2] = Tail(queue[2]) /\ queue'[0] = queue[0] /\ queue'[1] = queue[1]
  <2>1. 0 \in 0 .. 2 /\ 1 \in 0 .. 2 /\ 0 # k /\ 1 # k
    BY <1>2
  <2>2. PICK T : T = Taken(k)
    OBVIOUS
  <2>3. T = queue'
    BY <1>1, <1>2, <2>2
  <2> QED
    BY <1>2, <1>11, <2>1, <2>2, <2>3
<1>13. PICK q2 : q2 = queue[2] /\ q2 # <<>> /\ e = Head(q2)
  BY <1>2, <1>3, <1>4
<1>14. Data(rank, program, b, Calls(stack), By(stack), k, queue[0], queue[1], Tail(q2))
  <2>1. \A f \in Calls(stack) : ~Own(f)
    BY <1>3 DEF Own
  <2>2. PICK F, by, q0, q1, a :
         /\ F = Calls(stack) /\ by = By(stack) /\ q0 = queue[0] /\ q1 = queue[1]
         /\ a = attr
    OBVIOUS
  <2>7. Data(rank, program, a, F, by, k, q0, q1, q2) /\ \A f \in F : ~Own(f)
    BY <1>3, <1>13, <2>1, <2>2
  <2>8. /\ DefsInv(b) /\ \A s \in Slot : s # t => b[s] = a[s]
        /\ b[t].exists /\ b[t].def = a[t].def /\ b[t].isf = a[t].isf
        /\ b[t].val = a[t].val /\ b[t].ood = a[t].ood
    BY <1>9, <1>10, <2>2
  <2>9. Gains(a[t].deps, b[t].deps, u, e.type = "ADD_IS_DEP")
    BY <1>7, <1>9, <1>10, <2>2
  <2>10. Data(rank, program, b, F, by, k, q0, q1, Tail(q2))
    BY <1>5, <1>6, <1>13, <2>7, <2>8, <2>9, DataRegister
  <2> QED
    BY <2>2, <2>10
<1>15. PlainInv(rank, program, b, stack, k, queue[0], queue[1], Tail(q2))
  BY <1>3, <1>14 DEF PlainInv
<1> QED
  BY <1>1, <1>3, <1>10, <1>12, <1>13, <1>15, HoldsNext

\* The NOTIFY that is taken.
LEMMA NotifyIs ==
  ASSUME IInv, NEW rank, PlainHolds(rank), Takes(1, {"NOTIFY"}), NEW s, s = NextEvent(1).slot
  PROVE  /\ s \in Slot /\ curq = 1 /\ By(stack) = "send" /\ stack # <<>> /\ stack \in Seq(Frame)
         /\ Last(stack).kind = "instant" /\ queue[1] # <<>> /\ Head(queue[1]).slot = s
         /\ \A f \in Calls(stack) : ~Own(f) /\ f.kind \in {"sync", "instant"}
         /\ PlainInv(rank, program, attr, stack, 1, queue[0], queue[1], queue[2])
         /\ attr[s].evaluating = FALSE
         /\ Taken(1)[0] = queue[0] /\ Taken(1)[1] = Tail(queue[1]) /\ Taken(1)[2] = queue[2]
<1>1. PICK k \in 0 .. 1 : k = 1 /\ k \in 0 .. 2
  OBVIOUS
<1>2. Takes(k, {"NOTIFY"})
  BY <1>1
<1>3. /\ curq = k /\ stack \in Seq(Frame) /\ stack # <<>> /\ Top = Last(stack) /\ Top.kind = "instant"
      /\ queue[k] # <<>> /\ NextEvent(k) = Head(queue[k]) /\ NextEvent(k) \in Event(k)
      /\ \A f \in Calls(stack) : f.kind \in {"sync", "instant"} \/ (f.kind = "is" /\ By(stack) = "read")
  BY <1>1, <1>2, Drains
<1>4. /\ By(stack) = "send" /\ PlainInv(rank, program, attr, stack, k, queue[0], queue[1], queue[2])
      /\ \A f \in Calls(stack) : ~Own(f)
      /\ \A r \in Slot : attr[r].evaluating = FALSE
  BY <1>1, <1>2, DrainsFree
<1>5. s \in Slot
  BY <1>1, <1>3, EventsAre
<1>6. Taken(1)[0] = queue[0] /\ Taken(1)[1] = Tail(queue[1]) /\ Taken(1)[2] = queue[2]
  <2>1. 0 \in 0 .. 2 /\ 2 \in 0 .. 2 /\ 0 # k /\ 2 # k
    BY <1>1
  <2>2. Taken(k)[k] = Tail(queue[k]) /\ \A j \in 0 .. 2 : j # k => Taken(k)[j] = queue[j]
    BY <1>1, QueueShrinks
  <2>3. PICK T : T = Taken(k)
    OBVIOUS
  <2>4. T = Taken(1)
    BY <1>1, <2>3
  <2>5. T[k] = Tail(queue[k]) /\ T[0] = queue[0] /\ T[2] = queue[2]
    BY <2>1, <2>2, <2>3
  <2> QED
    BY <1>1, <2>4, <2>5
<1>7. curq = 1 /\ queue[1] # <<>> /\ Head(queue[1]).slot = s
      /\ PlainInv(rank, program, attr, stack, 1, queue[0], queue[1], queue[2])
  BY <1>1, <1>3, <1>4
<1>8. \A f \in Calls(stack) : ~Own(f) /\ f.kind \in {"sync", "instant"}
  BY <1>3, <1>4
<1> QED
  BY <1>3, <1>4, <1>5, <1>6, <1>7, <1>8

LEMMA HandleNotifyNoneSettles ==
  ASSUME IInv, NEW rank, PlainHolds(rank), HandleNotifyNone
  PROVE  PlainHolds(rank)'
<1>1. PICK s : s = NextEvent(1).slot
  OBVIOUS
<1>2. /\ Takes(1, {"NOTIFY"}) /\ queue' = Taken(1)
      /\ attr[s].isf \/ attr[s].def = Null \/ attr[s].evaluating
      /\ stack' = (stack \o WildCall(s)) \o (IF attr[s].isf \/ attr[s].def = Null THEN <<>> ELSE <<Failing(4)>>)
      /\ UNCHANGED <<attr, curq, program, ops>>
  BY <1>1 DEF HandleNotifyNone
<1>3. /\ s \in Slot /\ curq = 1 /\ By(stack) = "send" /\ stack # <<>> /\ stack \in Seq(Frame)
      /\ Last(stack).kind = "instant" /\ queue[1] # <<>> /\ Head(queue[1]).slot = s
      /\ \A f \in Calls(stack) : ~Own(f) /\ f.kind \in {"sync", "instant"}
      /\ PlainInv(rank, program, attr, stack, 1, queue[0], queue[1], queue[2])
      /\ attr[s].evaluating = FALSE
      /\ Taken(1)[0] = queue[0] /\ Taken(1)[1] = Tail(queue[1]) /\ Taken(1)[2] = queue[2]
  BY <1>1, <1>2, NotifyIs
<1>4. attr[s].isf \/ attr[s].def = Null
  BY <1>2, <1>3
<1>5. stack' = (stack \o WildCall(s)) \o <<>>
  BY <1>2, <1>4
<1>6. PICK cq \in {0, 1} : cq = 1
  OBVIOUS
<1>7. PICK q1, q0, q2, a, F :
       /\ q1 = queue[1] /\ q0 = queue[0] /\ q2 = queue[2] /\ a = attr
       /\ F = Calls(stack)
  OBVIOUS
<1>12. Data(rank, program, a, F, By(stack), cq, q0, q1, q2) /\ Shape(rank, stack, cq)
  BY <1>3, <1>6, <1>7 DEF PlainInv
<1>13. Data(rank, program, a, F, By(stack), cq, q0, Tail(q1), q2)
  <2>1. q1 # <<>> /\ Head(q1).slot = s /\ (\A f \in F : ~Own(f)) /\ (a[s].def = Null \/ a[s].isf)
    BY <1>3, <1>4, <1>7
  <2> QED
    BY <1>12, <2>1, DataTakeNotify
<1>14. PICK p1 : p1 = Tail(q1)
  OBVIOUS
<1>15. PlainInv(rank, program, a, stack, cq, q0, p1, q2)
  BY <1>3, <1>7, <1>12, <1>13, <1>14 DEF PlainInv
<1>16. PlainInv(rank, program, a, stack \o WildCall(s), cq, q0, p1, q2)
  <2>1. Last(stack).kind \in {"instant", "notify"} /\ stack # <<>> /\ By(stack) = "send" /\ s \in Slot
    BY <1>3
  <2> QED
    BY <1>15, <2>1, WildCalls
<1>17. stack' = stack \o WildCall(s)
  <2>1. PICK st \in Seq(Frame) : st = stack \o WildCall(s)
    BY <1>16 DEF PlainInv
  <2>2. st \o <<>> = st
    BY Joins
  <2> QED
    BY <1>5, <2>1, <2>2
<1>18. PlainInv(rank, program, attr, stack \o WildCall(s), 1, queue[0], Tail(queue[1]), queue[2])
  BY <1>6, <1>7, <1>14, <1>16
<1> QED
  BY <1>2, <1>3, <1>17, <1>18, HoldsNext

\* The evaluation of a notified := attribute.
LEMMA FutureStarts ==
  ASSUME NEW a \in [Slot -> Attribute], NEW q2, NEW s \in Slot, a[s].def # Null, a[s].isf = FALSE
  PROVE  \E f \in Frame : /\ f = Evaluation("future", s, s, a[s].def, FALSE)
                          /\ f.kind = "future" /\ f.slot = s /\ EvaluationFits(a, q2, f)
<1>1. PICK d \in Paths : d = a[s].def
  <2>1. a[s].def \in Paths \cup {Null}
    BY Attributes
  <2> QED
    BY <2>1
<1>2. PICK is \in BOOLEAN : is = FALSE
  OBVIOUS
<1> DEFINE f == Evaluation("future", s, s, d, is)
<1>3. f \in Frame /\ f.kind = "future" /\ f.slot = s /\ f.at = "get"
  BY Makes
<1>4. f.ctx = s /\ f.def = d /\ f.is = is /\ f.pos = 1 /\ f.res = d.base
  BY DEF Evaluation
<1> HIDE DEF f
<1>5. PICK n \in Nat : n = Len(d.keys)
  BY PathIs
<1>6. Steady(a, q2, s, d, 0, d.base)
  BY SteadyBegins
<1>7. EvaluationFits(a, q2, f)
  <2>1. f.pos <= Len(f.def.keys) + 1 /\ f.pos - 1 = 0
    BY <1>4, <1>5
  <2>2. Steady(a, q2, f.slot, f.def, f.pos - 1, f.res)
    BY <1>3, <1>4, <1>6, <2>1
  <2> QED
    BY <1>1, <1>2, <1>3, <1>4, <2>1, <2>2 DEF EvaluationFits
<1> QED
  BY <1>1, <1>2, <1>3, <1>7 DEF f

LEMMA HandleNotifySettles ==
  ASSUME IInv, IInv', NEW rank, PlainHolds(rank), HandleNotify
  PROVE  PlainHolds(rank)'
<1>1. PICK s : s = NextEvent(1).slot
  OBVIOUS
<1>2. /\ Takes(1, {"NOTIFY"}) /\ queue' = Taken(1)
      /\ ~attr[s].isf /\ attr[s].def # Null
      /\ attr' = [attr EXCEPT ![s].evaluating = TRUE]
      /\ stack' = Append(stack, Evaluation("future", s, s, attr[s].def, FALSE))
      /\ UNCHANGED <<curq, program, ops>>
  BY <1>1 DEF HandleNotify
<1>3. /\ s \in Slot /\ curq = 1 /\ By(stack) = "send" /\ stack # <<>> /\ stack \in Seq(Frame)
      /\ Last(stack).kind = "instant" /\ queue[1] # <<>> /\ Head(queue[1]).slot = s
      /\ \A f \in Calls(stack) : ~Own(f) /\ f.kind \in {"sync", "instant"}
      /\ PlainInv(rank, program, attr, stack, 1, queue[0], queue[1], queue[2])
      /\ attr[s].evaluating = FALSE
      /\ Taken(1)[0] = queue[0] /\ Taken(1)[1] = Tail(queue[1]) /\ Taken(1)[2] = queue[2]
  BY <1>1, <1>2, NotifyIs
<1>4. attr \in [Slot -> Attribute] /\ attr[s].isf = FALSE
  <2>1. attr \in [Slot -> Attribute]
    BY Parts
  <2> QED
    BY <1>2, <1>3, <2>1, Attributes
<1>5. PICK cq \in {0, 1} : cq = 1
  OBVIOUS
<1>6. PICK q1, q0, q2 : q1 = queue[1] /\ q0 = queue[0] /\ q2 = queue[2]
  OBVIOUS
<1>9. PICK a \in [Slot -> Attribute] : a = attr
  BY <1>4
<1>10. PICK f \in Frame : /\ f = Evaluation("future", s, s, a[s].def, FALSE)
                          /\ f.kind = "future" /\ f.slot = s /\ EvaluationFits(a, q2, f)
  <2>1. s \in Slot /\ a[s].def # Null /\ a[s].isf = FALSE
    BY <1>2, <1>3, <1>4, <1>9
  <2>2. \E f \in Frame : /\ f = Evaluation("future", s, s, a[s].def, FALSE)
                          /\ f.kind = "future" /\ f.slot = s /\ EvaluationFits(a, q2, f)
    BY <1>9, <2>1, FutureStarts
  <2> QED
    BY <2>2
<1>11. IsEvaluation(f) /\ ~Own(f)
  BY <1>10 DEF IsEvaluation, Own
<1>12. PICK by : by = By(stack)
  OBVIOUS
<1>13. CallFits(by, cq, f) /\ Above(Last(stack), f) /\ \A g \in Calls(stack) : Higher(rank, g, f)
  <2>1. CallFits(by, cq, f)
    BY <1>3, <1>5, <1>10, <1>12 DEF CallFits
  <2>2. Above(Last(stack), f)
    BY <1>3, <1>10 DEF Above, IsEvaluation
  <2>3. ASSUME NEW g \in Calls(stack) PROVE Higher(rank, g, f)
    BY <1>3, <1>10, <1>11 DEF Higher, IsEvaluation
  <2> QED
    BY <2>1, <2>2, <2>3
<1>14. PlainInv(rank, program, a, stack, cq, q0, q1, q2)
  BY <1>3, <1>5, <1>6, <1>9
<1>15. PICK st \in Seq(Frame) : st = Append(stack, f)
  BY <1>3, <1>10, Pushed
<1>16. /\ PlainInv(rank, program, a, st, cq, q0, q1, q2)
       /\ By(st) = by /\ Calls(st) = Calls(stack) \cup {f}
  <2>1. CallFits(By(stack), cq, f) /\ stack # <<>> /\ Above(Last(stack), f)
    BY <1>3, <1>12, <1>13
  <2>2. \A g \in Calls(stack) : Higher(rank, g, f)
    BY <1>13
  <2>3. (IsEvaluation(f) => EvaluationFits(a, q2, f)) /\ (Own(f) => f.i = 1)
    BY <1>10, <1>11
  <2>7. PICK c : c = stack
    OBVIOUS
  <2>8. /\ PlainInv(rank, program, a, c, cq, q0, q1, q2) /\ CallFits(By(c), cq, f)
        /\ c # <<>> /\ Above(Last(c), f) /\ \A g \in Calls(c) : Higher(rank, g, f)
    BY <1>14, <2>1, <2>2, <2>7
  <2>9. PlainInv(rank, program, a, Append(c, f), cq, q0, q1, q2) /\ By(Append(c, f)) = By(c)
    <3>1. f \in Frame /\ (IsEvaluation(f) => EvaluationFits(a, q2, f)) /\ (Own(f) => f.i = 1)
      BY <1>10, <2>3
    <3>2. /\ PlainInv(rank, program, a, c, cq, q0, q1, q2) /\ c # <<>> /\ CallFits(By(c), cq, f)
          /\ Above(Last(c), f) /\ \A g \in Calls(c) : Higher(rank, g, f)
      BY <2>8
    <3>3. PlainInv(rank, program, a, Append(c, f), cq, q0, q1, q2)
      BY <3>1, <3>2, CallStarts
    <3>4. By(Append(c, f)) = By(c)
      <4>1. c \in Seq(Frame) /\ c # <<>>
        BY <1>3, <2>7
      <4>2. PICK su \in Seq(Frame) : su = Append(c, f) /\ su # <<>> /\ su[1] = c[1]
        <5>1. /\ Append(c, f) \in Seq(Frame) /\ Append(c, f) # <<>>
              /\ \A i \in 1 .. Len(c) : Append(c, f)[i] = c[i]
          BY <3>1, <4>1, Pushed
        <5>2. 1 \in 1 .. Len(c)
          BY <4>1
        <5> QED
          BY <5>1, <5>2
      <4>3. By(su) = By(c)
        BY <4>1, <4>2, ByFirst
      <4> QED
        BY <4>2, <4>3
    <3> QED
      BY <3>3, <3>4
  <2>4. PlainInv(rank, program, a, Append(stack, f), cq, q0, q1, q2)
    BY <2>7, <2>9
  <2>5. By(Append(stack, f)) = By(stack)
    BY <2>7, <2>9
  <2>6. Calls(Append(stack, f)) = Calls(stack) \cup {f}
    BY <1>3, CallsPushed
  <2> QED
    BY <1>12, <1>15, <2>4, <2>5, <2>6
<1>17. PICK F : F = Calls(st)
  OBVIOUS
<1>18. Data(rank, program, a, F, by, cq, q0, q1, q2) /\ Shape(rank, st, cq)
  BY <1>16, <1>17 DEF PlainInv
<1>19. Data(rank, program, a, F, by, cq, q0, Tail(q1), q2)
  <2>1. q1 # <<>> /\ Head(q1).slot = s
    BY <1>3, <1>6
  <2>2. \A g \in F : ~Own(g)
    BY <1>3, <1>11, <1>16, <1>17
  <2>3. Running(F, s)
    BY <1>10, <1>16, <1>17 DEF Running
  <2> QED
    BY <1>18, <2>1, <2>2, <2>3, DataTakeNotify
<1>20. PICK p1, b : p1 = Tail(q1) /\ b = attr'
  OBVIOUS
<1>22. Data(rank, program, b, F, by, cq, q0, p1, q2)
  <2>1. Data(rank, program, attr, F, by, cq, q0, p1, q2)
    BY <1>9, <1>19, <1>20
  <2>2. Data(rank, program, attr', F, by, cq, q0, p1, q2)
    BY <1>2, <1>3, <2>1, LockSettles
  <2> QED
    BY <1>20, <2>2
<1>23. PlainInv(rank, program, b, st, cq, q0, p1, q2)
  BY <1>16, <1>17, <1>18, <1>22 DEF PlainInv
<1>24. stack' = st
  BY <1>2, <1>9, <1>10, <1>15
<1>25. /\ curq' = cq /\ program' = program /\ queue'[0] = q0 /\ queue'[1] = p1 /\ queue'[2] = q2
  BY <1>2, <1>3, <1>5, <1>6, <1>20
<1> QED
  BY <1>20, <1>23, <1>24, <1>25, HoldsNext

\* What a plain program never does: its evaluations meet no attribute that is being
\* evaluated, and nothing of $, drains do not nest and no Error is made.
LEMMA NotCyclic ==
  ASSUME IInv, NEW rank, PlainHolds(rank), GetCyclic
  PROVE  FALSE
<1>1. /\ Evaluating /\ Top.at = "get" /\ ~AtEnd(Top) /\ Cyclic(Asked(Top))
  BY DEF GetCyclic, Asking
<1>2. /\ stack # <<>> /\ IsEvaluation(Top) /\ rank \in [Slot -> Nat] /\ Top.slot \in Slot
      /\ Asked(Top) \in Slot /\ rank[Asked(Top)] < rank[Top.slot] /\ Asked(Top) # Top.slot
  BY <1>1, EvaluationIs
<1>3. PICK r \in Slot : r = Asked(Top)
  BY <1>2
<1>4. Defined(r) /\ attr[Source(r)].evaluating
  BY <1>1, <1>3 DEF Cyclic
<1>5. /\ Calls(stack) = Calls(Front(stack)) \cup {Top}
      /\ \A g \in Calls(Front(stack)) : Higher(rank, g, Top)
      /\ Data(rank, program, attr, Calls(Front(stack)) \cup {Top}, By(stack), curq, queue[0], queue[1], queue[2])
  BY <1>2, Innermost
<1>6. Source(r) = r
  <2>1. PICK F, by : F = Calls(Front(stack)) \cup {Top} /\ by = By(stack)
    OBVIOUS
  <2>3. Data(rank, program, attr, F, by, curq, queue[0], queue[1], queue[2])
    BY <1>5, <2>1
  <2>4. PICK q0, q1, q2 : q0 = queue[0] /\ q1 = queue[1] /\ q2 = queue[2]
    OBVIOUS
  <2>7. Data(rank, program, attr, F, by, curq, q0, q1, q2)
    BY <2>3, <2>4
  <2> QED
    BY <1>3, <1>4, <2>7, Answer
<1>7. ASSUME NEW f \in Calls(stack), IsLock(f) PROVE f.slot # r
  <2>1. CASE f = Top
    BY <1>2, <1>3, <2>1
  <2>2. CASE f # Top
    <3>1. Higher(rank, f, Top)
      BY <1>5, <1>7, <2>2
    <3>2. Top.kind # "notify"
      BY <1>2 DEF IsEvaluation
    <3>3. IsEvaluation(f)
      BY <1>7, <3>1, <3>2 DEF Higher, IsLock
    <3>4. rank[Top.slot] < rank[f.slot]
      BY <1>2, <3>1, <3>3 DEF Higher
    <3>5. SUFFICES ASSUME f.slot = r PROVE FALSE
      OBVIOUS
    <3>6. rank[Top.slot] \in Nat /\ rank[r] \in Nat
      BY <1>2, <1>3
    <3>7. PICK x \in Nat : x = rank[Top.slot]
      BY <3>6
    <3>8. PICK y \in Nat : y = rank[r]
      BY <3>6
    <3>9. y < x /\ x < y
      BY <1>2, <1>3, <3>4, <3>5, <3>7, <3>8
    <3> QED
      BY <3>9
  <2> QED
    BY <2>1, <2>2
<1>8. attr[r].evaluating = FALSE
  BY <1>3, <1>7, NotRunning
<1> QED
  BY <1>4, <1>6, <1>8

LEMMA NoCyclicAnswer ==
  ASSUME IInv, NEW rank, PlainHolds(rank), CyclicAnswers
  PROVE  FALSE
<1>1. Evaluating /\ Top.at \in {"cyclic", "none"}
  BY DEF CyclicAnswers
<1>2. Top.at \in {"get", "dep"}
  BY <1>1, EvaluationIs
<1> QED
  BY <1>1, <1>2

LEMMA NoWildEvaluation ==
  ASSUME IInv, NEW rank, PlainHolds(rank), FinishWild
  PROVE  FALSE
<1>1. Evaluating /\ Top.kind = "wild"
  BY DEF FinishWild, Finished
<1>2. Top.kind \in {"is", "future"}
  BY <1>1, EvaluationIs
<1> QED
  BY <1>1, <1>2

LEMMA NoOtherCall ==
  ASSUME NEW rank, PlainHolds(rank), RemainingPhase \/ ErrorSet
  PROVE  FALSE
<1>1. stack # <<>> /\ Top.kind \in {"remaining", "error"}
  BY DEF RemainingPhase, ErrorSet
<1>2. CallFits(By(stack), curq, Top)
  BY <1>1, Innermost
<1> QED
  BY <1>1, <1>2 DEF CallFits

\* Nothing is defined, running or queued at first.
LEMMA InitSettles ==
  ASSUME Init, NEW rank \in [Slot -> Nat]
  PROVE  PlainHolds(rank)
<1>1. /\ stack = <<>> /\ curq = -1 /\ queue[0] = <<>> /\ queue[1] = <<>> /\ queue[2] = <<>>
  BY DEF Init
<1>2. \A s \in Slot : attr[s] = NoAttribute
  BY DEF Init
<1>3. /\ IInv
  BY InitKeeps
<1>4. attr \in [Slot -> Attribute] /\ DefsInv(attr)
  BY <1>3, Parts
<1>5. PICK a \in [Slot -> Attribute] : a = attr
  BY <1>4
<1>6. \A s \in Slot : /\ a[s].exists = FALSE /\ a[s].val = Null /\ a[s].def = Null /\ a[s].isf = FALSE
                      /\ a[s].deps = <<>>
  BY <1>2, <1>5 DEF NoAttribute
<1>7. Calls(<<>>) = {} /\ By(<<>>) = "send"
  BY DEF Calls, By
<1>8. PICK e : e = <<>>
  OBVIOUS
<1>9. Typed(rank, a, {}, -1, e, e, e)
  BY <1>4, <1>5, <1>8 DEF Typed
<1>10. Queues(rank, program, a, "send", -1, e, e, e)
  BY <1>8 DEF Queues, SetsPlain, NotifiesPlain, DepsPlain
<1>11. ASSUME NEW s \in Slot PROVE SlotFits(program, rank, a, s)
  BY <1>6 DEF SlotFits
<1>12. InCall(a, {}, e, e)
  BY DEF InCall
<1>13. ASSUME NEW s \in Slot PROVE Unneeded(a, {}, s) /\ Settled(a, e, e, e, {}, s)
  BY <1>6 DEF Unneeded, Settled
<1>14. Data(rank, program, a, {}, "send", -1, e, e, e)
  BY <1>9, <1>10, <1>11, <1>12, <1>13 DEF Data
<1>15. Shape(rank, <<>>, -1)
  BY DEF Shape
<1>16. PlainInv(rank, program, a, <<>>, -1, e, e, e)
  <2>1. <<>> \in Seq(Frame)
    OBVIOUS
  <2> QED
    BY <1>7, <1>14, <1>15, <2>1 DEF PlainInv
<1> QED
  BY <1>1, <1>5, <1>8, <1>16 DEF PlainHolds

\* Every step of the virtual machine and of a plain program keeps it.
LEMMA NextSettles ==
  ASSUME IInv, IInv', NEW rank, Plain(program, rank), PlainHolds(rank), [Next]_vars
  PROVE  PlainHolds(rank)'
<1>1. CASE NotifyDependent  BY <1>1, NotifyDependentSettles
<1>2. CASE NotifyIsDependent  BY <1>2, NotifyIsDependentSettles
<1>3. CASE NotifyDone  BY <1>3, NotifyDoneSettles
<1>4. CASE GetEvaluates  BY <1>4, GetEvaluatesSettles
<1>5. CASE GetAnswers  BY <1>5, GetAnswersSettles
<1>6. CASE GetCyclic  BY <1>6, NotCyclic
<1>7. CASE CyclicAnswers  BY <1>7, NoCyclicAnswer
<1>8. CASE AddDep  BY <1>8, AddDepSettles
<1>9. CASE FinishIs  BY <1>9, FinishIsSettles
<1>10. CASE FinishWild  BY <1>10, NoWildEvaluation
<1>11. CASE FinishFuture  BY <1>11, FinishFutureSettles
<1>12. CASE HandleSet  BY <1>12, HandleSetSettles
<1>13. CASE HandleOtherSet  BY <1>13, HandleOtherSetSettles
<1>14. CASE HandleDefine  BY <1>14, HandleDefineSettles
<1>15. CASE HandleDefineFunc  BY <1>15, HandleDefineFuncSettles
<1>16. CASE HandleDep  BY <1>16, HandleDepSettles
<1>17. CASE HandleNotify  BY <1>17, HandleNotifySettles
<1>18. CASE HandleNotifyNone  BY <1>18, HandleNotifyNoneSettles
<1>19. CASE NextPhase  BY <1>19, NextPhaseSettles
<1>20. CASE RemainingPhase  BY <1>20, NoOtherCall
<1>21. CASE SyncRemaining  BY <1>21, SyncRemainingSettles
<1>22. CASE ErrorSet  BY <1>22, NoOtherCall
<1>23. CASE Tick  BY <1>23, TickSettles
<1>24. ASSUME NEW e \in program.ops, MainSend(e) PROVE PlainHolds(rank)'
  BY <1>24, MainSendSettles
<1>25. ASSUME NEW s \in program.reads, MainGet(s) PROVE PlainHolds(rank)'
  BY <1>25, MainGetSettles
<1>26. CASE UNCHANGED vars
  BY <1>26 DEF vars, PlainHolds
<1> QED
  BY <1>1, <1>2, <1>3, <1>4, <1>5, <1>6, <1>7, <1>8, <1>9, <1>10, <1>11, <1>12, <1>13, <1>14,
     <1>15, <1>16, <1>17, <1>18, <1>19, <1>20, <1>21, <1>22, <1>23, <1>24, <1>25, <1>26 DEF Next, Machine

\* The program that runs stays the same.
LEMMA ProgramStays == [Next]_vars => program' = program
BY DEF Next, Machine, vars, NotifyDependent, NotifyIsDependent, NotifyDone, GetEvaluates, GetAnswers,
       GetCyclic, CyclicAnswers, AddDep, FinishIs, FinishWild, FinishFuture, HandleSet, HandleOtherSet,
       HandleDefine, HandleDefineFunc, HandleDep, HandleNotify, HandleNotifyNone, NextPhase,
       RemainingPhase, SyncRemaining, ErrorSet, MainSend, MainGet, Tick

\* What holds of every program that is plain.
PlainSettled == \A rank \in [Slot -> Nat] : Plain(program, rank) => PlainHolds(rank)

LEMMA PlainInitially == Init => PlainSettled
BY InitSettles DEF PlainSettled

LEMMA PlainNext == IInv /\ IInv' /\ PlainSettled /\ [Next]_vars => PlainSettled'
<1> SUFFICES ASSUME IInv, IInv', PlainSettled, [Next]_vars, NEW rank \in [Slot -> Nat],
                    Plain(program', rank)
             PROVE  PlainHolds(rank)'
  BY DEF PlainSettled
<1>1. program' = program
  BY ProgramStays
<1>2. Plain(program, rank)
  BY <1>1
<1>3. PlainHolds(rank)
  BY <1>2 DEF PlainSettled
<1> QED
  BY <1>2, <1>3, NextSettles

\* A plain program keeps the store settled in every behaviour.
THEOREM PlainStaysSettled == Spec => []PlainSettled
BY Inductive, PlainInitially, PlainNext, PTL DEF Spec

-----------------------------------------------------------------------------
(***************************************************************************)
(* The functions that GETs compute exist.                                  *)
(***************************************************************************)
\* f starts from a and goes on by H, n times.
Goes(f, n, A, a, H) ==
  f \in [0 .. n -> A] /\ f[0] = a /\ \A i \in 1 .. n : f[i] = H[<<i, f[i - 1]>>]

LEMMA GoesOn ==
  ASSUME NEW A, NEW a \in A, NEW H \in [Nat \X A -> A], NEW n \in Nat, NEW f, Goes(f, n, A, a, H)
  PROVE  \E h : Goes(h, n + 1, A, a, H)
<1>1. f \in [0 .. n -> A] /\ f[0] = a /\ \A i \in 1 .. n : f[i] = H[<<i, f[i - 1]>>]
  BY DEF Goes
<1>2. PICK k \in Nat : k = n + 1
  OBVIOUS
<1> DEFINE h == [i \in 0 .. k |-> IF i = k THEN H[<<k, f[n]>>] ELSE f[i]]
<1>3. f[n] \in A /\ H[<<k, f[n]>>] \in A
  BY <1>1, <1>2
<1>4. h \in [0 .. k -> A]
  <2> SUFFICES ASSUME NEW i \in 0 .. k PROVE h[i] \in A
    OBVIOUS
  <2>1. i = k \/ i \in 0 .. n
    BY <1>2
  <2> QED
    BY <1>1, <1>3, <2>1
<1>5. h[0] = a
  BY <1>1, <1>2
<1>6. ASSUME NEW i \in 1 .. k PROVE h[i] = H[<<i, h[i - 1]>>]
  <2>1. CASE i = k
    <3>1. i - 1 = n /\ n \in 0 .. k /\ n # k
      BY <1>2, <2>1
    <3>2. h[n] = f[n]
      BY <3>1
    <3> QED
      BY <2>1, <3>1, <3>2
  <2>2. CASE i # k
    <3>1. i \in 1 .. n /\ i \in 0 .. k /\ i - 1 \in 0 .. k /\ i - 1 # k
      BY <1>2, <2>2
    <3>2. h[i] = f[i] /\ h[i - 1] = f[i - 1]
      BY <2>2, <3>1
    <3> QED
      BY <1>1, <3>1, <3>2
  <2> QED
    BY <2>1, <2>2
<1> HIDE DEF h
<1>7. Goes(h, k, A, a, H)
  BY <1>4, <1>5, <1>6 DEF Goes
<1> QED
  BY <1>2, <1>7

LEMMA GoesFar ==
  ASSUME NEW A, NEW a \in A, NEW H \in [Nat \X A -> A], NEW n \in Nat
  PROVE  \E f : Goes(f, n, A, a, H)
<1> DEFINE T == {k \in Nat : ~\E f : Goes(f, k, A, a, H)}
<1>1. SUFFICES ASSUME T # {} PROVE FALSE
  OBVIOUS
<1>2. PICK k : k \in T /\ \A j \in T : k <= j
  <2>1. T \subseteq Nat
    OBVIOUS
  <2> HIDE DEF T
  <2>2. Min(T) \in T /\ \A j \in T : Min(T) <= j
    BY <1>1, <2>1, Least
  <2> QED
    BY <2>2
<1>3. k \in Nat /\ ~\E f : Goes(f, k, A, a, H)
  BY <1>2
<1>4. CASE k = 0
  <2> DEFINE f == [i \in 0 .. 0 |-> a]
  <2>1. f \in [0 .. 0 -> A] /\ f[0] = a
    OBVIOUS
  <2> HIDE DEF f
  <2>2. Goes(f, 0, A, a, H)
    BY <2>1 DEF Goes
  <2> QED
    BY <1>3, <1>4, <2>2
<1>5. CASE k # 0
  <2>1. PICK j \in Nat : k = j + 1
    <3>1. k - 1 \in Nat /\ k = (k - 1) + 1
      BY <1>3, <1>5
    <3> QED
      BY <3>1
  <2>2. j \notin T
    BY <1>2, <1>3, <2>1
  <2>3. PICK f : Goes(f, j, A, a, H)
    BY <2>2
  <2>4. \E h : Goes(h, j + 1, A, a, H)
    BY <2>3, GoesOn
  <2> QED
    BY <1>3, <2>1, <2>4
<1> QED
  BY <1>4, <1>5

\* Two of them agree where both are defined.
LEMMA GoesOneWay ==
  ASSUME NEW A, NEW a \in A, NEW H \in [Nat \X A -> A], NEW m \in Nat, NEW n \in Nat, m <= n,
         NEW f, NEW g, Goes(f, m, A, a, H), Goes(g, n, A, a, H), NEW i \in 0 .. m
  PROVE  f[i] = g[i]
<1> DEFINE T == {k \in 0 .. m : f[k] # g[k]}
<1>1. SUFFICES ASSUME T # {} PROVE FALSE
  OBVIOUS
<1>2. PICK k : k \in T /\ \A j \in T : k <= j
  <2>1. T \subseteq Nat
    OBVIOUS
  <2> HIDE DEF T
  <2>2. Min(T) \in T /\ \A j \in T : Min(T) <= j
    BY <1>1, <2>1, Least
  <2> QED
    BY <2>2
<1>3. k \in 0 .. m /\ f[k] # g[k]
  BY <1>2
<1>4. /\ f[0] = a /\ \A j \in 1 .. m : f[j] = H[<<j, f[j - 1]>>]
      /\ g[0] = a /\ \A j \in 1 .. n : g[j] = H[<<j, g[j - 1]>>]
  BY DEF Goes
<1>5. k # 0
  BY <1>3, <1>4
<1>6. PICK j \in 0 .. m : j = k - 1
  BY <1>3, <1>5
<1>7. j \notin T
  BY <1>2, <1>3, <1>6
<1>8. f[j] = g[j]
  BY <1>7
<1>9. k \in 1 .. m /\ k \in 1 .. n
  BY <1>3, <1>5
<1>10. f[k] = H[<<k, f[j]>>] /\ g[k] = H[<<k, g[j]>>]
  BY <1>4, <1>6, <1>9
<1> QED
  BY <1>3, <1>8, <1>10

\* And there is one that never stops.
Endless(f, A, a, H) ==
  f \in [Nat -> A] /\ f[0] = a /\ \A i \in Nat : f[i + 1] = H[<<i + 1, f[i]>>]

LEMMA GoesForever ==
  ASSUME NEW A, NEW a \in A, NEW H \in [Nat \X A -> A]
  PROVE  \E f : Endless(f, A, a, H)
<1> DEFINE F(n) == CHOOSE f : Goes(f, n, A, a, H)
           h == [n \in Nat |-> F(n)[n]]
<1>1. ASSUME NEW n \in Nat PROVE Goes(F(n), n, A, a, H)
  BY GoesFar
<1> HIDE DEF F
<1>2. ASSUME NEW n \in Nat PROVE h[n] \in A
  <2>1. F(n) \in [0 .. n -> A] /\ n \in 0 .. n
    BY <1>1 DEF Goes
  <2> QED
    BY <2>1
<1>3. h[0] = a
  BY <1>1 DEF Goes
<1>4. ASSUME NEW i \in Nat PROVE h[i + 1] = H[<<i + 1, h[i]>>]
  <2>1. PICK k \in Nat : k = i + 1
    OBVIOUS
  <2>2. Goes(F(k), k, A, a, H) /\ Goes(F(i), i, A, a, H)
    BY <1>1
  <2>3. k \in 1 .. k /\ k - 1 = i /\ i \in 0 .. i /\ i <= k
    BY <2>1
  <2>4. F(k)[k] = H[<<k, F(k)[i]>>]
    BY <2>2, <2>3 DEF Goes
  <2>5. F(i)[i] = F(k)[i]
    <3>1. PICK x, y : x = F(i) /\ y = F(k)
      OBVIOUS
    <3>3. Goes(x, i, A, a, H) /\ Goes(y, k, A, a, H)
      BY <2>2, <3>1
    <3>4. \A j \in 0 .. i : x[j] = y[j]
      <4> TAKE j \in 0 .. i
      <4>1. i <= k
        BY <2>3
      <4> QED
        BY <2>1, <3>3, <4>1, GoesOneWay
    <3> QED
      BY <2>3, <3>1, <3>4
  <2> QED
    BY <2>1, <2>4, <2>5
<1>5. h \in [Nat -> A]
  BY <1>2
<1> HIDE DEF h
<1> QED
  BY <1>3, <1>4, <1>5 DEF Endless

\* What a path leads to.
LEMMA AlongIs ==
  ASSUME NEW d \in Paths, NEW g \in [Slot -> Value]
  PROVE  /\ Along(d, g) \in [0 .. Len(d.keys) -> Value] /\ Along(d, g)[0] = d.base
         /\ \A n \in 1 .. Len(d.keys) : Along(d, g)[n] = g[<<Along(d, g)[n - 1], d.keys[n]>>]
<1>1. /\ d.base \in Value /\ d.keys \in Seq(Keys) /\ Len(d.keys) \in Nat
      /\ \A v \in Value, i \in 1 .. Len(d.keys) : <<v, d.keys[i]>> \in Slot
  BY PathIs
<1> DEFINE L == Len(d.keys)
           Eq(v) == v = [n \in 0 .. L |-> IF n = 0 THEN d.base ELSE g[<<v[n - 1], d.keys[n]>>]]
<1>2. \E v : Eq(v)
  <2> DEFINE H == [p \in Nat \X Value |-> IF p[1] \in 1 .. L THEN g[<<p[2], d.keys[p[1]]>>] ELSE d.base]
  <2>1. H \in [Nat \X Value -> Value]
    <3> SUFFICES ASSUME NEW p \in Nat \X Value PROVE H[p] \in Value
      OBVIOUS
    <3>1. p[2] \in Value
      OBVIOUS
    <3>2. CASE p[1] \in 1 .. L
      BY <1>1, <3>1, <3>2
    <3>3. CASE p[1] \notin 1 .. L
      BY <1>1, <3>3
    <3> QED
      BY <3>2, <3>3
  <2>2. ASSUME NEW i \in 1 .. L, NEW v \in Value PROVE H[<<i, v>>] = g[<<v, d.keys[i]>>]
    <3>1. <<i, v>> \in Nat \X Value /\ <<i, v>>[1] = i /\ <<i, v>>[2] = v
      BY <1>1
    <3> QED
      BY <3>1
  <2> HIDE DEF H
  <2>3. PICK f : Goes(f, L, Value, d.base, H)
    BY <1>1, <2>1, GoesFar
  <2>4. f \in [0 .. L -> Value] /\ f[0] = d.base /\ \A i \in 1 .. L : f[i] = H[<<i, f[i - 1]>>]
    BY <2>3 DEF Goes
  <2>5. ASSUME NEW n \in 0 .. L
        PROVE  f[n] = IF n = 0 THEN d.base ELSE g[<<f[n - 1], d.keys[n]>>]
    <3>1. CASE n = 0
      BY <2>4, <3>1
    <3>2. CASE n # 0
      <4>1. n \in 1 .. L /\ n - 1 \in 0 .. L
        BY <1>1, <3>2
      <4>2. f[n - 1] \in Value
        BY <2>4, <4>1
      <4> QED
        BY <2>2, <2>4, <3>2, <4>1, <4>2
    <3> QED
      BY <3>1, <3>2
  <2>6. Eq(f)
    BY <2>4, <2>5
  <2> QED
    BY <2>6
<1>3. Along(d, g) = CHOOSE v : Eq(v)
  BY DEF Along
<1>4. PICK v : v = Along(d, g)
  OBVIOUS
<1>5. Eq(v)
  BY <1>2, <1>3, <1>4
<1>6. /\ DOMAIN v = 0 .. L /\ v[0] = d.base /\ \A n \in 1 .. L : v[n] = g[<<v[n - 1], d.keys[n]>>]
      /\ v = [n \in 0 .. L |-> v[n]]
  <2>1. DOMAIN v = 0 .. L /\ v = [n \in 0 .. L |-> v[n]]
    BY <1>5
  <2>2. ASSUME NEW n \in 0 .. L PROVE v[n] = IF n = 0 THEN d.base ELSE g[<<v[n - 1], d.keys[n]>>]
    BY <1>5
  <2> HIDE DEF Eq, L
  <2>3. L \in Nat
    BY <1>1 DEF L
  <2>4. 0 \in 0 .. L /\ \A n \in 1 .. L : n \in 0 .. L /\ n # 0
    BY <2>3
  <2> QED
    BY <2>1, <2>2, <2>4
<1> HIDE DEF Eq
<1>7. ASSUME NEW n \in 0 .. L PROVE v[n] \in Value
  <2> DEFINE T == {k \in 0 .. L : v[k] \notin Value}
  <2>1. SUFFICES ASSUME T # {} PROVE FALSE
    OBVIOUS
  <2>2. PICK k : k \in T /\ \A j \in T : k <= j
    <3>1. T \subseteq Nat
      BY <1>1
    <3> HIDE DEF T
    <3>2. Min(T) \in T /\ \A j \in T : Min(T) <= j
      BY <2>1, <3>1, Least
    <3> QED
      BY <3>2
  <2>3. k \in 0 .. L /\ v[k] \notin Value
    BY <2>2
  <2>4. k # 0
    BY <1>1, <1>6, <2>3
  <2>5. PICK j \in 0 .. L : j = k - 1 /\ k \in 1 .. L
    BY <1>1, <2>3, <2>4
  <2>6. j \notin T
    BY <1>1, <2>2, <2>3, <2>5
  <2>7. v[j] \in Value
    BY <2>6
  <2>8. <<v[j], d.keys[k]>> \in Slot
    BY <1>1, <2>5, <2>7
  <2>9. v[k] = g[<<v[j], d.keys[k]>>]
    BY <1>6, <2>5
  <2> QED
    BY <2>3, <2>8, <2>9
<1>8. v \in [0 .. L -> Value]
  BY <1>6, <1>7
<1> QED
  BY <1>4, <1>6, <1>8

\* What the GETs of all attributes answer, when the attributes they evaluate read g.
Answers(g) ==
  [s \in Slot |->
     IF ~Defined(s) THEN attr[Source(s)].val
     ELSE LET d == attr[Source(s)].def IN Along(d, g)[Len(d.keys)]]

LEMMA AnswersAre ==
  ASSUME IInv, NEW g \in [Slot -> Value]
  PROVE  Answers(g) \in [Slot -> Value]
<1>1. attr \in [Slot -> Attribute] /\ DefsInv(attr)
  BY Parts
<1> SUFFICES ASSUME NEW s \in Slot PROVE Answers(g)[s] \in Value
  BY DEF Answers
<1>2. Source(s) \in Slot /\ Wild(s) \in Slot
  BY Slots
<1>3. CASE ~Defined(s)
  <2>1. attr[Source(s)].val \in Value
    BY <1>1, <1>2, Attributes
  <2> QED
    BY <1>3, <2>1 DEF Answers
<1>4. CASE Defined(s)
  <2>1. attr[Source(s)].def # Null
    BY <1>1, <1>2, <1>4 DEF Defined, OutOfDate, Source, DefsInv
  <2>2. attr[Source(s)].def \in Paths \cup {Null}
    BY <1>1, <1>2, Attributes
  <2>3. PICK d \in Paths : d = attr[Source(s)].def
    BY <2>1, <2>2
  <2>4. Along(d, g) \in [0 .. Len(d.keys) -> Value] /\ Len(d.keys) \in Nat
    BY AlongIs, PathIs
  <2>5. Along(d, g)[Len(d.keys)] \in Value
    BY <2>4
  <2>6. Answers(g)[s] = Along(d, g)[Len(d.keys)]
    BY <1>4, <2>3 DEF Answers
  <2> QED
    BY <2>5, <2>6
<1> QED
  BY <1>3, <1>4

LEMMA GetValueIs ==
  ASSUME IInv
  PROVE  /\ GetValue \in [Nat -> [Slot -> Value]]
         /\ \A n \in Nat, s \in Slot : ~Defined(s) => GetValue[n][s] = attr[Source(s)].val
<1> DEFINE A == [Slot -> Value]
           a == [s \in Slot |-> attr[Source(s)].val]
           Eq(f) == f = [n \in Nat |->
                           [s \in Slot |->
                              IF n = 0 \/ ~Defined(s) THEN attr[Source(s)].val
                              ELSE LET d == attr[Source(s)].def IN Along(d, f[n - 1])[Len(d.keys)]]]
<1>1. GetValue = CHOOSE f : Eq(f)
  BY DEF GetValue
<1>2. a \in A
  <2> SUFFICES ASSUME NEW s \in Slot PROVE attr[Source(s)].val \in Value
    OBVIOUS
  <2>1. attr \in [Slot -> Attribute] /\ Source(s) \in Slot
    BY Parts, Slots
  <2> QED
    BY <2>1, Attributes
<1>3. \E f : Eq(f)
  <2> DEFINE H == [p \in Nat \X A |-> Answers(p[2])]
  <2>1. H \in [Nat \X A -> A]
    <3> SUFFICES ASSUME NEW p \in Nat \X A PROVE H[p] \in A
      OBVIOUS
    <3>1. p[2] \in [Slot -> Value]
      OBVIOUS
    <3>2. Answers(p[2]) \in [Slot -> Value]
      BY <3>1, AnswersAre
    <3> QED
      BY <3>2
  <2>2. ASSUME NEW i \in Nat, NEW g \in A PROVE H[<<i, g>>] = Answers(g)
    OBVIOUS
  <2> HIDE DEF H, a, A
  <2>3. PICK f \in [Nat -> A] : f[0] = a /\ \A i \in Nat : f[i + 1] = H[<<i + 1, f[i]>>]
    <3>1. PICK S : S = A
      OBVIOUS
    <3>2. PICK x \in S : x = a
      BY <1>2, <3>1
    <3>3. PICK h \in [Nat \X S -> S] : h = H
      BY <2>1, <3>1
    <3>4. \E f : Endless(f, S, x, h)
      BY <3>2, <3>3, GoesForever
    <3> QED
      BY <3>1, <3>2, <3>3, <3>4 DEF Endless
  <2>4. ASSUME NEW n \in Nat
        PROVE  f[n] = [s \in Slot |->
                         IF n = 0 \/ ~Defined(s) THEN attr[Source(s)].val
                         ELSE LET d == attr[Source(s)].def IN Along(d, f[n - 1])[Len(d.keys)]]
    <3>1. CASE n = 0
      BY <2>3, <3>1 DEF a
    <3>2. CASE n # 0
      <4>1. PICK i \in Nat : n = i + 1
        <5>1. n - 1 \in Nat /\ n = (n - 1) + 1
          BY <3>2
        <5> QED
          BY <5>1
      <4>2. n - 1 = i
        BY <4>1
      <4>3. f[i] \in A /\ f[n] = H[<<n, f[i]>>]
        BY <2>3, <4>1
      <4>4. f[n] = Answers(f[i])
        BY <2>2, <4>3
      <4> QED
        BY <3>2, <4>2, <4>4 DEF Answers
    <3> QED
      BY <3>1, <3>2
  <2>5. Eq(f)
    BY <2>3, <2>4
  <2> QED
    BY <2>5
<1>4. PICK f : f = GetValue
  OBVIOUS
<1>5. Eq(f)
  BY <1>1, <1>3, <1>4
<1>6. /\ DOMAIN f = Nat /\ f = [n \in Nat |-> f[n]] /\ f[0] = a
      /\ \A n \in Nat : n # 0 => f[n] = Answers(f[n - 1])
      /\ \A n \in Nat, s \in Slot : ~Defined(s) => f[n][s] = attr[Source(s)].val
  <2>1. DOMAIN f = Nat /\ f = [n \in Nat |-> f[n]]
    BY <1>5
  <2>2. ASSUME NEW n \in Nat
        PROVE  f[n] = [s \in Slot |->
                         IF n = 0 \/ ~Defined(s) THEN attr[Source(s)].val
                         ELSE LET d == attr[Source(s)].def IN Along(d, f[n - 1])[Len(d.keys)]]
    BY <1>5
  <2> HIDE DEF Eq
  <2>3. f[0] = a
    BY <2>2
  <2>4. ASSUME NEW n \in Nat, n # 0 PROVE f[n] = Answers(f[n - 1])
    BY <2>2, <2>4 DEF Answers
  <2>5. ASSUME NEW n \in Nat, NEW s \in Slot, ~Defined(s) PROVE f[n][s] = attr[Source(s)].val
    BY <2>2, <2>5
  <2> QED
    BY <2>1, <2>3, <2>4, <2>5
<1> HIDE DEF Eq, a
<1>7. ASSUME NEW n \in Nat PROVE f[n] \in A
  <2> DEFINE T == {k \in Nat : f[k] \notin A}
  <2>1. SUFFICES ASSUME T # {} PROVE FALSE
    OBVIOUS
  <2>2. PICK k : k \in T /\ \A j \in T : k <= j
    <3>1. T \subseteq Nat
      OBVIOUS
    <3> HIDE DEF T
    <3>2. Min(T) \in T /\ \A j \in T : Min(T) <= j
      BY <2>1, <3>1, Least
    <3> QED
      BY <3>2
  <2>3. k \in Nat /\ f[k] \notin A
    BY <2>2
  <2>4. k # 0
    BY <1>2, <1>6, <2>3
  <2>5. PICK j \in Nat : j = k - 1
    BY <2>3, <2>4
  <2>6. j \notin T
    BY <2>2, <2>3, <2>5
  <2>7. f[j] \in [Slot -> Value]
    BY <2>6
  <2>8. f[k] = Answers(f[j])
    BY <1>6, <2>3, <2>4, <2>5
  <2>9. Answers(f[j]) \in [Slot -> Value]
    BY <2>7, AnswersAre
  <2> QED
    BY <2>3, <2>8, <2>9
<1>8. f \in [Nat -> A]
  BY <1>6, <1>7
<1> QED
  BY <1>4, <1>6, <1>8

\* There are finitely many slots, so the depth GETs are followed to is a number.
LEMMA DepthIs == Depth \in Nat
<1>1. IsFiniteSet({Null, Void})
  <2>1. IsFiniteSet({})
    BY FS_EmptySet
  <2>2. IsFiniteSet({} \cup {Null})
    BY <2>1, FS_AddElement
  <2>3. IsFiniteSet(({} \cup {Null}) \cup {Void})
    BY <2>2, FS_AddElement
  <2>4. ({} \cup {Null}) \cup {Void} = {Null, Void}
    OBVIOUS
  <2> QED
    BY <2>3, <2>4
<1>2. IsFiniteSet(Obj) /\ IsFiniteSet(Keys)
  BY FiniteAssumption
<1>3. IsFiniteSet(Value)
  <2>1. IsFiniteSet(Obj \cup {Null, Void})
    BY <1>1, <1>2, FS_Union
  <2> QED
    BY <2>1 DEF Value
<1>4. IsFiniteSet(Slot)
  <2>1. IsFiniteSet(Value \X Keys)
    BY <1>2, <1>3, FS_Product
  <2> QED
    BY <2>1 DEF Slot
<1> QED
  BY <1>4, FS_CardinalityType DEF Depth

\* A defined attribute when nothing is running or queued.
LEMMA SettledAtRest ==
  ASSUME IInv, NEW rank, PlainHolds(rank), Quiet, NEW s \in Slot, attr[s].def # Null
  PROVE  /\ attr[s].def \in Paths /\ Ranked(rank, s, attr[s].def) /\ rank \in [Slot -> Nat]
         /\ Stale(attr, s) => attr[s].deps = <<>>
         /\ ~Stale(attr, s) => Steady(attr, <<>>, s, attr[s].def, Len(attr[s].def.keys), attr[s].val)
<1>1. stack = <<>> /\ queue[0] = <<>> /\ queue[1] = <<>> /\ queue[2] = <<>>
  BY DEF Quiet
<1>2. PICK e : e = <<>>
  OBVIOUS
<1>3. Calls(stack) = {}
  BY <1>1 DEF Calls
<1>4. PICK by : by = By(stack)
  OBVIOUS
<1>5. Data(rank, program, attr, {}, by, curq, e, e, e)
  BY <1>1, <1>2, <1>3, <1>4 DEF PlainHolds, PlainInv
<1>6. /\ attr[s].def \in Paths /\ Ranked(rank, s, attr[s].def) /\ rank \in [Slot -> Nat]
      /\ Unneeded(attr, {}, s) /\ Settled(attr, e, e, e, {}, s)
  BY <1>5, Defining
<1>7. Stale(attr, s) => attr[s].deps = <<>>
  BY <1>6 DEF Unneeded
<1>8. ASSUME ~Stale(attr, s)
      PROVE  Steady(attr, e, s, attr[s].def, Len(attr[s].def.keys), attr[s].val)
  <2>1. ~Due(attr, {}, s)
    BY DEF Due
  <2>2. ~Waiting(attr, e, {}, s)
    BY <1>2, <1>8 DEF Waiting, Stale, Notified, Running
  <2>3. Current(attr, e, e, s)
    BY <1>6, <2>1, <2>2 DEF Settled
  <2>4. PICK v \in Value : Outcome(attr, e, s, v) /\ Steady(attr, e, s, attr[s].def, Len(attr[s].def.keys), v)
    BY <2>3 DEF Current
  <2>5. attr[s].val = v
    BY <1>2, <2>4 DEF Outcome
  <2> QED
    BY <2>4, <2>5
<1> QED
  BY <1>2, <1>6, <1>7, <1>8

\* An attribute that is not out of date answers with its value.
LEMMA AnswersValue ==
  ASSUME IInv, NEW rank, PlainHolds(rank), NEW r \in Slot, ~Stale(attr, r)
  PROVE  GetValue[Depth][r] = attr[r].val
<1>1. PICK F, by, q0, q1, q2 :
       /\ F = Calls(stack) /\ by = By(stack) /\ q0 = queue[0] /\ q1 = queue[1]
       /\ q2 = queue[2]
  OBVIOUS
<1>6. Data(rank, program, attr, F, by, curq, q0, q1, q2)
  BY <1>1 DEF PlainHolds, PlainInv
<1>7. ~Defined(r) /\ attr[Source(r)].val = attr[r].val
  BY <1>6, Answer
<1>8. GetValue[Depth][r] = attr[Source(r)].val
  BY <1>7, DepthIs, GetValueIs
<1> QED
  BY <1>7, <1>8

\* So the path of an attribute that is not out of date leads where it led when the
\* attribute was evaluated.
LEMMA LeadsNow ==
  ASSUME IInv, NEW rank, PlainHolds(rank), NEW s \in Slot, NEW d \in Paths,
         NEW c \in [0 .. Len(d.keys) -> Value], c[0] = d.base,
         Leads(attr, <<>>, s, d, Len(d.keys), c)
  PROVE  \A n \in 0 .. Len(d.keys) : Reached(d, n) = c[n]
<1> DEFINE L == Len(d.keys)
<1>1. PICK g \in [Slot -> Value] : g = GetValue[Depth]
  BY DepthIs, GetValueIs
<1>2. PICK v : v = Along(d, g)
  OBVIOUS
<1>3. v[0] = d.base /\ \A n \in 1 .. L : v[n] = g[<<v[n - 1], d.keys[n]>>]
  BY <1>2, AlongIs
<1>4. L \in Nat /\ \A w \in Value, i \in 1 .. L : <<w, d.keys[i]>> \in Slot
  BY PathIs
<1>16. Along(d, GetValue[Depth]) = v
  BY <1>1, <1>2
<1> DEFINE T == {k \in 0 .. L : v[k] # c[k]}
<1>17. SUFFICES ASSUME T # {} PROVE FALSE
  <2>1. ASSUME NEW n \in 0 .. L PROVE v[n] = c[n]
    BY <1>17, <2>1
  <2> QED
    BY <1>16, <2>1 DEF Reached
<1>5. PICK k : k \in T /\ \A j \in T : k <= j
  <2>1. T \subseteq Nat
    BY <1>4
  <2> HIDE DEF T
  <2>2. Min(T) \in T /\ \A j \in T : Min(T) <= j
    BY <1>17, <2>1, Least
  <2> QED
    BY <2>2
<1>6. k \in 0 .. L /\ v[k] # c[k]
  BY <1>5
<1>7. k # 0
  BY <1>3, <1>6
<1>8. PICK j \in 0 .. L : j = k - 1 /\ k \in 1 .. L
  BY <1>4, <1>6, <1>7
<1>9. v[j] = c[j]
  BY <1>4, <1>5, <1>6, <1>8
<1>10. PICK r \in Slot : r = <<c[j], d.keys[k]>>
  BY <1>4, <1>8
<1>11. Through(c, d, k) = r
  BY <1>8, <1>10 DEF Through
<1>12. attr[r].val = c[k] /\ Fresh(attr, <<>>, r, s)
  BY <1>8, <1>11 DEF Leads
<1>13. ~Stale(attr, r)
  BY <1>12 DEF Fresh
<1>14. g[r] = attr[r].val
  BY <1>1, <1>13, AnswersValue
<1>15. v[k] = g[r]
  BY <1>3, <1>8, <1>9, <1>10
<1> QED
  BY <1>6, <1>12, <1>14, <1>15

LEMMA PlainValuesAgree ==
  ASSUME IInv, NEW rank, PlainHolds(rank)
  PROVE  ValuesAgree
<1> SUFFICES ASSUME Quiet, NEW s \in Slot, HasDef(s), ~OutOfDate(s)
             PROVE  attr[s].val = Reached(attr[s].def, Len(attr[s].def.keys))
  BY DEF ValuesAgree
<1>1. attr[s].def # Null /\ ~Stale(attr, s)
  BY DEF HasDef, OutOfDate, Stale
<1>2. PICK d \in Paths : d = attr[s].def
  BY <1>1, SettledAtRest
<1>3. Steady(attr, <<>>, s, d, Len(d.keys), attr[s].val)
  BY <1>1, <1>2, SettledAtRest
<1>4. PICK c \in [0 .. Len(d.keys) -> Value] :
        c[0] = d.base /\ c[Len(d.keys)] = attr[s].val /\ Leads(attr, <<>>, s, d, Len(d.keys), c)
  BY <1>3 DEF Steady
<1>5. \A n \in 0 .. Len(d.keys) : Reached(d, n) = c[n]
  BY <1>4, LeadsNow
<1>6. Len(d.keys) \in 0 .. Len(d.keys)
  <2>1. Len(d.keys) \in Nat
    BY PathIs
  <2> QED
    BY <2>1
<1> QED
  BY <1>2, <1>4, <1>5, <1>6

LEMMA PlainDependenciesRegistered ==
  ASSUME IInv, NEW rank, PlainHolds(rank)
  PROVE  DependenciesRegistered
<1> SUFFICES ASSUME Quiet, NEW s \in Slot, HasDef(s), OutOfDate(s) => attr[s].deps # <<>>,
                    NEW r \in Reads(attr[s].def)
             PROVE  \E i \in DOMAIN attr[r].deps : attr[r].deps[i] = [slot |-> s, is |-> attr[s].isf]
  BY DEF DependenciesRegistered
<1>1. attr[s].def # Null /\ (Stale(attr, s) => attr[s].deps # <<>>)
  BY DEF HasDef, OutOfDate, Stale
<1>2. PICK d \in Paths : d = attr[s].def
  BY <1>1, SettledAtRest
<1>3. ~Stale(attr, s)
  BY <1>1, SettledAtRest
<1>4. Steady(attr, <<>>, s, d, Len(d.keys), attr[s].val)
  BY <1>1, <1>2, <1>3, SettledAtRest
<1>5. PICK c \in [0 .. Len(d.keys) -> Value] :
        c[0] = d.base /\ Leads(attr, <<>>, s, d, Len(d.keys), c)
  BY <1>4 DEF Steady
<1>6. \A n \in 0 .. Len(d.keys) : Reached(d, n) = c[n]
  BY <1>5, LeadsNow
<1>7. PICK n \in DOMAIN d.keys : r = <<Reached(d, n - 1), d.keys[n]>>
  BY <1>2 DEF Reads
<1>8. n \in 1 .. Len(d.keys) /\ n - 1 \in 0 .. Len(d.keys)
  <2>1. d.keys \in Seq(Keys) /\ Len(d.keys) \in Nat
    BY PathIs
  <2>2. DOMAIN d.keys = 1 .. Len(d.keys)
    BY <2>1
  <2> QED
    BY <1>7, <2>1, <2>2
<1>9. r = Through(c, d, n)
  BY <1>6, <1>7, <1>8 DEF Through
<1>10. Fresh(attr, <<>>, r, s)
  BY <1>5, <1>8, <1>9 DEF Leads
<1>11. PICK j \in 1 .. Len(attr[r].deps) : attr[r].deps[j] = Entry(attr, s)
  BY <1>10 DEF Fresh, Registered
<1>12. r \in Slot
  <2>1. c[n - 1] \in Value
    BY <1>5, <1>8
  <2> QED
    BY <1>8, <1>9, <2>1, PathIs DEF Through
<1>13. attr[r].deps \in Seq(Dependent)
  <2>1. attr \in [Slot -> Attribute]
    BY Parts
  <2> QED
    BY <1>12, <2>1, DependentsAre
<1>14. DOMAIN attr[r].deps = 1 .. Len(attr[r].deps)
  BY <1>13
<1> QED
  BY <1>11, <1>14 DEF Entry

\* When a plain program has nothing running or queued, every defined attribute that
\* counts as up to date has the value its definition gives.
THEOREM PlainProgramsAgree == Spec => [](PlainProgram => ValuesAgree)
<1>1. IInv /\ PlainSettled => (PlainProgram => ValuesAgree)
  <2> SUFFICES ASSUME IInv, PlainSettled, NEW rank \in [Slot -> Nat], Plain(program, rank)
               PROVE  ValuesAgree
    BY DEF PlainProgram
  <2>1. PlainHolds(rank)
    BY DEF PlainSettled
  <2> QED
    BY <2>1, PlainValuesAgree
<1> QED
  BY <1>1, Inductive, PlainStaysSettled, PTL DEF PlainProgram

\* When a plain program has nothing running or queued, every defined attribute that
\* counts as up to date, or that others depend upon, is a dependent of every attribute
\* its definition reads: the next change of one reaches it.
THEOREM PlainProgramsRegister == Spec => [](PlainProgram => DependenciesRegistered)
<1>1. IInv /\ PlainSettled => (PlainProgram => DependenciesRegistered)
  <2> SUFFICES ASSUME IInv, PlainSettled, NEW rank \in [Slot -> Nat], Plain(program, rank)
               PROVE  DependenciesRegistered
    BY DEF PlainProgram
  <2>1. PlainHolds(rank)
    BY DEF PlainSettled
  <2> QED
    BY <2>1, PlainDependenciesRegistered
<1> QED
  BY <1>1, Inductive, PlainStaysSettled, PTL DEF PlainProgram
=============================================================================
