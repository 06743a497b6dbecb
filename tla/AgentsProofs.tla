---------------------------- MODULE AgentsProofs ----------------------------
(***************************************************************************)
(* Proofs about Agents, for any number of agents, entries, attributes and  *)
(* operations: what calls an agent that is gone, that no agent misses a    *)
(* change, and that none is called twice for one.                          *)
(***************************************************************************)
EXTENDS Agents, SequenceTheorems, FiniteSetTheorems, WellFoundedInduction, TLAPS

-----------------------------------------------------------------------------
(***************************************************************************)
(* The inductive invariant, in two parts: the calls in progress, and what  *)
(* the queues and registrations hold for each entry.                       *)
(***************************************************************************)
\* Entry i of the table es is there.
LiveIn(es, i) == i < Len(es) /\ es[i + 1] # Removed

EntriesFit(es, al, n) ==
  /\ es \in Seq(EntryRecord \cup {Removed}) /\ Len(es) <= MaxEntries
  /\ \A j \in 1 .. Len(es) : es[j] # Removed => es[j].agent \in al /\ es[j].asked <= n

QueuesFit(q) == /\ \A k \in 0 .. 2 : q[k] \in Seq(Event(k))
                /\ q = [k \in 0 .. 2 |-> q[k]]

\* Calls are only made by what drains the notifications, and by agents and evaluations
\* that wait meanwhile.
IsLoop(f)     == f.at \in {"instant", "remaining"}
MayBeBelow(f) == (IsLoop(f) => f.q = 1) /\ (f.at \in {"eval", "body"} => f.waited)

\* There is one instant at most, and it is below all calls but one that waits for it.
NoInstant(st) == \A i \in 1 .. Len(st) : st[i].at # "instant"
Nested(st) ==
  /\ \A i, j \in 1 .. Len(st) : st[i].at = "instant" /\ st[j].at = "instant" => i = j
  /\ \A j \in 1 .. Len(st) :
       st[j].at \notin {"instant", "sync"} => \E i \in 1 .. Len(st) : i < j /\ st[i].at = "instant"
  /\ \A j \in 1 .. Len(st) - 1 : MayBeBelow(st[j])

\* The innermost call goes on with an entry or an agent that is there, unless it
\* waited; dependencies are drained before sets, and an instant ends without
\* notifications.
Fresh(es, al, f) == /\ f.at = "eval" => f.waited \/ LiveIn(es, f.id)
                    /\ f.at = "body" => f.waited \/ f.agent \in al
Phase(f, q1, q2) == /\ IsLoop(f) /\ f.q = 0 => q2 = <<>>
                    /\ f.at = "instant" /\ f.q = 2 => q1 = <<>>
Innermost(st, es, al, q1, q2) == st # <<>> => Fresh(es, al, Last(st)) /\ Phase(Last(st), q1, q2)

\* Between instants nothing is left to notify and no dependency to add.
Between(st, cq, q1, q2) == NoInstant(st) => cq = -1 /\ q1 = <<>> /\ q2 = <<>>

CallsFit(st, cq, es, al, q1, q2) ==
  /\ st \in Seq(Frame) /\ cq \in -1 .. 2
  /\ Nested(st)
  /\ Between(st, cq, q1, q2)
  /\ Innermost(st, es, al, q1, q2)

CallsInv ==
  /\ EntriesFit(entries, alive, ops)
  /\ alive \subseteq Agent /\ val \in [Attr -> Value] /\ deps \in [Attr -> Seq(EntryId)]
  /\ QueuesFit(queue)
  /\ CallsFit(stack, curq, entries, alive, queue[1], queue[2])
  /\ ops \in 0 .. MaxOps

-----------------------------------------------------------------------------
(***************************************************************************)
(* Sequences.                                                              *)
(***************************************************************************)
\* A sequence is a function on the numbers to its length.
LEMMA SeqIs ==
  ASSUME NEW S, NEW s \in Seq(S)
  PROVE  /\ Len(s) \in Nat /\ DOMAIN s = 1 .. Len(s)
         /\ \A i \in 1 .. Len(s) : s[i] \in S
         /\ s # <<>> => Len(s) \in Nat \ {0}
         /\ Len(s) = 0 => s = <<>>
         /\ \A x : x \in ToSet(s) <=> \E i \in 1 .. Len(s) : s[i] = x
BY EmptySeq DEF ToSet

\* What appending an element does.
LEMMA Pushed ==
  ASSUME NEW S, NEW s \in Seq(S), NEW x \in S
  PROVE  /\ Append(s, x) \in Seq(S) /\ Append(s, x) # <<>>
         /\ Len(Append(s, x)) = Len(s) + 1
         /\ \A i \in 1 .. Len(s) : Append(s, x)[i] = s[i]
         /\ Append(s, x)[Len(s) + 1] = x
         /\ Last(Append(s, x)) = x
         /\ ToSet(Append(s, x)) = ToSet(s) \cup {x}
<1>1. /\ Append(s, x) \in Seq(S) /\ Append(s, x) # <<>>
      /\ Len(Append(s, x)) = Len(s) + 1 /\ Len(s) \in Nat
      /\ \A i \in 1 .. Len(s) : Append(s, x)[i] = s[i]
      /\ Append(s, x)[Len(s) + 1] = x
  BY AppendProperties
<1>2. Last(Append(s, x)) = x
  BY <1>1 DEF Last
<1>3. /\ \A y : y \in ToSet(Append(s, x)) <=> \E i \in 1 .. Len(Append(s, x)) : Append(s, x)[i] = y
      /\ \A y : y \in ToSet(s) <=> \E i \in 1 .. Len(s) : s[i] = y
  BY <1>1, SeqIs
<1>4. ToSet(Append(s, x)) = ToSet(s) \cup {x}
  <2> DEFINE t == Append(s, x)
  <2>1. /\ Len(t) = Len(s) + 1 /\ Len(s) \in Nat /\ t[Len(s) + 1] = x
        /\ \A i \in 1 .. Len(s) : t[i] = s[i]
        /\ \A y : y \in ToSet(t) <=> \E i \in 1 .. Len(t) : t[i] = y
    BY <1>1, <1>3
  <2> HIDE DEF t
  <2>2. ASSUME NEW y PROVE y \in ToSet(t) <=> y \in ToSet(s) \/ y = x
    BY <1>3, <2>1
  <2>3. ToSet(t) = ToSet(s) \cup {x}
    BY <2>2
  <2> QED
    BY <2>3 DEF t
<1> QED
  BY <1>1, <1>2, <1>4

\* What taking the last element away leaves.
LEMMA Popped ==
  ASSUME NEW S, NEW s \in Seq(S), s # <<>>
  PROVE  /\ Front(s) \in Seq(S)
         /\ Len(s) \in Nat \ {0} /\ Len(Front(s)) = Len(s) - 1
         /\ \A i \in 1 .. Len(s) - 1 : Front(s)[i] = s[i]
         /\ Last(s) = s[Len(s)] /\ Last(s) \in S
<1>1. Len(s) \in Nat \ {0} /\ \A i \in 1 .. Len(s) : s[i] \in S
  BY SeqIs
<1>2. PICK n \in Nat : n + 1 = Len(s) /\ Len(s) - 1 = n
  <2>1. \A l \in Nat \ {0} : l - 1 \in Nat /\ l - 1 + 1 = l
    OBVIOUS
  <2> QED
    BY <1>1, <2>1, Zenon
<1>3. /\ SubSeq(s, 1, n) \in Seq(S)
      /\ Len(SubSeq(s, 1, n)) = IF 1 <= n THEN n - 1 + 1 ELSE 0
      /\ \A i \in 1 .. n - 1 + 1 : SubSeq(s, 1, n)[i] = s[1 + i - 1]
  <2>1. n \in Int /\ 1 \in Int /\ \A i \in 1 .. n : s[i] \in S
    BY <1>1, <1>2
  <2> QED
    BY <2>1, SubSeqProperties
<1>4. Front(s) = SubSeq(s, 1, n) /\ n = Len(s) - 1
  BY <1>2 DEF Front
<1>5. Len(SubSeq(s, 1, n)) = n /\ \A i \in 1 .. n : i \in 1 .. n - 1 + 1 /\ 1 + i - 1 = i
  BY <1>3
<1>6. \A i \in 1 .. n : SubSeq(s, 1, n)[i] = s[i]
  BY <1>3, <1>5
<1>7. Last(s) = s[Len(s)] /\ Last(s) \in S
  BY <1>1 DEF Last
<1> QED
  BY <1>1, <1>3, <1>4, <1>5, <1>6, <1>7

\* What taking the first element away leaves.
LEMMA Shortened ==
  ASSUME NEW S, NEW s \in Seq(S), s # <<>>
  PROVE  /\ Tail(s) \in Seq(S) /\ Head(s) \in S /\ Head(s) = s[1]
         /\ Len(s) \in Nat \ {0} /\ Len(Tail(s)) = Len(s) - 1
         /\ \A i \in 1 .. Len(s) - 1 : Tail(s)[i] = s[i + 1]
         /\ ToSet(s) = ToSet(Tail(s)) \cup {Head(s)}
<1>1. /\ Tail(s) \in Seq(S) /\ Head(s) \in S /\ Head(s) = s[1]
      /\ Len(s) \in Nat \ {0} /\ Len(Tail(s)) = Len(s) - 1
      /\ \A i \in 1 .. Len(s) - 1 : Tail(s)[i] = s[i + 1]
  BY HeadTailProperties, SeqIs
<1>2. /\ \A y : y \in ToSet(Tail(s)) <=> \E i \in 1 .. Len(Tail(s)) : Tail(s)[i] = y
      /\ \A y : y \in ToSet(s) <=> \E i \in 1 .. Len(s) : s[i] = y
  BY <1>1, SeqIs
<1>3. \A i \in 1 .. Len(s) : i = 1 \/ (i - 1 \in 1 .. Len(s) - 1 /\ s[i] = Tail(s)[i - 1])
  BY <1>1
<1>4. ToSet(s) \subseteq ToSet(Tail(s)) \cup {Head(s)}
  BY <1>1, <1>2, <1>3
<1>5. ToSet(Tail(s)) \cup {Head(s)} \subseteq ToSet(s)
  BY <1>1, <1>2
<1> QED
  BY <1>1, <1>4, <1>5

\* What a sequence behind another does.
LEMMA Joined ==
  ASSUME NEW S, NEW s \in Seq(S), NEW t \in Seq(S)
  PROVE  /\ s \o t \in Seq(S) /\ Len(s \o t) = Len(s) + Len(t)
         /\ \A i \in 1 .. Len(s) : (s \o t)[i] = s[i]
         /\ \A i \in 1 .. Len(t) : (s \o t)[Len(s) + i] = t[i]
         /\ ToSet(s \o t) = ToSet(s) \cup ToSet(t)
<1>1. /\ s \o t \in Seq(S) /\ Len(s \o t) = Len(s) + Len(t)
      /\ Len(s) \in Nat /\ Len(t) \in Nat
      /\ \A i \in 1 .. Len(s) : (s \o t)[i] = s[i]
      /\ \A i \in 1 .. Len(t) : (s \o t)[Len(s) + i] = t[i]
  BY ConcatProperties
<1>2. /\ \A y : y \in ToSet(s \o t) <=> \E i \in 1 .. Len(s \o t) : (s \o t)[i] = y
      /\ \A y : y \in ToSet(s) <=> \E i \in 1 .. Len(s) : s[i] = y
      /\ \A y : y \in ToSet(t) <=> \E i \in 1 .. Len(t) : t[i] = y
  BY <1>1, SeqIs
<1>3. \A i \in 1 .. Len(s) + Len(t) :
        i \in 1 .. Len(s) \/ (i - Len(s) \in 1 .. Len(t) /\ i = Len(s) + (i - Len(s)))
  BY <1>1
<1>4. ToSet(s \o t) = ToSet(s) \cup ToSet(t)
  <2> DEFINE c == s \o t
  <2>1. /\ Len(c) = Len(s) + Len(t) /\ Len(s) \in Nat /\ Len(t) \in Nat
        /\ \A i \in 1 .. Len(s) : c[i] = s[i]
        /\ \A i \in 1 .. Len(t) : c[Len(s) + i] = t[i]
        /\ \A y : y \in ToSet(c) <=> \E i \in 1 .. Len(c) : c[i] = y
    BY <1>1, <1>2
  <2> HIDE DEF c
  <2>2. \A i \in 1 .. Len(t) : Len(s) + i \in 1 .. Len(c)
    BY <2>1
  <2>3. \A i \in 1 .. Len(s) : i \in 1 .. Len(c)
    BY <2>1
  <2>4. ASSUME NEW y \in ToSet(c) PROVE y \in ToSet(s) \cup ToSet(t)
    <3>1. PICK i \in 1 .. Len(c) : c[i] = y
      BY <2>1
    <3>2. CASE i \in 1 .. Len(s)
      BY <1>2, <2>1, <3>1, <3>2
    <3>3. CASE i - Len(s) \in 1 .. Len(t) /\ i = Len(s) + (i - Len(s))
      <4>1. t[i - Len(s)] = y
        BY <2>1, <3>1, <3>3
      <4> QED
        BY <1>2, <3>3, <4>1
    <3> QED
      BY <1>3, <2>1, <3>1, <3>2, <3>3
  <2>5. ASSUME NEW y \in ToSet(s) \cup ToSet(t) PROVE y \in ToSet(c)
    BY <1>2, <2>1, <2>2, <2>3
  <2>6. ToSet(c) = ToSet(s) \cup ToSet(t)
    BY <2>4, <2>5
  <2> QED
    BY <2>6 DEF c
<1> QED
  BY <1>1, <1>4

\* A set of numbers has a least one.
LEMMA Least ==
  ASSUME NEW T, T \subseteq Nat, T # {}
  PROVE  Min(T) \in T /\ \A y \in T : Min(T) <= y
<1>1. IsWellFoundedOn(OpToRel(<, Nat), Nat)
  BY NatLessThanWellFounded
<1>2. PICK x \in T : \A y \in T : ~(<<y, x>> \in OpToRel(<, Nat))
  BY <1>1, WFMin
<1>3. ASSUME NEW y \in T PROVE x <= y
  <2>1. ~(<<y, x>> \in OpToRel(<, Nat)) /\ x \in Nat /\ y \in Nat
    BY <1>2
  <2> QED
    BY <2>1 DEF OpToRel
<1> QED
  BY <1>3, Zenon DEF Min

\* What removing the first occurrence of an element leaves.
LEMMA FirstRemoved ==
  ASSUME NEW S, NEW s \in Seq(S), NEW x \in S
  PROVE  /\ RemoveFirst(s, x) \in Seq(S)
         /\ \/ RemoveFirst(s, x) = s /\ x \notin ToSet(s)
            \/ \E k \in 1 .. Len(s) :
                 /\ s[k] = x
                 /\ Len(RemoveFirst(s, x)) = Len(s) - 1
                 /\ \A i \in 1 .. Len(s) - 1 :
                      RemoveFirst(s, x)[i] = IF i < k THEN s[i] ELSE s[i + 1]
<1> DEFINE I == {i \in 1 .. Len(s) : s[i] = x}
           k == Min(I)
<1>0. Len(s) \in Nat /\ (\A i \in 1 .. Len(s) : s[i] \in S)
     /\ \A y : y \in ToSet(s) <=> \E i \in 1 .. Len(s) : s[i] = y
  BY SeqIs
<1>1. CASE I = {}
  <2>1. RemoveFirst(s, x) = s
    BY <1>1 DEF RemoveFirst
  <2> QED
    BY <1>0, <1>1, <2>1
<1>2. CASE I # {}
  <2>1. RemoveFirst(s, x) = RemoveAt(s, k)
    BY <1>2, Zenon DEF RemoveFirst, SelectInSeq
  <2>2. k \in I
    <3>1. I \subseteq Nat
      OBVIOUS
    <3> HIDE DEF I
    <3> QED
      BY <1>2, <3>1, Least
  <2> DEFINE l == SubSeq(s, 1, k - 1)
             r == SubSeq(s, k + 1, Len(s))
  <2>3. k \in 1 .. Len(s) /\ s[k] = x
    BY <2>2
  <2> HIDE DEF k
  <2>4. /\ l \in Seq(S) /\ Len(l) = k - 1
        /\ \A i \in 1 .. k - 1 : l[i] = s[i]
    <3>1. \A i \in 1 .. k - 1 : s[i] \in S
      BY <1>0, <2>3
    <3>2. /\ l \in Seq(S) /\ Len(l) = IF 1 <= k - 1 THEN (k - 1) - 1 + 1 ELSE 0
          /\ \A i \in 1 .. (k - 1) - 1 + 1 : l[i] = s[1 + i - 1]
      BY <2>3, <3>1, SubSeqProperties
    <3> HIDE DEF l
    <3> QED
      BY <2>3, <3>2
  <2>5. /\ r \in Seq(S) /\ Len(r) = Len(s) - k
        /\ \A i \in 1 .. Len(s) - k : r[i] = s[k + i]
    <3>1. \A i \in k + 1 .. Len(s) : s[i] \in S
      BY <1>0, <2>3
    <3>2. /\ r \in Seq(S) /\ Len(r) = IF k + 1 <= Len(s) THEN Len(s) - (k + 1) + 1 ELSE 0
          /\ \A i \in 1 .. Len(s) - (k + 1) + 1 : r[i] = s[k + 1 + i - 1]
      BY <1>0, <2>3, <3>1, SubSeqProperties
    <3> HIDE DEF r
    <3> QED
      BY <1>0, <2>3, <3>2
  <2>6. RemoveFirst(s, x) = l \o r
    BY <2>1 DEF RemoveAt
  <2> HIDE DEF l, r
  <2> DEFINE t == l \o r
  <2>7. /\ t \in Seq(S) /\ Len(t) = Len(s) - 1
        /\ \A i \in 1 .. k - 1 : t[i] = s[i]
        /\ \A i \in 1 .. Len(s) - k : t[(k - 1) + i] = s[k + i]
    <3>1. /\ t \in Seq(S) /\ Len(t) = Len(l) + Len(r)
          /\ \A i \in 1 .. Len(l) : t[i] = l[i]
          /\ \A i \in 1 .. Len(r) : t[Len(l) + i] = r[i]
      <4>1. PICK a \in Seq(S), b \in Seq(S) : a = l /\ b = r
        BY <2>4, <2>5
      <4>2. /\ a \o b \in Seq(S) /\ Len(a \o b) = Len(a) + Len(b)
            /\ \A i \in 1 .. Len(a) : (a \o b)[i] = a[i]
            /\ \A i \in 1 .. Len(b) : (a \o b)[Len(a) + i] = b[i]
        BY Joined
      <4> QED
        BY <4>1, <4>2
    <3> HIDE DEF t
    <3>2. Len(l) + Len(r) = Len(s) - 1
      BY <1>0, <2>3, <2>4, <2>5
    <3>3. \A i \in 1 .. k - 1 : t[i] = s[i]
      BY <2>4, <3>1
    <3>4. \A i \in 1 .. Len(s) - k : t[(k - 1) + i] = s[k + i]
      BY <2>4, <2>5, <3>1
    <3> QED
      BY <3>1, <3>2, <3>3, <3>4
  <2>9. RemoveFirst(s, x) = t
    BY <2>6
  <2> HIDE DEF t
  <2>8. ASSUME NEW i \in 1 .. Len(s) - 1 PROVE t[i] = IF i < k THEN s[i] ELSE s[i + 1]
    <3>1. CASE i < k
      BY <1>0, <2>3, <2>7, <3>1
    <3>2. CASE ~(i < k)
      <4>1. i - k + 1 \in 1 .. Len(s) - k /\ (k - 1) + (i - k + 1) = i /\ k + (i - k + 1) = i + 1
        BY <1>0, <2>3, <3>2
      <4>2. t[(k - 1) + (i - k + 1)] = s[k + (i - k + 1)]
        BY <2>7, <4>1
      <4> QED
        BY <3>2, <4>1, <4>2
    <3> QED
      BY <3>1, <3>2
  <2> QED
    BY <2>3, <2>7, <2>8, <2>9
<1> QED
  BY <1>1, <1>2

LEMMA Without ==
  ASSUME NEW S, NEW s \in Seq(S), NEW x \in S
  PROVE  /\ RemoveFirst(s, x) \in Seq(S)
         /\ ToSet(RemoveFirst(s, x)) \subseteq ToSet(s)
         /\ ToSet(s) \subseteq ToSet(RemoveFirst(s, x)) \cup {x}
         /\ IsInjective(s) => x \notin ToSet(RemoveFirst(s, x)) /\ IsInjective(RemoveFirst(s, x))
<1>1. PICK t \in Seq(S) :
        /\ t = RemoveFirst(s, x)
        /\ \/ t = s /\ x \notin ToSet(s)
           \/ \E k \in 1 .. Len(s) :
                /\ s[k] = x
                /\ Len(t) = Len(s) - 1
                /\ \A i \in 1 .. Len(s) - 1 : t[i] = IF i < k THEN s[i] ELSE s[i + 1]
  BY FirstRemoved
<1>2. CASE t = s /\ x \notin ToSet(s)
  BY <1>1, <1>2
<1>3. ASSUME NEW k \in 1 .. Len(s), s[k] = x, Len(t) = Len(s) - 1,
             \A i \in 1 .. Len(s) - 1 : t[i] = IF i < k THEN s[i] ELSE s[i + 1]
      PROVE  /\ ToSet(t) \subseteq ToSet(s)
             /\ ToSet(s) \subseteq ToSet(t) \cup {x}
             /\ IsInjective(s) => x \notin ToSet(t) /\ IsInjective(t)
  <2> DEFINE p(i) == IF i < k THEN i ELSE i + 1
             n == Len(s)
  <2>1. /\ n \in Nat /\ DOMAIN s = 1 .. n /\ DOMAIN t = 1 .. Len(t)
        /\ \A y : y \in ToSet(s) <=> \E i \in 1 .. n : s[i] = y
        /\ \A y : y \in ToSet(t) <=> \E i \in 1 .. Len(t) : t[i] = y
    BY SeqIs
  <2>2. \A i \in 1 .. n - 1 : p(i) \in 1 .. n /\ p(i) # k /\ t[i] = s[p(i)]
    BY <1>3, <2>1
  <2>3. \A i, j \in 1 .. n - 1 : p(i) = p(j) => i = j
    BY <2>1
  <2>4. \A j \in 1 .. n : j # k => \E i \in 1 .. n - 1 : p(i) = j
    <3>1. \A j \in 1 .. n : j < k => j \in 1 .. n - 1 /\ p(j) = j
      BY <2>1
    <3>2. \A j \in 1 .. n : j > k => j - 1 \in 1 .. n - 1 /\ p(j - 1) = j
      BY <2>1
    <3> HIDE DEF p
    <3> QED
      BY <2>1, <3>1, <3>2
  <2> HIDE DEF p, n
  <2>5. ToSet(t) \subseteq ToSet(s)
    BY <1>3, <2>1, <2>2 DEF n
  <2>6. ASSUME NEW y \in ToSet(s) PROVE y \in ToSet(t) \cup {x}
    <3>1. PICK j \in 1 .. n : s[j] = y
      BY <2>1
    <3>2. CASE j = k
      BY <1>3, <3>1, <3>2
    <3>3. CASE j # k
      <4>1. PICK i \in 1 .. n - 1 : p(i) = j
        BY <2>4, <3>3
      <4>2. t[i] = y /\ i \in 1 .. Len(t)
        BY <1>3, <2>2, <3>1, <4>1 DEF n
      <4> QED
        BY <2>1, <4>2
    <3> QED
      BY <3>2, <3>3
  <2>7. ASSUME IsInjective(s) PROVE x \notin ToSet(t)
    <3>1. \A i \in 1 .. n - 1 : s[p(i)] # s[k]
      BY <2>1, <2>2, <2>7 DEF IsInjective, n
    <3> QED
      BY <1>3, <2>1, <2>2, <3>1 DEF n
  <2>8. ASSUME IsInjective(s) PROVE IsInjective(t)
    <3> SUFFICES ASSUME NEW i \in 1 .. n - 1, NEW j \in 1 .. n - 1, t[i] = t[j] PROVE i = j
      BY <1>3, <2>1 DEF IsInjective, n
    <3>1. s[p(i)] = s[p(j)] /\ p(i) \in 1 .. n /\ p(j) \in 1 .. n
      BY <2>2
    <3>2. p(i) = p(j)
      BY <2>1, <2>8, <3>1 DEF IsInjective
    <3> QED
      BY <2>3, <3>2
  <2> QED
    BY <2>5, <2>6, <2>7, <2>8
<1> QED
  BY <1>1, <1>2, <1>3

\* An element put before others that lack it.
LEMMA PutFirst ==
  ASSUME NEW S, NEW s \in Seq(S), IsInjective(s), NEW x \in S, x \notin ToSet(s)
  PROVE  <<x>> \in Seq(S) /\ IsInjective(<<x>> \o s)
<1> DEFINE h == <<x>>
           t == h \o s
<1>1. h \in Seq(S) /\ Len(h) = 1 /\ h[1] = x
  OBVIOUS
<1> HIDE DEF h
<1>2. /\ t \in Seq(S) /\ Len(t) = 1 + Len(s)
      /\ t[1] = x /\ \A i \in 1 .. Len(s) : t[1 + i] = s[i]
  <2>1. /\ t \in Seq(S) /\ Len(t) = Len(h) + Len(s)
        /\ \A i \in 1 .. Len(h) : t[i] = h[i]
        /\ \A i \in 1 .. Len(s) : t[Len(h) + i] = s[i]
    <3>1. PICK a \in Seq(S) : a = h
      BY <1>1
    <3>2. /\ a \o s \in Seq(S) /\ Len(a \o s) = Len(a) + Len(s)
          /\ \A i \in 1 .. Len(a) : (a \o s)[i] = a[i]
          /\ \A i \in 1 .. Len(s) : (a \o s)[Len(a) + i] = s[i]
      BY Joined
    <3> QED
      BY <3>1, <3>2
  <2> HIDE DEF t
  <2> QED
    BY <1>1, <2>1
<1> HIDE DEF t
<1>3. /\ Len(s) \in Nat /\ DOMAIN s = 1 .. Len(s) /\ DOMAIN t = 1 .. Len(t)
      /\ \A y : y \in ToSet(s) <=> \E i \in 1 .. Len(s) : s[i] = y
  BY SeqIs
<1>4. \A i \in 1 .. Len(t) : i = 1 \/ (i - 1 \in 1 .. Len(s) /\ 1 + (i - 1) = i)
  BY <1>2, <1>3
<1>5. \A i \in 1 .. Len(t) : i = 1 \/ (i - 1 \in 1 .. Len(s) /\ t[i] = s[i - 1])
  BY <1>2, <1>4
<1>6. \A i \in 1 .. Len(t) : i # 1 => t[i] # x
  BY <1>3, <1>5
<1>7. ASSUME NEW i \in 1 .. Len(t), NEW j \in 1 .. Len(t), t[i] = t[j] PROVE i = j
  <2>1. CASE i = 1 \/ j = 1
    BY <1>2, <1>6, <1>7, <2>1
  <2>2. CASE i # 1 /\ j # 1
    <3>1. i - 1 \in DOMAIN s /\ j - 1 \in DOMAIN s /\ s[i - 1] = s[j - 1]
      BY <1>3, <1>5, <1>7, <2>2
    <3>2. i - 1 = j - 1
      BY <3>1 DEF IsInjective
    <3> QED
      BY <3>2
  <2> QED
    BY <2>1, <2>2
<1>8. IsInjective(t)
  BY <1>3, <1>7 DEF IsInjective
<1> QED
  BY <1>1, <1>8 DEF t, h

\* Joining nothing, one or two elements to a sequence is appending them.
LEMMA Joins ==
  ASSUME NEW S, NEW s \in Seq(S)
  PROVE  /\ s \o <<>> = s
         /\ \A x \in S : s \o <<x>> = Append(s, x)
         /\ \A x, y \in S : s \o <<x, y>> = Append(Append(s, x), y)
<1>1. s \o <<>> = s
  BY ConcatEmptySeq
<1>2. ASSUME NEW x \in S PROVE s \o <<x>> = Append(s, x)
  BY <1>2, AppendIsConcat
<1>3. ASSUME NEW x \in S, NEW y \in S PROVE s \o <<x, y>> = Append(Append(s, x), y)
  <2>1. <<x, y>> = <<x>> \o <<y>> /\ <<x>> \in Seq(S) /\ <<y>> \in Seq(S)
    <3>1. <<x>> \in Seq(S) /\ <<y>> \in Seq(S)
      OBVIOUS
    <3>2. Append(<<x>>, y) = <<x, y>>
      <4>1. /\ <<x, y>> \in Seq(S) /\ Len(<<x, y>>) = 2
            /\ <<x, y>>[1] = x /\ <<x, y>>[2] = y
        OBVIOUS
      <4>2. Len(<<x>>) = 1 /\ <<x>>[1] = x
        OBVIOUS
      <4>3. PICK o \in Seq(S) : o = <<x>>
        BY <3>1
      <4>4. PICK t \in Seq(S) : t = <<x, y>>
        BY <4>1
      <4>5. /\ Append(o, y) \in Seq(S) /\ Len(Append(o, y)) = 2
            /\ Append(o, y)[1] = x /\ Append(o, y)[2] = y
        <5>1. Len(o) = 1 /\ o[1] = x
          BY <4>2, <4>3
        <5>2. /\ Append(o, y) \in Seq(S) /\ Len(Append(o, y)) = Len(o) + 1
              /\ Append(o, y)[Len(o) + 1] = y
          BY Pushed
        <5>3. \A i \in 1 .. Len(o) : Append(o, y)[i] = o[i]
          BY Pushed
        <5> QED
          BY <5>1, <5>2, <5>3
      <4>6. Len(t) = 2 /\ t[1] = x /\ t[2] = y
        BY <4>1, <4>4
      <4>7. Append(o, y) = t
        BY <4>5, <4>6, SeqEqual
      <4> QED
        BY <4>3, <4>4, <4>7, Zenon
    <3> QED
      BY <3>1, <3>2, AppendIsConcat
  <2>2. (s \o <<x>>) \o <<y>> = s \o (<<x>> \o <<y>>)
    BY <2>1, ConcatAssociative
  <2>3. s \o <<x>> = Append(s, x) /\ Append(s, x) \in Seq(S)
    BY <1>2, Pushed
  <2>4. Append(s, x) \o <<y>> = Append(Append(s, x), y)
    BY <2>3, AppendIsConcat
  <2> QED
    BY <2>1, <2>2, <2>3, <2>4
<1> QED
  BY <1>1, <1>2, <1>3

-----------------------------------------------------------------------------
(***************************************************************************)
(* Calls.                                                                  *)
(***************************************************************************)
\* What the calls are, by their kinds.
LEMMA Frames ==
  ASSUME NEW f \in Frame
  PROVE  /\ f.at \in {"instant", "remaining", "sync", "error", "eval", "body"}
         /\ f.at \in {"instant", "remaining"} => f.q \in 0 .. 2
         /\ f.at = "error" => f.n \in 0 .. ErrorSets
         /\ f.at = "eval" => f.id \in EntryId /\ f.res \in Value /\ f.waited \in BOOLEAN
         /\ f.at = "body" => f.id \in EntryId /\ f.agent \in Agent /\ f.waited \in BOOLEAN
BY DEF Frame, Sync

\* The calls the actions make.
LEMMA Makes ==
  /\ \A q \in 0 .. 2 : Instant(q) \in Frame /\ Instant(q).at = "instant" /\ Instant(q).q = q
  /\ \A q \in 0 .. 2 : Remaining(q) \in Frame /\ Remaining(q).at = "remaining" /\ Remaining(q).q = q
  /\ Sync \in Frame /\ Sync.at = "sync"
  /\ \A n \in 0 .. ErrorSets : Failing(n) \in Frame /\ Failing(n).at = "error"
  /\ \A i \in EntryId, v \in Value, w \in BOOLEAN :
       /\ Evaluation(i, v, w) \in Frame /\ Evaluation(i, v, w).at = "eval"
       /\ Evaluation(i, v, w).id = i /\ Evaluation(i, v, w).waited = w
  /\ \A i \in EntryId, a \in Agent :
       Body(i, a) \in Frame /\ Body(i, a).at = "body" /\ Body(i, a).agent = a
<1>1. \A q \in 0 .. 2 : Instant(q) \in Frame /\ Instant(q).at = "instant" /\ Instant(q).q = q
  BY DEF Frame, Instant
<1>2. \A q \in 0 .. 2 : Remaining(q) \in Frame /\ Remaining(q).at = "remaining" /\ Remaining(q).q = q
  BY DEF Frame, Remaining
<1>3. Sync \in Frame /\ Sync.at = "sync"
  BY DEF Frame, Sync
<1>4. \A n \in 0 .. ErrorSets : Failing(n) \in Frame /\ Failing(n).at = "error"
  BY DEF Frame, Failing
<1>5. \A i \in EntryId, v \in Value, w \in BOOLEAN :
         /\ Evaluation(i, v, w) \in Frame /\ Evaluation(i, v, w).at = "eval"
         /\ Evaluation(i, v, w).id = i /\ Evaluation(i, v, w).waited = w
  BY DEF Frame, Evaluation
<1>6. \A i \in EntryId, a \in Agent :
         Body(i, a) \in Frame /\ Body(i, a).at = "body" /\ Body(i, a).agent = a
  BY DEF Frame, Body
<1> QED
  BY <1>1, <1>2, <1>3, <1>4, <1>5, <1>6

\* Calls that all may be below others.
AllBelow(st) == \A j \in 1 .. Len(st) : MayBeBelow(st[j])

\* Outside of an instant there are only synchronous operations.
LEMMA OnlySyncs ==
  ASSUME NEW st \in Seq(Frame), Nested(st), NoInstant(st)
  PROVE  AllBelow(st)
<1>1. \A j \in 1 .. Len(st) : st[j].at = "sync"
  BY SeqIs DEF Nested, NoInstant
<1> QED
  BY <1>1 DEF AllBelow, MayBeBelow, IsLoop

\* Calls may be below others if the innermost may.
LEMMA TopBelow ==
  ASSUME NEW st \in Seq(Frame), Nested(st), st # <<>> => MayBeBelow(Last(st))
  PROVE  AllBelow(st)
<1>1. Len(st) \in Nat /\ (Len(st) # 0 => st # <<>> /\ Last(st) = st[Len(st)])
  BY SeqIs, Popped, EmptySeq
<1> SUFFICES ASSUME NEW j \in 1 .. Len(st) PROVE MayBeBelow(st[j])
  BY DEF AllBelow
<1>2. CASE j = Len(st)
  BY <1>1, <1>2
<1>3. CASE j # Len(st)
  <2>1. j \in 1 .. Len(st) - 1
    BY <1>1, <1>3
  <2> QED
    BY <2>1 DEF Nested
<1> QED
  BY <1>2, <1>3

\* A call made.
LEMMA NestedPushed ==
  ASSUME NEW st \in Seq(Frame), Nested(st), AllBelow(st), NEW f \in Frame,
         f.at = "instant" => NoInstant(st),
         f.at \notin {"instant", "sync"} => ~NoInstant(st)
  PROVE  /\ Append(st, f) \in Seq(Frame) /\ Append(st, f) # <<>>
         /\ Nested(Append(st, f))
         /\ NoInstant(Append(st, f)) <=> NoInstant(st) /\ f.at # "instant"
         /\ Last(Append(st, f)) = f
<1> DEFINE t == Append(st, f)
           n == Len(st)
<1>1. /\ t \in Seq(Frame) /\ t # <<>> /\ n \in Nat /\ Len(t) = n + 1
      /\ \A i \in 1 .. n : t[i] = st[i]
      /\ t[n + 1] = f /\ Last(t) = f
  BY Pushed, SeqIs
<1> HIDE DEF t, n
<1>2. /\ \A i, j \in 1 .. n : st[i].at = "instant" /\ st[j].at = "instant" => i = j
      /\ \A j \in 1 .. n :
           st[j].at \notin {"instant", "sync"} => \E i \in 1 .. n : i < j /\ st[i].at = "instant"
      /\ \A j \in 1 .. n : MayBeBelow(st[j])
      /\ f.at = "instant" => \A i \in 1 .. n : st[i].at # "instant"
      /\ f.at \notin {"instant", "sync"} => \E i \in 1 .. n : st[i].at = "instant"
  BY DEF Nested, AllBelow, NoInstant, n
<1>3. \A j \in 1 .. n + 1 : j \in 1 .. n \/ j = n + 1
  BY <1>1
<1>4. NoInstant(t) <=> NoInstant(st) /\ f.at # "instant"
  <2>1. ASSUME NoInstant(t) PROVE NoInstant(st) /\ f.at # "instant"
    <3>1. /\ \A i \in 1 .. n + 1 : t[i].at # "instant"
          /\ n + 1 \in 1 .. n + 1 /\ \A i \in 1 .. n : i \in 1 .. n + 1
      BY <2>1, <1>1 DEF NoInstant
    <3> QED
      BY <1>1, <3>1 DEF NoInstant, n
  <2>2. ASSUME NoInstant(st), f.at # "instant" PROVE NoInstant(t)
    BY <2>2, <1>1, <1>3 DEF NoInstant, n
  <2> QED
    BY <2>1, <2>2
<1>5. ASSUME NEW i \in 1 .. n + 1, NEW j \in 1 .. n + 1,
             t[i].at = "instant", t[j].at = "instant"
      PROVE  i = j
  BY <1>1, <1>2, <1>3, <1>5
<1>6. ASSUME NEW j \in 1 .. n + 1, t[j].at \notin {"instant", "sync"}
      PROVE  \E i \in 1 .. n + 1 : i < j /\ t[i].at = "instant"
  <2>1. \E i \in 1 .. n : i < j /\ st[i].at = "instant"
    <3>1. CASE j \in 1 .. n
      BY <3>1, <1>1, <1>2, <1>6
    <3>2. CASE j = n + 1
      <4>1. \E i \in 1 .. n : st[i].at = "instant"
        BY <3>2, <1>1, <1>2, <1>6
      <4> QED
        BY <4>1, <3>2, <1>1
    <3> QED
      BY <3>1, <3>2, <1>3
  <2> QED
    BY <2>1, <1>1
<1>7. \A j \in 1 .. (n + 1) - 1 : MayBeBelow(t[j])
  BY <1>1, <1>2
<1>8. Nested(t)
  BY <1>1, <1>5, <1>6, <1>7 DEF Nested
<1> QED
  BY <1>1, <1>4, <1>8 DEF t

\* A call that returns.
LEMMA NestedPopped ==
  ASSUME NEW st \in Seq(Frame), Nested(st), st # <<>>
  PROVE  /\ Front(st) \in Seq(Frame) /\ Nested(Front(st)) /\ AllBelow(Front(st))
         /\ Last(st) \in Frame
         /\ Last(st).at # "instant" => (NoInstant(Front(st)) <=> NoInstant(st))
         /\ Last(st).at = "instant" => NoInstant(Front(st)) /\ ~NoInstant(st)
<1> DEFINE t == Front(st)
           n == Len(st)
<1>1. /\ t \in Seq(Frame) /\ n \in Nat \ {0} /\ Len(t) = n - 1
      /\ \A i \in 1 .. n - 1 : t[i] = st[i]
      /\ Last(st) = st[n] /\ Last(st) \in Frame
  BY Popped
<1> HIDE DEF t, n
<1>2. /\ \A i, j \in 1 .. n : st[i].at = "instant" /\ st[j].at = "instant" => i = j
      /\ \A j \in 1 .. n :
           st[j].at \notin {"instant", "sync"} => \E i \in 1 .. n : i < j /\ st[i].at = "instant"
      /\ \A j \in 1 .. n - 1 : MayBeBelow(st[j])
  BY DEF Nested, n
<1>3. /\ \A j \in 1 .. n - 1 : j \in 1 .. n /\ j # n
      /\ \A j \in 1 .. n : j \in 1 .. n - 1 \/ j = n
      /\ n \in 1 .. n
  BY <1>1
<1>4. AllBelow(t)
  BY <1>1, <1>2 DEF AllBelow
<1>5. ASSUME NEW j \in 1 .. n - 1, t[j].at \notin {"instant", "sync"}
      PROVE  \E i \in 1 .. n - 1 : i < j /\ t[i].at = "instant"
  <2>1. PICK i \in 1 .. n : i < j /\ st[i].at = "instant"
    BY <1>1, <1>2, <1>3, <1>5
  <2>2. i \in 1 .. n - 1
    BY <2>1, <1>1
  <2> QED
    BY <2>1, <2>2, <1>1
<1>6. Nested(t)
  <2>1. \A i, j \in 1 .. n - 1 : t[i].at = "instant" /\ t[j].at = "instant" => i = j
    BY <1>1, <1>2, <1>3
  <2>2. \A j \in 1 .. (n - 1) - 1 : MayBeBelow(t[j])
    <3>1. \A j \in 1 .. (n - 1) - 1 : j \in 1 .. n - 1
      BY <1>1
    <3> QED
      BY <3>1, <1>1, <1>2
  <2> QED
    BY <1>1, <1>5, <2>1, <2>2 DEF Nested
<1>7. ASSUME Last(st).at # "instant" PROVE NoInstant(t) <=> NoInstant(st)
  BY <1>1, <1>3, <1>7 DEF NoInstant, n
<1>8. ASSUME Last(st).at = "instant" PROVE NoInstant(t) /\ ~NoInstant(st)
  BY <1>1, <1>2, <1>3, <1>8 DEF NoInstant, n
<1> QED
  BY <1>1, <1>4, <1>6, <1>7, <1>8 DEF t

\* A call that may be below others goes on with whatever there is.
LEMMA GoesOn ==
  ASSUME NEW f, MayBeBelow(f), NEW es, NEW al, NEW q1, NEW q2
  PROVE  Fresh(es, al, f) /\ Phase(f, q1, q2)
BY DEF MayBeBelow, Fresh, Phase, IsLoop

LEMMA TopGoesOn ==
  ASSUME NEW st \in Seq(Frame), AllBelow(st), NEW es, NEW al, NEW q1, NEW q2
  PROVE  Innermost(st, es, al, q1, q2)
<1>1. st # <<>> => Len(st) \in 1 .. Len(st) /\ Last(st) = st[Len(st)]
  <2> SUFFICES ASSUME st # <<>> PROVE Len(st) \in 1 .. Len(st) /\ Last(st) = st[Len(st)]
    OBVIOUS
  <2>1. Len(st) \in Nat \ {0} /\ Last(st) = st[Len(st)]
    BY Popped
  <2> QED
    BY <2>1
<1>2. st # <<>> => MayBeBelow(Last(st))
  BY <1>1 DEF AllBelow
<1> QED
  BY <1>2, GoesOn DEF Innermost

-----------------------------------------------------------------------------
(***************************************************************************)
(* What steps have in common.                                              *)
(***************************************************************************)
\* The events of each queue.
LEMMA EventsOf ==
  /\ Event(0) = [type : {"SET"}, attr : Attr, v : Value] \cup [type : {"DEFINE"}, id : EntryId]
                \cup {OtherSet}
  /\ Event(1) = EntryId
  /\ Event(2) = [attr : Attr, id : EntryId]
<1>1. Event(0) = [type : {"SET"}, attr : Attr, v : Value] \cup [type : {"DEFINE"}, id : EntryId]
                 \cup {OtherSet}
  BY DEF Event
<1>2. \A x : x \in Event(1) <=> x \in EntryId
  BY DEF Event
<1>3. \A x : x \in Event(2) <=> x \in [attr : Attr, id : EntryId]
  BY DEF Event
<1> QED
  BY <1>1, <1>2, <1>3, Zenon

LEMMA Parts ==
  ASSUME CallsInv
  PROVE  /\ EntriesFit(entries, alive, ops) /\ alive \subseteq Agent
         /\ val \in [Attr -> Value] /\ deps \in [Attr -> Seq(EntryId)]
         /\ QueuesFit(queue) /\ queue[0] \in Seq(Event(0))
         /\ queue[1] \in Seq(EntryId) /\ queue[2] \in Seq([attr : Attr, id : EntryId])
         /\ stack \in Seq(Frame) /\ curq \in -1 .. 2 /\ Nested(stack)
         /\ Between(stack, curq, queue[1], queue[2])
         /\ Innermost(stack, entries, alive, queue[1], queue[2])
         /\ ops \in 0 .. MaxOps
         /\ Idle <=> NoInstant(stack)
<1>1. stack \in Seq(Frame) /\ QueuesFit(queue)
  BY DEF CallsInv, CallsFit
<1>2. DOMAIN stack = 1 .. Len(stack) /\ \A f : f \in ToSet(stack) <=> \E i \in 1 .. Len(stack) : stack[i] = f
  BY <1>1, SeqIs
<1>3. Idle <=> NoInstant(stack)
  BY <1>2 DEF Idle, NoInstant
<1>4. \A k \in 0 .. 2 : queue[k] \in Seq(Event(k))
  BY <1>1 DEF QueuesFit
<1>5. queue[1] \in Seq(Event(1)) /\ queue[2] \in Seq(Event(2))
  BY <1>4
<1>6. queue[1] \in Seq(EntryId) /\ queue[2] \in Seq([attr : Attr, id : EntryId])
  BY <1>5, EventsOf, Zenon
<1> QED
  BY <1>3, <1>4, <1>6 DEF CallsInv, CallsFit

LEMMA Assembled ==
  ASSUME EntriesFit(entries', alive', ops'), alive' \subseteq Agent,
         val' \in [Attr -> Value], deps' \in [Attr -> Seq(EntryId)],
         QueuesFit(queue'), ops' \in 0 .. MaxOps,
         CallsFit(stack', curq', entries', alive', queue'[1], queue'[2])
  PROVE  CallsInv'
BY DEF CallsInv

\* A step that leaves the table, the agents and the attributes alone.
LEMMA StoreKept ==
  ASSUME CallsInv, UNCHANGED store, EntriesFit(entries, alive, ops'), ops' \in 0 .. MaxOps,
         QueuesFit(queue'), CallsFit(stack', curq', entries, alive, queue'[1], queue'[2])
  PROVE  CallsInv'
<1>1. entries' = entries /\ alive' = alive /\ val' = val /\ deps' = deps
  BY DEF store
<1>2. alive \subseteq Agent /\ val \in [Attr -> Value] /\ deps \in [Attr -> Seq(EntryId)]
  BY Parts
<1> QED
  BY <1>1, <1>2, Assembled

\* Queue k with other contents.
LEMMA QueueSet ==
  ASSUME NEW q, QueuesFit(q), NEW k \in 0 .. 2, NEW s \in Seq(Event(k))
  PROVE  /\ QueuesFit([q EXCEPT ![k] = s])
         /\ [q EXCEPT ![k] = s][k] = s
         /\ \A j \in 0 .. 2 : j # k => [q EXCEPT ![k] = s][j] = q[j]
<1>1. /\ \A j \in 0 .. 2 : q[j] \in Seq(Event(j))
      /\ q = [j \in 0 .. 2 |-> q[j]]
  BY DEF QueuesFit
<1> DEFINE r == [q EXCEPT ![k] = s]
<1>2. r = [j \in 0 .. 2 |-> r[j]] /\ r[k] = s /\ \A j \in 0 .. 2 : j # k => r[j] = q[j]
  BY <1>1
<1> HIDE DEF r
<1>3. QueuesFit(r)
  BY <1>1, <1>2 DEF QueuesFit
<1> QED
  BY <1>2, <1>3 DEF r

\* An event added to queue k, and the first of it taken away.
Queued(q, k, e) == [q EXCEPT ![k] = Append(@, e)]

LEMMA Queueing ==
  ASSUME NEW q, QueuesFit(q), NEW k \in 0 .. 2, NEW e \in Event(k)
  PROVE  /\ QueuesFit(Queued(q, k, e)) /\ Queued(q, k, e)[k] = Append(q[k], e)
         /\ \A j \in 0 .. 2 : j # k => Queued(q, k, e)[j] = q[j]
<1>1. PICK s \in Seq(Event(k)) : s = Append(q[k], e)
  BY Pushed DEF QueuesFit
<1>2. /\ QueuesFit([q EXCEPT ![k] = s]) /\ [q EXCEPT ![k] = s][k] = s
      /\ \A j \in 0 .. 2 : j # k => [q EXCEPT ![k] = s][j] = q[j]
  BY QueueSet
<1>3. Queued(q, k, e) = [q EXCEPT ![k] = s]
  BY <1>1 DEF Queued
<1> QED
  BY <1>1, <1>2, <1>3

LEMMA Taking ==
  ASSUME QueuesFit(queue), NEW k \in 0 .. 2, queue[k] # <<>>
  PROVE  /\ QueuesFit(Taken(k)) /\ Head(queue[k]) \in Event(k)
         /\ Taken(k)[k] = Tail(queue[k])
         /\ \A j \in 0 .. 2 : j # k => Taken(k)[j] = queue[j]
<1>1. queue[k] \in Seq(Event(k))
  BY DEF QueuesFit
<1>2. PICK s \in Seq(Event(k)) : s = Tail(queue[k])
  BY <1>1, Shortened
<1>3. /\ QueuesFit([queue EXCEPT ![k] = s]) /\ [queue EXCEPT ![k] = s][k] = s
      /\ \A j \in 0 .. 2 : j # k => [queue EXCEPT ![k] = s][j] = queue[j]
  BY QueueSet
<1>4. Taken(k) = [queue EXCEPT ![k] = s]
  BY <1>2 DEF Taken
<1>5. Head(queue[k]) \in Event(k)
  BY <1>1, Shortened
<1> QED
  BY <1>2, <1>3, <1>4, <1>5

\* What the handlers find in their queues.
LEMMA Events ==
  /\ \A x \in Attr, v \in Value : SetEvent(x, v) \in Event(0)
  /\ \A i \in EntryId : DefineEvent(i) \in Event(0)
  /\ OtherSet \in Event(0)
  /\ \A i \in EntryId : i \in Event(1)
  /\ \A x \in Attr, i \in EntryId : Dep(x, i) \in Event(2)
  /\ \A e \in Event(0) : /\ e.type = "SET" => e.attr \in Attr /\ e.v \in Value
                         /\ e.type = "DEFINE" => e.id \in EntryId /\ e = DefineEvent(e.id)
  /\ \A i \in Event(1) : i \in EntryId
  /\ \A e \in Event(2) : e.attr \in Attr /\ e.id \in EntryId /\ e = Dep(e.attr, e.id)
<1>1. Event(0) = [type : {"SET"}, attr : Attr, v : Value] \cup [type : {"DEFINE"}, id : EntryId]
                 \cup {OtherSet}
  BY EventsOf
<1>2. Event(1) = EntryId /\ Event(2) = [attr : Attr, id : EntryId]
  BY EventsOf
<1>3. /\ \A x \in Attr, v \in Value : SetEvent(x, v) \in [type : {"SET"}, attr : Attr, v : Value]
      /\ \A i \in EntryId : DefineEvent(i) \in [type : {"DEFINE"}, id : EntryId]
      /\ \A x \in Attr, i \in EntryId : Dep(x, i) \in [attr : Attr, id : EntryId]
  BY DEF SetEvent, DefineEvent, Dep
<1>4. ASSUME NEW e \in Event(0)
      PROVE  /\ e.type = "SET" => e.attr \in Attr /\ e.v \in Value
             /\ e.type = "DEFINE" => e.id \in EntryId /\ e = DefineEvent(e.id)
  BY <1>1 DEF OtherSet, DefineEvent
<1>5. ASSUME NEW e \in Event(2)
      PROVE  e.attr \in Attr /\ e.id \in EntryId /\ e = Dep(e.attr, e.id)
  <2>1. e \in [attr : Attr, id : EntryId]
    BY <1>2
  <2> QED
    BY <2>1 DEF Dep
<1> QED
  BY <1>1, <1>2, <1>3, <1>4, <1>5

\* processInstant with the calls c, which hold an instant if those in progress do.
LEMMA ProcessFits ==
  ASSUME CallsInv, NEW c \in Seq(Frame), Nested(c), NoInstant(c) <=> NoInstant(stack),
         ProcessInstant(c), NEW es, NEW al, Innermost(c, es, al, queue[1], queue[2])
  PROVE  CallsFit(stack', curq', es, al, queue[1], queue[2])
<1>1. /\ Between(stack, curq, queue[1], queue[2]) /\ curq \in -1 .. 2
      /\ Idle <=> NoInstant(stack)
  BY Parts
<1>2. CASE Idle
  <2>1. NoInstant(c) /\ stack' = Append(c, Instant(0)) /\ curq' = 0
    BY <1>1, <1>2 DEF ProcessInstant
  <2>2. AllBelow(c)
    BY <2>1, OnlySyncs
  <2>3. PICK f \in Frame : f = Instant(0) /\ f.at = "instant" /\ f.q = 0
    BY Makes
  <2>4. /\ Append(c, f) \in Seq(Frame) /\ Nested(Append(c, f)) /\ ~NoInstant(Append(c, f))
        /\ Last(Append(c, f)) = f
    BY <2>1, <2>2, <2>3, NestedPushed
  <2>5. queue[2] = <<>>
    BY <1>1, <1>2 DEF Between
  <2>6. Innermost(Append(c, f), es, al, queue[1], queue[2])
    BY <2>3, <2>4, <2>5 DEF Innermost, Fresh, Phase
  <2>7. stack' = Append(c, f)
    BY <2>1, <2>3
  <2> QED
    BY <2>1, <2>4, <2>6, <2>7 DEF CallsFit, Between
<1>3. CASE ~Idle
  <2>1. stack' = c /\ curq' = curq
    BY <1>3 DEF ProcessInstant
  <2> QED
    BY <2>1, <1>1, <1>3 DEF CallsFit, Between
<1> QED
  BY <1>2, <1>3

\* The same with an event queued for the sets before.
LEMMA SentFits ==
  ASSUME CallsInv, NEW c \in Seq(Frame), Nested(c), NoInstant(c) <=> NoInstant(stack),
         NEW e \in Event(0), Sent(c, 0, e),
         NEW es, NEW al, Innermost(c, es, al, queue[1], queue[2])
  PROVE  /\ QueuesFit(queue') /\ queue'[0] = Append(queue[0], e)
         /\ queue'[1] = queue[1] /\ queue'[2] = queue[2]
         /\ CallsFit(stack', curq', es, al, queue'[1], queue'[2])
<1>1. QueuesFit(queue)
  BY Parts
<1>2. queue' = [queue EXCEPT ![0] = Append(@, e)] /\ ProcessInstant(c)
  BY DEF Sent
<1>3. QueuesFit(queue') /\ queue'[1] = queue[1] /\ queue'[2] = queue[2]
      /\ queue'[0] = Append(queue[0], e)
  <2>1. queue' = Queued(queue, 0, e)
    BY <1>2 DEF Queued
  <2>2. /\ QueuesFit(Queued(queue, 0, e)) /\ Queued(queue, 0, e)[0] = Append(queue[0], e)
        /\ \A j \in 0 .. 2 : j # 0 => Queued(queue, 0, e)[j] = queue[j]
    BY <1>1, Queueing
  <2> QED
    BY <2>1, <2>2
<1>4. CallsFit(stack', curq', es, al, queue[1], queue[2])
  BY <1>2, ProcessFits
<1> QED
  BY <1>3, <1>4

\* A call that returns while the queues stay as they are.
LEMMA PopFits ==
  ASSUME CallsInv, stack # <<>>, Top.at # "instant", NEW es, NEW al
  PROVE  /\ Front(stack) \in Seq(Frame) /\ Nested(Front(stack)) /\ AllBelow(Front(stack))
         /\ NoInstant(Front(stack)) <=> NoInstant(stack)
         /\ Innermost(Front(stack), es, al, queue[1], queue[2])
         /\ CallsFit(Front(stack), curq, es, al, queue[1], queue[2])
<1>1. /\ stack \in Seq(Frame) /\ Nested(stack) /\ curq \in -1 .. 2
      /\ Between(stack, curq, queue[1], queue[2])
  BY Parts
<1>2. /\ Front(stack) \in Seq(Frame) /\ Nested(Front(stack)) /\ AllBelow(Front(stack))
      /\ NoInstant(Front(stack)) <=> NoInstant(stack)
  BY <1>1, NestedPopped DEF Top
<1>3. Innermost(Front(stack), es, al, queue[1], queue[2])
  BY <1>2, TopGoesOn
<1> QED
  BY <1>1, <1>2, <1>3 DEF CallsFit, Between

-----------------------------------------------------------------------------
(***************************************************************************)
(* The table.                                                              *)
(***************************************************************************)
LEMMA RecordNotRemoved ==
  ASSUME NEW r \in EntryRecord
  PROVE  r # Removed
<1>1. "agent" \in DOMAIN r
  BY DEF EntryRecord
<1>2. "agent" \notin DOMAIN Removed
  BY DEF Removed
<1> QED
  BY <1>1, <1>2

\* An entry that is there.
LEMMA LiveEntry ==
  ASSUME NEW es, NEW al, NEW n, EntriesFit(es, al, n), NEW i \in Nat, LiveIn(es, i)
  PROVE  /\ i + 1 \in 1 .. Len(es) /\ es[i + 1] \in EntryRecord
         /\ es[i + 1].agent \in al /\ es[i + 1].asked <= n /\ i \in EntryId
<1>1. /\ es \in Seq(EntryRecord \cup {Removed}) /\ Len(es) <= MaxEntries
      /\ \A j \in 1 .. Len(es) : es[j] # Removed => es[j].agent \in al /\ es[j].asked <= n
  BY DEF EntriesFit
<1>2. Len(es) \in Nat /\ \A j \in 1 .. Len(es) : es[j] \in EntryRecord \cup {Removed}
  BY <1>1, SeqIs
<1>3. i < Len(es) /\ es[i + 1] # Removed
  BY DEF LiveIn
<1>4. i + 1 \in 1 .. Len(es) /\ i \in EntryId
  BY <1>1, <1>2, <1>3, BoundsAssumption DEF EntryId
<1> QED
  BY <1>1, <1>2, <1>3, <1>4

\* Operations only make more of them possible.
LEMMA EntriesLater ==
  ASSUME NEW es, NEW al, NEW n \in Nat, EntriesFit(es, al, n)
  PROVE  EntriesFit(es, al, n + 1)
<1>1. /\ es \in Seq(EntryRecord \cup {Removed}) /\ Len(es) <= MaxEntries
      /\ \A j \in 1 .. Len(es) : es[j] # Removed => es[j].agent \in al /\ es[j].asked <= n
  BY DEF EntriesFit
<1>2. \A j \in 1 .. Len(es) : es[j] \in EntryRecord \cup {Removed}
  BY <1>1, SeqIs
<1>3. \A r \in EntryRecord : r.asked \in Int
  BY DEF EntryRecord
<1>4. ASSUME NEW j \in 1 .. Len(es), es[j] # Removed PROVE es[j].agent \in al /\ es[j].asked <= n + 1
  <2>1. es[j].asked \in Int /\ es[j].asked <= n /\ es[j].agent \in al
    BY <1>1, <1>2, <1>3, <1>4
  <2> QED
    BY <2>1
<1> QED
  BY <1>1, <1>4 DEF EntriesFit

\* Entry i changed to r.
Put(es, i, r) == [es EXCEPT ![i + 1] = r]

LEMMA EntrySet ==
  ASSUME NEW es, NEW al, NEW n, EntriesFit(es, al, n), NEW i \in Nat, LiveIn(es, i),
         NEW r \in EntryRecord, r.agent \in al, r.asked <= n
  PROVE  /\ EntriesFit(Put(es, i, r), al, n)
         /\ Len(Put(es, i, r)) = Len(es)
         /\ Put(es, i, r)[i + 1] = r
         /\ \A j \in 1 .. Len(es) : j # i + 1 => Put(es, i, r)[j] = es[j]
         /\ \A j \in Nat : LiveIn(Put(es, i, r), j) <=> LiveIn(es, j)
<1> DEFINE t == Put(es, i, r)
<1>1. /\ es \in Seq(EntryRecord \cup {Removed}) /\ Len(es) <= MaxEntries
      /\ \A j \in 1 .. Len(es) : es[j] # Removed => es[j].agent \in al /\ es[j].asked <= n
  BY DEF EntriesFit
<1>2. Len(es) \in Nat /\ i + 1 \in 1 .. Len(es) /\ es[i + 1] # Removed
  BY <1>1, SeqIs, LiveEntry DEF LiveIn
<1>3. /\ t \in Seq(EntryRecord \cup {Removed}) /\ Len(t) = Len(es) /\ t[i + 1] = r
      /\ \A j \in 1 .. Len(es) : j # i + 1 => t[j] = es[j]
  <2>1. r \in EntryRecord \cup {Removed}
    OBVIOUS
  <2> QED
    BY <1>1, <1>2, <2>1, ExceptSeq DEF Put
<1> HIDE DEF t
<1>4. r # Removed
  BY RecordNotRemoved
<1>5. EntriesFit(t, al, n)
  BY <1>1, <1>2, <1>3 DEF EntriesFit
<1>6. ASSUME NEW j \in Nat PROVE LiveIn(t, j) <=> LiveIn(es, j)
  <2>1. CASE j = i
    BY <2>1, <1>2, <1>3, <1>4 DEF LiveIn
  <2>2. CASE j # i /\ j < Len(es)
    <3>1. j + 1 \in 1 .. Len(es) /\ j + 1 # i + 1
      BY <2>2, <1>2
    <3> QED
      BY <2>2, <3>1, <1>3 DEF LiveIn
  <2>3. CASE ~(j < Len(es))
    BY <2>3, <1>3 DEF LiveIn
  <2> QED
    BY <2>1, <2>2, <2>3
<1> QED
  BY <1>3, <1>5, <1>6 DEF t

\* An entry added.
LEMMA EntryAdded ==
  ASSUME NEW es, NEW al, NEW n, EntriesFit(es, al, n), Len(es) < MaxEntries,
         NEW r \in EntryRecord, r.agent \in al, r.asked <= n
  PROVE  /\ EntriesFit(Append(es, r), al, n)
         /\ Len(Append(es, r)) = Len(es) + 1 /\ Len(es) \in EntryId
         /\ Append(es, r)[Len(es) + 1] = r
         /\ \A j \in 1 .. Len(es) : Append(es, r)[j] = es[j]
         /\ \A j \in Nat : LiveIn(Append(es, r), j) <=> LiveIn(es, j) \/ j = Len(es)
<1> DEFINE t == Append(es, r)
<1>1. /\ es \in Seq(EntryRecord \cup {Removed}) /\ Len(es) <= MaxEntries
      /\ \A j \in 1 .. Len(es) : es[j] # Removed => es[j].agent \in al /\ es[j].asked <= n
  BY DEF EntriesFit
<1>2. Len(es) \in Nat /\ r \in EntryRecord \cup {Removed}
  BY <1>1, SeqIs
<1>3. /\ t \in Seq(EntryRecord \cup {Removed}) /\ Len(t) = Len(es) + 1 /\ t[Len(es) + 1] = r
      /\ \A j \in 1 .. Len(es) : t[j] = es[j]
  BY <1>1, <1>2, Pushed
<1> HIDE DEF t
<1>4. r # Removed
  BY RecordNotRemoved
<1>5. Len(es) \in EntryId /\ Len(es) + 1 <= MaxEntries
  BY <1>2, BoundsAssumption DEF EntryId
<1>6. \A j \in 1 .. Len(es) + 1 : j \in 1 .. Len(es) \/ j = Len(es) + 1
  BY <1>2
<1>7. EntriesFit(t, al, n)
  BY <1>1, <1>3, <1>5, <1>6 DEF EntriesFit
<1>8. ASSUME NEW j \in Nat PROVE LiveIn(t, j) <=> LiveIn(es, j) \/ j = Len(es)
  <2>1. CASE j = Len(es)
    BY <2>1, <1>2, <1>3, <1>4 DEF LiveIn
  <2>2. CASE j < Len(es)
    <3>1. j + 1 \in 1 .. Len(es) /\ j < Len(t)
      BY <2>2, <1>2, <1>3
    <3> QED
      BY <2>2, <3>1, <1>3 DEF LiveIn
  <2>3. CASE j > Len(es)
    BY <2>3, <1>2, <1>3 DEF LiveIn
  <2> QED
    BY <2>1, <2>2, <2>3, <1>2
<1> QED
  BY <1>3, <1>5, <1>7, <1>8 DEF t

\* The entries of agent a set to 0.
Cleared(es, a) == [j \in DOMAIN es |->
                     IF es[j] # Removed /\ es[j].agent = a THEN Removed ELSE es[j]]

LEMMA EntriesRemoved ==
  ASSUME NEW es, NEW al, NEW n, EntriesFit(es, al, n), NEW a
  PROVE  /\ EntriesFit(Cleared(es, a), al \ {a}, n)
         /\ Len(Cleared(es, a)) = Len(es)
         /\ \A j \in Nat : LiveIn(Cleared(es, a), j) =>
              LiveIn(es, j) /\ Cleared(es, a)[j + 1] = es[j + 1]
<1> DEFINE t == Cleared(es, a)
<1>1. /\ es \in Seq(EntryRecord \cup {Removed}) /\ Len(es) <= MaxEntries
      /\ \A j \in 1 .. Len(es) : es[j] # Removed => es[j].agent \in al /\ es[j].asked <= n
  BY DEF EntriesFit
<1>2. /\ Len(es) \in Nat /\ DOMAIN es = 1 .. Len(es)
      /\ \A j \in 1 .. Len(es) : es[j] \in EntryRecord \cup {Removed}
  BY <1>1, SeqIs
<1>3. t = [j \in 1 .. Len(es) |-> IF es[j] # Removed /\ es[j].agent = a THEN Removed ELSE es[j]]
  BY <1>2 DEF Cleared
<1> HIDE DEF t
<1>4. \A j \in 1 .. Len(es) :
        /\ t[j] \in EntryRecord \cup {Removed}
        /\ t[j] # Removed => t[j] = es[j] /\ es[j] # Removed /\ es[j].agent # a
  BY <1>2, <1>3
<1>5. t \in Seq(EntryRecord \cup {Removed}) /\ Len(t) = Len(es)
  <2>1. t \in [1 .. Len(es) -> EntryRecord \cup {Removed}]
    BY <1>3, <1>4
  <2> QED
    BY <1>2, <2>1
<1>6. EntriesFit(t, al \ {a}, n)
  BY <1>1, <1>4, <1>5 DEF EntriesFit
<1>7. ASSUME NEW j \in Nat, LiveIn(t, j) PROVE LiveIn(es, j) /\ t[j + 1] = es[j + 1]
  <2>1. j < Len(es) /\ t[j + 1] # Removed /\ j + 1 \in 1 .. Len(es)
    BY <1>2, <1>5, <1>7 DEF LiveIn
  <2> QED
    BY <2>1, <1>4 DEF LiveIn
<1> QED
  BY <1>5, <1>6, <1>7 DEF t

-----------------------------------------------------------------------------
(***************************************************************************)
(* The actions keep the calls in order.                                    *)
(***************************************************************************)
\* While code runs, the innermost call is that of its agent.
LEMMA Coding ==
  ASSUME CallsInv, CodeRuns
  PROVE  /\ stack # <<>> => Top.at = "body" /\ Top.agent \in alive
         /\ \A es, q1, q2 : Innermost(stack, es, alive, q1, q2)
<1>1. stack # <<>> => Top.at = "body" /\ Top.agent \in alive
  BY DEF CodeRuns, Running
<1>2. ASSUME NEW es, NEW q1, NEW q2 PROVE Innermost(stack, es, alive, q1, q2)
  BY <1>1 DEF Innermost, Fresh, Phase, IsLoop, Top
<1> QED
  BY <1>1, <1>2

LEMMA Operating ==
  ASSUME CallsInv, Operates
  PROVE  /\ ops' = ops + 1 /\ ops' \in 1 .. MaxOps /\ ops' \in 0 .. MaxOps
         /\ EntriesFit(entries, alive, ops')
<1>1. ops \in 0 .. MaxOps /\ ops < MaxOps /\ ops' = ops + 1 /\ EntriesFit(entries, alive, ops)
  BY Parts DEF Operates
<1>2. ops \in Nat /\ ops' \in 1 .. MaxOps /\ ops' \in 0 .. MaxOps
  BY <1>1, BoundsAssumption
<1>3. EntriesFit(entries, alive, ops + 1)
  BY <1>1, <1>2, EntriesLater
<1> QED
  BY <1>1, <1>2, <1>3

LEMMA NewEntry ==
  ASSUME NEW a \in Agent, NEW x \in Attr, NEW fails \in BOOLEAN, MaxOps # 0
  PROVE  /\ Entry(a, x, fails) \in EntryRecord /\ Entry(a, x, fails).agent = a
         /\ Entry(a, x, fails).asked = 1 /\ Entry(a, x, fails).watch = x
<1>1. 1 \in 1 .. MaxOps
  BY BoundsAssumption
<1> QED
  BY <1>1 DEF Entry, EntryRecord, Value

LEMMA AddKeeps ==
  ASSUME CallsInv, NEW a \in Agent, NEW x \in Attr, NEW fails \in BOOLEAN, Add(a, x, fails)
  PROVE  CallsInv'
<1>1. /\ Operates /\ a \in alive /\ Len(entries) < MaxEntries
      /\ entries' = Append(entries, Entry(a, x, fails))
      /\ Sent(stack, 0, DefineEvent(Len(entries)))
      /\ alive' = alive /\ val' = val /\ deps' = deps
  BY DEF Add
<1>2. ops' \in 1 .. MaxOps /\ ops' \in 0 .. MaxOps /\ EntriesFit(entries, alive, ops')
  BY <1>1, Operating
<1>3. MaxOps # 0 /\ 1 <= ops'
  BY <1>2, BoundsAssumption
<1>4. PICK r \in EntryRecord : r = Entry(a, x, fails) /\ r.agent = a /\ r.asked = 1
  BY <1>3, NewEntry
<1>5. entries' = Append(entries, r) /\ r.agent \in alive /\ r.asked <= ops'
  BY <1>1, <1>3, <1>4
<1>6. EntriesFit(Append(entries, r), alive, ops') /\ Len(entries) \in EntryId
  BY <1>1, <1>2, <1>5, EntryAdded
<1>7. PICK e \in Event(0) : e = DefineEvent(Len(entries))
  BY <1>6, Events
<1>8. Innermost(stack, entries', alive, queue[1], queue[2])
  BY <1>1, Coding DEF Operates
<1>9. stack \in Seq(Frame) /\ Nested(stack)
  BY Parts
<1>10. QueuesFit(queue') /\ CallsFit(stack', curq', entries', alive, queue'[1], queue'[2])
  BY <1>1, <1>7, <1>8, <1>9, SentFits
<1>11. alive \subseteq Agent /\ val \in [Attr -> Value] /\ deps \in [Attr -> Seq(EntryId)]
  BY Parts
<1> QED
  BY <1>1, <1>2, <1>5, <1>6, <1>10, <1>11, Assembled

\* What an update makes of its entry.
Updated(r, x) == [r EXCEPT !.watch = x, !.asked = @ + 1]

LEMMA UpdatedEntry ==
  ASSUME CallsInv, NEW i \in EntryId, NEW x \in Attr, Update(i, x)
  PROVE  /\ i \in Nat /\ LiveIn(entries, i) /\ entries[i + 1] \in EntryRecord
         /\ Updated(entries[i + 1], x) \in EntryRecord
         /\ Updated(entries[i + 1], x).agent = entries[i + 1].agent
         /\ Updated(entries[i + 1], x).asked = entries[i + 1].asked + 1
         /\ Updated(entries[i + 1], x).watch = x
         /\ entries' = Put(entries, i, Updated(entries[i + 1], x))
         /\ EntriesFit(entries', alive, ops')
         /\ Len(entries') = Len(entries)
         /\ entries'[i + 1] = Updated(entries[i + 1], x)
         /\ \A j \in 1 .. Len(entries) : j # i + 1 => entries'[j] = entries[j]
         /\ \A j \in Nat : LiveIn(entries', j) <=> LiveIn(entries, j)
<1>1. /\ Operates /\ Live(i)
      /\ entries' = [entries EXCEPT ![i + 1].watch = x, ![i + 1].asked = @ + 1]
  BY DEF Update
<1>2. i \in Nat /\ LiveIn(entries, i)
  BY <1>1, BoundsAssumption DEF EntryId, Live, At, LiveIn
<1>3. /\ EntriesFit(entries, alive, ops) /\ ops \in 0 .. MaxOps /\ ops < MaxOps /\ ops' = ops + 1
      /\ EntriesFit(entries, alive, ops')
  BY <1>1, Parts, Operating DEF Operates
<1>4. /\ i + 1 \in 1 .. Len(entries) /\ entries[i + 1] \in EntryRecord
      /\ entries[i + 1].agent \in alive /\ entries[i + 1].asked <= ops
  BY <1>2, <1>3, LiveEntry
<1> DEFINE r == entries[i + 1]
           u == Updated(r, x)
<1>5. /\ u \in EntryRecord /\ u.agent = r.agent /\ u.asked = r.asked + 1 /\ u.watch = x
      /\ u.asked <= ops'
  <2>1. r.asked \in 1 .. MaxOps
    BY <1>4 DEF EntryRecord
  <2>2. r.asked + 1 \in 1 .. MaxOps /\ r.asked + 1 <= ops'
    BY <1>3, <1>4, <2>1, BoundsAssumption
  <2>3. PICK m \in 1 .. MaxOps : m = r.asked + 1
    BY <2>2
  <2>4. u = [r EXCEPT !.watch = x, !.asked = m]
    BY <2>3 DEF Updated
  <2>5. /\ [r EXCEPT !.watch = x, !.asked = m] \in EntryRecord
        /\ [r EXCEPT !.watch = x, !.asked = m].agent = r.agent
        /\ [r EXCEPT !.watch = x, !.asked = m].asked = m
        /\ [r EXCEPT !.watch = x, !.asked = m].watch = x
    BY <1>4 DEF EntryRecord
  <2> QED
    BY <2>2, <2>3, <2>4, <2>5
<1>6. entries' = Put(entries, i, u)
  <2>1. /\ entries \in Seq(EntryRecord \cup {Removed})
    BY <1>3 DEF EntriesFit
  <2>2. DOMAIN entries = 1 .. Len(entries)
    BY <2>1, SeqIs
  <2> QED
    BY <1>1, <1>4, <2>2 DEF Updated, Put
<1> HIDE DEF u
<1>7. u.agent \in alive
  BY <1>4, <1>5
<1>8. /\ EntriesFit(Put(entries, i, u), alive, ops')
      /\ Len(Put(entries, i, u)) = Len(entries)
      /\ Put(entries, i, u)[i + 1] = u
      /\ \A j \in 1 .. Len(entries) : j # i + 1 => Put(entries, i, u)[j] = entries[j]
      /\ \A j \in Nat : LiveIn(Put(entries, i, u), j) <=> LiveIn(entries, j)
  BY <1>2, <1>3, <1>5, <1>7, EntrySet
<1>9. /\ EntriesFit(entries', alive, ops') /\ Len(entries') = Len(entries) /\ entries'[i + 1] = u
      /\ \A j \in 1 .. Len(entries) : j # i + 1 => entries'[j] = entries[j]
      /\ \A j \in Nat : LiveIn(entries', j) <=> LiveIn(entries, j)
  BY <1>6, <1>8
<1> QED
  BY <1>2, <1>4, <1>5, <1>6, <1>9 DEF u

LEMMA UpdateKeeps ==
  ASSUME CallsInv, NEW i \in EntryId, NEW x \in Attr, Update(i, x)
  PROVE  CallsInv'
<1>1. /\ Operates /\ Sent(stack, 0, DefineEvent(i))
      /\ alive' = alive /\ val' = val /\ deps' = deps
  BY DEF Update
<1>2. EntriesFit(entries', alive, ops') /\ ops' \in 0 .. MaxOps
  BY <1>1, UpdatedEntry, Operating
<1>3. PICK e \in Event(0) : e = DefineEvent(i)
  BY Events
<1>4. Innermost(stack, entries', alive, queue[1], queue[2])
  BY <1>1, Coding DEF Operates
<1>5. stack \in Seq(Frame) /\ Nested(stack)
  BY Parts
<1>6. QueuesFit(queue') /\ CallsFit(stack', curq', entries', alive, queue'[1], queue'[2])
  BY <1>1, <1>3, <1>4, <1>5, SentFits
<1>7. alive \subseteq Agent /\ val \in [Attr -> Value] /\ deps \in [Attr -> Seq(EntryId)]
  BY Parts
<1> QED
  BY <1>1, <1>2, <1>6, <1>7, Assembled

LEMMA RemoveAgentKeeps ==
  ASSUME CallsInv, NEW a \in Agent, RemoveAgent(a)
  PROVE  CallsInv'
<1>1. /\ Operates /\ a \in alive /\ alive' = alive \ {a}
      /\ stack' = IF stack # <<>> /\ Top.agent = a THEN Front(stack) ELSE stack
      /\ val' = val /\ deps' = deps /\ queue' = queue /\ curq' = curq
  BY DEF RemoveAgent
<1>2. entries' = Cleared(entries, a)
  BY DEF RemoveAgent, Cleared
<1>3. EntriesFit(entries', alive \ {a}, ops') /\ ops' \in 0 .. MaxOps
  BY <1>1, <1>2, Operating, EntriesRemoved
<1>4. stack # <<>> => Top.at = "body" /\ Top.agent \in alive
  BY <1>1, Coding DEF Operates
<1>5. /\ stack \in Seq(Frame) /\ Nested(stack) /\ curq \in -1 .. 2 /\ QueuesFit(queue)
      /\ Between(stack, curq, queue[1], queue[2])
      /\ alive \subseteq Agent /\ val \in [Attr -> Value] /\ deps \in [Attr -> Seq(EntryId)]
  BY Parts
<1>6. CallsFit(stack', curq, entries', alive \ {a}, queue[1], queue[2])
  <2>1. CASE stack # <<>> /\ Top.agent = a
    <3>1. CallsFit(Front(stack), curq, entries', alive \ {a}, queue[1], queue[2])
      BY <2>1, <1>4, PopFits
    <3> QED
      BY <3>1, <2>1, <1>1
  <2>2. CASE ~(stack # <<>> /\ Top.agent = a)
    <3>1. Innermost(stack, entries', alive \ {a}, queue[1], queue[2])
      BY <2>2, <1>4 DEF Innermost, Fresh, Phase, IsLoop, Top
    <3> QED
      BY <3>1, <2>2, <1>1, <1>5 DEF CallsFit
  <2> QED
    BY <2>1, <2>2
<1>7. CallsFit(stack', curq', entries', alive', queue'[1], queue'[2])
  BY <1>1, <1>6
<1>8. EntriesFit(entries', alive', ops') /\ alive' \subseteq Agent
  BY <1>1, <1>3, <1>5
<1> QED
  BY <1>1, <1>3, <1>5, <1>7, <1>8, Assembled

LEMMA SetAsyncKeeps ==
  ASSUME CallsInv, NEW x \in Attr, NEW v \in Value, SetAsync(x, v)
  PROVE  CallsInv'
<1>1. Operates /\ Sent(stack, 0, SetEvent(x, v)) /\ UNCHANGED store
  BY DEF SetAsync
<1>2. PICK e \in Event(0) : e = SetEvent(x, v)
  BY Events
<1>3. Innermost(stack, entries, alive, queue[1], queue[2]) /\ stack \in Seq(Frame) /\ Nested(stack)
  BY Parts
<1>4. QueuesFit(queue') /\ CallsFit(stack', curq', entries, alive, queue'[1], queue'[2])
  BY <1>1, <1>2, <1>3, SentFits
<1> QED
  BY <1>1, <1>4, Operating, StoreKept

\* The calls with the innermost waiting.
LEMMA WaitingFits ==
  ASSUME CallsInv, CodeRuns
  PROVE  /\ Waiting(stack) \in Seq(Frame) /\ Nested(Waiting(stack)) /\ AllBelow(Waiting(stack))
         /\ NoInstant(Waiting(stack)) <=> NoInstant(stack)
<1>1. stack \in Seq(Frame) /\ Nested(stack)
  BY Parts
<1>2. stack # <<>> => Top.at = "body"
  BY Coding
<1>3. CASE stack = <<>>
  <2>1. Waiting(stack) = stack /\ stack # <<>> => MayBeBelow(Last(stack))
    BY <1>3 DEF Waiting
  <2>2. Waiting(stack) = stack
    BY <1>3 DEF Waiting
  <2> QED
    BY <1>1, <1>3, <2>2, TopBelow
<1>4. CASE stack # <<>>
  <2> DEFINE n == Len(stack)
             g == [stack[n] EXCEPT !.waited = TRUE]
             t == [stack EXCEPT ![n] = g]
  <2>0. n \in Nat \ {0} /\ Last(stack) = stack[n] /\ Last(stack) \in Frame
    BY <1>1, <1>4, Popped
  <2>1. n \in Nat \ {0} /\ n \in 1 .. n /\ Last(stack) = stack[n] /\ stack[n] \in Frame
    BY <2>0
  <2>2. Waiting(stack) = t
    BY <1>4 DEF Waiting
  <2>3. stack[n].at = "body"
    BY <1>2, <1>4, <2>1 DEF Top
  <2>4. g \in Frame /\ g.at = "body" /\ g.waited
    <3>1. stack[n] \in [at : {"body"}, id : EntryId, agent : Agent, waited : BOOLEAN]
      BY <2>1, <2>3 DEF Frame, Sync
    <3>2. g \in [at : {"body"}, id : EntryId, agent : Agent, waited : BOOLEAN] /\ g.waited
      BY <3>1
    <3>3. g \in Frame
      BY <3>2 DEF Frame
    <3>4. g.at = "body"
      BY <3>2
    <3> QED
      BY <3>2, <3>3, <3>4
  <2> HIDE DEF g
  <2>5. /\ t \in Seq(Frame) /\ Len(t) = n /\ t[n] = g
        /\ \A j \in 1 .. n : j # n => t[j] = stack[j]
    BY <1>1, <2>1, <2>4, ExceptSeq
  <2> HIDE DEF t, n
  <2>6. \A j \in 1 .. n : t[j].at = stack[j].at
    BY <2>3, <2>4, <2>5
  <2>7. NoInstant(t) <=> NoInstant(stack)
    BY <2>5, <2>6 DEF NoInstant, n
  <2>8. \A j \in 1 .. n - 1 : MayBeBelow(t[j])
    <3>1. \A j \in 1 .. n - 1 : j \in 1 .. n /\ j # n
      BY <2>1
    <3> QED
      BY <1>1, <2>5, <3>1 DEF Nested, n
  <2>9. MayBeBelow(t[n])
    BY <2>4, <2>5 DEF MayBeBelow, IsLoop
  <2>10. /\ \A i, j \in 1 .. n : t[i].at = "instant" /\ t[j].at = "instant" => i = j
         /\ \A j \in 1 .. n :
              t[j].at \notin {"instant", "sync"} => \E i \in 1 .. n : i < j /\ t[i].at = "instant"
    BY <1>1, <2>6 DEF Nested, n
  <2>11. Nested(t)
    BY <2>5, <2>8, <2>10 DEF Nested
  <2>12. AllBelow(t)
    <3>1. \A j \in 1 .. n : j \in 1 .. n - 1 \/ j = n
      BY <2>1
    <3> QED
      BY <3>1, <2>5, <2>8, <2>9 DEF AllBelow
  <2> QED
    BY <2>2, <2>5, <2>7, <2>11, <2>12
<1> QED
  BY <1>3, <1>4

LEMMA SetSyncKeeps ==
  ASSUME CallsInv, NEW x \in Attr, NEW v \in Value, SetSync(x, v)
  PROVE  CallsInv'
<1>1. Operates /\ Sent(Append(Waiting(stack), Sync), 0, SetEvent(x, v)) /\ UNCHANGED store
  BY DEF SetSync
<1>2. PICK e \in Event(0) : e = SetEvent(x, v)
  BY Events
<1>3. /\ Waiting(stack) \in Seq(Frame) /\ Nested(Waiting(stack)) /\ AllBelow(Waiting(stack))
      /\ NoInstant(Waiting(stack)) <=> NoInstant(stack)
  BY <1>1, WaitingFits DEF Operates
<1>4. PICK c \in Seq(Frame) : c = Append(Waiting(stack), Sync)
  BY <1>3, Makes, Pushed
<1>5. /\ Nested(c) /\ (NoInstant(c) <=> NoInstant(stack))
      /\ Last(c) = Sync /\ Sync.at = "sync"
  <2>1. Sync \in Frame /\ Sync.at = "sync"
    BY Makes
  <2> QED
    BY <1>3, <1>4, <2>1, NestedPushed
<1>6. Innermost(c, entries, alive, queue[1], queue[2])
  BY <1>5 DEF Innermost, Fresh, Phase, IsLoop
<1>7. QueuesFit(queue') /\ CallsFit(stack', curq', entries, alive, queue'[1], queue'[2])
  <2>1. Sent(c, 0, e)
    BY <1>1, <1>2, <1>4
  <2> QED
    BY <2>1, <1>5, <1>6, SentFits
<1> QED
  BY <1>1, <1>7, Operating, StoreKept

LEMMA BodyReturnKeeps ==
  ASSUME CallsInv, BodyReturn
  PROVE  CallsInv'
<1>1. /\ stack # <<>> /\ Top.at = "body" /\ stack' = Front(stack)
      /\ UNCHANGED store /\ queue' = queue /\ curq' = curq /\ ops' = ops
  BY DEF BodyReturn, Running
<1>2. /\ QueuesFit(queue) /\ EntriesFit(entries, alive, ops) /\ ops \in 0 .. MaxOps
  BY Parts
<1>3. CallsFit(Front(stack), curq, entries, alive, queue[1], queue[2])
  BY <1>1, PopFits
<1> QED
  BY <1>1, <1>2, <1>3, StoreKept

\* The loop that drains queue k is the innermost call, and an instant is in progress.
LEMMA InDrain ==
  ASSUME CallsInv, NEW k \in 0 .. 2, Draining(k)
  PROVE  /\ stack # <<>> /\ IsLoop(Top) /\ Top.q = k /\ queue[k] # <<>>
         /\ Top.at \in {"instant", "remaining"} /\ ~NoInstant(stack)
         /\ Phase(Top, queue[1], queue[2])
<1>1. /\ stack # <<>> /\ IsLoop(Top) /\ Top.q = k /\ queue[k] # <<>>
      /\ Top.at \in {"instant", "remaining"}
  BY DEF Draining, Running, IsLoop
<1>2. /\ stack \in Seq(Frame) /\ Nested(stack)
      /\ Innermost(stack, entries, alive, queue[1], queue[2])
  BY Parts
<1>3. Len(stack) \in Nat \ {0} /\ Top = stack[Len(stack)]
  BY <1>1, <1>2, Popped DEF Top
<1>4. Len(stack) \in 1 .. Len(stack)
  BY <1>3
<1>5. ~NoInstant(stack)
  BY <1>1, <1>2, <1>3, <1>4 DEF Nested, NoInstant
<1> QED
  BY <1>1, <1>2, <1>5 DEF Innermost, Top

\* A handler that makes no call.
LEMMA HandlerFits ==
  ASSUME CallsInv, ~NoInstant(stack), stack # <<>>, IsLoop(Top), NEW q1, NEW q2, Phase(Top, q1, q2),
         NEW es, NEW al
  PROVE  CallsFit(stack, curq, es, al, q1, q2)
<1>1. stack \in Seq(Frame) /\ Nested(stack) /\ curq \in -1 .. 2
  BY Parts
<1>2. Innermost(stack, es, al, q1, q2)
  BY DEF Innermost, Fresh, IsLoop, Top
<1> QED
  BY <1>1, <1>2 DEF CallsFit, Between

LEMMA HandleSetKeeps ==
  ASSUME CallsInv, HandleSet
  PROVE  CallsInv'
<1> DEFINE e == Head(queue[0])
<1>1. /\ Draining(0) /\ e.type = "SET"
      /\ \/ /\ val'   = [val EXCEPT ![e.attr] = e.v]
            /\ queue' = [Taken(0) EXCEPT ![1] = @ \o deps[e.attr]]
            /\ deps'  = [deps EXCEPT ![e.attr] = <<>>]
         \/ /\ queue' = Taken(0)
            /\ UNCHANGED <<val, deps>>
      /\ entries' = entries /\ alive' = alive /\ curq' = curq /\ stack' = stack /\ ops' = ops
  BY DEF HandleSet
<1>2. /\ EntriesFit(entries, alive, ops) /\ alive \subseteq Agent
      /\ val \in [Attr -> Value] /\ deps \in [Attr -> Seq(EntryId)]
      /\ QueuesFit(queue) /\ queue[1] \in Seq(EntryId) /\ ops \in 0 .. MaxOps
  BY Parts
<1>3. /\ stack # <<>> /\ IsLoop(Top) /\ Top.q = 0 /\ queue[0] # <<>> /\ ~NoInstant(stack)
      /\ Phase(Top, queue[1], queue[2])
  BY <1>1, InDrain
<1>4. /\ QueuesFit(Taken(0)) /\ e \in Event(0)
      /\ Taken(0)[1] = queue[1] /\ Taken(0)[2] = queue[2]
  BY <1>2, <1>3, Taking
<1>5. e.attr \in Attr /\ e.v \in Value
  BY <1>1, <1>4, Events
<1> HIDE DEF e
<1>6. QueuesFit(queue') /\ queue'[2] = queue[2]
  <2>1. CASE queue' = Taken(0)
    BY <2>1, <1>4
  <2>2. CASE queue' = [Taken(0) EXCEPT ![1] = @ \o deps[e.attr]]
    <3>1. deps[e.attr] \in Seq(EntryId)
      BY <1>2, <1>5
    <3>2. PICK s \in Seq(EntryId) : s = queue[1] \o deps[e.attr]
      BY <1>2, <3>1, Joined
    <3>3. s \in Seq(Event(1))
      BY EventsOf, Zenon
    <3>4. queue' = [Taken(0) EXCEPT ![1] = s]
      BY <2>2, <3>2, <1>4
    <3>5. /\ QueuesFit([Taken(0) EXCEPT ![1] = s])
          /\ \A j \in 0 .. 2 : j # 1 => [Taken(0) EXCEPT ![1] = s][j] = Taken(0)[j]
      BY <1>4, <3>3, QueueSet
    <3> QED
      BY <1>4, <3>4, <3>5
  <2> QED
    BY <1>1, <2>1, <2>2
<1>7. val' \in [Attr -> Value] /\ deps' \in [Attr -> Seq(EntryId)]
  <2>1. <<>> \in Seq(EntryId)
    BY EmptySeq
  <2> QED
    BY <1>1, <1>2, <1>5, <2>1
<1>8. Phase(Top, queue'[1], queue'[2])
  BY <1>3, <1>6 DEF Phase
<1>9. CallsFit(stack', curq', entries', alive', queue'[1], queue'[2])
  BY <1>1, <1>3, <1>8, HandlerFits
<1>10. EntriesFit(entries', alive', ops') /\ alive' \subseteq Agent /\ ops' \in 0 .. MaxOps
  BY <1>1, <1>2
<1> QED
  BY <1>6, <1>7, <1>9, <1>10, Assembled

LEMMA HandleOtherSetKeeps ==
  ASSUME CallsInv, HandleOtherSet
  PROVE  CallsInv'
<1>1. /\ Draining(0) /\ queue' = Taken(0)
      /\ UNCHANGED store /\ curq' = curq /\ stack' = stack /\ ops' = ops
  BY DEF HandleOtherSet
<1>2. QueuesFit(queue) /\ EntriesFit(entries, alive, ops) /\ ops \in 0 .. MaxOps
  BY Parts
<1>3. /\ stack # <<>> /\ IsLoop(Top) /\ queue[0] # <<>> /\ ~NoInstant(stack)
      /\ Phase(Top, queue[1], queue[2])
  BY <1>1, InDrain
<1>4. QueuesFit(Taken(0)) /\ Taken(0)[1] = queue[1] /\ Taken(0)[2] = queue[2]
  BY <1>2, <1>3, Taking
<1>5. CallsFit(stack', curq', entries, alive, queue'[1], queue'[2])
  BY <1>1, <1>3, <1>4, HandlerFits
<1> QED
  BY <1>1, <1>2, <1>4, <1>5, StoreKept

LEMMA HandleDefineKeeps ==
  ASSUME CallsInv, HandleDefine
  PROVE  /\ CallsInv'
         /\ queue'[0] = Tail(queue[0]) /\ queue'[1] = Append(queue[1], Head(queue[0]).id)
         /\ queue'[2] = queue[2]
         /\ Head(queue[0]).id \in EntryId /\ Head(queue[0]) = DefineEvent(Head(queue[0]).id)
<1> DEFINE e == Head(queue[0])
<1>1. /\ Draining(0) /\ e.type = "DEFINE" /\ queue' = Queued(Taken(0), 1, e.id)
      /\ UNCHANGED store /\ curq' = curq /\ stack' = stack /\ ops' = ops
  BY DEF HandleDefine, Queued
<1>2. QueuesFit(queue) /\ EntriesFit(entries, alive, ops) /\ ops \in 0 .. MaxOps
  BY Parts
<1>3. /\ stack # <<>> /\ IsLoop(Top) /\ Top.q = 0 /\ queue[0] # <<>> /\ ~NoInstant(stack)
      /\ Phase(Top, queue[1], queue[2])
  BY <1>1, InDrain
<1>4. /\ QueuesFit(Taken(0)) /\ Taken(0)[1] = queue[1] /\ Taken(0)[2] = queue[2]
      /\ Taken(0)[0] = Tail(queue[0]) /\ e \in Event(0)
  BY <1>2, <1>3, Taking
<1>5. e.id \in EntryId /\ e = DefineEvent(e.id)
  BY <1>1, <1>4, Events
<1>6. e.id \in Event(1)
  BY <1>5, Events
<1> HIDE DEF e
<1>7. /\ QueuesFit(queue') /\ queue'[1] = Append(queue[1], e.id)
      /\ queue'[2] = queue[2] /\ queue'[0] = Tail(queue[0])
  <2>1. /\ QueuesFit(Queued(Taken(0), 1, e.id))
        /\ Queued(Taken(0), 1, e.id)[1] = Append(Taken(0)[1], e.id)
        /\ \A j \in 0 .. 2 : j # 1 => Queued(Taken(0), 1, e.id)[j] = Taken(0)[j]
    BY <1>4, <1>6, Queueing
  <2> QED
    BY <1>1, <1>4, <2>1
<1>8. Phase(Top, queue'[1], queue'[2])
  BY <1>3, <1>7 DEF Phase
<1>9. CallsFit(stack', curq', entries, alive, queue'[1], queue'[2])
  BY <1>1, <1>3, <1>8, HandlerFits
<1>10. CallsInv'
  BY <1>1, <1>2, <1>7, <1>9, StoreKept
<1> QED
  BY <1>5, <1>7, <1>10 DEF e

LEMMA HandleDepKeeps ==
  ASSUME CallsInv, HandleDep
  PROVE  /\ CallsInv'
         /\ queue'[0] = queue[0] /\ queue'[1] = queue[1] /\ queue'[2] = Tail(queue[2])
         /\ queue[2] # <<>>
         /\ Head(queue[2]).attr \in Attr /\ Head(queue[2]).id \in EntryId
         /\ Head(queue[2]) = Dep(Head(queue[2]).attr, Head(queue[2]).id)
<1> DEFINE e == Head(queue[2])
<1>1. /\ Draining(2) /\ queue' = Taken(2)
      /\ deps' = [deps EXCEPT ![e.attr] = AddDependent(@, e.id)]
      /\ entries' = entries /\ alive' = alive /\ val' = val
      /\ curq' = curq /\ stack' = stack /\ ops' = ops
  BY DEF HandleDep
<1>2. /\ EntriesFit(entries, alive, ops) /\ alive \subseteq Agent
      /\ val \in [Attr -> Value] /\ deps \in [Attr -> Seq(EntryId)]
      /\ QueuesFit(queue) /\ queue[1] \in Seq(EntryId) /\ ops \in 0 .. MaxOps
  BY Parts
<1>3. /\ stack # <<>> /\ IsLoop(Top) /\ Top.q = 2 /\ queue[2] # <<>> /\ ~NoInstant(stack)
      /\ Phase(Top, queue[1], queue[2])
  BY <1>1, InDrain
<1>4. /\ QueuesFit(Taken(2)) /\ e \in Event(2) /\ Taken(2)[2] = Tail(queue[2])
      /\ Taken(2)[1] = queue[1] /\ Taken(2)[0] = queue[0]
  BY <1>2, <1>3, Taking
<1>5. e.attr \in Attr /\ e.id \in EntryId /\ e = Dep(e.attr, e.id)
  BY <1>4, Events
<1> HIDE DEF e
<1>6. deps' \in [Attr -> Seq(EntryId)]
  <2>1. PICK ds \in Seq(EntryId) : ds = deps[e.attr]
    BY <1>2, <1>5
  <2>2. RemoveFirst(ds, e.id) \in Seq(EntryId) /\ <<e.id>> \in Seq(EntryId)
    BY <1>5, Without
  <2>3. <<e.id>> \o RemoveFirst(ds, e.id) \in Seq(EntryId)
    BY <2>2, Joined
  <2>4. PICK n \in Seq(EntryId) : n = AddDependent(ds, e.id)
    BY <2>3 DEF AddDependent
  <2>5. deps' = [deps EXCEPT ![e.attr] = n]
    BY <1>1, <2>1, <2>4
  <2> QED
    BY <1>2, <2>5
<1>7. Phase(Top, queue'[1], queue'[2])
  BY <1>1, <1>3, <1>4 DEF Phase
<1>8. CallsFit(stack', curq', entries', alive', queue'[1], queue'[2])
  BY <1>1, <1>3, <1>7, HandlerFits
<1>9. CallsInv'
  BY <1>1, <1>2, <1>4, <1>6, <1>8, Assembled
<1> QED
  BY <1>1, <1>3, <1>4, <1>5, <1>9 DEF e

\* What the evaluation of a condition makes of its entry.
Read(r, v) == [r EXCEPT !.seen = v]

LEMMA ReadEntry ==
  ASSUME CallsInv, NEW i \in EntryId, LiveIn(entries, i)
  PROVE  /\ i + 1 \in 1 .. Len(entries) /\ entries[i + 1] \in EntryRecord
         /\ entries[i + 1].watch \in Attr /\ entries[i + 1].fails \in BOOLEAN
         /\ val[entries[i + 1].watch] \in Value
         /\ [entries EXCEPT ![i + 1].seen = val[entries[i + 1].watch]]
              = Put(entries, i, Read(entries[i + 1], val[entries[i + 1].watch]))
         /\ Read(entries[i + 1], val[entries[i + 1].watch]) \in EntryRecord
         /\ Read(entries[i + 1], val[entries[i + 1].watch]).agent = entries[i + 1].agent
         /\ Read(entries[i + 1], val[entries[i + 1].watch]).asked = entries[i + 1].asked
         /\ Read(entries[i + 1], val[entries[i + 1].watch]).watch = entries[i + 1].watch
         /\ Read(entries[i + 1], val[entries[i + 1].watch]).seen = val[entries[i + 1].watch]
         /\ entries[i + 1].agent \in alive /\ entries[i + 1].asked <= ops
<1>1. EntriesFit(entries, alive, ops) /\ val \in [Attr -> Value] /\ i \in Nat
  BY Parts, BoundsAssumption DEF EntryId
<1>2. /\ i + 1 \in 1 .. Len(entries) /\ entries[i + 1] \in EntryRecord
      /\ entries[i + 1].agent \in alive /\ entries[i + 1].asked <= ops
  BY <1>1, LiveEntry
<1> DEFINE r == entries[i + 1]
           v == val[r.watch]
<1>3. r.watch \in Attr /\ r.fails \in BOOLEAN
  BY <1>2 DEF EntryRecord
<1>4. v \in Value
  BY <1>1, <1>3
<1>5. DOMAIN entries = 1 .. Len(entries)
  BY <1>1, SeqIs DEF EntriesFit
<1>6. [entries EXCEPT ![i + 1].seen = v] = Put(entries, i, Read(r, v))
  BY <1>2, <1>5 DEF Put, Read
<1> HIDE DEF v
<1>7. /\ Read(r, v) \in EntryRecord /\ Read(r, v).agent = r.agent /\ Read(r, v).asked = r.asked
      /\ Read(r, v).watch = r.watch /\ Read(r, v).seen = v
  BY <1>2, <1>4 DEF Read, EntryRecord
<1> QED
  BY <1>2, <1>3, <1>4, <1>6, <1>7 DEF v

\* The queues after a notification whose entry is there.
LEMMA Notified ==
  ASSUME CallsInv, Draining(1), NEW d \in Event(2)
  PROVE  /\ QueuesFit(Queued(Taken(1), 2, d)) /\ Queued(Taken(1), 2, d)[0] = queue[0]
         /\ Queued(Taken(1), 2, d)[1] = Tail(queue[1])
         /\ Queued(Taken(1), 2, d)[2] = Append(queue[2], d)
<1>1. QueuesFit(queue) /\ queue[1] # <<>>
  BY Parts, InDrain
<1>2. /\ QueuesFit(Taken(1)) /\ Taken(1)[1] = Tail(queue[1])
      /\ Taken(1)[0] = queue[0] /\ Taken(1)[2] = queue[2]
  BY <1>1, Taking
<1>3. /\ QueuesFit(Queued(Taken(1), 2, d)) /\ Queued(Taken(1), 2, d)[2] = Append(Taken(1)[2], d)
      /\ \A j \in 0 .. 2 : j # 2 => Queued(Taken(1), 2, d)[j] = Taken(1)[j]
  BY <1>2, Queueing
<1> QED
  BY <1>2, <1>3

\* The call or calls of a notification.
LEMMA EvaluationFits ==
  ASSUME CallsInv, Draining(1), NEW i \in EntryId, NEW fails \in BOOLEAN, NEW v \in Value,
         NEW es, NEW al, LiveIn(es, i), NEW q1, NEW q2,
         stack' = stack \o (IF fails THEN <<Evaluation(i, Null, TRUE), Failing(ErrorSets)>>
                                     ELSE <<Evaluation(i, v, FALSE)>>)
  PROVE  CallsFit(stack', curq, es, al, q1, q2)
<1>1. /\ stack \in Seq(Frame) /\ Nested(stack) /\ curq \in -1 .. 2
  BY Parts
<1>2. stack # <<>> /\ ~NoInstant(stack) /\ IsLoop(Top) /\ Top.q = 1
  BY InDrain
<1>3. AllBelow(stack)
  <2>1. MayBeBelow(Last(stack))
    BY <1>2 DEF MayBeBelow, IsLoop, Top
  <2> QED
    BY <1>1, <2>1, TopBelow
<1>4. CASE fails
  <2>1. Null \in Value /\ TRUE \in BOOLEAN /\ ErrorSets \in 0 .. ErrorSets
    BY BoundsAssumption DEF Value
  <2>2. PICK w \in BOOLEAN : w = TRUE
    OBVIOUS
  <2>3. PICK f \in Frame : f = Evaluation(i, Null, w) /\ f.at = "eval" /\ f.waited = w
    BY <2>1, Makes
  <2>4. PICK g \in Frame : g = Failing(ErrorSets) /\ g.at = "error"
    BY <2>1, Makes
  <2>5. stack' = Append(Append(stack, f), g)
    <3>1. stack' = stack \o <<f, g>>
      <4>1. stack' = stack \o <<Evaluation(i, Null, TRUE), Failing(ErrorSets)>>
        BY <1>4
      <4> QED
        BY <4>1, <2>2, <2>3, <2>4
    <3>2. stack \o <<f, g>> = Append(Append(stack, f), g)
      BY <1>1, Joins
    <3> QED
      BY <3>1, <3>2
  <2>6. PICK c \in Seq(Frame) : c = Append(stack, f)
    BY <1>1, Pushed
  <2>7. c # <<>> /\ Nested(c) /\ ~NoInstant(c) /\ Last(c) = f
    BY <1>1, <1>2, <1>3, <2>3, <2>6, NestedPushed
  <2>8. AllBelow(c)
    <3>1. MayBeBelow(Last(c))
      BY <2>2, <2>3, <2>7 DEF MayBeBelow, IsLoop
    <3> QED
      BY <2>7, <3>1, TopBelow
  <2>9. /\ Append(c, g) \in Seq(Frame) /\ Nested(Append(c, g)) /\ ~NoInstant(Append(c, g))
        /\ Last(Append(c, g)) = g
    BY <2>4, <2>7, <2>8, NestedPushed
  <2>10. Innermost(Append(c, g), es, al, q1, q2)
    BY <2>4, <2>9 DEF Innermost, Fresh, Phase, IsLoop
  <2> QED
    BY <1>1, <2>5, <2>6, <2>9, <2>10 DEF CallsFit, Between
<1>5. CASE ~fails
  <2>1. PICK w \in BOOLEAN : w = FALSE
    OBVIOUS
  <2>2. PICK f \in Frame : f = Evaluation(i, v, w) /\ f.at = "eval" /\ f.id = i
    BY Makes
  <2>3. stack' = Append(stack, f)
    BY <1>1, <1>5, <2>1, <2>2, Joins
  <2>4. /\ Append(stack, f) \in Seq(Frame) /\ Nested(Append(stack, f))
        /\ ~NoInstant(Append(stack, f)) /\ Last(Append(stack, f)) = f
    BY <1>1, <1>2, <1>3, <2>2, NestedPushed
  <2>5. Innermost(Append(stack, f), es, al, q1, q2)
    BY <2>2, <2>4 DEF Innermost, Fresh, Phase, IsLoop
  <2> QED
    BY <1>1, <2>3, <2>4, <2>5 DEF CallsFit, Between
<1> QED
  BY <1>4, <1>5

\* What a notification does: nothing, or it notes the value read and queues a
\* dependency of the entry on the attribute.
LEMMA HandleNotifyKeeps ==
  ASSUME CallsInv, NEW fails \in BOOLEAN, HandleNotify(fails)
  PROVE  /\ CallsInv' /\ UNCHANGED <<alive, val, deps>> /\ ops' = ops
         /\ queue[1] # <<>> /\ Head(queue[1]) \in EntryId
         /\ queue'[0] = queue[0] /\ queue'[1] = Tail(queue[1])
         /\ \/ /\ ~LiveIn(entries, Head(queue[1]))
               /\ queue'[2] = queue[2] /\ entries' = entries
            \/ /\ LiveIn(entries, Head(queue[1]))
               /\ queue'[2] = Append(queue[2], Dep(entries[Head(queue[1]) + 1].watch, Head(queue[1])))
               /\ entries' = Put(entries, Head(queue[1]), Read(entries[Head(queue[1]) + 1],
                                   val[entries[Head(queue[1]) + 1].watch]))
<1> DEFINE i == Head(queue[1])
           r == entries[i + 1]
           v == val[r.watch]
<1>1. /\ Draining(1) /\ alive' = alive /\ val' = val /\ deps' = deps /\ curq' = curq /\ ops' = ops
      /\ \/ ~Live(i) /\ queue' = Taken(1) /\ entries' = entries /\ stack' = stack
         \/ /\ Live(i) /\ queue' = Queued(Taken(1), 2, Dep(r.watch, i))
            /\ entries' = [entries EXCEPT ![i + 1].seen = v]
            /\ stack' = stack \o (IF fails THEN <<Evaluation(i, Null, TRUE), Failing(ErrorSets)>>
                                           ELSE <<Evaluation(i, v, FALSE)>>)
  BY DEF HandleNotify, Queued, At
<1>2. Live(i) <=> LiveIn(entries, i)
  BY DEF Live, LiveIn, At
<1>3. /\ EntriesFit(entries, alive, ops) /\ alive \subseteq Agent
      /\ val \in [Attr -> Value] /\ deps \in [Attr -> Seq(EntryId)]
      /\ QueuesFit(queue) /\ ops \in 0 .. MaxOps
  BY Parts
<1>4. /\ stack # <<>> /\ IsLoop(Top) /\ Top.q = 1 /\ queue[1] # <<>> /\ ~NoInstant(stack)
      /\ Phase(Top, queue[1], queue[2])
  BY <1>1, InDrain
<1>5. /\ QueuesFit(Taken(1)) /\ i \in Event(1) /\ Taken(1)[1] = Tail(queue[1])
      /\ Taken(1)[0] = queue[0] /\ Taken(1)[2] = queue[2]
  BY <1>3, <1>4, Taking
<1>6. i \in EntryId
  BY <1>5, Events
<1> HIDE DEF i
<1>7. CASE ~Live(i)
  <2>1. queue' = Taken(1) /\ entries' = entries /\ stack' = stack
    BY <1>1, <1>7
  <2>2. Phase(Top, queue'[1], queue'[2])
    BY <1>4 DEF Phase, IsLoop
  <2>3. CallsFit(stack', curq', entries', alive', queue'[1], queue'[2])
    BY <1>1, <1>4, <2>1, <2>2, HandlerFits
  <2>4. CallsInv'
    BY <1>1, <1>3, <1>5, <2>1, <2>3, Assembled
  <2> QED
    BY <1>1, <1>2, <1>4, <1>5, <1>6, <1>7, <2>1, <2>4 DEF i
<1>8. CASE Live(i)
  <2>1. /\ queue' = Queued(Taken(1), 2, Dep(r.watch, i))
        /\ entries' = [entries EXCEPT ![i + 1].seen = v]
        /\ stack' = stack \o (IF fails THEN <<Evaluation(i, Null, TRUE), Failing(ErrorSets)>>
                                       ELSE <<Evaluation(i, v, FALSE)>>)
    BY <1>1, <1>8
  <2>2. /\ r \in EntryRecord /\ r.watch \in Attr /\ v \in Value
        /\ entries' = Put(entries, i, Read(r, v))
        /\ Read(r, v) \in EntryRecord /\ Read(r, v).agent \in alive /\ Read(r, v).asked <= ops
    BY <1>2, <1>6, <1>8, <2>1, ReadEntry
  <2> HIDE DEF r, v
  <2>3. PICK d \in Event(2) : d = Dep(r.watch, i)
    BY <1>6, <2>2, Events
  <2>4. /\ QueuesFit(queue') /\ queue'[0] = queue[0] /\ queue'[1] = Tail(queue[1])
        /\ queue'[2] = Append(queue[2], d)
    BY <1>1, <2>1, <2>3, Notified
  <2>5. i \in Nat
    BY <1>6, BoundsAssumption DEF EntryId
  <2>6. EntriesFit(entries', alive, ops) /\ LiveIn(entries', i)
    BY <1>2, <1>3, <1>8, <2>2, <2>5, EntrySet
  <2>7. CallsFit(stack', curq, entries', alive, queue'[1], queue'[2])
    BY <1>1, <1>6, <2>1, <2>2, <2>6, EvaluationFits
  <2>8. CallsInv'
    BY <1>1, <1>3, <2>4, <2>6, <2>7, Assembled
  <2>9. queue'[2] = Append(queue[2], Dep(r.watch, i))
    BY <2>3, <2>4
  <2> QED
    BY <1>1, <1>2, <1>4, <1>6, <1>8, <2>2, <2>4, <2>8, <2>9 DEF i, r, v
<1> QED
  BY <1>7, <1>8

LEMMA ErrorSetKeeps ==
  ASSUME CallsInv, ErrorSet
  PROVE  /\ CallsInv' /\ UNCHANGED store /\ ops' = ops
         /\ queue'[0] = Append(queue[0], OtherSet)
         /\ queue'[1] = queue[1] /\ queue'[2] = queue[2]
<1>1. /\ stack # <<>> /\ Top.at = "error" /\ Top.n > 0
      /\ Sent(Front(stack) \o <<Failing(Top.n - 1), Sync>>, 0, OtherSet)
      /\ UNCHANGED store /\ ops' = ops
  BY DEF ErrorSet, Running
<1>2. /\ stack \in Seq(Frame) /\ Nested(stack) /\ EntriesFit(entries, alive, ops)
      /\ ops \in 0 .. MaxOps
  BY Parts
<1>3. Top \in Frame
  BY <1>1, <1>2, NestedPopped DEF Top
<1>4. PICK n \in 0 .. ErrorSets : n = Top.n - 1
  <2>1. Top.n \in 0 .. ErrorSets
    BY <1>1, <1>3, Frames
  <2> QED
    BY <1>1, <2>1, BoundsAssumption
<1>5. PICK f \in Frame : f = Failing(n) /\ f.at = "error"
  BY Makes
<1>6. PICK g \in Frame : g = Sync /\ g.at = "sync"
  BY Makes
<1>7. PICK b \in Seq(Frame) : b = Front(stack)
  BY <1>1, PopFits
<1>8. Nested(b) /\ AllBelow(b) /\ (NoInstant(b) <=> NoInstant(stack))
  BY <1>1, <1>7, PopFits
<1>9. ~NoInstant(stack)
  <2>1. Len(stack) \in Nat \ {0} /\ Top = stack[Len(stack)]
    BY <1>1, <1>2, Popped DEF Top
  <2>2. Len(stack) \in 1 .. Len(stack)
    BY <2>1
  <2> QED
    BY <1>1, <1>2, <2>1, <2>2 DEF Nested, NoInstant
<1>10. PICK c \in Seq(Frame) : c = Append(b, f)
  BY Pushed
<1>11. Nested(c) /\ ~NoInstant(c) /\ Last(c) = f /\ c # <<>>
  BY <1>5, <1>8, <1>9, <1>10, NestedPushed
<1>12. AllBelow(c)
  <2>1. MayBeBelow(Last(c))
    BY <1>5, <1>11 DEF MayBeBelow, IsLoop
  <2> QED
    BY <1>11, <2>1, TopBelow
<1>13. PICK d \in Seq(Frame) : d = Append(c, g)
  BY Pushed
<1>14. Nested(d) /\ ~NoInstant(d) /\ Last(d) = g
  BY <1>6, <1>11, <1>12, <1>13, NestedPushed
<1>15. Sent(d, 0, OtherSet)
  <2>1. b \o <<f, g>> = d
    BY <1>10, <1>13, Joins
  <2>2. Sent(b \o <<f, g>>, 0, OtherSet)
    BY <1>1, <1>4, <1>5, <1>6, <1>7
  <2> QED
    BY <2>1, <2>2
<1>16. Innermost(d, entries, alive, queue[1], queue[2])
  BY <1>6, <1>14 DEF Innermost, Fresh, Phase, IsLoop
<1>17. /\ QueuesFit(queue') /\ queue'[0] = Append(queue[0], OtherSet)
       /\ queue'[1] = queue[1] /\ queue'[2] = queue[2]
       /\ CallsFit(stack', curq', entries, alive, queue'[1], queue'[2])
  <2>1. OtherSet \in Event(0) /\ (NoInstant(d) <=> NoInstant(stack))
    BY <1>9, <1>14, Events
  <2> QED
    BY <2>1, <1>14, <1>15, <1>16, SentFits
<1>18. CallsInv'
  BY <1>1, <1>2, <1>17, StoreKept
<1> QED
  BY <1>1, <1>17, <1>18

LEMMA ErrorDoneKeeps ==
  ASSUME CallsInv, ErrorDone
  PROVE  CallsInv'
<1>1. /\ stack # <<>> /\ Top.at = "error" /\ stack' = Front(stack)
      /\ UNCHANGED store /\ queue' = queue /\ curq' = curq /\ ops' = ops
  BY DEF ErrorDone, Running
<1>2. /\ QueuesFit(queue) /\ EntriesFit(entries, alive, ops) /\ ops \in 0 .. MaxOps
  BY Parts
<1>3. CallsFit(Front(stack), curq, entries, alive, queue[1], queue[2])
  BY <1>1, PopFits
<1> QED
  BY <1>1, <1>2, <1>3, StoreKept

LEMMA CallAgentKeeps ==
  ASSUME CallsInv, CallAgent
  PROVE  CallsInv'
<1> DEFINE a == At(Top.id).agent
<1>1. /\ stack # <<>> /\ Top.at = "eval" /\ Live(Top.id)
      /\ stack' = Front(stack) \o
                    IF a \in Conditional /\ Top.res # True THEN <<>> ELSE <<Body(Top.id, a)>>
      /\ UNCHANGED store /\ queue' = queue /\ curq' = curq /\ ops' = ops
  BY DEF CallAgent, Running
<1>2. /\ QueuesFit(queue) /\ EntriesFit(entries, alive, ops) /\ ops \in 0 .. MaxOps
      /\ stack \in Seq(Frame) /\ Nested(stack) /\ alive \subseteq Agent /\ curq \in -1 .. 2
  BY Parts
<1>3. Top \in Frame
  BY <1>1, <1>2, NestedPopped DEF Top
<1>4. PICK i \in EntryId : i = Top.id
  BY <1>1, <1>3, Frames
<1>5. i \in Nat /\ LiveIn(entries, i) /\ a = entries[i + 1].agent
  BY <1>1, <1>4, BoundsAssumption DEF Live, LiveIn, At, EntryId
<1> HIDE DEF a
<1>6. a \in alive /\ a \in Agent
  BY <1>2, <1>5, LiveEntry
<1>7. PICK b \in Seq(Frame) : b = Front(stack)
  BY <1>1, PopFits
<1>8. /\ Nested(b) /\ AllBelow(b) /\ (NoInstant(b) <=> NoInstant(stack))
      /\ CallsFit(b, curq, entries, alive, queue[1], queue[2])
  BY <1>1, <1>7, PopFits
<1>9. ~NoInstant(b)
  <2>1. Len(stack) \in Nat \ {0} /\ Top = stack[Len(stack)]
    BY <1>1, <1>2, Popped DEF Top
  <2>2. Len(stack) \in 1 .. Len(stack)
    BY <2>1
  <2> QED
    BY <1>1, <1>2, <1>8, <2>1, <2>2 DEF Nested, NoInstant
<1>10. PICK f \in Frame : f = Body(i, a) /\ f.at = "body" /\ f.agent = a
  BY <1>6, Makes
<1>11. /\ Append(b, f) \in Seq(Frame) /\ Nested(Append(b, f)) /\ ~NoInstant(Append(b, f))
       /\ Last(Append(b, f)) = f
  BY <1>8, <1>9, <1>10, NestedPushed
<1>12. Innermost(Append(b, f), entries, alive, queue[1], queue[2])
  BY <1>6, <1>10, <1>11 DEF Innermost, Fresh, Phase, IsLoop
<1>13. CallsFit(Append(b, f), curq, entries, alive, queue[1], queue[2])
  BY <1>2, <1>11, <1>12 DEF CallsFit, Between
<1>14. stack' = b \/ stack' = Append(b, f)
  <2>1. stack' = b \o <<>> \/ stack' = b \o <<f>>
    BY <1>1, <1>4, <1>7, <1>10
  <2>2. b \o <<>> = b /\ b \o <<f>> = Append(b, f)
    BY Joins
  <2> QED
    BY <2>1, <2>2
<1>15. CallsFit(stack', curq', entries, alive, queue'[1], queue'[2])
  BY <1>1, <1>8, <1>13, <1>14
<1> QED
  BY <1>1, <1>2, <1>15, StoreKept

\* The loop that is the innermost call goes on to f.
LEMMA LoopGoesOn ==
  ASSUME CallsInv, stack # <<>>, IsLoop(Top), NEW f \in Frame, f.at = Top.at,
         Phase(f, queue[1], queue[2]), NEW cq \in -1 .. 2
  PROVE  CallsFit(Append(Front(stack), f), cq, entries, alive, queue[1], queue[2])
<1>1. stack \in Seq(Frame) /\ Nested(stack)
  BY Parts
<1>2. Top.at \in {"instant", "remaining"}
  BY DEF IsLoop
<1>3. /\ Front(stack) \in Seq(Frame) /\ Nested(Front(stack)) /\ AllBelow(Front(stack))
      /\ Top.at # "instant" => (NoInstant(Front(stack)) <=> NoInstant(stack))
      /\ Top.at = "instant" => NoInstant(Front(stack))
  BY <1>1, NestedPopped DEF Top
<1>4. Top.at = "remaining" => ~NoInstant(stack)
  <2>1. Len(stack) \in Nat \ {0} /\ Top = stack[Len(stack)]
    BY <1>1, Popped DEF Top
  <2>2. Len(stack) \in 1 .. Len(stack)
    BY <2>1
  <2> QED
    BY <1>1, <2>1, <2>2 DEF Nested, NoInstant
<1>5. PICK b \in Seq(Frame) : b = Front(stack)
  BY <1>3
<1>6. /\ Nested(b) /\ AllBelow(b)
      /\ f.at = "instant" => NoInstant(b)
      /\ f.at \notin {"instant", "sync"} => ~NoInstant(b)
  BY <1>2, <1>3, <1>4, <1>5
<1>7. /\ Append(b, f) \in Seq(Frame) /\ Nested(Append(b, f)) /\ Last(Append(b, f)) = f
      /\ NoInstant(Append(b, f)) <=> NoInstant(b) /\ f.at # "instant"
  BY <1>6, NestedPushed
<1>8. ~NoInstant(Append(b, f))
  BY <1>2, <1>6, <1>7
<1>9. Innermost(Append(b, f), entries, alive, queue[1], queue[2])
  BY <1>2, <1>7 DEF Innermost, Fresh
<1>10. CallsFit(Append(b, f), cq, entries, alive, queue[1], queue[2])
  BY <1>7, <1>8, <1>9 DEF CallsFit, Between
<1> QED
  BY <1>5, <1>10

LEMMA NextPhaseKeeps ==
  ASSUME CallsInv, NextPhase
  PROVE  CallsInv'
<1>1. /\ stack # <<>> /\ Top.at = "instant" /\ queue[Top.q] = <<>>
      /\ \/ Top.q < 2 /\ curq' = Top.q + 1 /\ stack' = Append(Front(stack), Instant(Top.q + 1))
         \/ Top.q = 2 /\ curq' = -1 /\ stack' = Front(stack)
      /\ UNCHANGED store /\ queue' = queue /\ ops' = ops
  BY DEF NextPhase, Running
<1>2. /\ QueuesFit(queue) /\ EntriesFit(entries, alive, ops) /\ ops \in 0 .. MaxOps
      /\ stack \in Seq(Frame) /\ Nested(stack)
      /\ Innermost(stack, entries, alive, queue[1], queue[2])
  BY Parts
<1>3. IsLoop(Top) /\ Top \in Frame
  BY <1>1, <1>2, NestedPopped DEF IsLoop, Top
<1>4. Top.q \in 0 .. 2
  BY <1>1, <1>3, Frames
<1>5. CASE Top.q < 2
  <2>1. PICK k \in 1 .. 2 : k = Top.q + 1
    BY <1>4, <1>5
  <2>2. PICK f \in Frame : f = Instant(k) /\ f.at = "instant" /\ f.q = k
    BY Makes
  <2>3. Phase(f, queue[1], queue[2])
    BY <1>1, <1>4, <2>1, <2>2 DEF Phase
  <2>4. k \in -1 .. 2
    OBVIOUS
  <2>5. CallsFit(Append(Front(stack), f), k, entries, alive, queue[1], queue[2])
    BY <1>1, <1>3, <2>2, <2>3, <2>4, LoopGoesOn
  <2>6. curq' = k /\ stack' = Append(Front(stack), f)
    BY <1>1, <1>4, <1>5, <2>1, <2>2
  <2>7. CallsFit(stack', curq', entries, alive, queue'[1], queue'[2])
    BY <1>1, <2>5, <2>6
  <2> QED
    BY <1>1, <1>2, <2>7, StoreKept
<1>6. CASE Top.q = 2
  <2>1. curq' = -1 /\ stack' = Front(stack)
    BY <1>1, <1>6
  <2>2. Front(stack) \in Seq(Frame) /\ Nested(Front(stack)) /\ AllBelow(Front(stack))
    BY <1>1, <1>2, NestedPopped
  <2>3. Innermost(Front(stack), entries, alive, queue[1], queue[2])
    BY <2>2, TopGoesOn
  <2>4. queue[1] = <<>> /\ queue[2] = <<>>
    BY <1>1, <1>2, <1>6 DEF Innermost, Phase, Top
  <2>5. CallsFit(Front(stack), -1, entries, alive, queue[1], queue[2])
    BY <2>2, <2>3, <2>4 DEF CallsFit, Between
  <2>6. CallsFit(stack', curq', entries, alive, queue'[1], queue'[2])
    BY <1>1, <2>1, <2>5
  <2> QED
    BY <1>1, <1>2, <2>6, StoreKept
<1> QED
  BY <1>4, <1>5, <1>6

LEMMA RemainingPhaseKeeps ==
  ASSUME CallsInv, RemainingPhase
  PROVE  CallsInv'
<1>1. /\ stack # <<>> /\ Top.at = "remaining" /\ queue[Top.q] = <<>>
      /\ \/ Top.q = 1 /\ curq' = 2 /\ stack' = Append(Front(stack), Remaining(2))
         \/ Top.q = 2 /\ curq' = 0 /\ stack' = Append(Front(stack), Remaining(0))
         \/ curq' \in {-1, 1} /\ stack' = Front(stack)
      /\ UNCHANGED store /\ queue' = queue /\ ops' = ops
  BY DEF RemainingPhase, Running
<1>2. /\ QueuesFit(queue) /\ EntriesFit(entries, alive, ops) /\ ops \in 0 .. MaxOps
      /\ stack \in Seq(Frame) /\ Nested(stack) /\ curq \in -1 .. 2
  BY Parts
<1>3. IsLoop(Top)
  BY <1>1 DEF IsLoop
<1>4. CASE Top.q = 1 /\ curq' = 2 /\ stack' = Append(Front(stack), Remaining(2))
  <2>1. PICK f \in Frame : f = Remaining(2) /\ f.at = "remaining" /\ f.q = 2
    BY Makes
  <2>2. Phase(f, queue[1], queue[2])
    BY <2>1 DEF Phase
  <2>3. 2 \in -1 .. 2
    OBVIOUS
  <2>4. CallsFit(Append(Front(stack), f), 2, entries, alive, queue[1], queue[2])
    BY <1>1, <1>3, <2>1, <2>2, <2>3, LoopGoesOn
  <2>5. CallsFit(stack', curq', entries, alive, queue'[1], queue'[2])
    BY <1>1, <1>4, <2>1, <2>4
  <2> QED
    BY <1>1, <1>2, <2>5, StoreKept
<1>5. CASE Top.q = 2 /\ curq' = 0 /\ stack' = Append(Front(stack), Remaining(0))
  <2>1. PICK f \in Frame : f = Remaining(0) /\ f.at = "remaining" /\ f.q = 0
    BY Makes
  <2>2. Phase(f, queue[1], queue[2])
    BY <1>1, <1>5, <2>1 DEF Phase
  <2>3. 0 \in -1 .. 2
    OBVIOUS
  <2>4. CallsFit(Append(Front(stack), f), 0, entries, alive, queue[1], queue[2])
    BY <1>1, <1>3, <2>1, <2>2, <2>3, LoopGoesOn
  <2>5. CallsFit(stack', curq', entries, alive, queue'[1], queue'[2])
    BY <1>1, <1>5, <2>1, <2>4
  <2> QED
    BY <1>1, <1>2, <2>5, StoreKept
<1>6. CASE curq' \in {-1, 1} /\ stack' = Front(stack)
  <2>1. /\ Front(stack) \in Seq(Frame) /\ Nested(Front(stack))
        /\ NoInstant(Front(stack)) <=> NoInstant(stack)
        /\ Innermost(Front(stack), entries, alive, queue[1], queue[2])
    BY <1>1, PopFits
  <2>2. ~NoInstant(stack)
    <3>1. Len(stack) \in Nat \ {0} /\ Top = stack[Len(stack)]
      BY <1>1, <1>2, Popped DEF Top
    <3>2. Len(stack) \in 1 .. Len(stack)
      BY <3>1
    <3> QED
      BY <1>1, <1>2, <3>1, <3>2 DEF Nested, NoInstant
  <2>3. curq' \in -1 .. 2
    BY <1>6
  <2>4. CallsFit(stack', curq', entries, alive, queue'[1], queue'[2])
    BY <1>1, <1>6, <2>1, <2>2, <2>3 DEF CallsFit, Between
  <2> QED
    BY <1>1, <1>2, <2>4, StoreKept
<1> QED
  BY <1>1, <1>4, <1>5, <1>6

LEMMA SyncRemainingKeeps ==
  ASSUME CallsInv, SyncRemaining
  PROVE  CallsInv'
<1>1. /\ stack # <<>> /\ Top.at = "sync"
      /\ IF curq = 1 THEN stack' = Append(Front(stack), Remaining(1)) /\ curq' = curq
                     ELSE ProcessInstant(Front(stack))
      /\ UNCHANGED store /\ queue' = queue /\ ops' = ops
  BY DEF SyncRemaining, Running
<1>2. /\ QueuesFit(queue) /\ EntriesFit(entries, alive, ops) /\ ops \in 0 .. MaxOps
      /\ Between(stack, curq, queue[1], queue[2])
  BY Parts
<1>3. PICK b \in Seq(Frame) : b = Front(stack)
  BY <1>1, PopFits
<1>4. /\ Nested(b) /\ AllBelow(b) /\ (NoInstant(b) <=> NoInstant(stack))
      /\ Innermost(b, entries, alive, queue[1], queue[2])
  BY <1>1, <1>3, PopFits
<1>5. CASE curq = 1
  <2>1. ~NoInstant(b)
    BY <1>2, <1>4, <1>5 DEF Between
  <2>2. PICK f \in Frame : f = Remaining(1) /\ f.at = "remaining" /\ f.q = 1
    BY Makes
  <2>3. /\ Append(b, f) \in Seq(Frame) /\ Nested(Append(b, f)) /\ ~NoInstant(Append(b, f))
        /\ Last(Append(b, f)) = f
    BY <1>4, <2>1, <2>2, NestedPushed
  <2>4. Innermost(Append(b, f), entries, alive, queue[1], queue[2])
    BY <2>2, <2>3 DEF Innermost, Fresh, Phase
  <2>5. stack' = Append(b, f) /\ curq' = 1 /\ 1 \in -1 .. 2
    BY <1>1, <1>3, <1>5, <2>2
  <2>6. CallsFit(stack', curq', entries, alive, queue'[1], queue'[2])
    BY <1>1, <2>3, <2>4, <2>5 DEF CallsFit, Between
  <2> QED
    BY <1>1, <1>2, <2>6, StoreKept
<1>6. CASE curq # 1
  <2>1. ProcessInstant(b)
    BY <1>1, <1>3, <1>6
  <2>2. CallsFit(stack', curq', entries, alive, queue[1], queue[2])
    BY <1>4, <2>1, ProcessFits
  <2>3. CallsFit(stack', curq', entries, alive, queue'[1], queue'[2])
    BY <1>1, <2>2
  <2> QED
    BY <1>1, <1>2, <2>3, StoreKept
<1> QED
  BY <1>5, <1>6

LEMMA ProcessAllKeeps ==
  ASSUME CallsInv, ProcessAll
  PROVE  CallsInv'
<1>1. /\ ProcessInstant(stack)
      /\ UNCHANGED store /\ queue' = queue /\ ops' = ops
  BY DEF ProcessAll
<1>2. /\ QueuesFit(queue) /\ EntriesFit(entries, alive, ops) /\ ops \in 0 .. MaxOps
      /\ stack \in Seq(Frame) /\ Nested(stack)
      /\ Innermost(stack, entries, alive, queue[1], queue[2])
  BY Parts
<1>3. CallsFit(stack', curq', entries, alive, queue[1], queue[2])
  BY <1>1, <1>2, ProcessFits
<1>4. CallsFit(stack', curq', entries, alive, queue'[1], queue'[2])
  BY <1>1, <1>3
<1> QED
  BY <1>1, <1>2, <1>4, StoreKept

LEMMA InitCalls == Init => CallsInv
<1> SUFFICES ASSUME Init PROVE CallsInv
  OBVIOUS
<1>1. /\ entries = <<>> /\ alive = Agent /\ val = [x \in Attr |-> Null]
      /\ deps = [x \in Attr |-> <<>>] /\ queue = [k \in 0 .. 2 |-> <<>>]
      /\ curq = -1 /\ stack = <<>> /\ ops = 0
  BY DEF Init
<1>2. \A S : <<>> \in Seq(S) /\ Len(<<>>) = 0
  BY EmptySeq
<1>3. EntriesFit(entries, alive, ops)
  <2>1. entries \in Seq(EntryRecord \cup {Removed}) /\ Len(entries) = 0
    BY <1>1, <1>2
  <2> QED
    BY <2>1, BoundsAssumption DEF EntriesFit
<1>4. QueuesFit(queue)
  BY <1>1, <1>2 DEF QueuesFit
<1>5. CallsFit(stack, curq, entries, alive, queue[1], queue[2])
  <2>1. stack \in Seq(Frame) /\ Len(stack) = 0 /\ stack = <<>>
    BY <1>1, <1>2
  <2>2. Nested(stack)
    BY <2>1 DEF Nested
  <2> QED
    BY <1>1, <2>1, <2>2 DEF CallsFit, Between, Innermost
<1>6. val \in [Attr -> Value] /\ deps \in [Attr -> Seq(EntryId)] /\ ops \in 0 .. MaxOps
  BY <1>1, <1>2, BoundsAssumption DEF Value
<1> QED
  BY <1>1, <1>3, <1>4, <1>5, <1>6 DEF CallsInv

LEMMA NextCalls == CallsInv /\ [Next]_vars => CallsInv'
<1> SUFFICES ASSUME CallsInv, [Next]_vars PROVE CallsInv'
  OBVIOUS
<1>1. CASE HandleSet
  BY <1>1, HandleSetKeeps
<1>2. CASE HandleOtherSet
  BY <1>2, HandleOtherSetKeeps
<1>3. CASE HandleDefine
  BY <1>3, HandleDefineKeeps
<1>4. CASE HandleDep
  BY <1>4, HandleDepKeeps
<1>5. CASE \E fails \in BOOLEAN : HandleNotify(fails)
  BY <1>5, HandleNotifyKeeps
<1>6. CASE ErrorSet
  BY <1>6, ErrorSetKeeps
<1>7. CASE ErrorDone
  BY <1>7, ErrorDoneKeeps
<1>8. CASE CallAgent
  BY <1>8, CallAgentKeeps
<1>9. CASE BodyReturn
  BY <1>9, BodyReturnKeeps
<1>10. CASE NextPhase
  BY <1>10, NextPhaseKeeps
<1>11. CASE RemainingPhase
  BY <1>11, RemainingPhaseKeeps
<1>12. CASE SyncRemaining
  BY <1>12, SyncRemainingKeeps
<1>13. CASE ProcessAll
  BY <1>13, ProcessAllKeeps
<1>14. CASE \E a \in Agent, x \in Attr, fails \in BOOLEAN : Add(a, x, fails)
  BY <1>14, AddKeeps
<1>15. CASE \E i \in EntryId, x \in Attr : Update(i, x)
  BY <1>15, UpdateKeeps
<1>16. CASE \E a \in Agent : RemoveAgent(a)
  BY <1>16, RemoveAgentKeeps
<1>17. CASE \E x \in Attr, v \in Value : SetAsync(x, v) \/ SetSync(x, v)
  BY <1>17, SetAsyncKeeps, SetSyncKeeps
<1>18. CASE UNCHANGED vars
  BY <1>18 DEF vars, CallsInv
<1> QED
  BY <1>1, <1>2, <1>3, <1>4, <1>5, <1>6, <1>7, <1>8, <1>9, <1>10, <1>11, <1>12, <1>13, <1>14,
     <1>15, <1>16, <1>17, <1>18 DEF Next, Machine

\* How the calls nest, and what the innermost one finds, is so in every behaviour.
THEOREM CallsNest == Spec => []CallsInv
BY InitCalls, NextCalls, PTL DEF Spec

\* The variables have their types, and every event is in the queue of its type.
THEOREM TypeCorrect == Spec => []TypeOK
<1>1. CallsInv => TypeOK
  <2> SUFFICES ASSUME CallsInv PROVE TypeOK
    OBVIOUS
  <2>1. \A k \in 0 .. 2 : queue[k] \in Seq(Event(k))
    BY Parts DEF QueuesFit
  <2> QED
    BY <2>1, Parts DEF TypeOK, EntriesFit
<1> QED
  BY <1>1, CallsNest, PTL

\* AgentHandler::handle goes on with an entry, and an agent with itself, that is gone
\* only after a call that drained the queues meanwhile: a synchronous set by the agent
\* or an error in its condition.
THEOREM FaultsCorrect == Spec => []FaultsNeedDrain
<1>1. CallsInv => FaultsNeedDrain
  <2> SUFFICES ASSUME CallsInv, Faulted PROVE Top.waited
    BY DEF FaultsNeedDrain
  <2>1. stack # <<>> /\ \/ Top.at = "eval" /\ ~Live(Top.id)
                        \/ Top.at = "body" /\ Top.agent \notin alive
    BY DEF Faulted, Running
  <2>2. Fresh(entries, alive, Top)
    BY <2>1, Parts DEF Innermost, Top
  <2>3. Live(Top.id) <=> LiveIn(entries, Top.id)
    BY DEF Live, LiveIn, At
  <2> QED
    BY <2>1, <2>2, <2>3 DEF Fresh
<1> QED
  BY <1>1, CallsNest, PTL

-----------------------------------------------------------------------------
(***************************************************************************)
(* No agent misses a change: every entry has its DEFINE or its             *)
(* notification queued, or was evaluated on the value its attribute has    *)
(* and is registered, or about to be, with it.                             *)
(***************************************************************************)
Informed(es, vl, t0, t1, t2, ds, i) ==
  \/ DefineEvent(i) \in t0
  \/ i \in t1
  \/ /\ es[i + 1].seen = vl[es[i + 1].watch]
     /\ Dep(es[i + 1].watch, i) \in t2 \/ i \in ToSet(ds[es[i + 1].watch])

AllInformed(es, vl, t0, t1, t2, ds) ==
  \A i \in EntryId : LiveIn(es, i) => Informed(es, vl, t0, t1, t2, ds, i)

InformedInv ==
  AllInformed(entries, val, ToSet(queue[0]), ToSet(queue[1]), ToSet(queue[2]), deps)

\* More events queued, and some entries gone.
LEMMA InformedLater ==
  ASSUME NEW es, NEW vl, NEW t0, NEW t1, NEW t2, NEW ds, AllInformed(es, vl, t0, t1, t2, ds),
         NEW fs, \A i \in EntryId : LiveIn(fs, i) => LiveIn(es, i) /\ fs[i + 1] = es[i + 1],
         NEW u0, NEW u1, NEW u2, t0 \subseteq u0, t1 \subseteq u1, t2 \subseteq u2
  PROVE  AllInformed(fs, vl, u0, u1, u2, ds)
<1> SUFFICES ASSUME NEW i \in EntryId, LiveIn(fs, i) PROVE Informed(fs, vl, u0, u1, u2, ds, i)
  BY DEF AllInformed
<1>1. LiveIn(es, i) /\ fs[i + 1] = es[i + 1]
  OBVIOUS
<1>2. Informed(es, vl, t0, t1, t2, ds, i)
  BY <1>1 DEF AllInformed
<1> QED
  BY <1>1, <1>2 DEF Informed

\* What a set sent does to the queues.
LEMMA Sending ==
  ASSUME CallsInv, NEW c, NEW e \in Event(0), Sent(c, 0, e)
  PROVE  /\ queue'[0] = Append(queue[0], e) /\ queue'[1] = queue[1] /\ queue'[2] = queue[2]
         /\ ToSet(queue'[0]) = ToSet(queue[0]) \cup {e}
<1>1. QueuesFit(queue) /\ queue[0] \in Seq(Event(0))
  BY Parts
<1>2. queue' = Queued(queue, 0, e)
  BY DEF Sent, Queued
<1>3. /\ Queued(queue, 0, e)[0] = Append(queue[0], e)
      /\ \A j \in 0 .. 2 : j # 0 => Queued(queue, 0, e)[j] = queue[j]
  BY <1>1, Queueing
<1>4. ToSet(Append(queue[0], e)) = ToSet(queue[0]) \cup {e}
  BY <1>1, Pushed
<1>5. queue'[0] = Append(queue[0], e) /\ queue'[1] = queue[1] /\ queue'[2] = queue[2]
  BY <1>2, <1>3
<1>6. ToSet(queue'[0]) = ToSet(queue[0]) \cup {e}
  BY <1>4, <1>5
<1> QED
  BY <1>5, <1>6

\* Adding and updating an entry queues its DEFINE.
LEMMA AddDoes ==
  ASSUME CallsInv, NEW a \in Agent, NEW x \in Attr, NEW fails \in BOOLEAN, Add(a, x, fails)
  PROVE  /\ Len(entries) \in EntryId
         /\ queue'[0] = Append(queue[0], DefineEvent(Len(entries)))
         /\ queue'[1] = queue[1] /\ queue'[2] = queue[2]
         /\ val' = val /\ deps' = deps
         /\ Len(entries') = Len(entries) + 1 /\ Len(entries) \in Nat
         /\ \A j \in 1 .. Len(entries) : entries'[j] = entries[j]
         /\ entries'[Len(entries) + 1].asked = 1
         /\ \A j \in Nat : LiveIn(entries', j) <=> LiveIn(entries, j) \/ j = Len(entries)
<1>1. /\ Operates /\ a \in alive /\ Len(entries) < MaxEntries
      /\ entries' = Append(entries, Entry(a, x, fails))
      /\ Sent(stack, 0, DefineEvent(Len(entries)))
      /\ val' = val /\ deps' = deps
  BY DEF Add
<1>2. ops' \in 1 .. MaxOps /\ EntriesFit(entries, alive, ops')
  BY <1>1, Operating
<1>3. MaxOps # 0 /\ 1 <= ops'
  BY <1>2, BoundsAssumption
<1>4. PICK r \in EntryRecord : r = Entry(a, x, fails) /\ r.agent = a /\ r.asked = 1
  BY <1>3, NewEntry
<1>5. entries' = Append(entries, r) /\ r.agent \in alive /\ r.asked <= ops'
  BY <1>1, <1>3, <1>4
<1>6. /\ Len(Append(entries, r)) = Len(entries) + 1 /\ Len(entries) \in EntryId
      /\ Append(entries, r)[Len(entries) + 1] = r
      /\ \A j \in 1 .. Len(entries) : Append(entries, r)[j] = entries[j]
      /\ \A j \in Nat : LiveIn(Append(entries, r), j) <=> LiveIn(entries, j) \/ j = Len(entries)
  BY <1>1, <1>2, <1>5, EntryAdded
<1>7. PICK e \in Event(0) : e = DefineEvent(Len(entries))
  BY <1>6, Events
<1>8. queue'[0] = Append(queue[0], e) /\ queue'[1] = queue[1] /\ queue'[2] = queue[2]
  BY <1>1, <1>7, Sending
<1>9. Len(entries) \in Nat
  BY <1>6, BoundsAssumption DEF EntryId
<1> QED
  BY <1>1, <1>4, <1>5, <1>6, <1>7, <1>8, <1>9

\* A set takes the dependents of the attribute it changes to the notifications, while
\* no dependency is queued.
LEMMA HandleSetDoes ==
  ASSUME CallsInv, HandleSet
  PROVE  /\ queue[0] # <<>> /\ queue[2] = <<>> /\ entries' = entries
         /\ Head(queue[0]).type = "SET" /\ Head(queue[0]).attr \in Attr
         /\ queue'[0] = Tail(queue[0]) /\ queue'[2] = queue[2]
         /\ \/ /\ val'   = [val EXCEPT ![Head(queue[0]).attr] = Head(queue[0]).v]
               /\ deps'  = [deps EXCEPT ![Head(queue[0]).attr] = <<>>]
               /\ queue'[1] = queue[1] \o deps[Head(queue[0]).attr]
            \/ val' = val /\ deps' = deps /\ queue'[1] = queue[1]
<1> DEFINE e == Head(queue[0])
<1>1. /\ Draining(0) /\ e.type = "SET" /\ entries' = entries
      /\ \/ /\ val'   = [val EXCEPT ![e.attr] = e.v]
            /\ queue' = [Taken(0) EXCEPT ![1] = @ \o deps[e.attr]]
            /\ deps'  = [deps EXCEPT ![e.attr] = <<>>]
         \/ /\ queue' = Taken(0)
            /\ val' = val /\ deps' = deps
  BY DEF HandleSet
<1>2. QueuesFit(queue) /\ queue[1] \in Seq(EntryId) /\ deps \in [Attr -> Seq(EntryId)]
  BY Parts
<1>3. queue[0] # <<>> /\ IsLoop(Top) /\ Top.q = 0 /\ Phase(Top, queue[1], queue[2])
  BY <1>1, InDrain
<1>4. queue[2] = <<>>
  BY <1>3 DEF Phase
<1>5. /\ QueuesFit(Taken(0)) /\ e \in Event(0) /\ Taken(0)[0] = Tail(queue[0])
      /\ Taken(0)[1] = queue[1] /\ Taken(0)[2] = queue[2]
  BY <1>2, <1>3, Taking
<1>6. e.attr \in Attr
  BY <1>1, <1>5, Events
<1> HIDE DEF e
<1>7. CASE queue' = Taken(0) /\ val' = val /\ deps' = deps
  BY <1>1, <1>3, <1>4, <1>5, <1>6, <1>7 DEF e
<1>8. CASE /\ val'   = [val EXCEPT ![e.attr] = e.v]
           /\ queue' = [Taken(0) EXCEPT ![1] = @ \o deps[e.attr]]
           /\ deps'  = [deps EXCEPT ![e.attr] = <<>>]
  <2>1. deps[e.attr] \in Seq(EntryId)
    BY <1>2, <1>6
  <2>2. PICK s \in Seq(EntryId) : s = queue[1] \o deps[e.attr]
    BY <1>2, <2>1, Joined
  <2>3. s \in Seq(Event(1))
    BY EventsOf, Zenon
  <2>4. queue' = [Taken(0) EXCEPT ![1] = s]
    BY <1>8, <2>2, <1>5
  <2>5. queue'[0] = Taken(0)[0] /\ queue'[1] = s /\ queue'[2] = Taken(0)[2]
    <3>1. PICK t : t = Taken(0)
      OBVIOUS
    <3>2. t = [k \in 0 .. 2 |-> t[k]] /\ queue' = [t EXCEPT ![1] = s]
      BY <1>5, <2>4, <3>1 DEF QueuesFit
    <3>3. queue'[0] = t[0] /\ queue'[1] = s /\ queue'[2] = t[2]
      BY <3>2
    <3> QED
      BY <3>1, <3>3
  <2>6. /\ queue'[0] = Tail(queue[0]) /\ queue'[2] = queue[2]
        /\ queue'[1] = queue[1] \o deps[e.attr]
    BY <1>5, <2>2, <2>5
  <2> QED
    BY <1>1, <1>3, <1>4, <1>6, <1>8, <2>6 DEF e
<1> QED
  BY <1>1, <1>7, <1>8

\* Only a DEFINE is one.
LEMMA NoDefine ==
  /\ \A i : OtherSet # DefineEvent(i)
  /\ \A x, v, i : SetEvent(x, v) # DefineEvent(i)
  /\ \A e, i : e.type = "SET" => e # DefineEvent(i)
  /\ \A e, i : e.type = "SET_OTHER" => e # DefineEvent(i)
  /\ \A i, j : DefineEvent(i) = DefineEvent(j) => i = j
  /\ \A x, y, i, j : Dep(x, i) = Dep(y, j) => i = j /\ x = y
BY DEF OtherSet, DefineEvent, SetEvent, Dep

LEMMA InitInformed == Init => InformedInv
<1> SUFFICES ASSUME Init PROVE InformedInv
  OBVIOUS
<1>1. Len(entries) = 0
  BY EmptySeq DEF Init
<1>2. \A i \in EntryId : ~LiveIn(entries, i)
  BY <1>1, BoundsAssumption DEF LiveIn, EntryId
<1> QED
  BY <1>2 DEF InformedInv, AllInformed

\* The steps that leave table, attributes and queued events as they are, or add some.
LEMMA InformedKept ==
  ASSUME InformedInv, val' = val, deps' = deps,
         \A i \in EntryId : LiveIn(entries', i) =>
           LiveIn(entries, i) /\ entries'[i + 1] = entries[i + 1],
         ToSet(queue[0]) \subseteq ToSet(queue'[0]), ToSet(queue[1]) \subseteq ToSet(queue'[1]),
         ToSet(queue[2]) \subseteq ToSet(queue'[2])
  PROVE  InformedInv'
<1>1. AllInformed(entries', val, ToSet(queue'[0]), ToSet(queue'[1]), ToSet(queue'[2]), deps)
  BY InformedLater DEF InformedInv
<1> QED
  BY <1>1 DEF InformedInv

LEMMA AddInforms ==
  ASSUME CallsInv, InformedInv, NEW a \in Agent, NEW x \in Attr, NEW fails \in BOOLEAN,
         Add(a, x, fails)
  PROVE  InformedInv'
<1>1. /\ Len(entries) \in EntryId /\ queue'[0] = Append(queue[0], DefineEvent(Len(entries)))
      /\ queue'[1] = queue[1] /\ queue'[2] = queue[2] /\ val' = val /\ deps' = deps
      /\ Len(entries) \in Nat
      /\ \A j \in 1 .. Len(entries) : entries'[j] = entries[j]
      /\ \A j \in Nat : LiveIn(entries', j) <=> LiveIn(entries, j) \/ j = Len(entries)
  BY AddDoes
<1>2. PICK e \in Event(0) : e = DefineEvent(Len(entries))
  BY <1>1, Events
<1>3. ToSet(queue'[0]) = ToSet(queue[0]) \cup {e}
  <2>1. queue[0] \in Seq(Event(0))
    BY Parts
  <2>2. ToSet(Append(queue[0], e)) = ToSet(queue[0]) \cup {e}
    BY <2>1, Pushed
  <2> QED
    BY <1>1, <1>2, <2>2
<1> SUFFICES ASSUME NEW i \in EntryId, LiveIn(entries', i)
             PROVE  Informed(entries', val', ToSet(queue'[0]), ToSet(queue'[1]), ToSet(queue'[2]),
                             deps', i)
  BY DEF InformedInv, AllInformed
<1>4. CASE i = Len(entries)
  BY <1>2, <1>3, <1>4 DEF Informed
<1>5. CASE i # Len(entries)
  <2>1. i \in Nat
    BY BoundsAssumption DEF EntryId
  <2>2. LiveIn(entries, i)
    BY <1>1, <1>5, <2>1
  <2>3. i + 1 \in 1 .. Len(entries)
    BY <1>1, <2>1, <2>2 DEF LiveIn
  <2>4. Informed(entries, val, ToSet(queue[0]), ToSet(queue[1]), ToSet(queue[2]), deps, i)
    BY <2>2 DEF InformedInv, AllInformed
  <2> QED
    BY <1>1, <1>3, <2>3, <2>4 DEF Informed
<1> QED
  BY <1>4, <1>5

LEMMA UpdateInforms ==
  ASSUME CallsInv, InformedInv, NEW k \in EntryId, NEW x \in Attr, Update(k, x)
  PROVE  InformedInv'
<1>1. PICK e \in Event(0) : e = DefineEvent(k)
  BY Events
<1>2. Sent(stack, 0, e) /\ val' = val /\ deps' = deps
  BY <1>1 DEF Update
<1>3. queue'[1] = queue[1] /\ queue'[2] = queue[2] /\ ToSet(queue'[0]) = ToSet(queue[0]) \cup {e}
  BY <1>2, Sending
<1>4. /\ \A j \in 1 .. Len(entries) : j # k + 1 => entries'[j] = entries[j]
      /\ \A j \in Nat : LiveIn(entries', j) <=> LiveIn(entries, j)
      /\ k \in Nat
  BY UpdatedEntry
<1> SUFFICES ASSUME NEW i \in EntryId, LiveIn(entries', i)
             PROVE  Informed(entries', val', ToSet(queue'[0]), ToSet(queue'[1]), ToSet(queue'[2]),
                             deps', i)
  BY DEF InformedInv, AllInformed
<1>5. CASE i = k
  BY <1>1, <1>3, <1>5 DEF Informed
<1>6. CASE i # k
  <2>1. i \in Nat
    BY BoundsAssumption DEF EntryId
  <2>2. LiveIn(entries, i)
    BY <1>4, <2>1
  <2>3. i + 1 \in 1 .. Len(entries) /\ i + 1 # k + 1
    <3>1. Len(entries) \in Nat
      BY Parts, SeqIs DEF EntriesFit
    <3> QED
      BY <1>4, <1>6, <2>1, <2>2, <3>1 DEF LiveIn
  <2>4. Informed(entries, val, ToSet(queue[0]), ToSet(queue[1]), ToSet(queue[2]), deps, i)
    BY <2>2 DEF InformedInv, AllInformed
  <2>5. entries'[i + 1] = entries[i + 1]
    BY <1>4, <2>3
  <2> QED
    BY <1>2, <1>3, <2>5, <2>4 DEF Informed
<1> QED
  BY <1>5, <1>6

LEMMA RemoveAgentInforms ==
  ASSUME CallsInv, InformedInv, NEW a \in Agent, RemoveAgent(a)
  PROVE  InformedInv'
<1>1. entries' = Cleared(entries, a) /\ val' = val /\ deps' = deps /\ queue' = queue
  BY DEF RemoveAgent, Cleared
<1>2. \A j \in Nat : LiveIn(entries', j) => LiveIn(entries, j) /\ entries'[j + 1] = entries[j + 1]
  BY <1>1, Parts, EntriesRemoved
<1>3. \A j \in EntryId : j \in Nat
  BY BoundsAssumption DEF EntryId
<1> QED
  BY <1>1, <1>2, <1>3, InformedKept

\* A set or a set of another attribute that is queued.
LEMMA SetInforms ==
  ASSUME CallsInv, InformedInv, UNCHANGED store, NEW c, NEW e \in Event(0), Sent(c, 0, e)
  PROVE  InformedInv'
<1>1. entries' = entries /\ val' = val /\ deps' = deps
  BY DEF store
<1>2. queue'[1] = queue[1] /\ queue'[2] = queue[2] /\ ToSet(queue'[0]) = ToSet(queue[0]) \cup {e}
  BY Sending
<1> QED
  BY <1>1, <1>2, InformedKept

LEMMA HandleSetInforms ==
  ASSUME CallsInv, InformedInv, HandleSet
  PROVE  InformedInv'
<1> DEFINE e == Head(queue[0])
<1>1. /\ queue[0] # <<>> /\ queue[2] = <<>> /\ entries' = entries
      /\ e.type = "SET" /\ e.attr \in Attr
      /\ queue'[0] = Tail(queue[0]) /\ queue'[2] = queue[2]
      /\ \/ /\ val'   = [val EXCEPT ![e.attr] = e.v]
            /\ deps'  = [deps EXCEPT ![e.attr] = <<>>]
            /\ queue'[1] = queue[1] \o deps[e.attr]
         \/ val' = val /\ deps' = deps /\ queue'[1] = queue[1]
  BY HandleSetDoes
<1>2. /\ queue[0] \in Seq(Event(0)) /\ queue[1] \in Seq(EntryId)
      /\ deps \in [Attr -> Seq(EntryId)] /\ val \in [Attr -> Value]
      /\ EntriesFit(entries, alive, ops)
  BY Parts
<1>3. ToSet(queue[0]) = ToSet(queue'[0]) \cup {e}
  BY <1>1, <1>2, Shortened
<1> HIDE DEF e
<1>4. ToSet(queue[2]) = {}
  BY <1>1, EmptySeq DEF ToSet
<1> SUFFICES ASSUME NEW i \in EntryId, LiveIn(entries', i)
             PROVE  Informed(entries', val', ToSet(queue'[0]), ToSet(queue'[1]), ToSet(queue'[2]),
                             deps', i)
  BY DEF InformedInv, AllInformed
<1> DEFINE x == entries[i + 1].watch
<1>5. Informed(entries, val, ToSet(queue[0]), ToSet(queue[1]), ToSet(queue[2]), deps, i)
  BY <1>1 DEF InformedInv, AllInformed
<1>6. e # DefineEvent(i)
  BY <1>1, NoDefine
<1>7. x \in Attr
  <2>1. i \in Nat
    BY BoundsAssumption DEF EntryId
  <2>2. entries[i + 1] \in EntryRecord
    BY <1>1, <1>2, <2>1, LiveEntry
  <2> QED
    BY <2>2 DEF EntryRecord
<1>8. \/ DefineEvent(i) \in ToSet(queue'[0])
      \/ i \in ToSet(queue[1])
      \/ entries[i + 1].seen = val[x] /\ i \in ToSet(deps[x])
  BY <1>3, <1>4, <1>5, <1>6 DEF Informed
<1> HIDE DEF x
<1>9. CASE val' = val /\ deps' = deps /\ queue'[1] = queue[1]
  BY <1>1, <1>8, <1>9 DEF Informed, x
<1>10. CASE /\ val'   = [val EXCEPT ![e.attr] = e.v]
            /\ deps'  = [deps EXCEPT ![e.attr] = <<>>]
            /\ queue'[1] = queue[1] \o deps[e.attr]
  <2>1. ToSet(queue'[1]) = ToSet(queue[1]) \cup ToSet(deps[e.attr])
    <3>1. deps[e.attr] \in Seq(EntryId)
      BY <1>1, <1>2
    <3> QED
      BY <1>2, <1>10, <3>1, Joined
  <2>2. CASE x = e.attr
    BY <1>8, <1>1, <2>1, <2>2 DEF Informed, x
  <2>3. CASE x # e.attr
    <3>1. val'[x] = val[x] /\ deps'[x] = deps[x]
      BY <1>2, <1>7, <1>10, <2>3
    <3> QED
      BY <1>8, <1>1, <2>1, <3>1 DEF Informed, x
  <2> QED
    BY <2>2, <2>3
<1> QED
  BY <1>1, <1>9, <1>10

LEMMA HandleOtherSetInforms ==
  ASSUME CallsInv, InformedInv, HandleOtherSet
  PROVE  InformedInv'
<1> DEFINE e == Head(queue[0])
<1>1. Draining(0) /\ e.type = "SET_OTHER" /\ queue' = Taken(0) /\ UNCHANGED store
  BY DEF HandleOtherSet
<1>2. QueuesFit(queue) /\ queue[0] \in Seq(Event(0)) /\ queue[0] # <<>>
  BY <1>1, Parts, InDrain
<1>3. queue'[0] = Tail(queue[0]) /\ queue'[1] = queue[1] /\ queue'[2] = queue[2]
  BY <1>1, <1>2, Taking
<1>4. ToSet(queue[0]) = ToSet(queue'[0]) \cup {e}
  BY <1>2, <1>3, Shortened
<1>5. \A i : e # DefineEvent(i)
  BY <1>1, NoDefine
<1> HIDE DEF e
<1>6. entries' = entries /\ val' = val /\ deps' = deps
  BY <1>1 DEF store
<1> SUFFICES ASSUME NEW i \in EntryId, LiveIn(entries', i)
             PROVE  Informed(entries', val', ToSet(queue'[0]), ToSet(queue'[1]), ToSet(queue'[2]),
                             deps', i)
  BY DEF InformedInv, AllInformed
<1>7. Informed(entries, val, ToSet(queue[0]), ToSet(queue[1]), ToSet(queue[2]), deps, i)
  BY <1>6 DEF InformedInv, AllInformed
<1> QED
  BY <1>3, <1>4, <1>5, <1>6, <1>7 DEF Informed

LEMMA HandleDefineInforms ==
  ASSUME CallsInv, InformedInv, HandleDefine
  PROVE  InformedInv'
<1>1. /\ queue'[0] = Tail(queue[0]) /\ queue'[1] = Append(queue[1], Head(queue[0]).id)
      /\ queue'[2] = queue[2]
      /\ Head(queue[0]).id \in EntryId /\ Head(queue[0]) = DefineEvent(Head(queue[0]).id)
  BY HandleDefineKeeps
<1>2. PICK k \in EntryId : k = Head(queue[0]).id
  BY <1>1
<1>3. Draining(0) /\ entries' = entries /\ val' = val /\ deps' = deps
  BY DEF HandleDefine, store
<1>4. queue[0] \in Seq(Event(0)) /\ queue[1] \in Seq(EntryId) /\ queue[0] # <<>>
  BY <1>3, Parts, InDrain
<1>5. ToSet(queue[0]) = ToSet(queue'[0]) \cup {DefineEvent(k)}
  BY <1>1, <1>2, <1>4, Shortened
<1>6. ToSet(queue'[1]) = ToSet(queue[1]) \cup {k}
  BY <1>1, <1>2, <1>4, Pushed
<1> SUFFICES ASSUME NEW i \in EntryId, LiveIn(entries', i)
             PROVE  Informed(entries', val', ToSet(queue'[0]), ToSet(queue'[1]), ToSet(queue'[2]),
                             deps', i)
  BY DEF InformedInv, AllInformed
<1>7. Informed(entries, val, ToSet(queue[0]), ToSet(queue[1]), ToSet(queue[2]), deps, i)
  BY <1>3 DEF InformedInv, AllInformed
<1>8. DefineEvent(i) = DefineEvent(k) => i = k
  BY NoDefine
<1> QED
  BY <1>1, <1>3, <1>5, <1>6, <1>7, <1>8 DEF Informed

LEMMA HandleNotifyInforms ==
  ASSUME CallsInv, InformedInv, NEW fails \in BOOLEAN, HandleNotify(fails)
  PROVE  InformedInv'
<1> DEFINE k == Head(queue[1])
           r == entries[k + 1]
           v == val[r.watch]
<1>1. /\ val' = val /\ deps' = deps /\ queue[1] # <<>> /\ k \in EntryId
      /\ queue'[0] = queue[0] /\ queue'[1] = Tail(queue[1])
      /\ \/ ~LiveIn(entries, k) /\ queue'[2] = queue[2] /\ entries' = entries
         \/ /\ LiveIn(entries, k) /\ queue'[2] = Append(queue[2], Dep(r.watch, k))
            /\ entries' = Put(entries, k, Read(r, v))
  BY HandleNotifyKeeps
<1>2. /\ queue[1] \in Seq(EntryId) /\ queue[2] \in Seq([attr : Attr, id : EntryId])
      /\ EntriesFit(entries, alive, ops) /\ ops \in 0 .. MaxOps
  BY Parts
<1>3. ToSet(queue[1]) = ToSet(queue'[1]) \cup {k}
  BY <1>1, <1>2, Shortened
<1>4. k \in Nat /\ \A i \in EntryId : i \in Nat
  BY <1>1, BoundsAssumption DEF EntryId
<1> HIDE DEF k
<1> SUFFICES ASSUME NEW i \in EntryId, LiveIn(entries', i)
             PROVE  Informed(entries', val', ToSet(queue'[0]), ToSet(queue'[1]), ToSet(queue'[2]),
                             deps', i)
  BY DEF InformedInv, AllInformed
<1>5. CASE ~LiveIn(entries, k) /\ queue'[2] = queue[2] /\ entries' = entries
  <2>1. Informed(entries, val, ToSet(queue[0]), ToSet(queue[1]), ToSet(queue[2]), deps, i)
    BY <1>5 DEF InformedInv, AllInformed
  <2>2. i # k
    BY <1>5
  <2> QED
    BY <1>1, <1>3, <1>5, <2>1, <2>2 DEF Informed
<1>6. CASE /\ LiveIn(entries, k) /\ queue'[2] = Append(queue[2], Dep(r.watch, k))
           /\ entries' = Put(entries, k, Read(r, v))
  <2>1. /\ Read(r, v) \in EntryRecord /\ Read(r, v).agent \in alive /\ Read(r, v).asked <= ops
        /\ Read(r, v).watch = r.watch /\ Read(r, v).seen = v /\ r.watch \in Attr
        /\ k + 1 \in 1 .. Len(entries)
    BY <1>1, <1>6, ReadEntry
  <2>2. /\ entries'[k + 1] = Read(r, v)
        /\ \A j \in 1 .. Len(entries) : j # k + 1 => entries'[j] = entries[j]
        /\ \A j \in Nat : LiveIn(entries', j) <=> LiveIn(entries, j)
    BY <1>2, <1>4, <1>6, <2>1, EntrySet
  <2>3. ToSet(queue'[2]) = ToSet(queue[2]) \cup {Dep(r.watch, k)}
    <3>1. queue[2] \in Seq(Event(2))
      BY Parts DEF QueuesFit
    <3>2. PICK d \in Event(2) : d = Dep(r.watch, k)
      BY <1>1, <2>1, Events
    <3>3. ToSet(Append(queue[2], d)) = ToSet(queue[2]) \cup {d}
      BY <3>1, Pushed
    <3> QED
      BY <1>6, <3>2, <3>3
  <2>4. CASE i = k
    <3>1. entries'[i + 1].seen = val[entries'[i + 1].watch] /\ entries'[i + 1].watch = r.watch
      BY <2>1, <2>2, <2>4
    <3>2. Dep(entries'[i + 1].watch, i) \in ToSet(queue'[2])
      BY <2>3, <2>4, <3>1
    <3> QED
      BY <1>1, <3>1, <3>2 DEF Informed
  <2>5. CASE i # k
    <3>1. LiveIn(entries, i) /\ i + 1 # k + 1
      BY <1>4, <2>2, <2>5
    <3>2. i + 1 \in 1 .. Len(entries)
      BY <1>2, <1>4, <3>1, LiveEntry
    <3>3. entries'[i + 1] = entries[i + 1]
      BY <2>2, <3>1, <3>2
    <3>4. Informed(entries, val, ToSet(queue[0]), ToSet(queue[1]), ToSet(queue[2]), deps, i)
      BY <3>1 DEF InformedInv, AllInformed
    <3> QED
      BY <1>1, <1>3, <2>3, <2>5, <3>3, <3>4 DEF Informed
  <2> QED
    BY <2>4, <2>5
<1> QED
  BY <1>1, <1>5, <1>6

\* What registering makes of the dependents.
LEMMA Registering ==
  ASSUME NEW ds \in Seq(EntryId), NEW i \in EntryId
  PROVE  AddDependent(ds, i) \in Seq(EntryId) /\ ToSet(AddDependent(ds, i)) = ToSet(ds) \cup {i}
<1>1. /\ RemoveFirst(ds, i) \in Seq(EntryId)
      /\ ToSet(RemoveFirst(ds, i)) \subseteq ToSet(ds)
      /\ ToSet(ds) \subseteq ToSet(RemoveFirst(ds, i)) \cup {i}
  BY Without
<1>2. <<i>> \in Seq(EntryId)
  OBVIOUS
<1>3. ToSet(<<i>>) = {i}
  BY DEF ToSet
<1>4. /\ <<i>> \o RemoveFirst(ds, i) \in Seq(EntryId)
      /\ ToSet(<<i>> \o RemoveFirst(ds, i)) = ToSet(<<i>>) \cup ToSet(RemoveFirst(ds, i))
  BY <1>1, <1>2, Joined
<1>5. ToSet(<<i>> \o RemoveFirst(ds, i)) = ToSet(ds) \cup {i}
  BY <1>1, <1>3, <1>4
<1> QED
  BY <1>4, <1>5 DEF AddDependent

LEMMA HandleDepInforms ==
  ASSUME CallsInv, InformedInv, HandleDep
  PROVE  InformedInv'
<1> DEFINE e == Head(queue[2])
<1>1. /\ queue'[0] = queue[0] /\ queue'[1] = queue[1] /\ queue'[2] = Tail(queue[2])
      /\ queue[2] # <<>> /\ e.attr \in Attr /\ e.id \in EntryId /\ e = Dep(e.attr, e.id)
  BY HandleDepKeeps
<1>2. /\ deps' = [deps EXCEPT ![e.attr] = AddDependent(@, e.id)]
      /\ entries' = entries /\ val' = val
  BY DEF HandleDep
<1>3. /\ deps \in [Attr -> Seq(EntryId)] /\ queue[2] \in Seq([attr : Attr, id : EntryId])
      /\ EntriesFit(entries, alive, ops)
  BY Parts
<1>4. ToSet(queue[2]) = ToSet(queue'[2]) \cup {e}
  BY <1>1, <1>3, Shortened
<1> HIDE DEF e
<1>5. /\ deps'[e.attr] = AddDependent(deps[e.attr], e.id)
      /\ \A x \in Attr : x # e.attr => deps'[x] = deps[x]
  BY <1>1, <1>2, <1>3
<1>6. ToSet(deps'[e.attr]) = ToSet(deps[e.attr]) \cup {e.id}
  <2>1. deps[e.attr] \in Seq(EntryId)
    BY <1>1, <1>3
  <2> QED
    BY <1>1, <1>5, <2>1, Registering
<1> SUFFICES ASSUME NEW i \in EntryId, LiveIn(entries', i)
             PROVE  Informed(entries', val', ToSet(queue'[0]), ToSet(queue'[1]), ToSet(queue'[2]),
                             deps', i)
  BY DEF InformedInv, AllInformed
<1> DEFINE x == entries[i + 1].watch
<1>7. Informed(entries, val, ToSet(queue[0]), ToSet(queue[1]), ToSet(queue[2]), deps, i)
  BY <1>2 DEF InformedInv, AllInformed
<1>8. x \in Attr
  <2>1. i \in Nat
    BY BoundsAssumption DEF EntryId
  <2>2. entries[i + 1] \in EntryRecord
    BY <1>2, <1>3, <2>1, LiveEntry
  <2> QED
    BY <2>2 DEF EntryRecord
<1>9. ToSet(deps[x]) \subseteq ToSet(deps'[x])
  <2>1. CASE x = e.attr
    BY <1>6, <2>1
  <2>2. CASE x # e.attr
    BY <1>5, <1>8, <2>2
  <2> QED
    BY <2>1, <2>2
<1>10. e = Dep(x, i) => i \in ToSet(deps'[x])
  <2>1. e = Dep(x, i) => e.id = i /\ e.attr = x
    BY DEF Dep
  <2> QED
    BY <1>6, <2>1
<1> HIDE DEF x
<1>11. CASE DefineEvent(i) \in ToSet(queue[0]) \/ i \in ToSet(queue[1])
  BY <1>1, <1>11 DEF Informed
<1>12. CASE /\ entries[i + 1].seen = val[x]
            /\ Dep(x, i) \in ToSet(queue[2]) \/ i \in ToSet(deps[x])
  <2>1. Dep(x, i) \in ToSet(queue'[2]) \/ i \in ToSet(deps'[x])
    BY <1>4, <1>9, <1>10, <1>12
  <2> QED
    BY <1>2, <1>12, <2>1 DEF Informed, x
<1> QED
  BY <1>7, <1>11, <1>12 DEF Informed, x

\* The steps of the calls alone, and of sets that are made.
Moves == ErrorDone \/ CallAgent \/ BodyReturn \/ NextPhase \/ RemainingPhase \/ SyncRemaining
         \/ ProcessAll \/ UNCHANGED vars

LEMMA MovesKeep ==
  ASSUME Moves
  PROVE  UNCHANGED store /\ queue' = queue /\ ops' = ops
BY DEF Moves, ErrorDone, CallAgent, BodyReturn, NextPhase, RemainingPhase, SyncRemaining,
       ProcessAll, vars, store

Sets == \/ ErrorSet
        \/ \E x \in Attr, v \in Value : SetAsync(x, v) \/ SetSync(x, v)

LEMMA SetsSend ==
  ASSUME Sets
  PROVE  /\ UNCHANGED store
         /\ \E c : \E e \in Event(0) : Sent(c, 0, e) /\ \A i : e # DefineEvent(i)
<1>1. CASE ErrorSet
  <2>1. Sent(Front(stack) \o <<Failing(Top.n - 1), Sync>>, 0, OtherSet) /\ UNCHANGED store
    BY <1>1 DEF ErrorSet
  <2>2. OtherSet \in Event(0) /\ \A i : OtherSet # DefineEvent(i)
    BY Events, NoDefine
  <2> QED
    BY <2>1, <2>2
<1>2. ASSUME NEW x \in Attr, NEW v \in Value, SetAsync(x, v) \/ SetSync(x, v)
      PROVE  /\ UNCHANGED store
             /\ \E c : \E e \in Event(0) : Sent(c, 0, e) /\ \A i : e # DefineEvent(i)
  <2>1. UNCHANGED store /\ \E c : Sent(c, 0, SetEvent(x, v))
    BY <1>2 DEF SetAsync, SetSync
  <2>2. SetEvent(x, v) \in Event(0) /\ \A i : SetEvent(x, v) # DefineEvent(i)
    BY Events, NoDefine
  <2> QED
    BY <2>1, <2>2
<1> QED
  BY <1>1, <1>2 DEF Sets

\* The steps there are.
LEMMA Steps ==
  ASSUME [Next]_vars
  PROVE  \/ HandleSet \/ HandleOtherSet \/ HandleDefine \/ HandleDep
         \/ \E fails \in BOOLEAN : HandleNotify(fails)
         \/ \E a \in Agent, x \in Attr, fails \in BOOLEAN : Add(a, x, fails)
         \/ \E i \in EntryId, x \in Attr : Update(i, x)
         \/ \E a \in Agent : RemoveAgent(a)
         \/ Sets \/ Moves
BY DEF Next, Machine, Sets, Moves

LEMMA NextInformed == CallsInv /\ InformedInv /\ [Next]_vars => InformedInv'
<1> SUFFICES ASSUME CallsInv, InformedInv, [Next]_vars PROVE InformedInv'
  OBVIOUS
<1>1. CASE HandleSet
  BY <1>1, HandleSetInforms
<1>2. CASE HandleOtherSet
  BY <1>2, HandleOtherSetInforms
<1>3. CASE HandleDefine
  BY <1>3, HandleDefineInforms
<1>4. CASE HandleDep
  BY <1>4, HandleDepInforms
<1>5. CASE \E fails \in BOOLEAN : HandleNotify(fails)
  BY <1>5, HandleNotifyInforms
<1>6. CASE \E a \in Agent, x \in Attr, fails \in BOOLEAN : Add(a, x, fails)
  BY <1>6, AddInforms
<1>7. CASE \E i \in EntryId, x \in Attr : Update(i, x)
  BY <1>7, UpdateInforms
<1>8. CASE \E a \in Agent : RemoveAgent(a)
  BY <1>8, RemoveAgentInforms
<1>9. CASE Sets
  BY <1>9, SetsSend, SetInforms
<1>10. CASE Moves
  <2>1. UNCHANGED store /\ queue' = queue
    BY <1>10, MovesKeep
  <2> QED
    BY <2>1 DEF InformedInv, store
<1> QED
  BY <1>1, <1>2, <1>3, <1>4, <1>5, <1>6, <1>7, <1>8, <1>9, <1>10, Steps

\* No agent misses a change: when all is quiet the condition of every entry was last
\* evaluated on the value its attribute has, and the entry is registered for the next
\* change, whatever sets, errors and removals were nested in the notifications.
THEOREM InformedCorrect == Spec => []AgentsInformed
<1>1. CallsInv /\ InformedInv => AgentsInformed
  <2> SUFFICES ASSUME CallsInv, InformedInv, Quiet, NEW i \in EntryId, Live(i)
               PROVE  At(i).seen = val[At(i).watch] /\ i \in ToSet(deps[At(i).watch])
    BY DEF AgentsInformed
  <2>1. LiveIn(entries, i) /\ At(i) = entries[i + 1]
    BY DEF Live, LiveIn, At
  <2>2. Informed(entries, val, ToSet(queue[0]), ToSet(queue[1]), ToSet(queue[2]), deps, i)
    BY <2>1 DEF InformedInv, AllInformed
  <2>3. queue[0] = <<>> /\ queue[1] = <<>> /\ queue[2] = <<>>
    BY DEF Quiet
  <2>4. ToSet(queue[0]) = {} /\ ToSet(queue[1]) = {} /\ ToSet(queue[2]) = {}
    BY <2>3, EmptySeq DEF ToSet
  <2> QED
    BY <2>1, <2>2, <2>4 DEF Informed
<1> QED
  BY <1>1, CallsNest, InitInformed, NextInformed, PTL DEF Spec

-----------------------------------------------------------------------------
(***************************************************************************)
(* Counting.                                                               *)
(***************************************************************************)
\* Where elements of T are in s.
Places(s, T) == {j \in 1 .. Len(s) : s[j] \in T}

LEMMA CountPlaces ==
  ASSUME NEW S, NEW s \in Seq(S), NEW T
  PROVE  /\ IsFiniteSet(Places(s, T)) /\ Count(s, T) = Cardinality(Places(s, T))
         /\ Count(s, T) \in Nat
         /\ Places(s, T) \subseteq 1 .. Len(s)
<1>1. Len(s) \in Nat /\ DOMAIN s = 1 .. Len(s)
  BY SeqIs
<1>2. Count(s, T) = Cardinality(Places(s, T))
  BY <1>1 DEF Count, Places
<1>3. IsFiniteSet(1 .. Len(s)) /\ Places(s, T) \in SUBSET (1 .. Len(s))
  BY <1>1, FS_Interval DEF Places
<1>4. IsFiniteSet(Places(s, T))
  BY <1>3, FS_Subset
<1>5. Cardinality(Places(s, T)) \in Nat
  BY <1>4, FS_CardinalityType
<1> QED
  BY <1>2, <1>3, <1>4, <1>5

LEMMA CountNone ==
  ASSUME NEW T
  PROVE  Count(<<>>, T) = 0
<1>1. <<>> \in Seq({}) /\ Len(<<>>) = 0
  BY EmptySeq
<1>2. Count(<<>>, T) = Cardinality(Places(<<>>, T)) /\ Places(<<>>, T) \subseteq 1 .. Len(<<>>)
  BY <1>1, CountPlaces
<1>3. Places(<<>>, T) = {}
  BY <1>1, <1>2
<1> QED
  BY <1>2, <1>3, FS_EmptySet

\* An element appended counts once more.
LEMMA CountPushed ==
  ASSUME NEW S, NEW s \in Seq(S), NEW x \in S, NEW T
  PROVE  Count(Append(s, x), T) = Count(s, T) + (IF x \in T THEN 1 ELSE 0)
<1> DEFINE t == Append(s, x)
           n == Len(s)
<1>1. /\ t \in Seq(S) /\ Len(t) = n + 1 /\ n \in Nat /\ t[n + 1] = x
      /\ \A i \in 1 .. n : t[i] = s[i]
  BY Pushed, SeqIs
<1>2. /\ IsFiniteSet(Places(s, T)) /\ Count(s, T) = Cardinality(Places(s, T))
      /\ Places(s, T) \subseteq 1 .. n /\ Count(s, T) \in Nat
  BY CountPlaces
<1>3. Count(t, T) = Cardinality(Places(t, T))
  BY <1>1, CountPlaces
<1> HIDE DEF t
<1>4. \A j : j \in 1 .. n + 1 <=> j \in 1 .. n \/ j = n + 1
  BY <1>1
<1>5. CASE x \in T
  <2>1. Places(t, T) = Places(s, T) \cup {n + 1}
    BY <1>1, <1>4, <1>5 DEF Places
  <2>2. n + 1 \notin Places(s, T)
    BY <1>1, <1>2
  <2>3. Cardinality(Places(s, T) \cup {n + 1}) = Cardinality(Places(s, T)) + 1
    BY <1>2, <2>2, FS_AddElement
  <2> QED
    BY <1>2, <1>3, <1>5, <2>1, <2>3 DEF t
<1>6. CASE x \notin T
  <2>1. Places(t, T) = Places(s, T)
    BY <1>1, <1>4, <1>6 DEF Places
  <2> QED
    BY <1>2, <1>3, <1>6, <2>1 DEF t
<1> QED
  BY <1>5, <1>6

\* Sequences one behind the other add up: the places in the second are those behind
\* the first.
LEMMA CountJoined ==
  ASSUME NEW S, NEW s \in Seq(S), NEW t \in Seq(S), NEW T
  PROVE  Count(s \o t, T) = Count(s, T) + Count(t, T)
<1> DEFINE u == s \o t
           n == Len(s)
           P == Places(t, T)
           Q == {j \in Places(u, T) : j > n}
           f == [j \in P |-> n + j]
<1>1. /\ u \in Seq(S) /\ Len(u) = n + Len(t) /\ n \in Nat /\ Len(t) \in Nat
      /\ \A i \in 1 .. n : u[i] = s[i]
      /\ \A i \in 1 .. Len(t) : u[n + i] = t[i]
  BY Joined, SeqIs
<1>2. /\ IsFiniteSet(Places(s, T)) /\ Count(s, T) = Cardinality(Places(s, T))
      /\ Places(s, T) \subseteq 1 .. n /\ Count(s, T) \in Nat
  BY CountPlaces
<1>3. IsFiniteSet(P) /\ Count(t, T) = Cardinality(P) /\ P \subseteq 1 .. Len(t)
  BY CountPlaces
<1>4. Count(u, T) = Cardinality(Places(u, T))
  BY <1>1, CountPlaces
<1> HIDE DEF u, n
<1>5. \A j \in P : n + j \in Q /\ n + j \in Nat
  <2> SUFFICES ASSUME NEW j \in P PROVE n + j \in Q
    BY <1>1, <1>3
  <2>1. j \in 1 .. Len(t) /\ t[j] \in T
    BY DEF Places
  <2>2. n + j \in 1 .. Len(u) /\ n + j > n /\ u[n + j] = t[j]
    BY <1>1, <2>1
  <2> QED
    BY <2>1, <2>2 DEF Places
<1>6. \A q \in Q : q - n \in P /\ n + (q - n) = q
  <2> SUFFICES ASSUME NEW q \in Q PROVE q - n \in P /\ n + (q - n) = q
    OBVIOUS
  <2>1. q \in 1 .. Len(u) /\ q > n /\ u[q] \in T
    BY DEF Places
  <2>2. q - n \in 1 .. Len(t) /\ n + (q - n) = q
    BY <1>1, <2>1
  <2>3. t[q - n] = u[q]
    <3>1. u[n + (q - n)] = t[q - n]
      BY <1>1, <2>2
    <3> QED
      BY <2>2, <3>1
  <2> QED
    BY <2>1, <2>2, <2>3 DEF Places
<1>7. ExistsBijection(P, Q)
  <2>1. f \in [P -> Q]
    BY <1>5
  <2>2. IsInjective(f)
    BY <1>1, <1>3 DEF IsInjective
  <2>3. \A q \in Q : \E j \in P : f[j] = q
    BY <1>6
  <2> HIDE DEF f, P, Q
  <2>4. f \in Bijection(P, Q)
    BY <2>1, <2>2, <2>3, Zenon DEF Bijection, Injection, Surjection
  <2> QED
    BY <2>4, Zenon DEF ExistsBijection
<1>8. IsFiniteSet(Q) /\ Cardinality(Q) = Cardinality(P)
  BY <1>3, <1>7, FS_Bijection, Zenon
<1>9. Places(u, T) = Places(s, T) \cup Q
  <2>1. ASSUME NEW j \in Places(u, T) PROVE j \in Places(s, T) \cup Q
    <3>1. CASE j > n
      BY <3>1
    <3>2. CASE ~(j > n)
      <4>1. j \in 1 .. n /\ u[j] \in T
        BY <1>1, <3>2 DEF Places
      <4> QED
        BY <1>1, <4>1 DEF Places, n
    <3> QED
      BY <3>1, <3>2
  <2>2. ASSUME NEW j \in Places(s, T) PROVE j \in Places(u, T)
    <3>1. j \in 1 .. n /\ s[j] \in T
      BY DEF Places, n
    <3>2. j \in 1 .. Len(u) /\ u[j] = s[j]
      BY <1>1, <3>1
    <3> QED
      BY <3>1, <3>2 DEF Places
  <2> QED
    BY <2>1, <2>2
<1>10. Places(s, T) \cap Q = {}
  BY <1>1, <1>2
<1> HIDE DEF P, Q
<1>11. Cardinality(Places(s, T) \cup Q) = Cardinality(Places(s, T)) + Cardinality(Q) - 0
  BY <1>2, <1>8, <1>10, FS_Union, FS_EmptySet
<1>12. Cardinality(P) \in Nat
  BY <1>3, FS_CardinalityType
<1> QED
  BY <1>2, <1>3, <1>4, <1>8, <1>9, <1>11, <1>12 DEF u

LEMMA CountOne ==
  ASSUME NEW S, NEW x \in S, NEW T
  PROVE  <<x>> \in Seq(S) /\ Count(<<x>>, T) = IF x \in T THEN 1 ELSE 0
<1> DEFINE s == <<x>>
<1>1. s \in Seq(S) /\ Len(s) = 1 /\ s[1] = x
  OBVIOUS
<1> HIDE DEF s
<1>2. Count(s, T) = Cardinality(Places(s, T))
  BY <1>1, CountPlaces
<1>3. x \in T => Places(s, T) = {1}
  BY <1>1 DEF Places
<1>4. x \notin T => Places(s, T) = {}
  BY <1>1 DEF Places
<1>5. Count(s, T) = IF x \in T THEN 1 ELSE 0
  BY <1>2, <1>3, <1>4, FS_Singleton, FS_EmptySet
<1> QED
  BY <1>1, <1>5 DEF s

\* The element taken counts once less.
LEMMA CountTaken ==
  ASSUME NEW S, NEW s \in Seq(S), s # <<>>, NEW T
  PROVE  Count(s, T) = Count(Tail(s), T) + (IF Head(s) \in T THEN 1 ELSE 0)
<1>1. Tail(s) \in Seq(S) /\ Head(s) \in S /\ s = <<Head(s)>> \o Tail(s)
  BY Shortened, HeadTailProperties
<1>2. PICK r \in Seq(S), x \in S : r = Tail(s) /\ x = Head(s) /\ s = <<x>> \o r
  BY <1>1
<1>3. <<x>> \in Seq(S) /\ Count(<<x>>, T) = IF x \in T THEN 1 ELSE 0
  BY CountOne
<1>4. PICK h \in Seq(S) : h = <<x>>
  BY <1>3
<1>5. Count(h \o r, T) = Count(h, T) + Count(r, T) /\ Count(r, T) \in Nat
  BY CountJoined, CountPlaces
<1>6. Count(s, T) = Count(h, T) + Count(r, T)
  BY <1>2, <1>4, <1>5
<1>7. Count(s, T) = Count(r, T) + (IF x \in T THEN 1 ELSE 0)
  BY <1>3, <1>4, <1>5, <1>6
<1> QED
  BY <1>2, <1>7

\* What a sequence holds once.
LEMMA CountOnce ==
  ASSUME NEW S, NEW s \in Seq(S), IsInjective(s), NEW x
  PROVE  Count(s, {x}) = IF x \in ToSet(s) THEN 1 ELSE 0
<1>1. /\ DOMAIN s = 1 .. Len(s)
      /\ \A y : y \in ToSet(s) <=> \E i \in 1 .. Len(s) : s[i] = y
      /\ Count(s, {x}) = Cardinality(Places(s, {x}))
  BY SeqIs, CountPlaces
<1>2. CASE x \in ToSet(s)
  <2>1. PICK i \in 1 .. Len(s) : s[i] = x
    BY <1>1, <1>2
  <2>2. Places(s, {x}) = {i}
    BY <1>1, <2>1 DEF Places, IsInjective
  <2> QED
    BY <1>1, <1>2, <2>2, FS_Singleton
<1>3. CASE x \notin ToSet(s)
  <2>1. Places(s, {x}) = {}
    BY <1>1, <1>3 DEF Places
  <2> QED
    BY <1>1, <1>3, <2>1, FS_EmptySet
<1> QED
  BY <1>2, <1>3

-----------------------------------------------------------------------------
(***************************************************************************)
(* One thing leads to the next evaluation of an entry, and at most one     *)
(* more for every update: what each step does to the count of each kind.   *)
(***************************************************************************)
Defines(i)       == Count(queue[0], {DefineEvent(i)})
Notices(i)       == Count(queue[1], {i})
Dependencies(i)  == Count(queue[2], [attr : Attr, id : {i}])
Registered(i)    == {x \in Attr : i \in ToSet(deps[x])}
Registrations(i) == Cardinality(Registered(i))

\* n things lead to the next evaluation of entry i of the table es.
Woken(es, n, i) == /\ LiveIn(es, i) => n >= 1 /\ n <= es[i + 1].asked
                   /\ i >= Len(es) => n = 0

WakeInv == /\ \A x \in Attr : IsInjective(deps[x])
           /\ \A i \in EntryId : Woken(entries, Tokens(i), i)

LEMMA TokensAre ==
  /\ \A i : Tokens(i) = Defines(i) + Notices(i) + Dependencies(i) + Registrations(i)
  /\ \A i : Tokens(i)' = Defines(i)' + Notices(i)' + Dependencies(i)' + Registrations(i)'
BY DEF Tokens, Defines, Notices, Dependencies, Registrations, Registered

LEMMA Amounts ==
  ASSUME CallsInv, NEW i
  PROVE  /\ Defines(i) \in Nat /\ Notices(i) \in Nat /\ Dependencies(i) \in Nat
         /\ IsFiniteSet(Registered(i)) /\ Registrations(i) \in Nat
         /\ Tokens(i) \in Nat
<1>1. /\ queue[0] \in Seq(Event(0)) /\ queue[1] \in Seq(EntryId)
      /\ queue[2] \in Seq([attr : Attr, id : EntryId])
  BY Parts
<1>2. Defines(i) \in Nat /\ Notices(i) \in Nat /\ Dependencies(i) \in Nat
  BY <1>1, CountPlaces DEF Defines, Notices, Dependencies
<1>3. IsFiniteSet(Registered(i))
  <2>1. Registered(i) \in SUBSET Attr
    BY DEF Registered
  <2> QED
    BY <2>1, AttrAssumption, FS_Subset
<1>4. Registrations(i) \in Nat
  BY <1>3, FS_CardinalityType DEF Registrations
<1> QED
  BY <1>2, <1>3, <1>4, TokensAre

\* Fewer things, but one at least for every entry that is there.
LEMMA WakeKept ==
  ASSUME WakeInv, \A x \in Attr : IsInjective(deps'[x]),
         Len(entries') = Len(entries), Len(entries) \in Nat,
         \A i \in EntryId :
           LiveIn(entries', i) =>
             /\ LiveIn(entries, i) /\ entries'[i + 1].asked = entries[i + 1].asked
             /\ entries[i + 1].asked \in Nat,
         \A i \in EntryId : /\ Tokens(i) \in Nat /\ Tokens(i)' \in Nat
                            /\ Tokens(i)' <= Tokens(i)
                            /\ LiveIn(entries, i) /\ Tokens(i) >= 1 => Tokens(i)' >= 1
  PROVE  WakeInv'
<1> SUFFICES ASSUME NEW i \in EntryId PROVE Woken(entries', Tokens(i)', i)
  BY DEF WakeInv
<1>1. Woken(entries, Tokens(i), i)
  BY DEF WakeInv
<1>2. /\ Tokens(i) \in Nat /\ Tokens(i)' \in Nat /\ Tokens(i)' <= Tokens(i)
      /\ LiveIn(entries, i) /\ Tokens(i) >= 1 => Tokens(i)' >= 1
  OBVIOUS
<1>3. PICK m, n : m = Tokens(i) /\ n = Tokens(i)'
  OBVIOUS
<1>4. ASSUME LiveIn(entries', i) PROVE n >= 1 /\ n <= entries'[i + 1].asked
  <2>1. /\ LiveIn(entries, i) /\ entries'[i + 1].asked = entries[i + 1].asked
        /\ entries[i + 1].asked \in Nat
    BY <1>4
  <2>2. m >= 1 /\ m <= entries[i + 1].asked
    BY <1>1, <1>3, <2>1 DEF Woken
  <2>3. m \in Nat /\ n \in Nat /\ n <= m /\ n >= 1
    BY <1>2, <1>3, <2>1, <2>2
  <2> QED
    BY <2>1, <2>2, <2>3
<1>5. ASSUME i >= Len(entries') PROVE n = 0
  <2>1. i >= Len(entries)
    BY <1>5
  <2>2. m = 0
    BY <1>1, <1>3, <2>1 DEF Woken
  <2>3. m \in Nat /\ n \in Nat /\ n <= m
    BY <1>2, <1>3
  <2> QED
    BY <2>2, <2>3
<1> QED
  BY <1>3, <1>4, <1>5 DEF Woken

\* The steps that leave the table as it is.
LEMMA TableKept ==
  ASSUME CallsInv, entries' = entries
  PROVE  /\ Len(entries') = Len(entries) /\ Len(entries) \in Nat
         /\ \A i \in EntryId :
              LiveIn(entries', i) =>
                /\ LiveIn(entries, i) /\ entries'[i + 1].asked = entries[i + 1].asked
                /\ entries[i + 1].asked \in Nat
<1>1. EntriesFit(entries, alive, ops) /\ Len(entries) \in Nat
  BY Parts, SeqIs DEF EntriesFit
<1>2. ASSUME NEW i \in EntryId, LiveIn(entries, i) PROVE entries[i + 1].asked \in Nat
  <2>1. i \in Nat
    BY BoundsAssumption DEF EntryId
  <2>2. entries[i + 1] \in EntryRecord
    BY <1>1, <1>2, <2>1, LiveEntry
  <2>3. entries[i + 1].asked \in 1 .. MaxOps
    BY <2>2 DEF EntryRecord
  <2> QED
    BY <2>3, BoundsAssumption
<1> QED
  BY <1>1, <1>2

\* The steps that leave the queued events of interest, the registrations and the
\* number of entries as they are.
LEMMA WakeSame ==
  ASSUME CallsInv, WakeInv, deps' = deps, queue'[1] = queue[1], queue'[2] = queue[2],
         \A i : Defines(i)' = Defines(i),
         Len(entries') = Len(entries), Len(entries) \in Nat,
         \A i \in EntryId :
           LiveIn(entries', i) =>
             /\ LiveIn(entries, i) /\ entries'[i + 1].asked = entries[i + 1].asked
             /\ entries[i + 1].asked \in Nat
  PROVE  WakeInv'
<1>1. \A x \in Attr : IsInjective(deps'[x])
  BY DEF WakeInv
<1>2. ASSUME NEW i \in EntryId PROVE Tokens(i) \in Nat /\ Tokens(i)' = Tokens(i)
  <2>1. Notices(i)' = Notices(i) /\ Dependencies(i)' = Dependencies(i)
    BY DEF Notices, Dependencies
  <2>2. Registrations(i)' = Registrations(i)
    BY DEF Registrations, Registered
  <2> QED
    BY <2>1, <2>2, TokensAre, Amounts
<1> QED
  BY <1>1, <1>2, WakeKept

LEMMA InitWakes == Init => WakeInv
<1> SUFFICES ASSUME Init PROVE WakeInv
  OBVIOUS
<1>1. PICK e : e = <<>> /\ Len(e) = 0 /\ DOMAIN e = {} /\ ToSet(e) = {}
  BY EmptySeq DEF ToSet
<1>2. \A x \in Attr : deps[x] = e
  BY <1>1 DEF Init
<1>3. entries = e /\ queue[0] = e /\ queue[1] = e /\ queue[2] = e
  BY <1>1 DEF Init
<1>4. \A x \in Attr : IsInjective(deps[x])
  BY <1>1, <1>2 DEF IsInjective
<1>5. ASSUME NEW i \in EntryId PROVE Tokens(i) = 0
  <2>1. \A T : Count(e, T) = 0
    BY <1>1, CountNone
  <2>2. Defines(i) = 0 /\ Notices(i) = 0 /\ Dependencies(i) = 0
    BY <1>3, <2>1 DEF Defines, Notices, Dependencies
  <2>3. Registered(i) = {}
    BY <1>1, <1>2 DEF Registered
  <2>4. Registrations(i) = 0
    BY <2>3, FS_EmptySet DEF Registrations
  <2> QED
    BY <2>2, <2>4, TokensAre
<1>6. \A i \in EntryId : ~LiveIn(entries, i)
  BY <1>1, <1>3, BoundsAssumption DEF LiveIn, EntryId
<1> QED
  BY <1>4, <1>5, <1>6 DEF WakeInv, Woken

LEMMA MovesWake ==
  ASSUME CallsInv, WakeInv, Moves
  PROVE  WakeInv'
<1>1. entries' = entries /\ deps' = deps /\ queue' = queue
  BY MovesKeep DEF store
<1>2. \A i : Defines(i)' = Defines(i)
  BY <1>1 DEF Defines
<1> QED
  BY <1>1, <1>2, WakeSame, TableKept

LEMMA RemoveAgentWakes ==
  ASSUME CallsInv, WakeInv, NEW a \in Agent, RemoveAgent(a)
  PROVE  WakeInv'
<1>1. entries' = Cleared(entries, a) /\ deps' = deps /\ queue' = queue
  BY DEF RemoveAgent, Cleared
<1>2. EntriesFit(entries, alive, ops)
  BY Parts
<1>3. /\ Len(entries') = Len(entries)
      /\ \A j \in Nat : LiveIn(entries', j) => LiveIn(entries, j) /\ entries'[j + 1] = entries[j + 1]
  BY <1>1, <1>2, EntriesRemoved
<1>4. Len(entries) \in Nat /\ \A j \in EntryId : j \in Nat
  BY <1>2, SeqIs, BoundsAssumption DEF EntriesFit, EntryId
<1>5. ASSUME NEW i \in EntryId, LiveIn(entries', i)
      PROVE  /\ LiveIn(entries, i) /\ entries'[i + 1].asked = entries[i + 1].asked
             /\ entries[i + 1].asked \in Nat
  <2>1. LiveIn(entries, i) /\ entries'[i + 1] = entries[i + 1]
    BY <1>3, <1>4, <1>5
  <2>2. entries[i + 1] \in EntryRecord
    BY <1>2, <1>4, <2>1, LiveEntry
  <2>3. entries[i + 1].asked \in 1 .. MaxOps
    BY <2>2 DEF EntryRecord
  <2> QED
    BY <2>1, <2>3, BoundsAssumption
<1>6. \A i : Defines(i)' = Defines(i)
  BY <1>1 DEF Defines
<1> QED
  BY <1>1, <1>3, <1>4, <1>5, <1>6, WakeSame

LEMMA SetWakes ==
  ASSUME CallsInv, WakeInv, UNCHANGED store, NEW c, NEW e \in Event(0), Sent(c, 0, e),
         \A i : e # DefineEvent(i)
  PROVE  WakeInv'
<1>1. entries' = entries /\ deps' = deps
  BY DEF store
<1>2. queue'[0] = Append(queue[0], e) /\ queue'[1] = queue[1] /\ queue'[2] = queue[2]
  BY Sending
<1>3. ASSUME NEW i PROVE Defines(i)' = Defines(i)
  <2>1. queue[0] \in Seq(Event(0))
    BY Parts
  <2>2. Count(Append(queue[0], e), {DefineEvent(i)}) = Count(queue[0], {DefineEvent(i)}) + 0
    BY <2>1, CountPushed
  <2>3. Defines(i) \in Nat
    BY Amounts
  <2> QED
    BY <1>2, <2>2, <2>3 DEF Defines
<1> QED
  BY <1>1, <1>2, <1>3, WakeSame, TableKept

LEMMA HandleOtherSetWakes ==
  ASSUME CallsInv, WakeInv, HandleOtherSet
  PROVE  WakeInv'
<1> DEFINE e == Head(queue[0])
<1>1. Draining(0) /\ e.type = "SET_OTHER" /\ queue' = Taken(0) /\ UNCHANGED store
  BY DEF HandleOtherSet
<1>2. QueuesFit(queue) /\ queue[0] \in Seq(Event(0)) /\ queue[0] # <<>>
  BY <1>1, Parts, InDrain
<1>3. queue'[0] = Tail(queue[0]) /\ queue'[1] = queue[1] /\ queue'[2] = queue[2]
  BY <1>1, <1>2, Taking
<1>4. entries' = entries /\ deps' = deps
  BY <1>1 DEF store
<1>5. ASSUME NEW i PROVE Defines(i)' = Defines(i)
  <2>1. e \notin {DefineEvent(i)}
    BY <1>1, NoDefine
  <2>2. Count(queue[0], {DefineEvent(i)}) = Count(Tail(queue[0]), {DefineEvent(i)}) + 0
    BY <1>2, <2>1, CountTaken
  <2>3. Count(Tail(queue[0]), {DefineEvent(i)}) \in Nat
    BY <1>2, Shortened, CountPlaces
  <2> QED
    BY <1>3, <2>2, <2>3 DEF Defines
<1> QED
  BY <1>3, <1>4, <1>5, WakeSame, TableKept

\* The DEFINE of an entry becomes its notification.
LEMMA HandleDefineWakes ==
  ASSUME CallsInv, WakeInv, HandleDefine
  PROVE  WakeInv'
<1>1. /\ queue'[0] = Tail(queue[0]) /\ queue'[1] = Append(queue[1], Head(queue[0]).id)
      /\ queue'[2] = queue[2]
      /\ Head(queue[0]).id \in EntryId /\ Head(queue[0]) = DefineEvent(Head(queue[0]).id)
  BY HandleDefineKeeps
<1>2. PICK k \in EntryId : k = Head(queue[0]).id
  BY <1>1
<1>3. Draining(0) /\ entries' = entries /\ deps' = deps
  BY DEF HandleDefine, store
<1>4. queue[0] \in Seq(Event(0)) /\ queue[1] \in Seq(EntryId) /\ queue[0] # <<>>
  BY <1>3, Parts, InDrain
<1>5. ASSUME NEW i \in EntryId PROVE Tokens(i) \in Nat /\ Tokens(i)' = Tokens(i)
  <2> DEFINE b == IF k = i THEN 1 ELSE 0
  <2>1. Defines(i) = Defines(i)' + b /\ Defines(i)' \in Nat
    <3>1. Head(queue[0]) \in {DefineEvent(i)} <=> k = i
      BY <1>1, <1>2, NoDefine
    <3>2. Count(queue[0], {DefineEvent(i)}) = Count(Tail(queue[0]), {DefineEvent(i)}) + b
      BY <1>4, <3>1, CountTaken
    <3>3. Count(Tail(queue[0]), {DefineEvent(i)}) \in Nat
      BY <1>4, Shortened, CountPlaces
    <3> QED
      BY <1>1, <3>2, <3>3 DEF Defines
  <2>2. Notices(i)' = Notices(i) + b
    <3>1. Count(Append(queue[1], k), {i}) = Count(queue[1], {i}) + b
      BY <1>4, CountPushed
    <3> QED
      BY <1>1, <1>2, <3>1 DEF Notices
  <2>3. Dependencies(i)' = Dependencies(i) /\ Registrations(i)' = Registrations(i)
    BY <1>1, <1>3 DEF Dependencies, Registrations, Registered
  <2>4. b \in Nat
    OBVIOUS
  <2> HIDE DEF b
  <2> QED
    BY <2>1, <2>2, <2>3, <2>4, TokensAre, Amounts
<1>6. \A x \in Attr : IsInjective(deps'[x])
  BY <1>3 DEF WakeInv
<1> QED
  BY <1>3, <1>5, <1>6, WakeKept, TableKept

\* The registrations with an attribute that is set become notifications.
LEMMA HandleSetWakes ==
  ASSUME CallsInv, WakeInv, HandleSet
  PROVE  WakeInv'
<1> DEFINE e == Head(queue[0])
           x == e.attr
<1>1. /\ queue[0] # <<>> /\ queue[2] = <<>> /\ entries' = entries
      /\ e.type = "SET" /\ x \in Attr
      /\ queue'[0] = Tail(queue[0]) /\ queue'[2] = queue[2]
      /\ \/ /\ deps'  = [deps EXCEPT ![x] = <<>>]
            /\ queue'[1] = queue[1] \o deps[x]
         \/ deps' = deps /\ queue'[1] = queue[1]
  BY HandleSetDoes
<1>2. /\ queue[0] \in Seq(Event(0)) /\ queue[1] \in Seq(EntryId)
      /\ deps \in [Attr -> Seq(EntryId)]
  BY Parts
<1>3. ASSUME NEW i PROVE Defines(i)' = Defines(i)
  <2>1. e \notin {DefineEvent(i)}
    BY <1>1, NoDefine
  <2>2. Count(queue[0], {DefineEvent(i)}) = Count(Tail(queue[0]), {DefineEvent(i)}) + 0
    BY <1>1, <1>2, <2>1, CountTaken
  <2>3. Count(Tail(queue[0]), {DefineEvent(i)}) \in Nat
    BY <1>1, <1>2, Shortened, CountPlaces
  <2> QED
    BY <1>1, <2>2, <2>3 DEF Defines
<1> HIDE DEF x
<1>4. CASE deps' = deps /\ queue'[1] = queue[1]
  BY <1>1, <1>3, <1>4, WakeSame, TableKept
<1>5. CASE deps' = [deps EXCEPT ![x] = <<>>] /\ queue'[1] = queue[1] \o deps[x]
  <2>1. deps[x] \in Seq(EntryId) /\ IsInjective(deps[x])
    BY <1>1, <1>2 DEF WakeInv
  <2>2. /\ deps'[x] = <<>> /\ ToSet(deps'[x]) = {} /\ IsInjective(deps'[x])
        /\ \A y \in Attr : y # x => deps'[y] = deps[y]
    <3>1. deps'[x] = <<>> /\ \A y \in Attr : y # x => deps'[y] = deps[y]
      BY <1>1, <1>2, <1>5
    <3>2. ToSet(<<>>) = {} /\ IsInjective(<<>>)
      BY EmptySeq DEF ToSet, IsInjective
    <3> QED
      BY <3>1, <3>2
  <2>3. \A y \in Attr : IsInjective(deps'[y])
    BY <2>2 DEF WakeInv
  <2>4. ASSUME NEW i \in EntryId PROVE Tokens(i) \in Nat /\ Tokens(i)' = Tokens(i)
    <3> DEFINE b == IF i \in ToSet(deps[x]) THEN 1 ELSE 0
    <3>1. Notices(i)' = Notices(i) + b
      <4>1. Count(queue[1] \o deps[x], {i}) = Count(queue[1], {i}) + Count(deps[x], {i})
        BY <1>2, <2>1, CountJoined
      <4>2. Count(deps[x], {i}) = b
        BY <2>1, CountOnce
      <4> QED
        BY <1>5, <4>1, <4>2 DEF Notices
    <3>2. Registered(i)' = Registered(i) \ {x} /\ (x \in Registered(i) <=> i \in ToSet(deps[x]))
      <4>1. \A y \in Attr : i \in ToSet(deps'[y]) <=> y # x /\ i \in ToSet(deps[y])
        BY <2>2
      <4> QED
        BY <1>1, <4>1 DEF Registered
    <3>3. Registrations(i)' = Registrations(i) - b
      <4>1. /\ Cardinality(Registered(i) \ {x}) =
                 IF x \in Registered(i) THEN Cardinality(Registered(i)) - 1
                                        ELSE Cardinality(Registered(i))
            /\ Cardinality(Registered(i)) \in Nat
        BY Amounts, FS_RemoveElement DEF Registrations
      <4> QED
        BY <3>2, <4>1 DEF Registrations
    <3>4. Dependencies(i)' = Dependencies(i)
      BY <1>1 DEF Dependencies
    <3>5. b \in Nat
      OBVIOUS
    <3> HIDE DEF b
    <3> QED
      BY <1>3, <3>1, <3>3, <3>4, <3>5, TokensAre, Amounts
  <2> QED
    BY <1>1, <2>3, <2>4, WakeKept, TableKept
<1> QED
  BY <1>1, <1>4, <1>5

\* The notification of an entry becomes the dependency of its evaluation; that of one
\* that is gone is dropped.
LEMMA HandleNotifyWakes ==
  ASSUME CallsInv, WakeInv, NEW fails \in BOOLEAN, HandleNotify(fails)
  PROVE  WakeInv'
<1> DEFINE k == Head(queue[1])
           r == entries[k + 1]
           v == val[r.watch]
<1>1. /\ val' = val /\ deps' = deps /\ queue[1] # <<>> /\ k \in EntryId
      /\ queue'[0] = queue[0] /\ queue'[1] = Tail(queue[1])
      /\ \/ ~LiveIn(entries, k) /\ queue'[2] = queue[2] /\ entries' = entries
         \/ /\ LiveIn(entries, k) /\ queue'[2] = Append(queue[2], Dep(r.watch, k))
            /\ entries' = Put(entries, k, Read(r, v))
  BY HandleNotifyKeeps
<1>2. /\ queue[1] \in Seq(EntryId) /\ queue[2] \in Seq([attr : Attr, id : EntryId])
      /\ EntriesFit(entries, alive, ops) /\ ops \in 0 .. MaxOps
  BY Parts
<1>3. \A x \in Attr : IsInjective(deps'[x])
  BY <1>1 DEF WakeInv
<1>4. k \in Nat /\ \A i \in EntryId : i \in Nat
  BY <1>1, BoundsAssumption DEF EntryId
<1>5. ASSUME NEW i \in EntryId
      PROVE  /\ Notices(i) = Notices(i)' + (IF k = i THEN 1 ELSE 0) /\ Notices(i)' \in Nat
             /\ Defines(i)' = Defines(i) /\ Registrations(i)' = Registrations(i)
  <2>1. Count(queue[1], {i}) = Count(Tail(queue[1]), {i}) + (IF k \in {i} THEN 1 ELSE 0)
    BY <1>1, <1>2, CountTaken
  <2>2. Count(Tail(queue[1]), {i}) \in Nat
    BY <1>1, <1>2, Shortened, CountPlaces
  <2>3. Defines(i)' = Defines(i) /\ Registrations(i)' = Registrations(i)
    BY <1>1 DEF Defines, Registrations, Registered
  <2> QED
    BY <1>1, <2>1, <2>2, <2>3 DEF Notices
<1> HIDE DEF k
<1>6. CASE ~LiveIn(entries, k) /\ queue'[2] = queue[2] /\ entries' = entries
  <2>1. ASSUME NEW i \in EntryId
        PROVE  /\ Tokens(i) \in Nat /\ Tokens(i)' \in Nat /\ Tokens(i)' <= Tokens(i)
               /\ LiveIn(entries, i) /\ Tokens(i) >= 1 => Tokens(i)' >= 1
    <3>1. Dependencies(i)' = Dependencies(i)
      BY <1>6 DEF Dependencies
    <3>2. LiveIn(entries, i) => k # i
      BY <1>6
    <3>3. /\ Tokens(i) = Defines(i) + Notices(i) + Dependencies(i) + Registrations(i)
          /\ Tokens(i)' = Defines(i) + Notices(i)' + Dependencies(i) + Registrations(i)
          /\ Defines(i) \in Nat /\ Notices(i) \in Nat /\ Dependencies(i) \in Nat
          /\ Registrations(i) \in Nat
      BY <1>5, <3>1, TokensAre, Amounts
    <3> QED
      BY <1>5, <3>2, <3>3
  <2> QED
    BY <1>3, <1>6, <2>1, WakeKept, TableKept
<1>7. CASE /\ LiveIn(entries, k) /\ queue'[2] = Append(queue[2], Dep(r.watch, k))
           /\ entries' = Put(entries, k, Read(r, v))
  <2>1. /\ Read(r, v) \in EntryRecord /\ Read(r, v).agent \in alive /\ Read(r, v).asked <= ops
        /\ r.watch \in Attr /\ k + 1 \in 1 .. Len(entries)
    BY <1>1, <1>7, ReadEntry
  <2>2. Read(r, v).asked = r.asked
    BY <1>4, <1>7, <1>2, LiveEntry DEF Read, EntryRecord
  <2>3. /\ entries'[k + 1] = Read(r, v) /\ Len(entries') = Len(entries)
        /\ \A j \in 1 .. Len(entries) : j # k + 1 => entries'[j] = entries[j]
        /\ \A j \in Nat : LiveIn(entries', j) <=> LiveIn(entries, j)
    BY <1>2, <1>4, <1>7, <2>1, EntrySet
  <2>4. ASSUME NEW i \in EntryId PROVE Tokens(i) \in Nat /\ Tokens(i)' = Tokens(i)
    <3>1. Dependencies(i)' = Dependencies(i) + (IF k = i THEN 1 ELSE 0)
      <4>1. PICK d \in [attr : Attr, id : EntryId] : d = Dep(r.watch, k)
        BY <1>1, <2>1 DEF Dep
      <4>2. PICK D, T : D = [attr : Attr, id : EntryId] /\ T = [attr : Attr, id : {i}]
        OBVIOUS
      <4>3. d \in T <=> k = i
        BY <2>1, <4>1, <4>2 DEF Dep
      <4>4. Count(Append(queue[2], d), T) = Count(queue[2], T) + (IF d \in T THEN 1 ELSE 0)
        <5>1. queue[2] \in Seq(D) /\ d \in D
          BY <1>2, <4>2
        <5> QED
          BY <5>1, CountPushed
      <4> QED
        BY <1>7, <4>1, <4>2, <4>3, <4>4 DEF Dependencies
    <3>2. /\ Tokens(i) = Defines(i) + Notices(i) + Dependencies(i) + Registrations(i)
          /\ Tokens(i)' = Defines(i) + Notices(i)' + Dependencies(i)' + Registrations(i)
          /\ Defines(i) \in Nat /\ Notices(i) \in Nat /\ Dependencies(i) \in Nat
          /\ Registrations(i) \in Nat
      BY <1>5, TokensAre, Amounts
    <3> QED
      BY <1>5, <3>1, <3>2
  <2>5. Len(entries) \in Nat
    BY <1>2, SeqIs DEF EntriesFit
  <2>6. ASSUME NEW i \in EntryId, LiveIn(entries', i)
        PROVE  /\ LiveIn(entries, i) /\ entries'[i + 1].asked = entries[i + 1].asked
               /\ entries[i + 1].asked \in Nat
    <3>1. LiveIn(entries, i)
      BY <1>4, <2>3, <2>6
    <3>2. i + 1 \in 1 .. Len(entries) /\ entries[i + 1] \in EntryRecord
      BY <1>2, <1>4, <3>1, LiveEntry
    <3>3. entries[i + 1].asked \in 1 .. MaxOps
      BY <3>2 DEF EntryRecord
    <3>4. entries'[i + 1].asked = entries[i + 1].asked
      BY <2>2, <2>3, <3>2
    <3> QED
      BY <3>1, <3>3, <3>4, BoundsAssumption
  <2>7. \A i \in EntryId : LiveIn(entries, i) /\ Tokens(i) >= 1 => Tokens(i)' >= 1
    BY <2>4
  <2>8. \A i \in EntryId : Tokens(i) \in Nat /\ Tokens(i)' \in Nat /\ Tokens(i)' <= Tokens(i)
    BY <2>4
  <2> QED
    BY <1>3, <2>3, <2>5, <2>6, <2>7, <2>8, WakeKept
<1> QED
  BY <1>1, <1>6, <1>7

\* Registering keeps an entry registered once.
LEMMA RegisteringOnce ==
  ASSUME NEW ds \in Seq(EntryId), IsInjective(ds), NEW i \in EntryId
  PROVE  IsInjective(AddDependent(ds, i))
<1>1. /\ RemoveFirst(ds, i) \in Seq(EntryId) /\ i \notin ToSet(RemoveFirst(ds, i))
      /\ IsInjective(RemoveFirst(ds, i))
  BY Without
<1> QED
  BY <1>1, PutFirst DEF AddDependent

\* A dependency becomes a registration, unless its entry is registered already.
LEMMA HandleDepWakes ==
  ASSUME CallsInv, WakeInv, HandleDep
  PROVE  WakeInv'
<1> DEFINE e == Head(queue[2])
           x == e.attr
           k == e.id
<1>1. /\ queue'[0] = queue[0] /\ queue'[1] = queue[1] /\ queue'[2] = Tail(queue[2])
      /\ queue[2] # <<>> /\ x \in Attr /\ k \in EntryId /\ e = Dep(x, k)
  BY HandleDepKeeps
<1>2. deps' = [deps EXCEPT ![x] = AddDependent(@, k)] /\ entries' = entries
  BY DEF HandleDep
<1>3. deps \in [Attr -> Seq(EntryId)] /\ queue[2] \in Seq([attr : Attr, id : EntryId])
  BY Parts
<1>4. ASSUME NEW i \in EntryId
      PROVE  /\ Dependencies(i) = Dependencies(i)' + (IF k = i THEN 1 ELSE 0)
             /\ Dependencies(i)' \in Nat
             /\ Defines(i)' = Defines(i) /\ Notices(i)' = Notices(i)
  <2>1. PICK D, T : D = [attr : Attr, id : EntryId] /\ T = [attr : Attr, id : {i}]
    OBVIOUS
  <2>2. e \in T <=> k = i
    BY <1>1, <2>1 DEF Dep
  <2>3. queue[2] \in Seq(D)
    BY <1>3, <2>1
  <2>4. Count(queue[2], T) = Count(Tail(queue[2]), T) + (IF e \in T THEN 1 ELSE 0)
    BY <1>1, <2>3, CountTaken
  <2>5. Count(Tail(queue[2]), T) \in Nat
    <3>1. Tail(queue[2]) \in Seq(D)
      BY <1>1, <2>3, Shortened
    <3> QED
      BY <3>1, CountPlaces
  <2>6. Defines(i)' = Defines(i) /\ Notices(i)' = Notices(i)
    BY <1>1 DEF Defines, Notices
  <2> QED
    BY <1>1, <2>1, <2>2, <2>4, <2>5, <2>6 DEF Dependencies
<1> HIDE DEF e, x, k
<1>5. /\ deps'[x] = AddDependent(deps[x], k)
      /\ \A y \in Attr : y # x => deps'[y] = deps[y]
      /\ deps[x] \in Seq(EntryId) /\ IsInjective(deps[x])
  BY <1>1, <1>2, <1>3 DEF WakeInv
<1>6. IsInjective(deps'[x]) /\ ToSet(deps'[x]) = ToSet(deps[x]) \cup {k}
  BY <1>1, <1>5, Registering, RegisteringOnce
<1>7. \A y \in Attr : IsInjective(deps'[y])
  BY <1>5, <1>6 DEF WakeInv
<1>8. ASSUME NEW i \in EntryId
      PROVE  /\ i # k => Registrations(i)' = Registrations(i)
             /\ i = k => /\ Registrations(i)' \in Nat /\ Registrations(i)' >= 1
                         /\ Registrations(i)' <= Registrations(i) + 1
  <2>1. IsFiniteSet(Registered(i)) /\ Cardinality(Registered(i)) \in Nat
    BY Amounts DEF Registrations
  <2>2. ASSUME i # k PROVE Registrations(i)' = Registrations(i)
    <3>1. \A y \in Attr : i \in ToSet(deps'[y]) <=> i \in ToSet(deps[y])
      BY <1>5, <1>6, <2>2
    <3>2. Registered(i)' = Registered(i)
      BY <3>1 DEF Registered
    <3> QED
      BY <3>2 DEF Registrations
  <2>3. ASSUME i = k
        PROVE  /\ Registrations(i)' \in Nat /\ Registrations(i)' >= 1
               /\ Registrations(i)' <= Registrations(i) + 1
    <3>1. \A y \in Attr : i \in ToSet(deps'[y]) <=> y = x \/ i \in ToSet(deps[y])
      BY <1>5, <1>6, <2>3
    <3>2. Registered(i)' = Registered(i) \cup {x}
      BY <1>1, <3>1 DEF Registered
    <3>3. PICK R : R = Registered(i) \cup {x}
      OBVIOUS
    <3>4. /\ IsFiniteSet(R) /\ Cardinality(R) \in Nat /\ Cardinality(R) # 0
          /\ Cardinality(R) <= Cardinality(Registered(i)) + 1
      <4>1. IsFiniteSet(R)
        BY <2>1, <3>3, FS_AddElement
      <4>2. Cardinality(R) = IF x \in Registered(i) THEN Cardinality(Registered(i))
                                                    ELSE Cardinality(Registered(i)) + 1
        BY <2>1, <3>3, FS_AddElement
      <4>3. Cardinality(R) # 0
        BY <3>3, <4>1, FS_EmptySet
      <4> QED
        BY <2>1, <4>1, <4>2, <4>3
    <3>5. Registrations(i)' = Cardinality(R)
      BY <3>2, <3>3 DEF Registrations
    <3> QED
      BY <3>4, <3>5 DEF Registrations
  <2> QED
    BY <2>2, <2>3
<1>9. ASSUME NEW i \in EntryId
      PROVE  /\ Tokens(i) \in Nat /\ Tokens(i)' \in Nat /\ Tokens(i)' <= Tokens(i)
             /\ LiveIn(entries, i) /\ Tokens(i) >= 1 => Tokens(i)' >= 1
  <2>1. /\ Tokens(i) = Defines(i) + Notices(i) + Dependencies(i) + Registrations(i)
        /\ Tokens(i)' = Defines(i) + Notices(i) + Dependencies(i)' + Registrations(i)'
        /\ Defines(i) \in Nat /\ Notices(i) \in Nat /\ Dependencies(i) \in Nat
        /\ Registrations(i) \in Nat
    BY <1>4, TokensAre, Amounts
  <2> QED
    BY <1>4, <1>8, <2>1
<1> QED
  BY <1>2, <1>7, <1>9, WakeKept, TableKept

\* What a DEFINE sent adds.
LEMMA DefineSent ==
  ASSUME CallsInv, NEW k \in EntryId, queue'[0] = Append(queue[0], DefineEvent(k)),
         queue'[1] = queue[1], queue'[2] = queue[2], deps' = deps, NEW i
  PROVE  Tokens(i)' = Tokens(i) + (IF i = k THEN 1 ELSE 0)
<1>1. PICK e \in Event(0) : e = DefineEvent(k)
  BY Events
<1>2. queue[0] \in Seq(Event(0))
  BY Parts
<1>3. Count(Append(queue[0], e), {DefineEvent(i)}) =
        Count(queue[0], {DefineEvent(i)}) + (IF e \in {DefineEvent(i)} THEN 1 ELSE 0)
  BY <1>2, CountPushed
<1>4. e \in {DefineEvent(i)} <=> i = k
  BY <1>1, NoDefine
<1>5. Defines(i)' = Defines(i) + (IF i = k THEN 1 ELSE 0)
  BY <1>1, <1>3, <1>4 DEF Defines
<1>6. Notices(i)' = Notices(i) /\ Dependencies(i)' = Dependencies(i)
  BY DEF Notices, Dependencies
<1>7. Registrations(i)' = Registrations(i)
  BY DEF Registrations, Registered
<1> QED
  BY <1>5, <1>6, <1>7, TokensAre, Amounts

\* A new entry has one thing to evaluate it, for none led to an entry that was not
\* there.
LEMMA AddWakes ==
  ASSUME CallsInv, WakeInv, NEW a \in Agent, NEW x \in Attr, NEW fails \in BOOLEAN,
         Add(a, x, fails)
  PROVE  WakeInv'
<1>1. /\ Len(entries) \in EntryId /\ queue'[0] = Append(queue[0], DefineEvent(Len(entries)))
      /\ queue'[1] = queue[1] /\ queue'[2] = queue[2] /\ deps' = deps
      /\ Len(entries') = Len(entries) + 1 /\ Len(entries) \in Nat
      /\ \A j \in 1 .. Len(entries) : entries'[j] = entries[j]
      /\ entries'[Len(entries) + 1].asked = 1
      /\ \A j \in Nat : LiveIn(entries', j) <=> LiveIn(entries, j) \/ j = Len(entries)
  BY AddDoes
<1>2. ASSUME NEW i \in EntryId PROVE Woken(entries', Tokens(i)', i)
  <2>1. /\ Woken(entries, Tokens(i), i) /\ Tokens(i) \in Nat /\ i \in Nat
        /\ Tokens(i)' = Tokens(i) + (IF i = Len(entries) THEN 1 ELSE 0)
    <3>1. Tokens(i)' = Tokens(i) + (IF i = Len(entries) THEN 1 ELSE 0)
      BY <1>1, DefineSent
    <3>2. i \in Nat
      BY BoundsAssumption DEF EntryId
    <3> QED
      BY <3>1, <3>2, Amounts DEF WakeInv
  <2>2. CASE i = Len(entries)
    <3>1. Tokens(i) = 0
      BY <1>1, <2>1, <2>2 DEF Woken
    <3>2. Tokens(i)' = 1
      BY <2>1, <2>2, <3>1
    <3> QED
      BY <1>1, <2>2, <3>2 DEF Woken
  <2>3. CASE i # Len(entries)
    <3>1. Tokens(i)' = Tokens(i) /\ (LiveIn(entries', i) => LiveIn(entries, i))
      BY <1>1, <2>1, <2>3
    <3>2. LiveIn(entries, i) => i + 1 \in 1 .. Len(entries)
      BY <1>1, <2>1 DEF LiveIn
    <3>3. LiveIn(entries', i) => Tokens(i)' >= 1 /\ Tokens(i)' <= entries'[i + 1].asked
      BY <1>1, <2>1, <3>1, <3>2 DEF Woken
    <3>4. i >= Len(entries') => Tokens(i)' = 0
      BY <1>1, <2>1, <3>1 DEF Woken
    <3> QED
      BY <3>3, <3>4 DEF Woken
  <2> QED
    BY <2>2, <2>3
<1>3. \A y \in Attr : IsInjective(deps'[y])
  BY <1>1 DEF WakeInv
<1> QED
  BY <1>2, <1>3 DEF WakeInv

\* An update leads to one more evaluation, and counts.
LEMMA UpdateWakes ==
  ASSUME CallsInv, WakeInv, NEW k \in EntryId, NEW x \in Attr, Update(k, x)
  PROVE  WakeInv'
<1>1. PICK e \in Event(0) : e = DefineEvent(k)
  BY Events
<1>2. Sent(stack, 0, e) /\ deps' = deps
  BY <1>1 DEF Update
<1>3. queue'[0] = Append(queue[0], DefineEvent(k)) /\ queue'[1] = queue[1] /\ queue'[2] = queue[2]
  BY <1>1, <1>2, Sending
<1>4. /\ k \in Nat /\ LiveIn(entries, k) /\ entries[k + 1] \in EntryRecord
      /\ Updated(entries[k + 1], x).asked = entries[k + 1].asked + 1
      /\ Len(entries') = Len(entries) /\ entries'[k + 1] = Updated(entries[k + 1], x)
      /\ \A j \in 1 .. Len(entries) : j # k + 1 => entries'[j] = entries[j]
      /\ \A j \in Nat : LiveIn(entries', j) <=> LiveIn(entries, j)
  BY UpdatedEntry
<1>5. Len(entries) \in Nat
  BY Parts, SeqIs DEF EntriesFit
<1>6. entries[k + 1].asked \in Nat
  <2>1. entries[k + 1].asked \in 1 .. MaxOps
    BY <1>4 DEF EntryRecord
  <2> QED
    BY <2>1, BoundsAssumption
<1>7. ASSUME NEW i \in EntryId PROVE Woken(entries', Tokens(i)', i)
  <2>1. /\ Woken(entries, Tokens(i), i) /\ Tokens(i) \in Nat /\ i \in Nat
        /\ Tokens(i)' = Tokens(i) + (IF i = k THEN 1 ELSE 0)
    <3>1. Tokens(i)' = Tokens(i) + (IF i = k THEN 1 ELSE 0)
      BY <1>2, <1>3, DefineSent
    <3>2. i \in Nat
      BY BoundsAssumption DEF EntryId
    <3> QED
      BY <3>1, <3>2, Amounts DEF WakeInv
  <2>2. CASE i = k
    <3>1. Tokens(i) >= 1 /\ Tokens(i) <= entries[k + 1].asked
      BY <1>4, <2>1, <2>2 DEF Woken
    <3>2. Tokens(i)' = Tokens(i) + 1 /\ entries'[i + 1].asked = entries[k + 1].asked + 1
      BY <1>4, <2>1, <2>2
    <3>3. Tokens(i)' >= 1 /\ Tokens(i)' <= entries'[i + 1].asked
      BY <1>6, <2>1, <3>1, <3>2
    <3>4. ~(i >= Len(entries'))
      BY <1>4, <1>5, <2>2 DEF LiveIn
    <3> QED
      BY <3>3, <3>4 DEF Woken
  <2>3. CASE i # k
    <3>1. Tokens(i)' = Tokens(i) /\ (LiveIn(entries', i) => LiveIn(entries, i))
      BY <1>4, <2>1, <2>3
    <3>2. LiveIn(entries, i) => i + 1 \in 1 .. Len(entries) /\ i + 1 # k + 1
      BY <1>4, <1>5, <2>1, <2>3 DEF LiveIn
    <3>3. LiveIn(entries', i) => Tokens(i)' >= 1 /\ Tokens(i)' <= entries'[i + 1].asked
      BY <1>4, <2>1, <3>1, <3>2 DEF Woken
    <3>4. i >= Len(entries') => Tokens(i)' = 0
      BY <1>4, <2>1, <3>1 DEF Woken
    <3> QED
      BY <3>3, <3>4 DEF Woken
  <2> QED
    BY <2>2, <2>3
<1>8. \A y \in Attr : IsInjective(deps'[y])
  BY <1>2 DEF WakeInv
<1> QED
  BY <1>7, <1>8 DEF WakeInv

LEMMA NextWakes == CallsInv /\ WakeInv /\ [Next]_vars => WakeInv'
<1> SUFFICES ASSUME CallsInv, WakeInv, [Next]_vars PROVE WakeInv'
  OBVIOUS
<1>1. CASE HandleSet
  BY <1>1, HandleSetWakes
<1>2. CASE HandleOtherSet
  BY <1>2, HandleOtherSetWakes
<1>3. CASE HandleDefine
  BY <1>3, HandleDefineWakes
<1>4. CASE HandleDep
  BY <1>4, HandleDepWakes
<1>5. CASE \E fails \in BOOLEAN : HandleNotify(fails)
  BY <1>5, HandleNotifyWakes
<1>6. CASE \E a \in Agent, x \in Attr, fails \in BOOLEAN : Add(a, x, fails)
  BY <1>6, AddWakes
<1>7. CASE \E i \in EntryId, x \in Attr : Update(i, x)
  BY <1>7, UpdateWakes
<1>8. CASE \E a \in Agent : RemoveAgent(a)
  BY <1>8, RemoveAgentWakes
<1>9. CASE Sets
  BY <1>9, SetsSend, SetWakes
<1>10. CASE Moves
  BY <1>10, MovesWake
<1> QED
  BY <1>1, <1>2, <1>3, <1>4, <1>5, <1>6, <1>7, <1>8, <1>9, <1>10, Steps

\* An entry is neither forgotten nor called twice for one change: it is registered with
\* an attribute once, one event or registration leads to its next evaluation, and at
\* most one more for every update of it.
THEOREM WakeupCorrect == Spec => []OneWakeup
<1>1. CallsInv /\ WakeInv => OneWakeup
  <2> SUFFICES ASSUME CallsInv, WakeInv PROVE OneWakeup
    OBVIOUS
  <2>1. ASSUME NEW i \in EntryId, Live(i) PROVE Tokens(i) \in 1 .. At(i).asked
    <3>1. LiveIn(entries, i) /\ At(i) = entries[i + 1] /\ i \in Nat
      BY <2>1, BoundsAssumption DEF Live, LiveIn, At, EntryId
    <3>2. Tokens(i) \in Nat /\ Tokens(i) >= 1 /\ Tokens(i) <= entries[i + 1].asked
      BY <3>1, Amounts DEF WakeInv, Woken
    <3>3. entries[i + 1] \in EntryRecord
      BY <3>1, Parts, LiveEntry
    <3>4. entries[i + 1].asked \in 1 .. MaxOps
      BY <3>3 DEF EntryRecord
    <3> QED
      BY <3>1, <3>2, <3>4, BoundsAssumption
  <2> QED
    BY <2>1 DEF OneWakeup, WakeInv
<1> QED
  BY <1>1, CallsNest, InitWakes, NextWakes, PTL DEF Spec

=============================================================================
