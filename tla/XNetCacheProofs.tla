--------------------------- MODULE XNetCacheProofs ---------------------------
(***************************************************************************)
(* Proofs about XNetCache, for any number of attributes, chains, readers   *)
(* and changes, as long as no chain is longer than a handle has positions: *)
(* the answers gets return, the handles the server holds, and what keeps   *)
(* the cache entries of attributes that only handlers read up to date.     *)
(***************************************************************************)
EXTENDS XNetCache, FiniteSetTheorems, SequenceTheorems, WellFoundedInduction, TLAPS

-----------------------------------------------------------------------------
(***************************************************************************)
(* The inductive invariant.                                                *)
(***************************************************************************)
RequestSet   == [slot : Slot, by : DependentSet, get : Nat]
DocumentSet  == [type : {"RESULT"}, id : Nat, v : Nat] \cup [type : {"NOTIFY"}, by : DependentSet]
RegisterSet  == [slot : Slot, by : DependentSet, get : {0}]
CacheEntry   == [slot : Slot, value : Nat \cup {None}, ood : BOOLEAN]

\* The types, apart from what they say of each other.
Types ==
  /\ val \in [Slot -> Nat]
  /\ deps \in [Slot -> Seq(DependentSet)]
  /\ toServer \in Seq(RequestSet)
  /\ toClient \in Seq(DocumentSet)
  /\ chain \in [0 .. Chains - 1 -> Seq(CacheEntry)]
  /\ notify \in Seq(DependentSet)
  /\ register \in Seq(RegisterSet)
  /\ seen \in [Reader -> Nat \cup {None}]
  /\ stack \in Seq(Frame)

\* The calls that may be first, on top, and above each other.
Bottom(f)   == f.at # "eval" /\ (f.at = "get" => f.slot \in MainReads)
Resting(f)  == f.at # "eval" /\ (f.at = "get" => ~f.waiting)
Above(f, g) == \/ f.at = "get" /\ g.at = "update"
               \/ f.at = "update" /\ g.at = "instant"
               \/ f.at = "instant" /\ f.q = 1 /\ g.at = "eval"
               \/ f.at = "eval" /\ g.at = "get" /\ g.slot = Reads[f.r]

\* How reads nest: only a reader that an instant evaluates reads inside another
\* call, and there is one instant.
Nested(st) ==
  /\ st # <<>> => Bottom(st[1])
  /\ \A i \in 1 .. Len(st) - 1 : Above(st[i], st[i + 1])
  /\ \A i, j \in 1 .. Len(st) : st[i].at = "instant" /\ st[j].at = "instant" => i = j
StackInv == Nested(stack) /\ (stack # <<>> => Resting(Last(stack)))

\* Call i of st is a get of s that still waits.
Waits(st, i, s) == i \in 1 .. Len(st) /\ st[i].at = "get" /\ st[i].waiting /\ st[i].slot = s

\* A request, an answer and a get that has its answer fit the calls st and the
\* values vl: somebody waits for it, with a value the attribute has had meanwhile.
IsResult(m)         == m.type = "RESULT"
RequestFits(st, q)  == q.get # 0 => Waits(st, q.get, q.slot)
ResultFits(st, vl, m) ==
  IsResult(m) => /\ Waits(st, m.id, st[m.id].slot)
                 /\ m.v \in st[m.id].from .. vl[st[m.id].slot]
GetFits(vl, f) ==
  f.at = "get" => /\ f.from <= vl[f.slot]
                  /\ ~f.waiting => f.res \in f.from .. vl[f.slot]

\* For each get at most one request or answer is on its way.
AnswersInv ==
  /\ \A j \in 1 .. Len(toServer) : RequestFits(stack, toServer[j])
  /\ \A j \in 1 .. Len(toClient) : ResultFits(stack, val, toClient[j])
  /\ \A i \in 1 .. Len(stack) : GetFits(val, stack[i])
  /\ \A j, k \in 1 .. Len(toServer) :
       toServer[j].get # 0 /\ toServer[j].get = toServer[k].get => j = k
  /\ \A j, k \in 1 .. Len(toClient) :
       IsResult(toClient[j]) /\ IsResult(toClient[k]) /\ toClient[j].id = toClient[k].id => j = k
  /\ \A j \in 1 .. Len(toServer), k \in 1 .. Len(toClient) :
       toServer[j].get # 0 /\ IsResult(toClient[k]) => toClient[k].id # toServer[j].get

\* Chain h of the cache has one entry for each attribute it has any for, and none
\* of other chains.
ChainFits(h, ch) ==
  /\ \A i \in 1 .. Len(ch) : Hash[ch[i].slot] = h
  /\ \A i, j \in 1 .. Len(ch) : ch[i].slot = ch[j].slot => i = j

Has(ch, s) == \E i \in 1 .. Len(ch) : ch[i].slot = s

\* There is an entry for every attribute being read.
ChainInv ==
  /\ \A h \in 0 .. Chains - 1 : ChainFits(h, chain[h])
  /\ \A i \in 1 .. Len(stack) :
       stack[i].at = "get" => Has(chain[Hash[stack[i].slot]], stack[i].slot)

\* A dependent is a reader, or the handle of an entry there is in the chains chs.
Held(chs, d) == ~d.reader => /\ HandleChain(d) \in 0 .. Chains - 1
                             /\ HandleIndex(d) \in 1 .. Len(chs[HandleChain(d)])

HandlesInv ==
  /\ \A d \in Dependents : Held(chain, d)
  /\ \A j \in 1 .. Len(register) : register[j].by.reader

\* The values that may be taken for that of s: any, if the client is to be told that
\* its entry is out of date, or the present one, if it will be told of a change.
First(s) == Handle(Hash[s], 0)
Safe(s)  == {v \in Nat \cup {None} : First(s) \in OnTheWay
                                    \/ (v = val[s] /\ First(s) \in ToSet(deps[s]))}

\* What is taken for the value of a private attribute, by its entry, by a get that
\* is to return or by an answer on its way, is that value until the client is told.
ToldInv ==
  \A s \in Private :
    /\ \A i \in 1 .. Len(chain[Hash[s]]) :
         ~chain[Hash[s]][i].ood => chain[Hash[s]][i].value \in Safe(s)
    /\ \A i \in 1 .. Len(stack) :
         stack[i].at = "get" /\ stack[i].slot = s /\ ~stack[i].waiting => stack[i].res \in Safe(s)
    /\ \A j \in 1 .. Len(toClient) :
         IsResult(toClient[j]) /\ stack[toClient[j].id].slot = s => toClient[j].v \in Safe(s)
    /\ \A j \in 1 .. Len(toServer) :
         toServer[j].get # 0 /\ toServer[j].slot = s => toServer[j].by = First(s)

IInv ==
  /\ Types
  /\ StackInv
  /\ AnswersInv
  /\ ChainInv
  /\ HandlesInv
  /\ ToldInv
-----------------------------------------------------------------------------
(***************************************************************************)
(* Sequences.                                                              *)
(***************************************************************************)
\* A sequence is a function on the numbers to its length.
LEMMA SeqIs ==
  ASSUME NEW S, NEW s \in Seq(S)
  PROVE  /\ Len(s) \in Nat /\ DOMAIN s = 1 .. Len(s)
         /\ \A i \in 1 .. Len(s) : s[i] \in S
         /\ s # <<>> => Len(s) \in Nat \ {0}
         /\ Len(s) = 0 => s = <<>>
         /\ \A x : x \in ToSet(s) <=> \E i \in 1 .. Len(s) : s[i] = x
BY EmptySeq DEF ToSet

\* What appending an element does.
LEMMA Pushed ==
  ASSUME NEW S, NEW s \in Seq(S), NEW x \in S
  PROVE  /\ Append(s, x) \in Seq(S) /\ Append(s, x) # <<>>
         /\ Len(Append(s, x)) = Len(s) + 1
         /\ \A i \in 1 .. Len(s) : Append(s, x)[i] = s[i]
         /\ Append(s, x)[Len(s) + 1] = x
         /\ Last(Append(s, x)) = x
         /\ ToSet(Append(s, x)) = ToSet(s) \cup {x}
<1>1. /\ Append(s, x) \in Seq(S) /\ Append(s, x) # <<>>
      /\ Len(Append(s, x)) = Len(s) + 1 /\ Len(s) \in Nat
      /\ \A i \in 1 .. Len(s) : Append(s, x)[i] = s[i]
      /\ Append(s, x)[Len(s) + 1] = x
  BY AppendProperties
<1>2. Last(Append(s, x)) = x
  BY <1>1 DEF Last
<1>3. /\ \A y : y \in ToSet(Append(s, x)) <=> \E i \in 1 .. Len(Append(s, x)) : Append(s, x)[i] = y
      /\ \A y : y \in ToSet(s) <=> \E i \in 1 .. Len(s) : s[i] = y
  BY <1>1, SeqIs
<1>4. ToSet(Append(s, x)) = ToSet(s) \cup {x}
  <2> DEFINE t == Append(s, x)
  <2>1. /\ Len(t) = Len(s) + 1 /\ Len(s) \in Nat /\ t[Len(s) + 1] = x
        /\ \A i \in 1 .. Len(s) : t[i] = s[i]
        /\ \A y : y \in ToSet(t) <=> \E i \in 1 .. Len(t) : t[i] = y
    BY <1>1, <1>3
  <2> HIDE DEF t
  <2>2. ASSUME NEW y PROVE y \in ToSet(t) <=> y \in ToSet(s) \/ y = x
    BY <1>3, <2>1
  <2>3. ToSet(t) = ToSet(s) \cup {x}
    BY <2>2
  <2> QED
    BY <2>3 DEF t
<1> QED
  BY <1>1, <1>2, <1>4

\* What taking the last element away leaves.
LEMMA Popped ==
  ASSUME NEW S, NEW s \in Seq(S), s # <<>>
  PROVE  /\ Front(s) \in Seq(S)
         /\ Len(s) \in Nat \ {0} /\ Len(Front(s)) = Len(s) - 1
         /\ \A i \in 1 .. Len(s) - 1 : Front(s)[i] = s[i]
         /\ Last(s) = s[Len(s)] /\ Last(s) \in S
<1>1. Len(s) \in Nat \ {0} /\ \A i \in 1 .. Len(s) : s[i] \in S
  BY SeqIs
<1>2. PICK n \in Nat : n + 1 = Len(s) /\ Len(s) - 1 = n
  <2>1. \A l \in Nat \ {0} : l - 1 \in Nat /\ l - 1 + 1 = l
    OBVIOUS
  <2> QED
    BY <1>1, <2>1, Zenon
<1>3. /\ SubSeq(s, 1, n) \in Seq(S)
      /\ Len(SubSeq(s, 1, n)) = IF 1 <= n THEN n - 1 + 1 ELSE 0
      /\ \A i \in 1 .. n - 1 + 1 : SubSeq(s, 1, n)[i] = s[1 + i - 1]
  <2>1. n \in Int /\ 1 \in Int /\ \A i \in 1 .. n : s[i] \in S
    BY <1>1, <1>2
  <2> QED
    BY <2>1, SubSeqProperties
<1>4. Front(s) = SubSeq(s, 1, n) /\ n = Len(s) - 1
  BY <1>2 DEF Front
<1>5. Len(SubSeq(s, 1, n)) = n /\ \A i \in 1 .. n : i \in 1 .. n - 1 + 1 /\ 1 + i - 1 = i
  BY <1>3
<1>6. \A i \in 1 .. n : SubSeq(s, 1, n)[i] = s[i]
  BY <1>3, <1>5
<1>7. Last(s) = s[Len(s)] /\ Last(s) \in S
  BY <1>1 DEF Last
<1> QED
  BY <1>1, <1>3, <1>4, <1>5, <1>6, <1>7

\* What taking the first element away leaves.
LEMMA Taken ==
  ASSUME NEW S, NEW s \in Seq(S), s # <<>>
  PROVE  /\ Tail(s) \in Seq(S) /\ Head(s) \in S /\ Head(s) = s[1]
         /\ Len(s) \in Nat \ {0} /\ Len(Tail(s)) = Len(s) - 1
         /\ \A i \in 1 .. Len(s) - 1 : Tail(s)[i] = s[i + 1]
         /\ ToSet(s) = ToSet(Tail(s)) \cup {Head(s)}
<1>1. /\ Tail(s) \in Seq(S) /\ Head(s) \in S /\ Head(s) = s[1]
      /\ Len(s) \in Nat \ {0} /\ Len(Tail(s)) = Len(s) - 1
      /\ \A i \in 1 .. Len(s) - 1 : Tail(s)[i] = s[i + 1]
  BY HeadTailProperties, SeqIs
<1>2. /\ \A y : y \in ToSet(Tail(s)) <=> \E i \in 1 .. Len(Tail(s)) : Tail(s)[i] = y
      /\ \A y : y \in ToSet(s) <=> \E i \in 1 .. Len(s) : s[i] = y
  BY <1>1, SeqIs
<1>3. \A i \in 1 .. Len(s) : i = 1 \/ (i - 1 \in 1 .. Len(s) - 1 /\ s[i] = Tail(s)[i - 1])
  BY <1>1
<1>4. ToSet(s) \subseteq ToSet(Tail(s)) \cup {Head(s)}
  BY <1>1, <1>2, <1>3
<1>5. ToSet(Tail(s)) \cup {Head(s)} \subseteq ToSet(s)
  BY <1>1, <1>2
<1> QED
  BY <1>1, <1>4, <1>5

\* What a sequence behind another does.
LEMMA Joined ==
  ASSUME NEW S, NEW s \in Seq(S), NEW t \in Seq(S)
  PROVE  /\ s \o t \in Seq(S) /\ Len(s \o t) = Len(s) + Len(t)
         /\ \A i \in 1 .. Len(s) : (s \o t)[i] = s[i]
         /\ \A i \in 1 .. Len(t) : (s \o t)[Len(s) + i] = t[i]
         /\ ToSet(s \o t) = ToSet(s) \cup ToSet(t)
<1>1. /\ s \o t \in Seq(S) /\ Len(s \o t) = Len(s) + Len(t)
      /\ Len(s) \in Nat /\ Len(t) \in Nat
      /\ \A i \in 1 .. Len(s) : (s \o t)[i] = s[i]
      /\ \A i \in 1 .. Len(t) : (s \o t)[Len(s) + i] = t[i]
  BY ConcatProperties
<1>2. /\ \A y : y \in ToSet(s \o t) <=> \E i \in 1 .. Len(s \o t) : (s \o t)[i] = y
      /\ \A y : y \in ToSet(s) <=> \E i \in 1 .. Len(s) : s[i] = y
      /\ \A y : y \in ToSet(t) <=> \E i \in 1 .. Len(t) : t[i] = y
  BY <1>1, SeqIs
<1>3. \A i \in 1 .. Len(s) + Len(t) :
        i \in 1 .. Len(s) \/ (i - Len(s) \in 1 .. Len(t) /\ i = Len(s) + (i - Len(s)))
  BY <1>1
<1>4. ToSet(s \o t) = ToSet(s) \cup ToSet(t)
  <2> DEFINE c == s \o t
  <2>1. /\ Len(c) = Len(s) + Len(t) /\ Len(s) \in Nat /\ Len(t) \in Nat
        /\ \A i \in 1 .. Len(s) : c[i] = s[i]
        /\ \A i \in 1 .. Len(t) : c[Len(s) + i] = t[i]
        /\ \A y : y \in ToSet(c) <=> \E i \in 1 .. Len(c) : c[i] = y
    BY <1>1, <1>2
  <2> HIDE DEF c
  <2>2. \A i \in 1 .. Len(t) : Len(s) + i \in 1 .. Len(c)
    BY <2>1
  <2>3. \A i \in 1 .. Len(s) : i \in 1 .. Len(c)
    BY <2>1
  <2>4. ASSUME NEW y \in ToSet(c) PROVE y \in ToSet(s) \cup ToSet(t)
    <3>1. PICK i \in 1 .. Len(c) : c[i] = y
      BY <2>1
    <3>2. CASE i \in 1 .. Len(s)
      BY <1>2, <2>1, <3>1, <3>2
    <3>3. CASE i - Len(s) \in 1 .. Len(t) /\ i = Len(s) + (i - Len(s))
      <4>1. t[i - Len(s)] = y
        BY <2>1, <3>1, <3>3
      <4> QED
        BY <1>2, <3>3, <4>1
    <3> QED
      BY <1>3, <2>1, <3>1, <3>2, <3>3
  <2>5. ASSUME NEW y \in ToSet(s) \cup ToSet(t) PROVE y \in ToSet(c)
    BY <1>2, <2>1, <2>2, <2>3
  <2>6. ToSet(c) = ToSet(s) \cup ToSet(t)
    BY <2>4, <2>5
  <2> QED
    BY <2>6 DEF c
<1> QED
  BY <1>1, <1>4

\* A set of numbers has a least one.
LEMMA Least ==
  ASSUME NEW T, T \subseteq Nat, T # {}
  PROVE  Min(T) \in T /\ \A y \in T : Min(T) <= y
<1>1. IsWellFoundedOn(OpToRel(<, Nat), Nat)
  BY NatLessThanWellFounded
<1>2. PICK x \in T : \A y \in T : ~(<<y, x>> \in OpToRel(<, Nat))
  BY <1>1, WFMin
<1>3. ASSUME NEW y \in T PROVE x <= y
  <2>1. ~(<<y, x>> \in OpToRel(<, Nat)) /\ x \in Nat /\ y \in Nat
    BY <1>2
  <2> QED
    BY <2>1 DEF OpToRel
<1> QED
  BY <1>3, Zenon DEF Min

\* What removing the first occurrence of an element leaves.
LEMMA Without ==
  ASSUME NEW S, NEW s \in Seq(S), NEW x \in S
  PROVE  /\ RemoveFirst(s, x) \in Seq(S)
         /\ ToSet(RemoveFirst(s, x)) \subseteq ToSet(s)
         /\ ToSet(s) \subseteq ToSet(RemoveFirst(s, x)) \cup {x}
<1> DEFINE I == {i \in 1 .. Len(s) : s[i] = x}
           k == Min(I)
<1>0. Len(s) \in Nat /\ (\A i \in 1 .. Len(s) : s[i] \in S)
     /\ \A y : y \in ToSet(s) <=> \E i \in 1 .. Len(s) : s[i] = y
  BY SeqIs
<1>1. CASE I = {}
  <2>1. RemoveFirst(s, x) = s
    BY <1>1 DEF RemoveFirst
  <2> QED
    BY <2>1
<1>2. CASE I # {}
  <2>1. RemoveFirst(s, x) = RemoveAt(s, k)
    BY <1>2, Zenon DEF RemoveFirst, SelectInSeq
  <2>2. k \in I
    <3>1. I \subseteq Nat
      OBVIOUS
    <3> HIDE DEF I
    <3> QED
      BY <1>2, <3>1, Least
  <2> DEFINE l == SubSeq(s, 1, k - 1)
             r == SubSeq(s, k + 1, Len(s))
  <2>3. k \in 1 .. Len(s) /\ s[k] = x
    BY <2>2
  <2> HIDE DEF k
  <2>4. /\ l \in Seq(S) /\ Len(l) = k - 1
        /\ \A i \in 1 .. k - 1 : l[i] = s[i]
    <3>1. \A i \in 1 .. k - 1 : s[i] \in S
      BY <1>0, <2>3
    <3>2. /\ l \in Seq(S) /\ Len(l) = IF 1 <= k - 1 THEN (k - 1) - 1 + 1 ELSE 0
          /\ \A i \in 1 .. (k - 1) - 1 + 1 : l[i] = s[1 + i - 1]
      BY <2>3, <3>1, SubSeqProperties
    <3> HIDE DEF l
    <3> QED
      BY <2>3, <3>2
  <2>5. /\ r \in Seq(S) /\ Len(r) = Len(s) - k
        /\ \A i \in 1 .. Len(s) - k : r[i] = s[k + i]
    <3>1. \A i \in k + 1 .. Len(s) : s[i] \in S
      BY <1>0, <2>3
    <3>2. /\ r \in Seq(S) /\ Len(r) = IF k + 1 <= Len(s) THEN Len(s) - (k + 1) + 1 ELSE 0
          /\ \A i \in 1 .. Len(s) - (k + 1) + 1 : r[i] = s[k + 1 + i - 1]
      BY <1>0, <2>3, <3>1, SubSeqProperties
    <3> HIDE DEF r
    <3> QED
      BY <1>0, <2>3, <3>2
  <2>6. RemoveFirst(s, x) = l \o r
    BY <2>1 DEF RemoveAt
  <2> HIDE DEF l, r
  <2>7. /\ l \o r \in Seq(S) /\ ToSet(l \o r) = ToSet(l) \cup ToSet(r)
        /\ \A y : y \in ToSet(l) <=> \E i \in 1 .. Len(l) : l[i] = y
        /\ \A y : y \in ToSet(r) <=> \E i \in 1 .. Len(r) : r[i] = y
    BY <2>4, <2>5, Joined, SeqIs
  <2>8. ToSet(l) \subseteq ToSet(s)
    BY <1>0, <2>3, <2>4, <2>7
  <2>9. ToSet(r) \subseteq ToSet(s)
    <3>1. \A i \in 1 .. Len(s) - k : k + i \in 1 .. Len(s)
      BY <1>0, <2>3
    <3> QED
      BY <1>0, <2>5, <2>7, <3>1
  <2>10. \A i \in 1 .. Len(s) : i = k \/ i \in 1 .. k - 1
                               \/ (i - k \in 1 .. Len(s) - k /\ i = k + (i - k))
    BY <1>0, <2>3
  <2>11. ASSUME NEW y \in ToSet(s) PROVE y \in ToSet(l) \cup ToSet(r) \cup {x}
    <3>1. PICK i \in 1 .. Len(s) : s[i] = y
      BY <1>0
    <3>2. CASE i = k
      BY <2>3, <3>1, <3>2
    <3>3. CASE i \in 1 .. k - 1
      BY <2>4, <2>7, <3>1, <3>3
    <3>4. CASE i - k \in 1 .. Len(s) - k /\ i = k + (i - k)
      <4>1. r[i - k] = y
        BY <2>5, <3>1, <3>4
      <4> QED
        BY <2>5, <2>7, <3>4, <4>1
    <3> QED
      BY <2>10, <3>1, <3>2, <3>3, <3>4
  <2> QED
    BY <2>6, <2>7, <2>8, <2>9, <2>11
<1> QED
  BY <1>1, <1>2
-----------------------------------------------------------------------------
(***************************************************************************)
(* Calls, documents and handles.                                           *)
(***************************************************************************)
\* The fields of the calls.
LEMMA Calls ==
  \A f \in Frame :
       /\ f.at \in {"get", "update", "instant", "eval"}
       /\ f.at = "get" => /\ f.slot \in Slot /\ f.waiting \in BOOLEAN
                          /\ f.res \in Nat \cup {None} /\ f.from \in Nat
                          /\ \A v \in Nat :
                               /\ [f EXCEPT !.waiting = FALSE, !.res = v] \in Frame
                               /\ [f EXCEPT !.waiting = FALSE, !.res = v].at = "get"
                               /\ [f EXCEPT !.waiting = FALSE, !.res = v].slot = f.slot
                               /\ [f EXCEPT !.waiting = FALSE, !.res = v].from = f.from
                               /\ [f EXCEPT !.waiting = FALSE, !.res = v].waiting = FALSE
                               /\ [f EXCEPT !.waiting = FALSE, !.res = v].res = v
       /\ f.at = "update" => f.n \in 0 .. LoopLimit
       /\ f.at = "instant" => f.q \in 1 .. 2
       /\ f.at = "eval" => f.r \in Reader
BY DEF Frame, None

LEMMA NewCalls ==
  /\ \A n \in 0 .. LoopLimit : Update(n) \in Frame /\ Update(n).at = "update" /\ Update(n).n = n
  /\ \A q \in 1 .. 2 : Instant(q) \in Frame /\ Instant(q).at = "instant" /\ Instant(q).q = q
  /\ \A r \in Reader : Eval(r) \in Frame /\ Eval(r).at = "eval" /\ Eval(r).r = r
  /\ Instant(1) \in Frame /\ Instant(2) \in Frame
BY DEF Frame, Update, Instant, Eval

\* A get that begins.
LEMMA NewGet ==
  ASSUME Types, NEW s \in Slot
  PROVE  /\ Get(s) \in Frame /\ Get(s).at = "get" /\ Get(s).slot = s /\ Get(s).waiting
         /\ Get(s).from = val[s]
BY DEF Types, Get, Frame, None

\* The fields of the dependents, the requests and the documents.
LEMMA DependentFields ==
  /\ \A d \in DependentSet : /\ d.reader \in BOOLEAN
                             /\ d.reader => d.id \in Reader
                             /\ ~d.reader => d.id \in Nat
  /\ \A r \in Reader : Dependent(r) \in DependentSet /\ Dependent(r).reader
BY DEF DependentSet, Dependent

LEMMA Requests ==
  /\ \A s \in Slot, d \in DependentSet, g \in Nat :
       /\ Request(s, d, g) \in RequestSet
       /\ Request(s, d, g).slot = s /\ Request(s, d, g).by = d /\ Request(s, d, g).get = g
  /\ \A s \in Slot, d \in DependentSet : Request(s, d, 0) \in RegisterSet
  /\ \A q \in RequestSet : q.slot \in Slot /\ q.by \in DependentSet /\ q.get \in Nat
  /\ \A q \in RegisterSet : q \in RequestSet /\ q.get = 0
BY DEF Request, RequestSet, RegisterSet

LEMMA Documents ==
  /\ \A i, v \in Nat : /\ Result(i, v) \in DocumentSet /\ Result(i, v).type = "RESULT"
                       /\ Result(i, v).id = i /\ Result(i, v).v = v
  /\ \A d \in DependentSet : /\ Notification(d) \in DocumentSet
                             /\ Notification(d).type = "NOTIFY" /\ Notification(d).by = d
  /\ \A m \in DocumentSet :
       \/ m.type = "RESULT" /\ m.id \in Nat /\ m.v \in Nat
       \/ m.type = "NOTIFY" /\ m.by \in DependentSet
BY DEF Result, Notification, DocumentSet

\* A handle is a chain and a position in it, if that is one a handle has room for.
LEMMA Handles ==
  ASSUME NEW h \in 0 .. Chains - 1, NEW i \in 0 .. Width - 1
  PROVE  /\ Handle(h, i) \in DependentSet /\ ~Handle(h, i).reader
         /\ HandleChain(Handle(h, i)) = h /\ HandleIndex(Handle(h, i)) = i + 1
<1>1. Width \in Nat \ {0} /\ h \in Nat /\ i \in 0 .. Width - 1
  BY NumbersAssumption, HashAssumption
<1>2. (h * Width + i) \div Width = h /\ (h * Width + i) % Width = i /\ h * Width + i \in Nat
  BY <1>1
<1> QED
  BY <1>1, <1>2 DEF Handle, DependentSet, HandleChain, HandleIndex

\* The constants.
LEMMA Constants ==
  /\ \A s \in Slot : Hash[s] \in 0 .. Chains - 1
  /\ \A r \in Reader : Reads[r] \in Slot
  /\ MainReads \subseteq Slot
  /\ LoopLimit \in Nat \ {0} /\ Width \in Nat \ {0} /\ Chains \in Nat \ {0}
BY HashAssumption, ReadsAssumption, NumbersAssumption

-----------------------------------------------------------------------------
(***************************************************************************)
(* The chains of the cache.                                                *)
(***************************************************************************)
\* The position of an attribute in a chain.
LEMMA Positions ==
  ASSUME NEW ch \in Seq(CacheEntry), NEW s
  PROVE  /\ Position(ch, s) \in 0 .. Len(ch)
         /\ Position(ch, s) = 0 <=> \A i \in 1 .. Len(ch) : ch[i].slot # s
         /\ Position(ch, s) # 0 => ch[Position(ch, s)].slot = s
<1> DEFINE I == {i \in 1 .. Len(ch) : ch[i].slot = s}
<1>1. Position(ch, s) = IF I # {} THEN Min(I) ELSE 0
  BY Zenon DEF Position, SelectInSeq
<1>2. CASE I = {}
  BY <1>1, <1>2
<1>3. CASE I # {}
  <2>1. Min(I) \in I
    <3>1. I \subseteq Nat
      OBVIOUS
    <3> HIDE DEF I
    <3> QED
      BY <1>3, <3>1, Least
  <2> QED
    BY <1>1, <1>3, <2>1
<1> QED
  BY <1>2, <1>3

NewEntry(s) == [slot |-> s, value |-> None, ood |-> TRUE]

\* What lookup leaves: the chain, or the chain behind a new entry that is out of date.
LEMMA Lookups ==
  ASSUME Types, NEW s \in Slot
  PROVE  /\ chain[Hash[s]] \in Seq(CacheEntry)
         /\ Lookup(s) \in Seq(CacheEntry)
         /\ Position(Lookup(s), s) \in 1 .. Len(Lookup(s))
         /\ Lookup(s)[Position(Lookup(s), s)].slot = s
         /\ \/ Lookup(s) = chain[Hash[s]]
            \/ /\ \A i \in 1 .. Len(chain[Hash[s]]) : chain[Hash[s]][i].slot # s
               /\ Len(Lookup(s)) = Len(chain[Hash[s]]) + 1
               /\ Lookup(s)[1] = NewEntry(s)
               /\ \A i \in 1 .. Len(chain[Hash[s]]) : Lookup(s)[i + 1] = chain[Hash[s]][i]
<1> DEFINE ch == chain[Hash[s]]
<1>1. ch \in Seq(CacheEntry)
  BY Constants DEF Types
<1>2. NewEntry(s) \in CacheEntry /\ NewEntry(s).slot = s
  BY DEF NewEntry, CacheEntry
<1>3. CASE Position(ch, s) # 0
  <2>1. Lookup(s) = ch
    BY <1>3 DEF Lookup
  <2> QED
    BY <1>1, <1>3, <2>1, Positions
<1>4. CASE Position(ch, s) = 0
  <2>1. Lookup(s) = <<NewEntry(s)>> \o ch
    BY <1>4 DEF Lookup, NewEntry
  <2>2. <<NewEntry(s)>> \in Seq(CacheEntry) /\ Len(<<NewEntry(s)>>) = 1 /\ <<NewEntry(s)>>[1] = NewEntry(s)
    BY <1>2
  <2>3. /\ Lookup(s) \in Seq(CacheEntry) /\ Len(Lookup(s)) = 1 + Len(ch)
        /\ Lookup(s)[1] = NewEntry(s)
        /\ \A i \in 1 .. Len(ch) : Lookup(s)[1 + i] = ch[i]
    BY <1>1, <2>1, <2>2, Joined
  <2>4. \A i \in 1 .. Len(ch) : ch[i].slot # s
    BY <1>1, <1>4, Positions
  <2>5. Position(Lookup(s), s) # 0
    BY <1>1, <1>2, <2>3, Positions, SeqIs
  <2>6. Len(ch) \in Nat /\ Len(Lookup(s)) = Len(ch) + 1 /\ \A i \in 1 .. Len(ch) : Lookup(s)[i + 1] = ch[i]
    BY <1>1, <2>3
  <2> QED
    BY <1>1, <2>3, <2>4, <2>5, <2>6, Positions
<1> QED
  BY <1>3, <1>4

\* A chain without repetitions is no longer than a handle has positions.
LEMMA ChainsAreShort ==
  ASSUME NEW h \in 0 .. Chains - 1, NEW ch \in Seq(CacheEntry),
         ChainFits(h, ch)
  PROVE  Len(ch) <= Width
<1> DEFINE D == 1 .. Len(ch)
           T == {s \in Slot : Hash[s] = h}
           f == [i \in D |-> ch[i].slot]
<1>1. IsFiniteSet(T) /\ Cardinality(T) <= Width
  <2>1. T \in SUBSET Slot
    OBVIOUS
  <2>2. IsFiniteSet(T)
    <3> HIDE DEF T
    <3> QED
      BY <2>1, WidthAssumption, FS_Subset
  <2> QED
    BY <2>2, WidthAssumption
<1>2. f \in [D -> T]
  <2>1. \A i \in D : ch[i] \in CacheEntry
    BY SeqIs
  <2>2. \A i \in D : ch[i].slot \in T
    BY <2>1 DEF CacheEntry, ChainFits
  <2> HIDE DEF D, T
  <2> QED
    BY <2>2
<1>3. IsInjective(f)
  BY DEF IsInjective, ChainFits
<1>4. f \in Injection(D, T)
  <2> HIDE DEF f, D, T
  <2> QED
    BY <1>2, <1>3 DEF Injection
<1>5. Cardinality(D) <= Cardinality(T)
  <2> HIDE DEF f, D, T
  <2> QED
    BY <1>1, <1>4, FS_Injection
<1>6. Cardinality(D) = Len(ch) /\ Len(ch) \in Nat
  <2>1. Len(ch) \in Nat
    BY SeqIs
  <2>2. \A n \in Nat : Cardinality(1 .. n) = n
    <3> TAKE n \in Nat
    <3>1. Cardinality(1 .. n) = IF 1 > n THEN 0 ELSE n - 1 + 1
      BY FS_Interval
    <3> QED
      BY <3>1
  <2> QED
    BY <2>1, <2>2
<1>7. Cardinality(T) \in Nat /\ Width \in Nat
  BY <1>1, FS_CardinalityType, NumbersAssumption
<1> QED
  BY <1>1, <1>5, <1>6, <1>7

\* Looking an attribute up keeps the chain without repetitions, and gives the
\* attribute a handle.
LEMMA LookupKeeps ==
  ASSUME Types, ChainInv, NEW s \in Slot
  PROVE  /\ ChainFits(Hash[s], Lookup(s))
         /\ Position(Lookup(s), s) - 1 \in 0 .. Width - 1
         /\ HandleOf(s) \in DependentSet /\ ~HandleOf(s).reader
         /\ HandleChain(HandleOf(s)) = Hash[s]
         /\ HandleIndex(HandleOf(s)) = Position(Lookup(s), s)
<1> DEFINE ch == chain[Hash[s]]
           L == Lookup(s)
           p == Position(L, s)
<1>1. /\ ch \in Seq(CacheEntry) /\ L \in Seq(CacheEntry) /\ p \in 1 .. Len(L)
      /\ \/ L = ch
         \/ /\ \A i \in 1 .. Len(ch) : ch[i].slot # s
            /\ Len(L) = Len(ch) + 1 /\ L[1] = NewEntry(s)
            /\ \A i \in 1 .. Len(ch) : L[i + 1] = ch[i]
  BY Lookups
<1>2. Hash[s] \in 0 .. Chains - 1 /\ Width \in Nat \ {0} /\ Len(ch) \in Nat /\ Len(L) \in Nat
  BY <1>1, Constants, SeqIs
<1>3. /\ \A i \in 1 .. Len(ch) : Hash[ch[i].slot] = Hash[s]
      /\ \A i, j \in 1 .. Len(ch) : ch[i].slot = ch[j].slot => i = j
  BY <1>2 DEF ChainInv, ChainFits
<1>4. NewEntry(s).slot = s
  BY DEF NewEntry
<1> HIDE DEF ch, L, p
<1>7. ChainFits(Hash[s], L)
  <2>1. CASE L = ch
    BY <1>3, <2>1 DEF ChainFits
  <2>2. CASE /\ \A i \in 1 .. Len(ch) : ch[i].slot # s
             /\ Len(L) = Len(ch) + 1 /\ L[1] = NewEntry(s)
             /\ \A i \in 1 .. Len(ch) : L[i + 1] = ch[i]
    <3>1. \A i \in 1 .. Len(L) : i # 1 => (i - 1 \in 1 .. Len(ch) /\ L[i] = ch[i - 1])
      BY <1>2, <2>2
    <3>2. \A i \in 1 .. Len(L) : L[i].slot = s <=> i = 1
      BY <1>4, <2>2, <3>1
    <3>3. ASSUME NEW i \in 1 .. Len(L) PROVE Hash[L[i].slot] = Hash[s]
      <4>1. CASE i = 1
        BY <3>2, <4>1
      <4>2. CASE i # 1
        BY <1>3, <3>1, <4>2
      <4> QED
        BY <4>1, <4>2
    <3>4. ASSUME NEW i \in 1 .. Len(L), NEW j \in 1 .. Len(L), L[i].slot = L[j].slot
          PROVE  i = j
      <4>1. CASE i = 1 \/ j = 1
        BY <3>2, <3>4, <4>1
      <4>2. CASE i # 1 /\ j # 1
        <5>1. /\ i - 1 \in 1 .. Len(ch) /\ j - 1 \in 1 .. Len(ch)
              /\ ch[i - 1].slot = ch[j - 1].slot
          BY <3>1, <3>4, <4>2
        <5>2. i - 1 = j - 1
          BY <1>3, <5>1
        <5> QED
          BY <1>2, <5>2
      <4> QED
        BY <4>1, <4>2
    <3> QED
      BY <3>3, <3>4 DEF ChainFits
  <2> QED
    BY <1>1, <2>1, <2>2
<1>8. Len(L) <= Width
  BY <1>1, <1>2, <1>7, ChainsAreShort
<1>9. p - 1 \in 0 .. Width - 1 /\ (p - 1) + 1 = p
  BY <1>1, <1>2, <1>8
<1>10. HandleOf(s) = Handle(Hash[s], p - 1)
  BY DEF HandleOf, L, p
<1>11. /\ HandleOf(s) \in DependentSet /\ ~HandleOf(s).reader
       /\ HandleChain(HandleOf(s)) = Hash[s] /\ HandleIndex(HandleOf(s)) = p
  BY <1>2, <1>9, <1>10, Handles
<1> QED
  BY <1>7, <1>9, <1>11 DEF L, p

\* Whatever had an entry has one.
KeepsAll(cs, ct) == \A s : Has(cs, s) => Has(ct, s)

\* An entry of a chain takes other values for the same attribute.
LEMMA EntryChanges ==
  ASSUME NEW cs \in Seq(CacheEntry), NEW i \in 1 .. Len(cs), NEW e \in CacheEntry,
         e.slot = cs[i].slot, NEW ct, ct = [cs EXCEPT ![i] = e],
         NEW h, ChainFits(h, cs)
  PROVE  /\ ct \in Seq(CacheEntry) /\ Len(ct) = Len(cs)
         /\ ct[i] = e /\ \A j \in 1 .. Len(cs) : j # i => ct[j] = cs[j]
         /\ ChainFits(h, ct)
         /\ KeepsAll(cs, ct)
<1>1. /\ ct \in Seq(CacheEntry) /\ Len(ct) = Len(cs)
      /\ ct[i] = e /\ \A j \in 1 .. Len(cs) : j # i => ct[j] = cs[j]
  OBVIOUS
<1>2. \A j \in 1 .. Len(cs) : ct[j].slot = cs[j].slot
  BY <1>1
<1>3. ChainFits(h, ct)
  BY <1>1, <1>2 DEF ChainFits
<1>4. KeepsAll(cs, ct)
  BY <1>1, <1>2 DEF KeepsAll, Has
<1> QED
  BY <1>1, <1>3, <1>4

-----------------------------------------------------------------------------
(***************************************************************************)
(* The calls in progress.                                                  *)
(***************************************************************************)
\* The gets in progress are the same, at the same places.
SameGets(st, tt) ==
  /\ \A i \in 1 .. Len(st) : st[i].at = "get" => i \in 1 .. Len(tt) /\ tt[i] = st[i]
  /\ \A i \in 1 .. Len(tt) : tt[i].at = "get" => i \in 1 .. Len(st) /\ st[i] = tt[i]

\* A call ends.
LEMMA CallEnds ==
  ASSUME NEW st \in Seq(Frame), st # <<>>, Nested(st)
  PROVE  /\ Front(st) \in Seq(Frame) /\ Last(st) \in Frame /\ Nested(Front(st))
         /\ Front(st) = <<>> => Bottom(Last(st))
         /\ Front(st) # <<>> => Above(Last(Front(st)), Last(st))
         /\ Last(st).at = "instant" =>
              \A i \in 1 .. Len(Front(st)) : Front(st)[i].at # "instant"
         /\ Last(st).at # "get" => SameGets(st, Front(st))
<1> DEFINE n == Len(st)
           c == Front(st)
<1>1. /\ c \in Seq(Frame) /\ n \in Nat \ {0} /\ Len(c) = n - 1
      /\ \A i \in 1 .. n - 1 : c[i] = st[i]
      /\ Last(st) = st[n] /\ Last(st) \in Frame
  BY Popped
<1>2. /\ Bottom(st[1]) /\ \A i \in 1 .. n - 1 : Above(st[i], st[i + 1])
      /\ \A i, j \in 1 .. n : st[i].at = "instant" /\ st[j].at = "instant" => i = j
  BY DEF Nested
<1>3. c # <<>> => Len(c) \in Nat \ {0} /\ Last(c) = c[Len(c)]
  BY <1>1, Popped
<1>4. c = <<>> => Len(c) = 0
  OBVIOUS
<1> HIDE DEF c, n
<1>5. Nested(c)
  <2>1. c # <<>> => c[1] = st[1]
    BY <1>1, <1>3
  <2>2. \A i \in 1 .. Len(c) - 1 : i \in 1 .. n - 1 /\ c[i] = st[i] /\ c[i + 1] = st[i + 1]
    BY <1>1
  <2>3. \A i, j \in 1 .. Len(c) : c[i].at = "instant" /\ c[j].at = "instant" => i = j
    <3>1. \A i \in 1 .. Len(c) : i \in 1 .. n /\ c[i] = st[i]
      BY <1>1
    <3> QED
      BY <1>2, <3>1
  <2> QED
    BY <1>2, <2>1, <2>2, <2>3 DEF Nested
<1>6. c = <<>> => Bottom(Last(st))
  BY <1>1, <1>2, <1>4
<1>7. c # <<>> => Above(Last(c), Last(st))
  <2> SUFFICES ASSUME c # <<>> PROVE Above(Last(c), Last(st))
    OBVIOUS
  <2>1. n - 1 \in 1 .. n - 1 /\ (n - 1) + 1 = n /\ Last(c) = st[n - 1]
    BY <1>1, <1>3
  <2> QED
    BY <1>1, <1>2, <2>1
<1>8. Last(st).at = "instant" => \A i \in 1 .. Len(c) : c[i].at # "instant"
  BY <1>1, <1>2
<1>9. Last(st).at # "get" => SameGets(st, c)
  BY <1>1 DEF SameGets, n
<1> QED
  BY <1>1, <1>5, <1>6, <1>7, <1>8, <1>9 DEF c

\* A call begins.
LEMMA CallBegins ==
  ASSUME NEW st \in Seq(Frame), NEW g \in Frame, Nested(st),
         st = <<>> => Bottom(g), st # <<>> => Above(Last(st), g),
         g.at = "instant" => \A i \in 1 .. Len(st) : st[i].at # "instant"
  PROVE  /\ Append(st, g) \in Seq(Frame) /\ Append(st, g) # <<>> /\ Last(Append(st, g)) = g
         /\ Nested(Append(st, g))
         /\ Len(Append(st, g)) = Len(st) + 1 /\ Append(st, g)[Len(st) + 1] = g
         /\ \A i \in 1 .. Len(st) : Append(st, g)[i] = st[i]
         /\ g.at # "get" => SameGets(st, Append(st, g))
<1> DEFINE n == Len(st)
           c == Append(st, g)
<1>1. /\ c \in Seq(Frame) /\ c # <<>> /\ Last(c) = g /\ Len(c) = n + 1 /\ n \in Nat
      /\ c[n + 1] = g /\ \A i \in 1 .. n : c[i] = st[i]
  BY Pushed, SeqIs
<1>2. st # <<>> => n \in Nat \ {0} /\ Last(st) = st[n]
  BY Popped
<1>3. st = <<>> => n = 0
  OBVIOUS
<1>3a. n = 0 => st = <<>>
  BY SeqIs
<1>4. /\ st # <<>> => Bottom(st[1])
      /\ \A i \in 1 .. n - 1 : Above(st[i], st[i + 1])
      /\ \A i, j \in 1 .. n : st[i].at = "instant" /\ st[j].at = "instant" => i = j
  BY DEF Nested
<1> HIDE DEF c, n
<1>5. Bottom(c[1])
  BY <1>1, <1>2, <1>3, <1>3a, <1>4
<1>6. \A i \in 1 .. Len(c) - 1 : Above(c[i], c[i + 1])
  <2> SUFFICES ASSUME NEW i \in 1 .. n PROVE Above(c[i], c[i + 1])
    BY <1>1
  <2>1. CASE i = n
    BY <1>1, <1>2, <1>3, <2>1
  <2>2. CASE i # n
    <3>1. i \in 1 .. n - 1 /\ i + 1 \in 1 .. n
      BY <1>1, <2>2
    <3> QED
      BY <1>1, <1>4, <3>1
  <2> QED
    BY <2>1, <2>2
<1>7. \A i, j \in 1 .. Len(c) : c[i].at = "instant" /\ c[j].at = "instant" => i = j
  <2>1. \A i \in 1 .. Len(c) : i = n + 1 \/ i \in 1 .. n
    BY <1>1
  <2> QED
    BY <1>1, <1>4, <2>1 DEF n
<1>8. Nested(c)
  BY <1>5, <1>6, <1>7 DEF Nested
<1>9. g.at # "get" => SameGets(st, c)
  <2>1. \A i \in 1 .. Len(c) : i = n + 1 \/ i \in 1 .. n
    BY <1>1
  <2> QED
    BY <1>1, <2>1 DEF SameGets, n
<1> QED
  BY <1>1, <1>8, <1>9 DEF c, n

\* A call goes on.
LEMMA CallGoesOn ==
  ASSUME NEW st \in Seq(Frame), st # <<>>, Nested(st), NEW g \in Frame,
         g.at = Last(st).at, g.at \in {"update", "instant"}
  PROVE  /\ Append(Front(st), g) \in Seq(Frame) /\ Append(Front(st), g) # <<>>
         /\ Last(Append(Front(st), g)) = g
         /\ Nested(Append(Front(st), g)) /\ SameGets(st, Append(Front(st), g))
         /\ Len(Append(Front(st), g)) = Len(st)
         /\ Append(Front(st), g)[Len(st)] = g
         /\ \A i \in 1 .. Len(st) - 1 : Append(Front(st), g)[i] = st[i]
<1> DEFINE c == Front(st)
           e == Append(c, g)
<1>1. /\ c \in Seq(Frame) /\ Last(st) \in Frame /\ Nested(c)
      /\ c = <<>> => Bottom(Last(st))
      /\ c # <<>> => Above(Last(c), Last(st))
      /\ Last(st).at = "instant" => \A i \in 1 .. Len(c) : c[i].at # "instant"
      /\ SameGets(st, c)
  BY CallEnds
<1>2. /\ Len(st) \in Nat \ {0} /\ Len(c) = Len(st) - 1
      /\ \A i \in 1 .. Len(st) - 1 : c[i] = st[i]
  BY Popped
<1> HIDE DEF c
<1>3. c = <<>> => Bottom(g)
  BY DEF Bottom
<1>4. c # <<>> => Above(Last(c), g)
  BY <1>1 DEF Above
<1>5. /\ e \in Seq(Frame) /\ e # <<>> /\ Last(e) = g /\ Nested(e) /\ SameGets(c, e)
      /\ Len(e) = Len(c) + 1 /\ e[Len(c) + 1] = g /\ \A i \in 1 .. Len(c) : e[i] = c[i]
  BY <1>1, <1>3, <1>4, CallBegins
<1> HIDE DEF e
<1>6. SameGets(st, e)
  BY <1>1, <1>5 DEF SameGets
<1>7. /\ Len(e) = Len(st) /\ e[Len(st)] = g /\ \A i \in 1 .. Len(st) - 1 : e[i] = st[i]
  BY <1>2, <1>5
<1> QED
  BY <1>5, <1>6, <1>7 DEF c, e

\* The calls that are in progress below one that is a get or an instant.
LEMMA CallsBelow ==
  ASSUME NEW st \in Seq(Frame), Nested(st), NEW i \in 1 .. Len(st), st[i].at = "get",
         st[i].slot \notin MainReads
  PROVE  i - 2 \in 1 .. Len(st) /\ st[i - 2].at = "instant"
<1>1. Len(st) \in Nat /\ st # <<>>
  BY SeqIs, EmptySeq
<1>2. i # 1
  BY <1>1 DEF Nested, Bottom
<1>3. i - 1 \in 1 .. Len(st) - 1 /\ (i - 1) + 1 = i
  BY <1>1, <1>2
<1>4. Above(st[i - 1], st[i])
  BY <1>3 DEF Nested
<1>5. st[i - 1].at = "eval"
  BY <1>4 DEF Above
<1>6. i - 1 # 1
  BY <1>1, <1>5 DEF Nested, Bottom
<1>7. i - 2 \in 1 .. Len(st) - 1 /\ (i - 2) + 1 = i - 1
  BY <1>1, <1>3, <1>6
<1>8. Above(st[i - 2], st[i - 1])
  BY <1>7 DEF Nested
<1> QED
  BY <1>1, <1>5, <1>7, <1>8 DEF Above

-----------------------------------------------------------------------------
(***************************************************************************)
(* What is on its way, and what stays as it is when only part of the state *)
(* changes.                                                                *)
(***************************************************************************)
\* The dependents in the notifications among documents.
Notices(tc) == {m.by : m \in {x \in ToSet(tc) : x.type = "NOTIFY"}}

LEMMA OnTheWayIs == OnTheWay = ToSet(notify) \cup Notices(toClient)
BY DEF OnTheWay, Notices

LEMMA NoticesIs ==
  ASSUME NEW tc \in Seq(DocumentSet)
  PROVE  /\ \A m \in DocumentSet :
              Notices(Append(tc, m)) = Notices(tc) \cup (IF m.type = "NOTIFY" THEN {m.by} ELSE {})
         /\ tc # <<>> =>
              Notices(tc) = Notices(Tail(tc)) \cup
                            (IF Head(tc).type = "NOTIFY" THEN {Head(tc).by} ELSE {})
         /\ \A uc \in Seq(DocumentSet) : Notices(tc \o uc) = Notices(tc) \cup Notices(uc)
         /\ \A j \in 1 .. Len(tc) : tc[j].type = "NOTIFY" => tc[j].by \in Notices(tc)
<1>1. ASSUME NEW m \in DocumentSet
      PROVE  Notices(Append(tc, m)) = Notices(tc) \cup (IF m.type = "NOTIFY" THEN {m.by} ELSE {})
  <2>1. ToSet(Append(tc, m)) = ToSet(tc) \cup {m}
    BY Pushed
  <2> QED
    BY <2>1 DEF Notices
<1>2. ASSUME tc # <<>>
      PROVE  Notices(tc) = Notices(Tail(tc)) \cup
                           (IF Head(tc).type = "NOTIFY" THEN {Head(tc).by} ELSE {})
  <2>1. ToSet(tc) = ToSet(Tail(tc)) \cup {Head(tc)}
    BY <1>2, Taken
  <2> QED
    BY <2>1 DEF Notices
<1>3. ASSUME NEW uc \in Seq(DocumentSet) PROVE Notices(tc \o uc) = Notices(tc) \cup Notices(uc)
  <2>1. ToSet(tc \o uc) = ToSet(tc) \cup ToSet(uc)
    BY Joined
  <2> QED
    BY <2>1 DEF Notices
<1>4. \A j \in 1 .. Len(tc) : tc[j].type = "NOTIFY" => tc[j].by \in Notices(tc)
  <2>1. \A j \in 1 .. Len(tc) : tc[j] \in ToSet(tc)
    BY SeqIs
  <2> QED
    BY <2>1 DEF Notices
<1> QED
  BY <1>1, <1>2, <1>3, <1>4

\* A handle stays one as long as chains only grow.
LEMMA HeldStays ==
  ASSUME NEW chs \in [0 .. Chains - 1 -> Seq(CacheEntry)],
         NEW cht \in [0 .. Chains - 1 -> Seq(CacheEntry)],
         \A h \in 0 .. Chains - 1 : Len(chs[h]) <= Len(cht[h])
  PROVE  \A d \in DependentSet : Held(chs, d) => Held(cht, d)
<1>1. \A h \in 0 .. Chains - 1 : Len(chs[h]) \in Nat /\ Len(cht[h]) \in Nat
  <2>1. \A h \in 0 .. Chains - 1 : chs[h] \in Seq(CacheEntry) /\ cht[h] \in Seq(CacheEntry)
    OBVIOUS
  <2> QED
    BY <2>1, SeqIs
<1>2. ASSUME NEW d \in DependentSet, Held(chs, d), ~d.reader PROVE Held(cht, d)
  <2>1. HandleChain(d) \in 0 .. Chains - 1 /\ HandleIndex(d) \in 1 .. Len(chs[HandleChain(d)])
    BY <1>2 DEF Held
  <2> QED
    BY <1>1, <2>1 DEF Held
<1>3. ASSUME NEW d \in DependentSet, d.reader PROVE Held(cht, d)
  BY <1>3 DEF Held
<1> QED
  BY <1>2, <1>3

\* The gets that wait go on waiting, at the same places.
WaitsKept(st, tt) == \A i, s : Waits(st, i, s) => Waits(tt, i, s) /\ tt[i] = st[i]

LEMMA WaitsStay ==
  ASSUME NEW st, NEW tt, SameGets(st, tt)
  PROVE  WaitsKept(st, tt)
BY DEF Waits, SameGets, WaitsKept

\* Then what was sent fits as before.
LEMMA RequestFitsStill ==
  ASSUME NEW st, NEW tt, WaitsKept(st, tt), NEW q, RequestFits(st, q)
  PROVE  RequestFits(tt, q)
BY DEF RequestFits, WaitsKept

LEMMA ResultFitsStill ==
  ASSUME NEW st, NEW tt, WaitsKept(st, tt), NEW vl, NEW m, ResultFits(st, vl, m)
  PROVE  ResultFits(tt, vl, m) /\ (IsResult(m) => tt[m.id] = st[m.id])
<1>1. CASE ~IsResult(m)
  BY <1>1 DEF ResultFits
<1>2. CASE IsResult(m)
  <2>1. Waits(st, m.id, st[m.id].slot) /\ m.v \in st[m.id].from .. vl[st[m.id].slot]
    BY <1>2 DEF ResultFits
  <2>2. Waits(tt, m.id, st[m.id].slot) /\ tt[m.id] = st[m.id]
    BY <2>1 DEF WaitsKept
  <2> QED
    BY <2>1, <2>2 DEF ResultFits
<1> QED
  BY <1>1, <1>2

\* And so do the gets.
LEMMA GetsFitStill ==
  ASSUME NEW st, NEW tt, SameGets(st, tt),
         NEW vl, \A i \in 1 .. Len(st) : GetFits(vl, st[i])
  PROVE  \A i \in 1 .. Len(tt) : GetFits(vl, tt[i])
BY DEF GetFits, SameGets

\* The documents that are left when the first is taken, or when none is.
LEMMA Left ==
  ASSUME NEW S, NEW s \in Seq(S), NEW t, t = s \/ (s # <<>> /\ t = Tail(s))
  PROVE  \E o \in {0, 1} : /\ Len(t) = Len(s) - o /\ Len(s) \in Nat /\ t \in Seq(S)
                           /\ \A j \in 1 .. Len(t) : j + o \in 1 .. Len(s) /\ t[j] = s[j + o]
<1>1. CASE t = s
  <2>1. Len(s) \in Nat /\ \A j \in 1 .. Len(s) : j + 0 = j
    BY SeqIs
  <2> WITNESS 0 \in {0, 1}
  <2> QED
    BY <1>1, <2>1
<1>2. CASE s # <<>> /\ t = Tail(s)
  <2>1. /\ Len(s) \in Nat \ {0} /\ Len(t) = Len(s) - 1 /\ t \in Seq(S)
        /\ \A j \in 1 .. Len(s) - 1 : t[j] = s[j + 1]
    BY <1>2, Taken
  <2> WITNESS 1 \in {0, 1}
  <2> QED
    BY <2>1
<1> QED
  BY <1>1, <1>2

\* What is sent grows, or loses what the client has taken, while every get that
\* waits goes on: the answers stay right.
LEMMA AnswersStay ==
  ASSUME Types, Types', AnswersInv, WaitsKept(stack, stack'),
         \A i \in 1 .. Len(stack') : GetFits(val', stack'[i]),
         UNCHANGED <<val, toServer>>,
         UNCHANGED toClient \/ (toClient # <<>> /\ toClient' = Tail(toClient))
  PROVE  AnswersInv'
<1>1. toClient \in Seq(DocumentSet)
  BY DEF Types
<1>2. PICK o \in {0, 1} :
        /\ Len(toClient') = Len(toClient) - o /\ Len(toClient) \in Nat
        /\ \A j \in 1 .. Len(toClient') : j + o \in 1 .. Len(toClient) /\ toClient'[j] = toClient[j + o]
  BY <1>1, Left
<1>3. /\ \A j \in 1 .. Len(toServer') : RequestFits(stack', toServer'[j])
      /\ \A j \in 1 .. Len(toClient') : ResultFits(stack', val', toClient'[j])
  <2>1. \A j \in 1 .. Len(toServer') : RequestFits(stack', toServer'[j])
    BY RequestFitsStill DEF AnswersInv
  <2>2. \A j \in 1 .. Len(toClient') : ResultFits(stack', val', toClient'[j])
    BY <1>2, ResultFitsStill DEF AnswersInv
  <2> QED
    BY <2>1, <2>2
<1>4. \A j, k \in 1 .. Len(toServer') :
        toServer'[j].get # 0 /\ toServer'[j].get = toServer'[k].get => j = k
  BY DEF AnswersInv
<1>5. \A j, k \in 1 .. Len(toClient') :
       IsResult(toClient'[j]) /\ IsResult(toClient'[k]) /\ toClient'[j].id = toClient'[k].id => j = k
  <2> SUFFICES ASSUME NEW j \in 1 .. Len(toClient'), NEW k \in 1 .. Len(toClient'),
                      IsResult(toClient'[j]), IsResult(toClient'[k]), toClient'[j].id = toClient'[k].id
               PROVE  j = k
    OBVIOUS
  <2>1. j + o = k + o
    BY <1>2 DEF AnswersInv
  <2> QED
    BY <1>2, <2>1
<1>6. \A j \in 1 .. Len(toServer'), k \in 1 .. Len(toClient') :
        toServer'[j].get # 0 /\ IsResult(toClient'[k]) => toClient'[k].id # toServer'[j].get
  BY <1>2 DEF AnswersInv
<1> QED
  BY <1>3, <1>4, <1>5, <1>6 DEF AnswersInv

-----------------------------------------------------------------------------
(***************************************************************************)
(* The dependents.                                                         *)
(***************************************************************************)
\* The dependents that are on their way to the server, and that it has.
Askers(ts) == {q.by : q \in ToSet(ts)}
Known(ds)  == UNION {ToSet(ds[s]) : s \in Slot}

LEMMA DependentsAre ==
  Dependents = ToSet(notify) \cup Notices(toClient) \cup Known(deps) \cup Askers(toServer)
BY Zenon DEF Dependents, OnTheWay, Notices, Known, Askers

LEMMA AskersAre ==
  ASSUME NEW ts \in Seq(RequestSet)
  PROVE  /\ \A q \in RequestSet : Askers(Append(ts, q)) = Askers(ts) \cup {q.by}
         /\ ts # <<>> => Askers(ts) = Askers(Tail(ts)) \cup {Head(ts).by}
         /\ Askers(ts) \subseteq DependentSet
<1>1. ASSUME NEW q \in RequestSet PROVE Askers(Append(ts, q)) = Askers(ts) \cup {q.by}
  <2>1. ToSet(Append(ts, q)) = ToSet(ts) \cup {q}
    BY Pushed
  <2> QED
    BY <2>1 DEF Askers
<1>2. ASSUME ts # <<>> PROVE Askers(ts) = Askers(Tail(ts)) \cup {Head(ts).by}
  <2>1. ToSet(ts) = ToSet(Tail(ts)) \cup {Head(ts)}
    BY <1>2, Taken
  <2> QED
    BY <2>1 DEF Askers
<1>3. Askers(ts) \subseteq DependentSet
  <2>1. \A q \in ToSet(ts) : q \in RequestSet
    BY SeqIs
  <2> QED
    BY <2>1, Requests DEF Askers
<1> QED
  BY <1>1, <1>2, <1>3

LEMMA DependentsAreThat == Types => Dependents \subseteq DependentSet
<1> SUFFICES ASSUME Types PROVE Dependents \subseteq DependentSet
  OBVIOUS
<1>1. ToSet(notify) \subseteq DependentSet
  BY SeqIs DEF Types
<1>2. Notices(toClient) \subseteq DependentSet
  <2>1. \A m \in ToSet(toClient) : m \in DocumentSet
    BY SeqIs DEF Types
  <2>2. \A m \in ToSet(toClient) : m.type = "NOTIFY" => m.by \in DependentSet
    BY <2>1, Documents
  <2> QED
    BY <2>2 DEF Notices
<1>3. Known(deps) \subseteq DependentSet
  <2>1. \A s \in Slot : ToSet(deps[s]) \subseteq DependentSet
    BY SeqIs DEF Types
  <2> QED
    BY <2>1 DEF Known
<1>4. Askers(toServer) \subseteq DependentSet
  BY AskersAre DEF Types
<1> QED
  BY <1>1, <1>2, <1>3, <1>4, DependentsAre

\* No chain shrinks, and the dependents that come in name entries: they all do.
LEMMA HandlesStay ==
  ASSUME Types, Types', HandlesInv, NEW X,
         \A h \in 0 .. Chains - 1 : Len(chain[h]) <= Len(chain'[h]),
         Dependents' \subseteq Dependents \cup X,
         \A d \in X : Held(chain', d),
         \A j \in 1 .. Len(register') : register'[j].by.reader
  PROVE  HandlesInv'
<1>1. /\ chain \in [0 .. Chains - 1 -> Seq(CacheEntry)]
      /\ chain' \in [0 .. Chains - 1 -> Seq(CacheEntry)]
  BY DEF Types
<1>2. \A d \in Dependents : Held(chain, d) /\ d \in DependentSet
  BY DependentsAreThat DEF HandlesInv
<1>3. \A d \in Dependents : Held(chain', d)
  BY <1>1, <1>2, HeldStays
<1>4. \A d \in Dependents' : Held(chain', d)
  BY <1>3
<1> QED
  BY <1>4 DEF HandlesInv

-----------------------------------------------------------------------------
(***************************************************************************)
(* What the client takes for values.                                       *)
(***************************************************************************)
\* A private attribute's handle is not a reader, and its chain has no other entry.
LEMMA PrivateIs ==
  ASSUME Types, ChainInv, NEW s \in Private
  PROVE  /\ s \in Slot /\ s \notin MainReads
         /\ First(s) \in DependentSet /\ ~First(s).reader
         /\ HandleChain(First(s)) = Hash[s] /\ HandleIndex(First(s)) = 1
         /\ \A i \in 1 .. Len(chain[Hash[s]]) : chain[Hash[s]][i].slot = s /\ i = 1
         /\ \A t \in Slot : Hash[t] = Hash[s] => t = s
<1>1. s \in Slot /\ s \notin MainReads /\ \A t \in Slot : Hash[t] = Hash[s] => t = s
  BY DEF Private
<1>2. Hash[s] \in 0 .. Chains - 1 /\ 0 \in 0 .. Width - 1 /\ 0 + 1 = 1
  BY <1>1, Constants
<1>3. /\ First(s) \in DependentSet /\ ~First(s).reader
      /\ HandleChain(First(s)) = Hash[s] /\ HandleIndex(First(s)) = 1
  BY <1>2, Handles DEF First
<1>4. chain[Hash[s]] \in Seq(CacheEntry)
  BY <1>2 DEF Types
<1> DEFINE ch == chain[Hash[s]]
<1>5. /\ \A i \in 1 .. Len(ch) : ch[i] \in CacheEntry /\ Hash[ch[i].slot] = Hash[s]
      /\ \A i, j \in 1 .. Len(ch) : ch[i].slot = ch[j].slot => i = j
      /\ Len(ch) \in Nat
  BY <1>2, <1>4, SeqIs DEF ChainInv, ChainFits
<1>6. \A i \in 1 .. Len(ch) : ch[i].slot = s
  <2>1. \A e \in CacheEntry : e.slot \in Slot
    BY DEF CacheEntry
  <2> QED
    BY <1>1, <1>5, <2>1
<1>7. ASSUME NEW i \in 1 .. Len(ch) PROVE i = 1
  <2>1. 1 \in 1 .. Len(ch)
    BY <1>5
  <2> QED
    BY <1>5, <1>6, <2>1
<1> QED
  BY <1>1, <1>3, <1>6, <1>7

\* As long as nothing is taken for a value that was not, and the client is still
\* going to be told.
LEMMA ToldStay ==
  ASSUME Types, AnswersInv, ToldInv, WaitsKept(stack, stack'),
         UNCHANGED <<val, deps, toServer>>,
         UNCHANGED toClient \/ (toClient # <<>> /\ toClient' = Tail(toClient)),
         \A s \in Private : First(s) \in OnTheWay => First(s) \in OnTheWay',
         \A s \in Private, i \in 1 .. Len(stack') :
           stack'[i].at = "get" /\ stack'[i].slot = s /\ ~stack'[i].waiting =>
             \E j \in 1 .. Len(stack) : /\ stack[j].at = "get" /\ stack[j].slot = s
                                        /\ ~stack[j].waiting /\ stack[j].res = stack'[i].res,
         \A s \in Private : \A i \in 1 .. Len(chain'[Hash[s]]) :
           ~chain'[Hash[s]][i].ood => chain'[Hash[s]][i].value \in Safe(s)
  PROVE  ToldInv'
<1>1. toClient \in Seq(DocumentSet)
  BY DEF Types
<1>2. PICK o \in {0, 1} :
        /\ Len(toClient') = Len(toClient) - o /\ Len(toClient) \in Nat
        /\ \A j \in 1 .. Len(toClient') : j + o \in 1 .. Len(toClient) /\ toClient'[j] = toClient[j + o]
  BY <1>1, Left
<1> SUFFICES ASSUME NEW s \in Private
             PROVE  /\ \A i \in 1 .. Len(chain'[Hash[s]]) :
                         ~chain'[Hash[s]][i].ood => chain'[Hash[s]][i].value \in Safe(s)'
                    /\ \A i \in 1 .. Len(stack') :
                         stack'[i].at = "get" /\ stack'[i].slot = s /\ ~stack'[i].waiting
                           => stack'[i].res \in Safe(s)'
                    /\ \A j \in 1 .. Len(toClient') :
                         IsResult(toClient'[j]) /\ stack'[toClient'[j].id].slot = s
                           => toClient'[j].v \in Safe(s)'
                    /\ \A j \in 1 .. Len(toServer') :
                         toServer'[j].get # 0 /\ toServer'[j].slot = s => toServer'[j].by = First(s)
  BY DEF ToldInv, Private, First, Handle
<1>3. Safe(s) \subseteq Safe(s)'
  BY DEF Safe, First, Handle
<1>4. \A i \in 1 .. Len(chain'[Hash[s]]) :
        ~chain'[Hash[s]][i].ood => chain'[Hash[s]][i].value \in Safe(s)'
  BY <1>3
<1>5. \A i \in 1 .. Len(stack') :
        stack'[i].at = "get" /\ stack'[i].slot = s /\ ~stack'[i].waiting => stack'[i].res \in Safe(s)'
  <2> SUFFICES ASSUME NEW i \in 1 .. Len(stack'),
                      stack'[i].at = "get" /\ stack'[i].slot = s /\ ~stack'[i].waiting
               PROVE  stack'[i].res \in Safe(s)'
    OBVIOUS
  <2>1. stack'[i].res \in Safe(s)
    BY DEF ToldInv
  <2> QED
    BY <1>3, <2>1
<1>6. \A j \in 1 .. Len(toClient') :
        IsResult(toClient'[j]) /\ stack'[toClient'[j].id].slot = s => toClient'[j].v \in Safe(s)'
  <2> SUFFICES ASSUME NEW j \in 1 .. Len(toClient'),
                      IsResult(toClient'[j]), stack'[toClient'[j].id].slot = s
               PROVE  toClient'[j].v \in Safe(s)'
    OBVIOUS
  <2>1. j + o \in 1 .. Len(toClient) /\ toClient'[j] = toClient[j + o]
    BY <1>2
  <2>2. ResultFits(stack, val, toClient[j + o])
    BY <2>1 DEF AnswersInv
  <2>3. stack'[toClient'[j].id] = stack[toClient'[j].id]
    BY <2>1, <2>2, ResultFitsStill
  <2>4. toClient'[j].v \in Safe(s)
    BY <2>1, <2>3 DEF ToldInv
  <2> QED
    BY <1>3, <2>4
<1>7. \A j \in 1 .. Len(toServer') :
        toServer'[j].get # 0 /\ toServer'[j].slot = s => toServer'[j].by = First(s)
  BY DEF ToldInv
<1> QED
  BY <1>4, <1>5, <1>6, <1>7

\* The calls that loop go on, begin or end, and readers are notified, while gets,
\* chains and handles stay as they are.
LEMMA QuietMove ==
  ASSUME IInv, Types', Nested(stack'), stack' # <<>> => Resting(Last(stack')),
         SameGets(stack, stack'),
         UNCHANGED <<val, deps, toServer, chain>>,
         UNCHANGED toClient \/ (toClient # <<>> /\ toClient' = Tail(toClient)),
         \A j \in 1 .. Len(register') : register'[j].by.reader,
         \A d \in OnTheWay' : d \in OnTheWay \/ d.reader,
         \A d \in OnTheWay : d \in OnTheWay' \/ d.reader
  PROVE  IInv'
<1>1. StackInv'
  BY DEF StackInv
<1>2. WaitsKept(stack, stack') /\ \A i \in 1 .. Len(stack') : GetFits(val', stack'[i])
  BY WaitsStay, GetsFitStill DEF IInv, AnswersInv
<1>3. AnswersInv'
  BY <1>2, AnswersStay DEF IInv
<1>4. ChainInv'
  BY DEF IInv, ChainInv, SameGets
<1>5. HandlesInv'
  <2> DEFINE X == {d \in OnTheWay' : d.reader}
  <2>1. Dependents' \subseteq Dependents \cup X
    BY Zenon DEF Dependents
  <2>2. \A d \in X : Held(chain', d)
    BY DEF Held
  <2>3. \A h \in 0 .. Chains - 1 : Len(chain[h]) <= Len(chain'[h])
    <3>1. \A h \in 0 .. Chains - 1 : chain[h] \in Seq(CacheEntry)
      BY DEF IInv, Types
    <3> QED
      BY <3>1, SeqIs
  <2> HIDE DEF X
  <2> QED
    BY <2>1, <2>2, <2>3, HandlesStay DEF IInv
<1>6. ToldInv'
  <2>1. \A s \in Private : First(s) \in OnTheWay => First(s) \in OnTheWay'
    BY PrivateIs DEF IInv
  <2>2. \A s \in Private, i \in 1 .. Len(stack') :
           stack'[i].at = "get" /\ stack'[i].slot = s /\ ~stack'[i].waiting =>
             \E j \in 1 .. Len(stack) : /\ stack[j].at = "get" /\ stack[j].slot = s
                                        /\ ~stack[j].waiting /\ stack[j].res = stack'[i].res
    BY DEF SameGets
  <2>3. \A s \in Private : \A i \in 1 .. Len(chain'[Hash[s]]) :
           ~chain'[Hash[s]][i].ood => chain'[Hash[s]][i].value \in Safe(s)
    BY DEF IInv, ToldInv
  <2> QED
    BY <1>2, <2>1, <2>2, <2>3, ToldStay DEF IInv
<1> QED
  BY <1>1, <1>3, <1>4, <1>5, <1>6 DEF IInv

-----------------------------------------------------------------------------
(***************************************************************************)
(* The steps that leave gets and chains alone.                             *)
(***************************************************************************)
\* The call that runs.
LEMMA RunningIs ==
  ASSUME IInv, NEW at, Running(at)
  PROVE  /\ stack \in Seq(Frame) /\ stack # <<>> /\ Nested(stack)
         /\ Last(stack) \in Frame /\ Last(stack).at = at
         /\ Last(stack) = stack[Len(stack)] /\ Len(stack) \in Nat \ {0}
BY Popped DEF IInv, Types, StackInv, Running

LEMMA NextPhaseKeeps ==
  ASSUME IInv, NextPhase
  PROVE  IInv'
<1>1. /\ stack \in Seq(Frame) /\ stack # <<>> /\ Nested(stack)
      /\ Last(stack) \in Frame /\ Last(stack).at = "instant"
  BY RunningIs DEF NextPhase
<1>2. /\ stack' \in Seq(Frame) /\ Nested(stack') /\ SameGets(stack, stack')
      /\ stack' # <<>> => Resting(Last(stack'))
  <2>1. CASE stack' = Append(Front(stack), Instant(2))
    <3>1. Instant(2) \in Frame /\ Instant(2).at = "instant"
      BY NewCalls DEF Instant
    <3> QED
      BY <1>1, <2>1, <3>1, CallGoesOn DEF Resting
  <2>2. CASE stack' = Front(stack)
    <3>1. Front(stack) # <<>> => Resting(Last(Front(stack)))
      BY <1>1, CallEnds DEF Above, Resting
    <3> QED
      BY <1>1, <2>2, <3>1, CallEnds
  <2> QED
    BY <2>1, <2>2 DEF NextPhase
<1>3. UNCHANGED <<val, deps, toServer, toClient, chain, notify, register, seen>>
  BY DEF NextPhase, server
<1>4. Types'
  BY <1>2, <1>3 DEF IInv, Types
<1>5. OnTheWay' = OnTheWay
  BY <1>3 DEF OnTheWay
<1> QED
  BY <1>2, <1>3, <1>4, <1>5, QuietMove DEF IInv, HandlesInv

LEMMA UpdateReturnKeeps ==
  ASSUME IInv, UpdateReturn
  PROVE  IInv'
<1>1. /\ stack \in Seq(Frame) /\ stack # <<>> /\ Nested(stack)
      /\ Last(stack) \in Frame /\ Last(stack).at = "update"
  BY RunningIs DEF UpdateReturn
<1>2. /\ stack' \in Seq(Frame) /\ Nested(stack') /\ SameGets(stack, stack')
      /\ stack' # <<>> => Resting(Last(stack'))
  <2>1. CASE stack' = Append(Front(stack), Update(0))
    <3>1. Update(0) \in Frame /\ Update(0).at = "update"
      BY NewCalls, Constants
    <3> QED
      BY <1>1, <2>1, <3>1, CallGoesOn DEF Resting
  <2>2. CASE /\ stack' = Front(stack)
             /\ Front(stack) # <<>> => ~Last(Front(stack)).waiting
    <3>1. Front(stack) # <<>> => Resting(Last(Front(stack)))
      BY <1>1, <2>2, CallEnds DEF Above, Resting
    <3> QED
      BY <1>1, <2>2, <3>1, CallEnds
  <2> QED
    BY <2>1, <2>2 DEF UpdateReturn
<1>3. UNCHANGED <<val, deps, toServer, toClient, chain, notify, register, seen>>
  BY DEF UpdateReturn, server
<1>4. Types'
  BY <1>2, <1>3 DEF IInv, Types
<1>5. OnTheWay' = OnTheWay
  BY <1>3 DEF OnTheWay
<1> QED
  BY <1>2, <1>3, <1>4, <1>5, QuietMove DEF IInv, HandlesInv

LEMMA MainUpdateKeeps ==
  ASSUME IInv, MainUpdate
  PROVE  IInv'
<1>1. stack \in Seq(Frame) /\ stack = <<>> /\ Nested(stack) /\ stack' = Append(stack, Update(0))
  BY DEF MainUpdate, IInv, Types, StackInv
<1>2. /\ stack' \in Seq(Frame) /\ Nested(stack') /\ SameGets(stack, stack')
      /\ stack' # <<>> => Resting(Last(stack'))
  <2>1. Update(0) \in Frame /\ Update(0).at = "update"
    BY NewCalls, Constants
  <2> QED
    BY <1>1, <2>1, CallBegins DEF Bottom, Resting
<1>3. UNCHANGED <<val, deps, toServer, toClient, chain, notify, register, seen>>
  BY DEF MainUpdate, server
<1>4. Types'
  BY <1>2, <1>3 DEF IInv, Types
<1>5. OnTheWay' = OnTheWay
  BY <1>3 DEF OnTheWay
<1> QED
  BY <1>2, <1>3, <1>4, <1>5, QuietMove DEF IInv, HandlesInv

\* A notification comes in, with calls st in progress, and starts an instant or not.
LEMMA SendNotifyDoes ==
  ASSUME IInv, NEW st \in Seq(Frame), Nested(st), SameGets(stack, st),
         st # <<>> => Last(st).at = "update",
         \A i \in 1 .. Len(st) : st[i].at = "instant" =>
           i \in 1 .. Len(stack) /\ stack[i].at = "instant",
         NEW d \in DependentSet, SendNotify(st, d)
  PROVE  /\ stack' \in Seq(Frame) /\ Nested(stack') /\ SameGets(stack, stack')
         /\ stack' # <<>> => Resting(Last(stack'))
         /\ notify' \in Seq(DependentSet) /\ ToSet(notify') = ToSet(notify) \cup {d}
<1>1. notify' \in Seq(DependentSet) /\ ToSet(notify') = ToSet(notify) \cup {d}
  BY Pushed DEF SendNotify, IInv, Types
<1>2. CASE Idle
  <2>1. Instant(1) \in Frame /\ Instant(1).at = "instant"
    BY NewCalls DEF Instant
  <2>2. \A i \in 1 .. Len(st) : st[i].at # "instant"
    BY <1>2, SeqIs DEF Idle, IInv, Types
  <2>3. stack' = Append(st, Instant(1))
    BY <1>2 DEF SendNotify
  <2>4. st = <<>> => Bottom(Instant(1))
    BY <2>1 DEF Bottom
  <2>5. st # <<>> => Above(Last(st), Instant(1))
    BY <2>1 DEF Above
  <2>6. /\ stack' \in Seq(Frame) /\ Nested(stack') /\ SameGets(st, stack')
        /\ Last(stack') = Instant(1)
    BY <2>1, <2>2, <2>3, <2>4, <2>5, CallBegins
  <2>7. SameGets(stack, stack')
    BY <2>6 DEF SameGets
  <2> QED
    BY <1>1, <2>1, <2>6, <2>7 DEF Resting
<1>3. CASE ~Idle
  BY <1>1, <1>3 DEF SendNotify, Resting
<1> QED
  BY <1>2, <1>3

LEMMA MainDefineKeeps ==
  ASSUME IInv, NEW r \in Reader, MainDefine(r)
  PROVE  IInv'
<1>1. stack \in Seq(Frame) /\ stack = <<>> /\ Nested(stack) /\ SendNotify(<<>>, Dependent(r))
  BY DEF MainDefine, IInv, Types, StackInv
<1>2. Dependent(r) \in DependentSet /\ Dependent(r).reader
  BY DependentFields
<1>3. /\ stack' \in Seq(Frame) /\ Nested(stack') /\ SameGets(stack, stack')
      /\ stack' # <<>> => Resting(Last(stack'))
      /\ notify' \in Seq(DependentSet) /\ ToSet(notify') = ToSet(notify) \cup {Dependent(r)}
  <2>1. SameGets(stack, <<>>) /\ \A i \in 1 .. Len(<<>>) : FALSE
    BY <1>1 DEF SameGets
  <2>2. <<>> \in Seq(Frame) /\ Nested(<<>>)
    BY <1>1
  <2> QED
    BY <1>1, <1>2, <2>1, <2>2, SendNotifyDoes
<1>4. UNCHANGED <<val, deps, toServer, toClient, chain, register, seen>>
  BY DEF MainDefine, server
<1>5. Types'
  BY <1>3, <1>4 DEF IInv, Types
<1>6. /\ \A d \in OnTheWay' : d \in OnTheWay \/ d.reader
      /\ \A d \in OnTheWay : d \in OnTheWay' \/ d.reader
  BY <1>2, <1>3, <1>4 DEF OnTheWay
<1> QED
  BY <1>3, <1>4, <1>5, <1>6, QuietMove DEF IInv, HandlesInv

\* A document is taken from the connection.
LEMMA ReceivedDoes ==
  ASSUME IInv, Received
  PROVE  /\ toClient \in Seq(DocumentSet) /\ toClient # <<>> /\ toClient' = Tail(toClient)
         /\ toClient' \in Seq(DocumentSet) /\ Head(toClient) \in DocumentSet
         /\ Head(toClient) = toClient[1] /\ 1 \in 1 .. Len(toClient)
         /\ Polled \in Seq(Frame) /\ Polled # <<>> /\ Nested(Polled) /\ SameGets(stack, Polled)
         /\ Last(Polled).at = "update" /\ Resting(Last(Polled))
         /\ Len(Polled) = Len(stack) /\ Len(stack) \in Nat \ {0}
         /\ stack[Len(stack)].at = "update" /\ Polled[Len(stack)].at = "update"
         /\ \A i \in 1 .. Len(stack) - 1 : Polled[i] = stack[i]
<1>1. /\ stack \in Seq(Frame) /\ stack # <<>> /\ Nested(stack)
      /\ Last(stack) \in Frame /\ Last(stack).at = "update"
      /\ Last(stack) = stack[Len(stack)] /\ Len(stack) \in Nat \ {0}
  BY RunningIs DEF Received
<1>2. Update(Last(stack).n + 1) \in Frame /\ Update(Last(stack).n + 1).at = "update"
  <2>1. Last(stack).n \in 0 .. LoopLimit /\ Last(stack).n < LoopLimit /\ LoopLimit \in Nat
    BY <1>1, Calls, Constants DEF Received
  <2>2. Last(stack).n + 1 \in 0 .. LoopLimit
    BY <2>1
  <2> QED
    BY <2>2, NewCalls
<1>3. /\ Polled \in Seq(Frame) /\ Polled # <<>> /\ Nested(Polled) /\ SameGets(stack, Polled)
      /\ Last(Polled).at = "update" /\ Len(Polled) = Len(stack)
      /\ Polled[Len(stack)].at = "update"
      /\ \A i \in 1 .. Len(stack) - 1 : Polled[i] = stack[i]
  BY <1>1, <1>2, CallGoesOn DEF Polled
<1>4. /\ toClient \in Seq(DocumentSet) /\ toClient # <<>> /\ toClient' = Tail(toClient)
  BY DEF Received, IInv, Types
<1>5. /\ toClient' \in Seq(DocumentSet) /\ Head(toClient) \in DocumentSet
      /\ Head(toClient) = toClient[1] /\ 1 \in 1 .. Len(toClient)
  BY <1>4, Taken
<1> QED
  BY <1>1, <1>3, <1>4, <1>5 DEF Resting

LEMMA ReceiveNotifyKeeps ==
  ASSUME IInv, ReceiveNotify
  PROVE  IInv'
<1>1. /\ toClient \in Seq(DocumentSet) /\ toClient # <<>> /\ toClient' = Tail(toClient)
      /\ toClient' \in Seq(DocumentSet) /\ Head(toClient) \in DocumentSet
      /\ Polled \in Seq(Frame) /\ Polled # <<>> /\ Nested(Polled) /\ SameGets(stack, Polled)
      /\ Last(Polled).at = "update"
      /\ Len(Polled) = Len(stack) /\ Len(stack) \in Nat \ {0}
      /\ Polled[Len(stack)].at = "update"
      /\ \A i \in 1 .. Len(stack) - 1 : Polled[i] = stack[i]
  BY ReceivedDoes DEF ReceiveNotify
<1>2. /\ Head(toClient).type = "NOTIFY" /\ Head(toClient).by \in DependentSet
      /\ SendNotify(Polled, Head(toClient).by)
  BY <1>1, Documents DEF ReceiveNotify
<1>3. \A i \in 1 .. Len(Polled) : Polled[i].at = "instant" =>
        i \in 1 .. Len(stack) /\ stack[i].at = "instant"
  <2>1. \A i \in 1 .. Len(Polled) : i = Len(stack) \/ i \in 1 .. Len(stack) - 1
    BY <1>1
  <2> QED
    BY <1>1, <2>1
<1>4. /\ stack' \in Seq(Frame) /\ Nested(stack') /\ SameGets(stack, stack')
      /\ stack' # <<>> => Resting(Last(stack'))
      /\ notify' \in Seq(DependentSet) /\ ToSet(notify') = ToSet(notify) \cup {Head(toClient).by}
  BY <1>1, <1>2, <1>3, SendNotifyDoes
<1>5. UNCHANGED <<val, deps, toServer, chain, register, seen>>
  BY DEF ReceiveNotify, server
<1>6. Types'
  BY <1>1, <1>4, <1>5 DEF IInv, Types
<1>7. OnTheWay' = OnTheWay
  <2>1. Notices(toClient) = Notices(Tail(toClient)) \cup {Head(toClient).by}
    BY <1>1, <1>2, NoticesIs
  <2> QED
    BY <1>1, <1>4, <2>1 DEF OnTheWay, Notices
<1> QED
  BY <1>1, <1>4, <1>5, <1>6, <1>7, QuietMove DEF IInv, HandlesInv

\* The notification of a reader or a handle is taken.
LEMMA NotifiedDoes ==
  ASSUME IInv, NEW isReader, Notified(isReader)
  PROVE  /\ notify # <<>> /\ notify' = Tail(notify) /\ notify' \in Seq(DependentSet)
         /\ Head(notify) \in DependentSet /\ Head(notify).reader = isReader
         /\ ToSet(notify) = ToSet(notify') \cup {Head(notify)}
         /\ stack \in Seq(Frame) /\ stack # <<>> /\ Nested(stack)
         /\ Last(stack) \in Frame /\ Last(stack).at = "instant" /\ Last(stack).q = 1
         /\ Last(stack) = stack[Len(stack)] /\ Len(stack) \in Nat \ {0}
<1>1. notify \in Seq(DependentSet) /\ notify # <<>> /\ notify' = Tail(notify)
  BY DEF Notified, IInv, Types
<1>2. /\ Tail(notify) \in Seq(DependentSet) /\ Head(notify) \in DependentSet
      /\ ToSet(notify) = ToSet(Tail(notify)) \cup {Head(notify)}
  BY <1>1, Taken
<1>3. /\ stack \in Seq(Frame) /\ stack # <<>> /\ Nested(stack)
      /\ Last(stack) \in Frame /\ Last(stack).at = "instant"
      /\ Last(stack) = stack[Len(stack)] /\ Len(stack) \in Nat \ {0}
  BY RunningIs DEF Notified
<1> QED
  BY <1>1, <1>2, <1>3 DEF Notified

\* A reader is evaluated: its dependency is to be registered.
LEMMA EvaluatedDoes ==
  ASSUME IInv, NEW r \in Reader, NEW v \in Nat \cup {None}, Evaluated(r, v)
  PROVE  /\ seen' \in [Reader -> Nat \cup {None}] /\ register' \in Seq(RegisterSet)
         /\ \A j \in 1 .. Len(register') : register'[j].by.reader
<1> DEFINE q == Request(Reads[r], Dependent(r), 0)
<1>1. q \in RegisterSet /\ q.by.reader
  <2>1. Reads[r] \in Slot /\ Dependent(r) \in DependentSet /\ Dependent(r).reader
    BY Constants, DependentFields
  <2> QED
    BY <2>1, Requests DEF Request
<1>2. register \in Seq(RegisterSet) /\ register' = Append(register, q)
  BY DEF Evaluated, IInv, Types
<1> HIDE DEF q
<1>3. /\ register' \in Seq(RegisterSet) /\ Len(register') = Len(register) + 1
      /\ \A j \in 1 .. Len(register) : register'[j] = register[j]
      /\ register'[Len(register) + 1] = q /\ Len(register) \in Nat
  BY <1>1, <1>2, Pushed, SeqIs
<1>4. \A j \in 1 .. Len(register') : register'[j].by.reader
  <2>1. \A j \in 1 .. Len(register') : j = Len(register) + 1 \/ j \in 1 .. Len(register)
    BY <1>3
  <2> QED
    BY <1>1, <1>3, <2>1 DEF IInv, HandlesInv
<1>5. seen' \in [Reader -> Nat \cup {None}]
  BY DEF Evaluated, IInv, Types
<1> QED
  BY <1>3, <1>4, <1>5

LEMMA EvalCachedKeeps ==
  ASSUME IInv, EvalCached
  PROVE  IInv'
<1> DEFINE r == Head(notify).id
<1>1. /\ notify' \in Seq(DependentSet) /\ Head(notify).reader /\ Head(notify) \in DependentSet
      /\ ToSet(notify) = ToSet(notify') \cup {Head(notify)}
  BY NotifiedDoes DEF EvalCached
<1>2. r \in Reader /\ Reads[r] \in Slot
  BY <1>1, DependentFields, Constants
<1>3. Entry(Reads[r]).value \in Nat \cup {None}
  <2>1. Lookup(Reads[r]) \in Seq(CacheEntry)
        /\ Position(Lookup(Reads[r]), Reads[r]) \in 1 .. Len(Lookup(Reads[r]))
    BY <1>2, Lookups DEF IInv
  <2>2. Entry(Reads[r]) \in CacheEntry
    BY <2>1, SeqIs DEF Entry
  <2> QED
    BY <2>2 DEF CacheEntry
<1>4. Evaluated(r, Entry(Reads[r]).value)
  BY DEF EvalCached
<1>5. /\ seen' \in [Reader -> Nat \cup {None}] /\ register' \in Seq(RegisterSet)
      /\ \A j \in 1 .. Len(register') : register'[j].by.reader
  <2> HIDE DEF r
  <2> QED
    BY <1>2, <1>3, <1>4, EvaluatedDoes
<1>6. UNCHANGED <<val, deps, toServer, toClient, chain, stack>>
  BY DEF EvalCached, server
<1>7. Types'
  BY <1>1, <1>5, <1>6 DEF IInv, Types
<1>8. /\ \A d \in OnTheWay' : d \in OnTheWay \/ d.reader
      /\ \A d \in OnTheWay : d \in OnTheWay' \/ d.reader
  BY <1>1, <1>6 DEF OnTheWay
<1>9. /\ SameGets(stack, stack') /\ Nested(stack') /\ (stack' # <<>> => Resting(Last(stack')))
  BY <1>6 DEF SameGets, IInv, StackInv
<1> QED
  BY <1>5, <1>6, <1>7, <1>8, <1>9, QuietMove

-----------------------------------------------------------------------------
(***************************************************************************)
(* The steps of the instant that touch the cache or the server.            *)
(***************************************************************************)
\* A request that asks for no value is sent.
LEMMA RegisterKeeps ==
  ASSUME IInv, Register
  PROVE  IInv'
<1> DEFINE q == Head(register)
<1>1. /\ register \in Seq(RegisterSet) /\ register # <<>> /\ register' = Tail(register)
      /\ toServer \in Seq(RequestSet) /\ toServer' = Append(toServer, q)
      /\ UNCHANGED <<val, deps, toClient, chain, notify, seen, stack>>
  BY DEF Register, server, IInv, Types
<1>2. /\ q \in RegisterSet /\ register' \in Seq(RegisterSet) /\ Len(register) \in Nat \ {0}
      /\ Len(register') = Len(register) - 1 /\ q = register[1]
      /\ \A j \in 1 .. Len(register) - 1 : register'[j] = register[j + 1]
  BY <1>1, Taken
<1>3. q \in RequestSet /\ q.get = 0 /\ q.by.reader
  <2>1. q.by.reader
    BY <1>2 DEF IInv, HandlesInv
  <2> HIDE DEF q
  <2> QED
    BY <1>2, <2>1, Requests
<1> HIDE DEF q
<1>4. /\ toServer' \in Seq(RequestSet) /\ Len(toServer') = Len(toServer) + 1
      /\ \A j \in 1 .. Len(toServer) : toServer'[j] = toServer[j]
      /\ toServer'[Len(toServer) + 1] = q /\ Len(toServer) \in Nat
  BY <1>1, <1>3, Pushed, SeqIs
<1>5. \A j \in 1 .. Len(toServer') : /\ j = Len(toServer) + 1 \/ j \in 1 .. Len(toServer)
                                     /\ toServer'[j].get # 0 => /\ j \in 1 .. Len(toServer)
                                                                /\ toServer'[j] = toServer[j]
  BY <1>3, <1>4
<1>6. Types'
  BY <1>1, <1>2, <1>4 DEF IInv, Types
<1>7. StackInv'
  BY <1>1 DEF IInv, StackInv
<1>8. AnswersInv'
  <2>1. \A j \in 1 .. Len(toServer') : RequestFits(stack', toServer'[j])
    BY <1>1, <1>5 DEF IInv, AnswersInv, RequestFits
  <2>2. /\ \A j \in 1 .. Len(toClient') : ResultFits(stack', val', toClient'[j])
        /\ \A i \in 1 .. Len(stack') : GetFits(val', stack'[i])
    BY <1>1 DEF IInv, AnswersInv
  <2>3. \A j, k \in 1 .. Len(toServer') :
          toServer'[j].get # 0 /\ toServer'[j].get = toServer'[k].get => j = k
    BY <1>5 DEF IInv, AnswersInv
  <2>4. /\ \A j, k \in 1 .. Len(toClient') :
             IsResult(toClient'[j]) /\ IsResult(toClient'[k]) /\ toClient'[j].id = toClient'[k].id => j = k
        /\ \A j \in 1 .. Len(toServer'), k \in 1 .. Len(toClient') :
             toServer'[j].get # 0 /\ IsResult(toClient'[k]) => toClient'[k].id # toServer'[j].get
    BY <1>1, <1>5 DEF IInv, AnswersInv
  <2> QED
    BY <2>1, <2>2, <2>3, <2>4 DEF AnswersInv
<1>9. ChainInv'
  BY <1>1 DEF IInv, ChainInv
<1>10. HandlesInv'
  <2> DEFINE X == {q.by}
  <2>1. Dependents' \subseteq Dependents \cup X
    <3>1. Askers(toServer') = Askers(toServer) \cup {q.by}
      BY <1>1, <1>3, AskersAre
    <3> QED
      BY <1>1, <3>1 DEF Dependents, OnTheWay, Askers
  <2>2. \A d \in X : Held(chain', d)
    BY <1>3 DEF Held
  <2>3. \A j \in 1 .. Len(register') : register'[j].by.reader
    BY <1>2 DEF IInv, HandlesInv
  <2>4. \A h \in 0 .. Chains - 1 : Len(chain[h]) <= Len(chain'[h])
    <3>1. \A h \in 0 .. Chains - 1 : chain[h] \in Seq(CacheEntry)
      BY DEF IInv, Types
    <3> QED
      BY <1>1, <3>1, SeqIs
  <2> HIDE DEF X
  <2> QED
    BY <1>6, <2>1, <2>2, <2>3, <2>4, HandlesStay DEF IInv
<1>11. ToldInv'
  <2>1. OnTheWay' = OnTheWay
    BY <1>1 DEF OnTheWay
  <2>2. \A s \in Private : Safe(s)' = Safe(s)
    BY <1>1, <2>1 DEF Safe, First, Handle
  <2>3. \A s \in Private : \A j \in 1 .. Len(toServer') :
          toServer'[j].get # 0 /\ toServer'[j].slot = s => toServer'[j].by = First(s)
    BY <1>5 DEF IInv, ToldInv
  <2>4. Private' = Private
    BY DEF Private
  <2> QED
    BY <1>1, <2>2, <2>3, <2>4 DEF IInv, ToldInv, First, Handle
<1> QED
  BY <1>6, <1>7, <1>8, <1>9, <1>10, <1>11 DEF IInv

\* A cache entry goes out of date: no get of a private attribute is in progress.
LEMMA InvalidateKeeps ==
  ASSUME IInv, Invalidate
  PROVE  IInv'
<1> DEFINE d == Head(notify)
           h == HandleChain(d)
           i == HandleIndex(d)
<1>1. /\ notify' \in Seq(DependentSet) /\ d \in DependentSet /\ ~d.reader
      /\ ToSet(notify) = ToSet(notify') \cup {d}
      /\ stack \in Seq(Frame) /\ stack # <<>> /\ Nested(stack) /\ Len(stack) \in Nat \ {0}
      /\ stack[Len(stack)].at = "instant"
  BY NotifiedDoes DEF Invalidate
<1>2. /\ UNCHANGED <<val, deps, toServer, toClient, register, seen, stack>>
      /\ chain' = [chain EXCEPT ![h] = [@ EXCEPT ![i].ood = TRUE]]
  BY DEF Invalidate, server
<1>3. h \in 0 .. Chains - 1 /\ i \in 1 .. Len(chain[h])
  <2>1. d \in Dependents
    BY <1>1 DEF Dependents, OnTheWay
  <2> QED
    BY <1>1, <2>1 DEF IInv, HandlesInv, Held
<1> HIDE DEF h, i, d
<1>4. chain \in [0 .. Chains - 1 -> Seq(CacheEntry)] /\ chain[h] \in Seq(CacheEntry)
  BY <1>3 DEF IInv, Types
<1>5. PICK ch \in Seq(CacheEntry) :
        /\ chain' = [chain EXCEPT ![h] = ch] /\ Len(ch) = Len(chain[h])
        /\ ch[i].ood /\ \A j \in 1 .. Len(ch) : j # i => ch[j] = chain[h][j]
        /\ ChainFits(h, ch) /\ KeepsAll(chain[h], ch)
  <2> DEFINE e == [chain[h][i] EXCEPT !.ood = TRUE]
             ct == [chain[h] EXCEPT ![i] = e]
  <2>1. chain[h][i] \in CacheEntry
    BY <1>3, <1>4, SeqIs
  <2>2. e \in CacheEntry /\ e.slot = chain[h][i].slot /\ e.ood
    BY <2>1 DEF CacheEntry
  <2>3. chain' = [chain EXCEPT ![h] = ct]
    BY <1>2
  <2>4. ChainFits(h, chain[h])
    BY <1>3 DEF IInv, ChainInv
  <2>5. /\ ct \in Seq(CacheEntry) /\ Len(ct) = Len(chain[h])
        /\ ct[i] = e /\ \A j \in 1 .. Len(chain[h]) : j # i => ct[j] = chain[h][j]
        /\ ChainFits(h, ct) /\ KeepsAll(chain[h], ct)
    <3> HIDE DEF e
    <3>1. ct = [chain[h] EXCEPT ![i] = e]
      OBVIOUS
    <3> HIDE DEF ct
    <3>2. chain[h] \in Seq(CacheEntry) /\ i \in 1 .. Len(chain[h]) /\ e \in CacheEntry /\ e.slot = chain[h][i].slot
      BY <1>3, <1>4, <2>2
    <3>3. ct \in Seq(CacheEntry) /\ Len(ct) = Len(chain[h])
      BY <2>4, <3>1, <3>2, EntryChanges
    <3>4. ct[i] = e /\ \A j \in 1 .. Len(chain[h]) : j # i => ct[j] = chain[h][j]
      BY <2>4, <3>1, <3>2, EntryChanges
    <3>5. ChainFits(h, ct) /\ KeepsAll(chain[h], ct)
      BY <2>4, <3>1, <3>2, EntryChanges
    <3> QED
      BY <3>3, <3>4, <3>5
  <2> HIDE DEF e, ct
  <2> QED
    BY <2>2, <2>3, <2>5
<1>7. /\ chain' \in [0 .. Chains - 1 -> Seq(CacheEntry)]
      /\ chain'[h] = ch /\ \A g \in 0 .. Chains - 1 : g # h => chain'[g] = chain[g]
  BY <1>3, <1>4, <1>5
<1>8. Types'
  BY <1>1, <1>2, <1>7 DEF IInv, Types
<1>9. StackInv'
  BY <1>2 DEF IInv, StackInv
<1>10. WaitsKept(stack, stack') /\ \A k \in 1 .. Len(stack') : GetFits(val', stack'[k])
  BY <1>2 DEF IInv, AnswersInv, WaitsKept
<1>11. AnswersInv'
  BY <1>2, <1>8, <1>10, AnswersStay DEF IInv
<1>12. ChainInv'
  <2>1. ASSUME NEW g \in 0 .. Chains - 1 PROVE ChainFits(g, chain'[g])
    <3>1. ChainFits(g, chain[g])
      BY DEF IInv, ChainInv
    <3>2. CASE g = h
      BY <1>5, <1>7, <3>2
    <3>3. CASE g # h
      BY <1>7, <3>1, <3>3
    <3> QED
      BY <3>2, <3>3
  <2>2. ASSUME NEW k \in 1 .. Len(stack'), stack'[k].at = "get"
        PROVE  Has(chain'[Hash[stack'[k].slot]], stack'[k].slot)
    <3>1. /\ Has(chain[Hash[stack[k].slot]], stack[k].slot) /\ stack'[k] = stack[k]
          /\ Hash[stack[k].slot] \in 0 .. Chains - 1
      BY <1>1, <1>2, <2>2, SeqIs, Calls, Constants DEF IInv, ChainInv
    <3> QED
      BY <1>5, <1>7, <3>1 DEF KeepsAll
  <2> QED
    BY <2>1, <2>2 DEF ChainInv
<1>13. HandlesInv'
  <2> DEFINE X == {}
  <2>1. /\ Dependents' \subseteq Dependents \cup X
        /\ \A e \in X : Held(chain', e)
    BY <1>1, <1>2 DEF Dependents, OnTheWay
  <2>2. \A g \in 0 .. Chains - 1 : Len(chain[g]) <= Len(chain'[g])
    <3>1. \A g \in 0 .. Chains - 1 : chain[g] \in Seq(CacheEntry)
      BY <1>4
    <3> QED
      BY <1>5, <1>7, <3>1, SeqIs
  <2>3. \A j \in 1 .. Len(register') : register'[j].by.reader
    BY <1>2 DEF IInv, HandlesInv
  <2> HIDE DEF X
  <2> QED
    BY <1>8, <2>1, <2>2, <2>3, HandlesStay DEF IInv
<1>14. ToldInv'
  <2> SUFFICES ASSUME NEW s \in Private
               PROVE  /\ \A j \in 1 .. Len(chain'[Hash[s]]) :
                           ~chain'[Hash[s]][j].ood => chain'[Hash[s]][j].value \in Safe(s)'
                      /\ \A k \in 1 .. Len(stack') :
                           stack'[k].at = "get" /\ stack'[k].slot = s /\ ~stack'[k].waiting
                             => stack'[k].res \in Safe(s)'
                      /\ \A j \in 1 .. Len(toClient') :
                           IsResult(toClient'[j]) /\ stack'[toClient'[j].id].slot = s
                             => toClient'[j].v \in Safe(s)'
                      /\ \A j \in 1 .. Len(toServer') :
                           toServer'[j].get # 0 /\ toServer'[j].slot = s => toServer'[j].by = First(s)
    BY DEF ToldInv, Private, First, Handle
  <2>1. /\ s \in Slot /\ s \notin MainReads /\ Hash[s] \in 0 .. Chains - 1
        /\ ~First(s).reader /\ HandleChain(First(s)) = Hash[s] /\ HandleIndex(First(s)) = 1
        /\ \A j \in 1 .. Len(chain[Hash[s]]) : chain[Hash[s]][j].slot = s /\ j = 1
    BY PrivateIs, Constants DEF IInv
  <2>2. \A k \in 1 .. Len(stack) : ~(stack[k].at = "get" /\ stack[k].slot = s)
    <3> SUFFICES ASSUME NEW k \in 1 .. Len(stack), stack[k].at = "get", stack[k].slot = s
                 PROVE  FALSE
      OBVIOUS
    <3>1. k - 2 \in 1 .. Len(stack) /\ stack[k - 2].at = "instant"
      BY <1>1, <2>1, CallsBelow
    <3>2. k - 2 = Len(stack)
      BY <1>1, <3>1 DEF Nested
    <3> QED
      BY <1>1, <3>2
  <2>3. \A j \in 1 .. Len(toClient) : ~(IsResult(toClient[j]) /\ stack[toClient[j].id].slot = s)
    BY <2>2 DEF IInv, AnswersInv, ResultFits, Waits
  <2>4. \A j \in 1 .. Len(chain'[Hash[s]]) :
          ~chain'[Hash[s]][j].ood => chain'[Hash[s]][j].value \in Safe(s)'
    <3> SUFFICES ASSUME NEW j \in 1 .. Len(chain'[Hash[s]]), ~chain'[Hash[s]][j].ood
                 PROVE  chain'[Hash[s]][j].value \in Safe(s)'
      OBVIOUS
    <3>1. /\ j \in 1 .. Len(chain[Hash[s]]) /\ ~chain[Hash[s]][j].ood
          /\ chain'[Hash[s]][j].value = chain[Hash[s]][j].value
          /\ ~(h = Hash[s] /\ j = i)
      <4>1. CASE h = Hash[s]
        <5>1. chain'[Hash[s]] = ch /\ j \in 1 .. Len(ch) /\ j # i /\ ~ch[j].ood
          BY <1>5, <1>7, <4>1
        <5> QED
          BY <1>5, <4>1, <5>1
      <4>2. CASE h # Hash[s]
        BY <1>7, <2>1, <4>2
      <4> QED
        BY <4>1, <4>2
    <3>2. First(s) # d
      BY <2>1, <3>1 DEF h, i
    <3>3. First(s) \in OnTheWay => First(s) \in OnTheWay'
      BY <1>1, <1>2, <3>2 DEF OnTheWay
    <3>4. chain[Hash[s]][j].value \in Safe(s)
      BY <3>1 DEF IInv, ToldInv
    <3>5. Safe(s) \subseteq Safe(s)'
      BY <1>2, <3>3 DEF Safe, First, Handle
    <3> QED
      BY <3>1, <3>4, <3>5
  <2>5. \A j \in 1 .. Len(toServer') :
          toServer'[j].get # 0 /\ toServer'[j].slot = s => toServer'[j].by = First(s)
    BY <1>2 DEF IInv, ToldInv
  <2> QED
    BY <1>2, <2>2, <2>3, <2>4, <2>5
<1> QED
  BY <1>8, <1>9, <1>11, <1>12, <1>13, <1>14 DEF IInv

-----------------------------------------------------------------------------
(***************************************************************************)
(* A get begins, is answered and returns.                                  *)
(***************************************************************************)
LEMMA TwoCalls ==
  ASSUME NEW c \in Seq(Frame), NEW f \in Frame, NEW g \in Frame
  PROVE  c \o <<f, g>> = Append(Append(c, f), g)
OBVIOUS

\* The cache after lookup, and the handle that is sent.
LEMMA LookupDoes ==
  ASSUME IInv, NEW s \in Slot, chain' = [chain EXCEPT ![Hash[s]] = Lookup(s)]
  PROVE  /\ chain' \in [0 .. Chains - 1 -> Seq(CacheEntry)]
         /\ \A h \in 0 .. Chains - 1 : Len(chain[h]) <= Len(chain'[h])
         /\ \A h \in 0 .. Chains - 1 : ChainFits(h, chain'[h]) /\ KeepsAll(chain[h], chain'[h])
         /\ Has(chain'[Hash[s]], s)
         /\ HandleOf(s) \in DependentSet /\ Held(chain', HandleOf(s))
         /\ s \in Private => HandleOf(s) = First(s)
         /\ \A p \in Private : \A i \in 1 .. Len(chain'[Hash[p]]) :
              ~chain'[Hash[p]][i].ood => chain'[Hash[p]][i].value \in Safe(p)
<1> DEFINE h0 == Hash[s]
           ch == chain[h0]
           L == Lookup(s)
           p0 == Position(L, s)
<1>1. /\ ch \in Seq(CacheEntry) /\ L \in Seq(CacheEntry) /\ p0 \in 1 .. Len(L) /\ L[p0].slot = s
      /\ \/ L = ch
         \/ /\ Len(L) = Len(ch) + 1 /\ L[1] = NewEntry(s)
            /\ \A i \in 1 .. Len(ch) : L[i + 1] = ch[i]
  BY Lookups DEF IInv
<1>2. /\ ChainFits(h0, L) /\ HandleOf(s) \in DependentSet /\ ~HandleOf(s).reader
      /\ HandleChain(HandleOf(s)) = h0 /\ HandleIndex(HandleOf(s)) = p0
  BY LookupKeeps DEF IInv
<1>3. h0 \in 0 .. Chains - 1 /\ Len(ch) \in Nat /\ Len(L) \in Nat
  BY <1>1, Constants, SeqIs
<1>4. HandleOf(s) = Handle(h0, p0 - 1)
  BY DEF HandleOf
<1>5. chain \in [0 .. Chains - 1 -> Seq(CacheEntry)]
  BY DEF IInv, Types
<1>6. NewEntry(s).ood
  BY DEF NewEntry
<1> HIDE DEF L, p0, h0
<1>7. /\ chain' \in [0 .. Chains - 1 -> Seq(CacheEntry)]
      /\ chain'[h0] = L /\ \A h \in 0 .. Chains - 1 : h # h0 => chain'[h] = chain[h]
  BY <1>1, <1>3, <1>5 DEF h0, L
<1>8. ASSUME NEW h \in 0 .. Chains - 1
      PROVE  /\ Len(chain[h]) <= Len(chain'[h])
             /\ ChainFits(h, chain'[h]) /\ KeepsAll(chain[h], chain'[h])
  <2>1. CASE h = h0
    <3>1. Len(ch) <= Len(L)
      BY <1>1, <1>3
    <3>2. KeepsAll(ch, L)
      <4>1. CASE L = ch
        BY <4>1 DEF KeepsAll
      <4>2. CASE Len(L) = Len(ch) + 1 /\ \A i \in 1 .. Len(ch) : L[i + 1] = ch[i]
        <5>1. \A i \in 1 .. Len(ch) : i + 1 \in 1 .. Len(L) /\ L[i + 1].slot = ch[i].slot
          BY <1>3, <4>2
        <5> QED
          BY <5>1 DEF KeepsAll, Has
      <4> QED
        BY <1>1, <4>1, <4>2
    <3> QED
      BY <1>2, <1>7, <2>1, <3>1, <3>2
  <2>2. CASE h # h0
    <3>1. chain'[h] = chain[h] /\ Len(chain[h]) \in Nat /\ ChainFits(h, chain[h])
      BY <1>5, <1>7, <2>2, SeqIs DEF IInv, ChainInv
    <3> QED
      BY <3>1 DEF KeepsAll
  <2> QED
    BY <2>1, <2>2
<1>9. Has(L, s) /\ Held(chain', HandleOf(s))
  BY <1>1, <1>2, <1>3, <1>7 DEF Has, Held
<1>10. ASSUME s \in Private PROVE HandleOf(s) = First(s)
  <2>1. \A i \in 1 .. Len(L) : L[i].slot = s
    <3>1. \A i \in 1 .. Len(L) : L[i] \in CacheEntry /\ Hash[L[i].slot] = Hash[s]
      BY <1>1, <1>2, SeqIs DEF ChainFits, h0
    <3>2. \A t \in Slot : Hash[t] = Hash[s] => t = s
      BY <1>10, PrivateIs DEF IInv
    <3>3. \A e \in CacheEntry : e.slot \in Slot
      BY DEF CacheEntry
    <3> QED
      BY <3>1, <3>2, <3>3
  <2>2. 1 \in 1 .. Len(L)
    BY <1>1, <1>3
  <2>3. p0 = 1
    BY <1>1, <1>2, <2>1, <2>2 DEF ChainFits
  <2>4. p0 - 1 = 0
    BY <2>3
  <2> QED
    BY <1>4, <2>4 DEF First, h0
<1>11. ASSUME NEW p \in Private, NEW i \in 1 .. Len(chain'[Hash[p]]), ~chain'[Hash[p]][i].ood
       PROVE  chain'[Hash[p]][i].value \in Safe(p)
  <2>1. Hash[p] \in 0 .. Chains - 1
    BY Constants DEF Private
  <2>2. \E j \in 1 .. Len(chain[Hash[p]]) : chain[Hash[p]][j] = chain'[Hash[p]][i]
    <3>1. CASE Hash[p] # h0
      BY <1>7, <2>1, <3>1
    <3>2. CASE Hash[p] = h0
      <4>1. chain'[Hash[p]] = L /\ chain[Hash[p]] = ch
        BY <1>7, <3>2
      <4>2. CASE L = ch
        BY <4>1, <4>2
      <4>3. CASE /\ Len(L) = Len(ch) + 1 /\ L[1] = NewEntry(s)
                 /\ \A k \in 1 .. Len(ch) : L[k + 1] = ch[k]
        <5>1. i # 1 /\ i \in 1 .. Len(L)
          BY <1>6, <1>11, <4>1, <4>3
        <5>2. i - 1 \in 1 .. Len(ch) /\ (i - 1) + 1 = i
          BY <1>3, <4>3, <5>1
        <5>3. L[i] = ch[i - 1]
          BY <4>3, <5>2
        <5> QED
          BY <4>1, <5>2, <5>3
      <4> QED
        BY <1>1, <4>2, <4>3
    <3> QED
      BY <3>1, <3>2
  <2> QED
    BY <1>11, <2>2 DEF IInv, ToldInv
<1> QED
  BY <1>2, <1>7, <1>8, <1>9, <1>10, <1>11 DEF h0

\* A get begins, above the calls c.
LEMMA StartGetKeeps ==
  ASSUME IInv, NEW c \in Seq(Frame), NEW s \in Slot, StartGet(c, s),
         Nested(c), SameGets(stack, c),
         c = <<>> => s \in MainReads,
         c # <<>> => Last(c).at = "eval" /\ Reads[Last(c).r] = s,
         UNCHANGED <<val, deps, toClient, register, seen>>,
         notify' \in Seq(DependentSet),
         \A d \in OnTheWay' : d \in OnTheWay,
         \A d \in OnTheWay : d \in OnTheWay' \/ d.reader
  PROVE  IInv'
<1> DEFINE n == Len(c)
           k == n + 1
           q == Request(s, HandleOf(s), k)
<1>1. /\ Get(s) \in Frame /\ Get(s).at = "get" /\ Get(s).slot = s /\ Get(s).waiting
      /\ Get(s).from = val[s]
      /\ Update(0) \in Frame /\ Update(0).at = "update"
  BY NewGet, NewCalls, Constants DEF IInv
<1>2. n \in Nat /\ k \in Nat \ {0} /\ k = n + 1
  BY SeqIs
<1>3. /\ chain' \in [0 .. Chains - 1 -> Seq(CacheEntry)]
      /\ \A h \in 0 .. Chains - 1 : Len(chain[h]) <= Len(chain'[h])
      /\ \A h \in 0 .. Chains - 1 : ChainFits(h, chain'[h]) /\ KeepsAll(chain[h], chain'[h])
      /\ Has(chain'[Hash[s]], s)
      /\ HandleOf(s) \in DependentSet /\ Held(chain', HandleOf(s))
      /\ s \in Private => HandleOf(s) = First(s)
  BY LookupDoes DEF StartGet
<1>3a. \A p \in Private : \A i \in 1 .. Len(chain'[Hash[p]]) :
              ~chain'[Hash[p]][i].ood => chain'[Hash[p]][i].value \in Safe(p)
  BY LookupDoes DEF StartGet
<1>4. q \in RequestSet /\ q.slot = s /\ q.by = HandleOf(s) /\ q.get = k
  BY <1>2, <1>3, Requests
<1>5. /\ toServer \in Seq(RequestSet) /\ toServer' = Append(toServer, q)
      /\ stack' = Append(Append(c, Get(s)), Update(0))
  BY <1>1, TwoCalls DEF StartGet, IInv, Types
<1> DEFINE b == Append(c, Get(s))
<1>6. /\ b \in Seq(Frame) /\ b # <<>> /\ Last(b) = Get(s) /\ Nested(b)
      /\ Len(b) = k /\ b[k] = Get(s) /\ \A i \in 1 .. n : b[i] = c[i]
  <2>1. c = <<>> => Bottom(Get(s))
    BY <1>1 DEF Bottom
  <2>2. c # <<>> => Above(Last(c), Get(s))
    BY <1>1 DEF Above
  <2> QED
    BY <1>1, <2>1, <2>2, CallBegins
<1> HIDE DEF b, q, k
<1>7. /\ stack' \in Seq(Frame) /\ stack' # <<>> /\ Last(stack') = Update(0) /\ Nested(stack')
      /\ Len(stack') = k + 1 /\ stack'[k + 1] = Update(0) /\ \A i \in 1 .. k : stack'[i] = b[i]
  <2>1. Above(Last(b), Update(0))
    BY <1>1, <1>6 DEF Above
  <2> QED
    BY <1>1, <1>5, <1>6, <2>1, CallBegins DEF b
<1>8. /\ k \in 1 .. Len(stack') /\ stack'[k] = Get(s)
      /\ \A i \in 1 .. n : i \in 1 .. Len(stack') /\ stack'[i] = c[i]
  BY <1>2, <1>6, <1>7
<1>9. \A i \in 1 .. Len(stack') : stack'[i].at = "get" =>
        i = k \/ (i \in 1 .. Len(stack) /\ stack'[i] = stack[i])
  <2>1. \A i \in 1 .. Len(stack') : i = k + 1 \/ i = k \/ i \in 1 .. n
    BY <1>2, <1>7
  <2> QED
    BY <1>1, <1>7, <1>8, <2>1 DEF SameGets
<1>10. WaitsKept(stack, stack')
  BY <1>8 DEF WaitsKept, Waits, SameGets
<1>11. \A t : ~Waits(stack, k, t)
  BY <1>2 DEF Waits, SameGets
<1>12. /\ toServer' \in Seq(RequestSet) /\ Len(toServer) \in Nat
       /\ \A j \in 1 .. Len(toServer') : \/ j = Len(toServer) + 1 /\ toServer'[j] = q
                                         \/ j \in 1 .. Len(toServer) /\ toServer'[j] = toServer[j]
  BY <1>4, <1>5, Pushed, SeqIs
<1>13. Types'
  BY <1>3, <1>7, <1>12 DEF IInv, Types
<1>14. StackInv'
  BY <1>1, <1>7 DEF StackInv, Resting
<1>15. AnswersInv'
  <2>1. ASSUME NEW j \in 1 .. Len(toServer') PROVE RequestFits(stack', toServer'[j])
    <3>1. CASE toServer'[j] = q
      BY <1>1, <1>4, <1>8, <3>1 DEF RequestFits, Waits
    <3>2. CASE j \in 1 .. Len(toServer) /\ toServer'[j] = toServer[j]
      BY <1>10, <3>2, RequestFitsStill DEF IInv, AnswersInv
    <3> QED
      BY <1>12, <3>1, <3>2
  <2>2. ASSUME NEW j \in 1 .. Len(toClient') PROVE ResultFits(stack', val', toClient'[j])
    BY <1>10, ResultFitsStill DEF IInv, AnswersInv
  <2>3. ASSUME NEW i \in 1 .. Len(stack') PROVE GetFits(val', stack'[i])
    <3>1. CASE stack'[i].at # "get"
      BY <3>1 DEF GetFits
    <3>2. CASE i = k
      <4>1. val[s] \in Nat
        BY DEF IInv, Types
      <4> QED
        BY <1>1, <1>8, <3>2, <4>1 DEF GetFits
    <3>3. CASE i \in 1 .. Len(stack) /\ stack'[i] = stack[i]
      BY <3>3 DEF IInv, AnswersInv
    <3> QED
      BY <1>9, <3>1, <3>2, <3>3
  <2>4. \A j \in 1 .. Len(toServer) : toServer[j].get # k
    BY <1>2, <1>11 DEF IInv, AnswersInv, RequestFits
  <2>5. \A j \in 1 .. Len(toClient) : IsResult(toClient[j]) => toClient[j].id # k
    BY <1>11 DEF IInv, AnswersInv, ResultFits
  <2>6. \A i, j \in 1 .. Len(toServer') :
          toServer'[i].get # 0 /\ toServer'[i].get = toServer'[j].get => i = j
    BY <1>4, <1>12, <2>4 DEF IInv, AnswersInv
  <2>7. \A i, j \in 1 .. Len(toClient') :
          IsResult(toClient'[i]) /\ IsResult(toClient'[j]) /\ toClient'[i].id = toClient'[j].id => i = j
    BY DEF IInv, AnswersInv
  <2>8. \A i \in 1 .. Len(toServer'), j \in 1 .. Len(toClient') :
          toServer'[i].get # 0 /\ IsResult(toClient'[j]) => toClient'[j].id # toServer'[i].get
    BY <1>4, <1>12, <2>5 DEF IInv, AnswersInv
  <2> QED
    BY <2>1, <2>2, <2>3, <2>6, <2>7, <2>8 DEF AnswersInv
<1>16. ChainInv'
  <2>1. ASSUME NEW i \in 1 .. Len(stack'), stack'[i].at = "get"
        PROVE  Has(chain'[Hash[stack'[i].slot]], stack'[i].slot)
    <3>1. CASE i = k
      BY <1>1, <1>3, <1>8, <3>1
    <3>2. CASE i \in 1 .. Len(stack) /\ stack'[i] = stack[i]
      <4>1. stack[i] \in Frame /\ Has(chain[Hash[stack[i].slot]], stack[i].slot)
        BY <2>1, <3>2, SeqIs DEF IInv, Types, ChainInv
      <4>2. Hash[stack[i].slot] \in 0 .. Chains - 1
        BY <2>1, <3>2, <4>1, Calls, Constants
      <4> QED
        BY <1>3, <3>2, <4>1, <4>2 DEF KeepsAll
    <3> QED
      BY <1>9, <2>1, <3>1, <3>2
  <2> QED
    BY <1>3, <2>1 DEF ChainInv
<1>17. HandlesInv'
  <2> DEFINE X == {HandleOf(s)}
  <2>1. Dependents' \subseteq Dependents \cup X
    <3>1. Askers(toServer') = Askers(toServer) \cup X
      BY <1>4, <1>5, AskersAre
    <3> QED
      BY <3>1 DEF Dependents, Askers
  <2>2. \A d \in X : Held(chain', d)
    BY <1>3
  <2>3. \A j \in 1 .. Len(register') : register'[j].by.reader
    BY DEF IInv, HandlesInv
  <2> HIDE DEF X
  <2> QED
    BY <1>3, <1>13, <2>1, <2>2, <2>3, HandlesStay DEF IInv
<1>18. ToldInv'
  <2> SUFFICES ASSUME NEW p \in Private
               PROVE  /\ \A j \in 1 .. Len(chain'[Hash[p]]) :
                           ~chain'[Hash[p]][j].ood => chain'[Hash[p]][j].value \in Safe(p)'
                      /\ \A i \in 1 .. Len(stack') :
                           stack'[i].at = "get" /\ stack'[i].slot = p /\ ~stack'[i].waiting
                             => stack'[i].res \in Safe(p)'
                      /\ \A j \in 1 .. Len(toClient') :
                           IsResult(toClient'[j]) /\ stack'[toClient'[j].id].slot = p
                             => toClient'[j].v \in Safe(p)'
                      /\ \A j \in 1 .. Len(toServer') :
                           toServer'[j].get # 0 /\ toServer'[j].slot = p => toServer'[j].by = First(p)
    BY DEF ToldInv, Private, First, Handle
  <2>1. Safe(p) \subseteq Safe(p)'
    <3>1. First(p) \in OnTheWay => First(p) \in OnTheWay'
      BY PrivateIs DEF IInv
    <3> QED
      BY <3>1 DEF Safe, First, Handle
  <2>2. \A j \in 1 .. Len(chain'[Hash[p]]) :
          ~chain'[Hash[p]][j].ood => chain'[Hash[p]][j].value \in Safe(p)'
    BY <1>3a, <2>1
  <2>3. \A i \in 1 .. Len(stack') :
          stack'[i].at = "get" /\ stack'[i].slot = p /\ ~stack'[i].waiting => stack'[i].res \in Safe(p)'
    BY <1>1, <1>8, <1>9, <2>1 DEF IInv, ToldInv
  <2>4. ASSUME NEW j \in 1 .. Len(toClient'), IsResult(toClient'[j]), stack'[toClient'[j].id].slot = p
        PROVE  toClient'[j].v \in Safe(p)'
    <3>1. ResultFits(stack, val, toClient[j])
      BY DEF IInv, AnswersInv
    <3>2. stack'[toClient[j].id] = stack[toClient[j].id]
      BY <1>10, <2>4, <3>1, ResultFitsStill
    <3> QED
      BY <2>1, <2>4, <3>2 DEF IInv, ToldInv
  <2>5. \A j \in 1 .. Len(toServer') :
          toServer'[j].get # 0 /\ toServer'[j].slot = p => toServer'[j].by = First(p)
    BY <1>3, <1>4, <1>12 DEF IInv, ToldInv
  <2> QED
    BY <2>2, <2>3, <2>4, <2>5
<1> QED
  BY <1>13, <1>14, <1>15, <1>16, <1>17, <1>18 DEF IInv

LEMMA MainGetKeeps ==
  ASSUME IInv, NEW s \in MainReads, MainGet(s)
  PROVE  IInv'
<1>1. /\ s \in Slot /\ stack = <<>> /\ StartGet(<<>>, s)
      /\ UNCHANGED <<val, deps, toClient, register, seen, notify>>
  BY Constants DEF MainGet, server
<1>2. /\ <<>> \in Seq(Frame) /\ Nested(<<>>) /\ SameGets(stack, <<>>)
      /\ notify' \in Seq(DependentSet)
  BY <1>1 DEF IInv, Types, StackInv, SameGets
<1>3. OnTheWay' = OnTheWay
  BY <1>1 DEF OnTheWay
<1> QED
  BY <1>1, <1>2, <1>3, StartGetKeeps

LEMMA EvalGetsKeeps ==
  ASSUME IInv, EvalGets
  PROVE  IInv'
<1> DEFINE r == Head(notify).id
           c == Append(stack, Eval(r))
<1>1. /\ notify' \in Seq(DependentSet) /\ Head(notify).reader /\ Head(notify) \in DependentSet
      /\ ToSet(notify) = ToSet(notify') \cup {Head(notify)}
      /\ stack \in Seq(Frame) /\ stack # <<>> /\ Nested(stack)
      /\ Last(stack).at = "instant" /\ Last(stack).q = 1
  BY NotifiedDoes DEF EvalGets
<1>2. r \in Reader /\ Reads[r] \in Slot
  BY <1>1, DependentFields, Constants
<1>3. /\ StartGet(c, Reads[r]) /\ UNCHANGED <<val, deps, toClient, register, seen>>
  BY DEF EvalGets, server
<1> HIDE DEF r
<1>4. Eval(r) \in Frame /\ Eval(r).at = "eval" /\ Eval(r).r = r
  BY <1>2, NewCalls
<1>5. c \in Seq(Frame) /\ c # <<>> /\ Last(c) = Eval(r) /\ Nested(c) /\ SameGets(stack, c)
  <2>1. Above(Last(stack), Eval(r))
    BY <1>1, <1>4 DEF Above
  <2> QED
    BY <1>1, <1>4, <2>1, CallBegins
<1>6. /\ \A d \in OnTheWay' : d \in OnTheWay
      /\ \A d \in OnTheWay : d \in OnTheWay' \/ d.reader
  BY <1>1, <1>3 DEF OnTheWay
<1> HIDE DEF c
<1> QED
  BY <1>1, <1>2, <1>3, <1>4, <1>5, <1>6, StartGetKeeps

\* The entries of the chains cht are those of chs, but for the value v of s.
Filled(chs, cht, s, v) ==
  \A h \in 0 .. Chains - 1 : \A i \in 1 .. Len(cht[h]) :
    \/ i \in 1 .. Len(chs[h]) /\ cht[h][i] = chs[h][i]
    \/ h = Hash[s] /\ cht[h][i].slot = s /\ cht[h][i].value = v

\* The answer of a get is written to its cache entry.
LEMMA EntryFilled ==
  ASSUME IInv, NEW s \in Slot, NEW v \in Nat, Has(chain[Hash[s]], s),
         chain' = [chain EXCEPT ![Hash[s]] =
           [@ EXCEPT ![Position(@, s)].value = v, ![Position(@, s)].ood = FALSE]]
  PROVE  /\ chain' \in [0 .. Chains - 1 -> Seq(CacheEntry)]
         /\ \A h \in 0 .. Chains - 1 :
              /\ Len(chain[h]) <= Len(chain'[h])
              /\ ChainFits(h, chain'[h]) /\ KeepsAll(chain[h], chain'[h])
         /\ Filled(chain, chain', s, v)
<1> DEFINE h0 == Hash[s]
           cs == chain[h0]
           i == Position(cs, s)
           e == [cs[i] EXCEPT !.value = v, !.ood = FALSE]
           ct == [cs EXCEPT ![i] = e]
<1>1. /\ h0 \in 0 .. Chains - 1 /\ cs \in Seq(CacheEntry)
      /\ chain \in [0 .. Chains - 1 -> Seq(CacheEntry)] /\ ChainFits(h0, cs)
  BY Constants DEF IInv, Types, ChainInv
<1>2. i \in 1 .. Len(cs) /\ cs[i].slot = s /\ cs[i] \in CacheEntry
  <2>1. i \in 0 .. Len(cs) /\ i # 0 /\ cs[i].slot = s
    BY <1>1, Positions DEF Has
  <2> HIDE DEF i
  <2>2. i \in 1 .. Len(cs)
    BY <1>1, <2>1, SeqIs
  <2> QED
    BY <1>1, <2>1, <2>2, SeqIs
<1>3. e \in CacheEntry /\ e.slot = cs[i].slot /\ e.value = v
  <2> HIDE DEF i, cs
  <2> QED
    BY <1>2 DEF CacheEntry
<1>4. chain' = [chain EXCEPT ![h0] = ct]
  <2>1. ct = [cs EXCEPT ![i].value = v, ![i].ood = FALSE]
    <3> HIDE DEF i, cs
    <3> QED
      BY <1>1, <1>2
  <2> QED
    BY <2>1
<1>5. ct = [cs EXCEPT ![i] = e]
  OBVIOUS
<1>5a. ChainFits(h0, cs)
  BY <1>1
<1> HIDE DEF ct, e, i, cs, h0
<1>6. ct \in Seq(CacheEntry) /\ Len(ct) = Len(cs)
  BY <1>1, <1>2, <1>3, <1>5, EntryChanges
<1>7. ct[i] = e /\ \A j \in 1 .. Len(cs) : j # i => ct[j] = cs[j]
  BY <1>1, <1>2, <1>3, <1>5, EntryChanges
<1>8. ChainFits(h0, ct)
  BY <1>1, <1>2, <1>3, <1>5, <1>5a, EntryChanges
<1>8a. KeepsAll(cs, ct)
  BY <1>1, <1>2, <1>3, <1>5, <1>5a, EntryChanges
<1>9. /\ chain' \in [0 .. Chains - 1 -> Seq(CacheEntry)]
      /\ chain'[h0] = ct /\ \A h \in 0 .. Chains - 1 : h # h0 => chain'[h] = chain[h]
  BY <1>1, <1>4, <1>6
<1>10. ASSUME NEW h \in 0 .. Chains - 1
       PROVE  /\ Len(chain[h]) <= Len(chain'[h])
              /\ ChainFits(h, chain'[h]) /\ KeepsAll(chain[h], chain'[h])
              /\ \A j \in 1 .. Len(chain'[h]) :
                   \/ j \in 1 .. Len(chain[h]) /\ chain'[h][j] = chain[h][j]
                   \/ h = h0 /\ chain'[h][j].slot = s /\ chain'[h][j].value = v
  <2>1. CASE h = h0
    <3>1. chain[h] = cs /\ chain'[h] = ct /\ Len(cs) \in Nat
      BY <1>1, <1>9, <2>1, SeqIs DEF cs
    <3>2. Len(cs) <= Len(ct)
      BY <1>6, <3>1
    <3> QED
      BY <1>2, <1>3, <1>6, <1>7, <1>8, <1>8a, <2>1, <3>1, <3>2
  <2>2. CASE h # h0
    <3>1. chain'[h] = chain[h] /\ Len(chain[h]) \in Nat /\ ChainFits(h, chain[h])
      BY <1>1, <1>9, <2>2, SeqIs DEF IInv, ChainInv
    <3>2. KeepsAll(chain[h], chain'[h])
      BY <3>1 DEF KeepsAll
    <3>3. Len(chain[h]) <= Len(chain'[h]) /\ ChainFits(h, chain'[h])
      BY <3>1
    <3>4. \A j \in 1 .. Len(chain'[h]) : j \in 1 .. Len(chain[h]) /\ chain'[h][j] = chain[h][j]
      BY <3>1
    <3> QED
      BY <3>2, <3>3, <3>4
  <2> QED
    BY <2>1, <2>2
<1>11. Filled(chain, chain', s, v)
  BY <1>10 DEF Filled, h0
<1> QED
  BY <1>9, <1>10, <1>11

LEMMA GetReturnKeeps ==
  ASSUME IInv, GetReturn
  PROVE  IInv'
<1> DEFINE n == Len(stack)
           f == Last(stack)
           s == f.slot
           v == f.res
           c == Front(stack)
<1>1. /\ stack \in Seq(Frame) /\ stack # <<>> /\ Nested(stack) /\ f \in Frame /\ f.at = "get"
      /\ f = stack[n] /\ n \in Nat \ {0} /\ ~f.waiting
  BY RunningIs DEF GetReturn
<1>2. /\ UNCHANGED <<val, deps, toServer, toClient, notify>>
      /\ chain' = [chain EXCEPT ![Hash[s]] =
           [@ EXCEPT ![Position(@, s)].value = v, ![Position(@, s)].ood = FALSE]]
      /\ \/ c = <<>> /\ stack' = c /\ UNCHANGED <<seen, register>>
         \/ c # <<>> /\ stack' = Front(c) /\ Evaluated(Last(c).r, v)
  BY DEF GetReturn, server
<1>3. n \in 1 .. Len(stack)
  BY <1>1
<1>4. s \in Slot /\ v \in Nat /\ Has(chain[Hash[s]], s)
  <2>1. s \in Slot /\ f.from \in Nat
    BY <1>1, Calls
  <2>2. val[s] \in Nat
    BY <2>1 DEF IInv, Types
  <2>3. GetFits(val, f) /\ Has(chain[Hash[s]], s)
    BY <1>1, <1>3 DEF IInv, AnswersInv, ChainInv
  <2>4. v \in f.from .. val[s]
    BY <1>1, <2>3 DEF GetFits
  <2> QED
    BY <2>1, <2>2, <2>3, <2>4
<1>5. /\ c \in Seq(Frame) /\ Nested(c) /\ Len(c) = n - 1
      /\ \A i \in 1 .. n - 1 : c[i] = stack[i]
      /\ c # <<>> => Above(Last(c), f)
  BY <1>1, CallEnds, Popped
<1> HIDE DEF c, v, s, f
<1>6. /\ stack' \in Seq(Frame) /\ Nested(stack') /\ SameGets(c, stack')
      /\ stack' # <<>> => Resting(Last(stack'))
      /\ seen' \in [Reader -> Nat \cup {None}] /\ register' \in Seq(RegisterSet)
      /\ \A j \in 1 .. Len(register') : register'[j].by.reader
  <2>1. CASE c = <<>> /\ stack' = c /\ UNCHANGED <<seen, register>>
    BY <1>5, <2>1 DEF SameGets, IInv, Types, HandlesInv
  <2>2. CASE c # <<>> /\ stack' = Front(c) /\ Evaluated(Last(c).r, v)
    <3>1. Last(c).at = "eval" /\ Last(c) \in Frame
      BY <1>1, <1>5, <2>2, CallEnds DEF Above
    <3>2. /\ Front(c) \in Seq(Frame) /\ Nested(Front(c)) /\ SameGets(c, Front(c))
          /\ Front(c) # <<>> => Above(Last(Front(c)), Last(c))
      BY <1>5, <2>2, <3>1, CallEnds
    <3>3. Front(c) # <<>> => Resting(Last(Front(c)))
      BY <3>1, <3>2 DEF Above, Resting
    <3>4. Last(c).r \in Reader
      BY <3>1, Calls
    <3>5. /\ seen' \in [Reader -> Nat \cup {None}] /\ register' \in Seq(RegisterSet)
          /\ \A j \in 1 .. Len(register') : register'[j].by.reader
      BY <1>4, <2>2, <3>4, EvaluatedDoes
    <3> QED
      BY <2>2, <3>2, <3>3, <3>5
  <2> QED
    BY <1>2, <2>1, <2>2
<1>7. /\ chain' \in [0 .. Chains - 1 -> Seq(CacheEntry)]
      /\ \A h \in 0 .. Chains - 1 :
           /\ Len(chain[h]) <= Len(chain'[h])
           /\ ChainFits(h, chain'[h]) /\ KeepsAll(chain[h], chain'[h])
  BY <1>2, <1>4, EntryFilled
<1>7a. Filled(chain, chain', s, v)
  BY <1>2, <1>4, EntryFilled
<1>8. Types'
  BY <1>2, <1>6, <1>7 DEF IInv, Types
<1>9. StackInv'
  BY <1>6 DEF StackInv
<1>10. \A i \in 1 .. Len(stack') : stack'[i].at = "get" =>
         i \in 1 .. Len(stack) /\ stack'[i] = stack[i]
  BY <1>1, <1>5, <1>6 DEF SameGets
<1>11. WaitsKept(stack, stack')
  <2> SUFFICES ASSUME NEW i, NEW t, Waits(stack, i, t)
               PROVE  Waits(stack', i, t) /\ stack'[i] = stack[i]
    BY DEF WaitsKept
  <2>1. i \in 1 .. n - 1
    BY <1>1 DEF Waits
  <2>2. c[i] = stack[i] /\ i \in 1 .. Len(c)
    BY <1>5, <2>1
  <2> QED
    BY <1>6, <2>2 DEF Waits, SameGets
<1>12. AnswersInv'
  <2>1. ASSUME NEW i \in 1 .. Len(stack') PROVE GetFits(val', stack'[i])
    <3>1. CASE stack'[i].at # "get"
      BY <3>1 DEF GetFits
    <3>2. CASE stack'[i].at = "get"
      BY <1>2, <1>10, <3>2 DEF IInv, AnswersInv
    <3> QED
      BY <3>1, <3>2
  <2> QED
    BY <1>2, <1>8, <1>11, <2>1, AnswersStay DEF IInv
<1>13. ChainInv'
  <2>1. ASSUME NEW i \in 1 .. Len(stack'), stack'[i].at = "get"
        PROVE  Has(chain'[Hash[stack'[i].slot]], stack'[i].slot)
    <3>1. i \in 1 .. Len(stack) /\ stack'[i] = stack[i]
      BY <1>10, <2>1
    <3>2. stack[i] \in Frame /\ Has(chain[Hash[stack[i].slot]], stack[i].slot)
      BY <2>1, <3>1, SeqIs DEF IInv, Types, ChainInv
    <3>3. Hash[stack[i].slot] \in 0 .. Chains - 1
      BY <2>1, <3>1, <3>2, Calls, Constants
    <3> QED
      BY <1>7, <3>1, <3>2, <3>3 DEF KeepsAll
  <2> QED
    BY <1>7, <2>1 DEF ChainInv
<1>14. OnTheWay' = OnTheWay
  BY <1>2 DEF OnTheWay
<1>15. HandlesInv'
  <2> DEFINE X == {}
  <2>1. /\ Dependents' \subseteq Dependents \cup X
        /\ \A d \in X : Held(chain', d)
    BY <1>2, <1>14 DEF Dependents
  <2> HIDE DEF X
  <2> QED
    BY <1>6, <1>7, <1>8, <2>1, HandlesStay DEF IInv
<1>16. ToldInv'
  <2>1. ASSUME NEW p \in Private, NEW i \in 1 .. Len(chain'[Hash[p]]), ~chain'[Hash[p]][i].ood
        PROVE  chain'[Hash[p]][i].value \in Safe(p)
    <3>1. Hash[p] \in 0 .. Chains - 1
      BY Constants DEF Private
    <3>2. CASE i \in 1 .. Len(chain[Hash[p]]) /\ chain'[Hash[p]][i] = chain[Hash[p]][i]
      BY <2>1, <3>2 DEF IInv, ToldInv
    <3>3. CASE Hash[p] = Hash[s] /\ chain'[Hash[p]][i].value = v
      <4>1. p = s
        BY <1>4, <3>3, PrivateIs DEF IInv
      <4>2. v \in Safe(s)
        BY <1>1, <1>3, <4>1 DEF IInv, ToldInv, v, s
      <4> QED
        BY <3>3, <4>1, <4>2
    <3> QED
      BY <1>7a, <3>1, <3>2, <3>3 DEF Filled
  <2>2. \A p \in Private, i \in 1 .. Len(stack') :
           stack'[i].at = "get" /\ stack'[i].slot = p /\ ~stack'[i].waiting =>
             \E j \in 1 .. Len(stack) : /\ stack[j].at = "get" /\ stack[j].slot = p
                                        /\ ~stack[j].waiting /\ stack[j].res = stack'[i].res
    BY <1>10
  <2> QED
    BY <1>2, <1>11, <1>14, <2>1, <2>2, ToldStay DEF IInv
<1> QED
  BY <1>8, <1>9, <1>12, <1>13, <1>15, <1>16 DEF IInv

\* Calls nest whatever a get has got.
LEMMA NestedStill ==
  ASSUME NEW st \in Seq(Frame), NEW tt \in Seq(Frame), Nested(st), Len(tt) = Len(st),
         \A i \in 1 .. Len(st) :
           \/ tt[i] = st[i]
           \/ tt[i].at = "get" /\ st[i].at = "get" /\ tt[i].slot = st[i].slot
  PROVE  Nested(tt)
<1>1. Len(st) \in Nat /\ (tt # <<>> => st # <<>> /\ 1 \in 1 .. Len(st))
  BY SeqIs, EmptySeq
<1>2. tt # <<>> => Bottom(tt[1])
  BY <1>1 DEF Nested, Bottom
<1>3. ASSUME NEW i \in 1 .. Len(tt) - 1 PROVE Above(tt[i], tt[i + 1])
  <2>1. Above(st[i], st[i + 1]) /\ i \in 1 .. Len(st) /\ i + 1 \in 1 .. Len(st)
    BY <1>1 DEF Nested
  <2> QED
    BY <2>1 DEF Above
<1>4. \A i, j \in 1 .. Len(tt) : tt[i].at = "instant" /\ tt[j].at = "instant" => i = j
  BY DEF Nested
<1> QED
  BY <1>2, <1>3, <1>4 DEF Nested

LEMMA ReceiveResultKeeps ==
  ASSUME IInv, ReceiveResult
  PROVE  IInv'
<1> DEFINE m == Head(toClient)
           n == Len(stack)
           i == m.id
           s == stack[i].slot
           g == [stack[i] EXCEPT !.waiting = FALSE, !.res = m.v]
<1>1. /\ toClient \in Seq(DocumentSet) /\ toClient # <<>> /\ toClient' = Tail(toClient)
      /\ toClient' \in Seq(DocumentSet) /\ m \in DocumentSet
      /\ m = toClient[1] /\ 1 \in 1 .. Len(toClient)
      /\ Polled \in Seq(Frame) /\ Nested(Polled)
      /\ Len(Polled) = n /\ n \in Nat \ {0}
      /\ stack[n].at = "update" /\ Polled[n].at = "update"
      /\ \A j \in 1 .. n - 1 : Polled[j] = stack[j]
  BY ReceivedDoes DEF ReceiveResult
<1>2. /\ stack' = [Polled EXCEPT ![i].waiting = FALSE, ![i].res = m.v]
      /\ m.type = "RESULT"
      /\ UNCHANGED <<val, deps, toServer, chain, notify, register, seen>>
  BY DEF ReceiveResult, server
<1>3. m.v \in Nat
  BY <1>1, <1>2, Documents
<1>4. Waits(stack, i, s) /\ m.v \in stack[i].from .. val[s]
  BY <1>1, <1>2 DEF IInv, AnswersInv, ResultFits, IsResult
<1>5. i \in 1 .. n - 1 /\ stack[i].at = "get"
  BY <1>1, <1>4 DEF Waits
<1>6. stack \in Seq(Frame) /\ stack[i] \in Frame /\ Polled[i] = stack[i]
  <2>1. i \in 1 .. n
    BY <1>1, <1>5
  <2> QED
    BY <1>1, <1>5, <2>1, SeqIs DEF IInv, Types
<1>7. /\ g \in Frame /\ g.at = "get" /\ g.slot = s /\ g.from = stack[i].from
      /\ ~g.waiting /\ g.res = m.v
  BY <1>3, <1>5, <1>6, Calls
<1>8. stack' = [Polled EXCEPT ![i] = g]
  <2>1. i \in 1 .. Len(Polled)
    BY <1>1, <1>5
  <2> HIDE DEF i
  <2> QED
    BY <1>1, <1>2, <1>6, <2>1 DEF m
<1> HIDE DEF g, s, i, m
<1>9. /\ stack' \in Seq(Frame) /\ Len(stack') = n /\ stack'[i] = g
      /\ \A j \in 1 .. n : j # i => stack'[j] = Polled[j]
  <2>1. i \in 1 .. Len(Polled)
    BY <1>1, <1>5
  <2> QED
    BY <1>1, <1>7, <1>8, <2>1
<1>10. \A j \in 1 .. n : j # i =>
         stack'[j] = stack[j] \/ (stack[j].at = "update" /\ stack'[j].at = "update")
  <2>1. \A j \in 1 .. n : j = n \/ j \in 1 .. n - 1
    BY <1>1
  <2> QED
    BY <1>1, <1>5, <1>9, <2>1
<1>11. \A j, t : Waits(stack, j, t) /\ j # i => Waits(stack', j, t) /\ stack'[j] = stack[j]
  BY <1>9, <1>10 DEF Waits
<1>12. Types'
  BY <1>1, <1>2, <1>9 DEF IInv, Types
<1>13. StackInv'
  <2>1. Nested(stack')
    <3>1. \A j \in 1 .. n : \/ stack'[j] = Polled[j]
                            \/ /\ stack'[j].at = "get" /\ Polled[j].at = "get"
                               /\ stack'[j].slot = Polled[j].slot
      BY <1>5, <1>6, <1>7, <1>9 DEF s
    <3> QED
      BY <1>1, <1>9, <3>1, NestedStill
  <2>2. stack' # <<>> => Last(stack') = stack'[n]
    BY <1>9, Popped
  <2>3. stack'[n].at = "update"
    BY <1>1, <1>5, <1>9
  <2> QED
    BY <2>1, <2>2, <2>3 DEF StackInv, Resting
<1>14. /\ Len(toClient') = Len(toClient) - 1 /\ Len(toClient) \in Nat \ {0}
       /\ \A j \in 1 .. Len(toClient') : /\ j + 1 \in 1 .. Len(toClient) /\ j + 1 # 1
                                         /\ toClient'[j] = toClient[j + 1]
  <2>1. /\ Len(toClient') = Len(toClient) - 1 /\ Len(toClient) \in Nat \ {0}
        /\ \A j \in 1 .. Len(toClient) - 1 : toClient'[j] = toClient[j + 1]
    BY <1>1, Taken
  <2> QED
    BY <2>1
<1>15. /\ \A j \in 1 .. Len(toServer) : toServer[j].get # 0 => toServer[j].get # i
       /\ \A j \in 1 .. Len(toClient') : IsResult(toClient'[j]) => toClient'[j].id # i
  BY <1>1, <1>2, <1>14 DEF IInv, AnswersInv, IsResult, i
<1>16. ASSUME NEW j \in 1 .. Len(toClient'), IsResult(toClient'[j])
       PROVE  /\ ResultFits(stack', val', toClient'[j])
              /\ stack'[toClient'[j].id] = stack[toClient'[j].id]
  <2> DEFINE k == toClient'[j].id
  <2>1. Waits(stack, k, stack[k].slot) /\ toClient'[j].v \in stack[k].from .. val[stack[k].slot]
    BY <1>14, <1>16 DEF IInv, AnswersInv, ResultFits
  <2>2. Waits(stack', k, stack[k].slot) /\ stack'[k] = stack[k]
    BY <1>11, <1>15, <1>16, <2>1
  <2> QED
    BY <1>2, <2>1, <2>2 DEF ResultFits
<1>17. AnswersInv'
  <2>1. ASSUME NEW j \in 1 .. Len(toServer') PROVE RequestFits(stack', toServer'[j])
    BY <1>2, <1>11, <1>15 DEF IInv, AnswersInv, RequestFits
  <2>2. ASSUME NEW j \in 1 .. Len(toClient') PROVE ResultFits(stack', val', toClient'[j])
    <3>1. CASE ~IsResult(toClient'[j])
      BY <3>1 DEF ResultFits
    <3> QED
      BY <1>16, <3>1
  <2>3. ASSUME NEW j \in 1 .. Len(stack') PROVE GetFits(val', stack'[j])
    <3>0. j \in 1 .. n
      BY <1>9
    <3>1. CASE j = i
      <4>1. GetFits(val, stack[i])
        BY <1>9, <3>1 DEF IInv, AnswersInv
      <4>2. stack[i].from <= val[s]
        BY <1>5, <4>1 DEF GetFits, s
      <4> QED
        BY <1>2, <1>4, <1>7, <1>9, <3>1, <4>2 DEF GetFits
    <3>2. CASE stack'[j].at = "update"
      BY <3>2 DEF GetFits
    <3>3. CASE stack'[j] = stack[j]
      BY <1>2, <3>0, <3>3 DEF IInv, AnswersInv
    <3> QED
      BY <1>10, <3>0, <3>1, <3>2, <3>3
  <2>4. \A j, k \in 1 .. Len(toServer') :
          toServer'[j].get # 0 /\ toServer'[j].get = toServer'[k].get => j = k
    BY <1>2 DEF IInv, AnswersInv
  <2>5. ASSUME NEW j \in 1 .. Len(toClient'), NEW k \in 1 .. Len(toClient'),
               IsResult(toClient'[j]), IsResult(toClient'[k]), toClient'[j].id = toClient'[k].id
        PROVE  j = k
    <3>1. j + 1 = k + 1
      BY <1>14, <2>5 DEF IInv, AnswersInv
    <3> QED
      BY <1>14, <3>1
  <2>6. \A j \in 1 .. Len(toServer'), k \in 1 .. Len(toClient') :
          toServer'[j].get # 0 /\ IsResult(toClient'[k]) => toClient'[k].id # toServer'[j].get
    BY <1>2, <1>14 DEF IInv, AnswersInv
  <2> QED
    BY <2>1, <2>2, <2>3, <2>4, <2>5, <2>6 DEF AnswersInv
<1>18. ChainInv'
  <2>1. ASSUME NEW j \in 1 .. Len(stack'), stack'[j].at = "get"
        PROVE  \E k \in 1 .. n : stack[k].at = "get" /\ stack[k].slot = stack'[j].slot
    BY <1>5, <1>7, <1>9, <1>10, <2>1 DEF s
  <2> QED
    BY <1>2, <2>1 DEF IInv, ChainInv
<1>19. OnTheWay' = OnTheWay
  <2>1. Notices(toClient) = Notices(Tail(toClient)) \cup {}
    BY <1>1, <1>2, NoticesIs DEF m
  <2> QED
    BY <1>1, <1>2, <2>1 DEF OnTheWay, Notices
<1>20. HandlesInv'
  <2>1. Dependents' = Dependents
    BY <1>2, <1>19 DEF Dependents
  <2> QED
    BY <1>2, <2>1 DEF IInv, HandlesInv
<1>21. ToldInv'
  <2> SUFFICES ASSUME NEW p \in Private
               PROVE  /\ \A j \in 1 .. Len(chain'[Hash[p]]) :
                           ~chain'[Hash[p]][j].ood => chain'[Hash[p]][j].value \in Safe(p)'
                      /\ \A j \in 1 .. Len(stack') :
                           stack'[j].at = "get" /\ stack'[j].slot = p /\ ~stack'[j].waiting
                             => stack'[j].res \in Safe(p)'
                      /\ \A j \in 1 .. Len(toClient') :
                           IsResult(toClient'[j]) /\ stack'[toClient'[j].id].slot = p
                             => toClient'[j].v \in Safe(p)'
                      /\ \A j \in 1 .. Len(toServer') :
                           toServer'[j].get # 0 /\ toServer'[j].slot = p => toServer'[j].by = First(p)
    BY DEF ToldInv, Private, First, Handle
  <2>1. Safe(p)' = Safe(p)
    BY <1>2, <1>19 DEF Safe, First, Handle
  <2>2. ASSUME NEW j \in 1 .. Len(stack'), stack'[j].at = "get", stack'[j].slot = p, ~stack'[j].waiting
        PROVE  stack'[j].res \in Safe(p)
    <3>1. CASE j = i
      <4>1. stack'[j].res = m.v /\ s = p
        BY <1>7, <1>9, <2>2, <3>1
      <4> QED
        BY <1>1, <1>2, <4>1 DEF IInv, ToldInv, IsResult, s, i
    <3>2. CASE j # i
      BY <1>9, <1>10, <2>2, <3>2 DEF IInv, ToldInv
    <3> QED
      BY <3>1, <3>2
  <2>3. ASSUME NEW j \in 1 .. Len(toClient'), IsResult(toClient'[j]), stack'[toClient'[j].id].slot = p
        PROVE  toClient'[j].v \in Safe(p)
    BY <1>14, <1>16, <2>3 DEF IInv, ToldInv
  <2> QED
    BY <1>2, <2>1, <2>2, <2>3 DEF IInv, ToldInv
<1> QED
  BY <1>12, <1>13, <1>17, <1>18, <1>20, <1>21 DEF IInv

-----------------------------------------------------------------------------
(***************************************************************************)
(* The server.                                                             *)
(***************************************************************************)
\* addDependent leaves the dependents there were, and the new one.
LEMMA AddDependentDoes ==
  ASSUME NEW ds \in Seq(DependentSet), NEW d \in DependentSet
  PROVE  /\ AddDependent(ds, d) \in Seq(DependentSet)
         /\ ToSet(AddDependent(ds, d)) = ToSet(ds) \cup {d}
<1>1. /\ RemoveFirst(ds, d) \in Seq(DependentSet)
      /\ ToSet(RemoveFirst(ds, d)) \subseteq ToSet(ds)
      /\ ToSet(ds) \subseteq ToSet(RemoveFirst(ds, d)) \cup {d}
  BY Without
<1>2. <<d>> \in Seq(DependentSet) /\ ToSet(<<d>>) = {d}
  <2>1. <<d>> \in Seq(DependentSet) /\ Len(<<d>>) = 1 /\ <<d>>[1] = d
    OBVIOUS
  <2>2. \A x : x \in ToSet(<<d>>) <=> \E i \in 1 .. Len(<<d>>) : <<d>>[i] = x
    BY <2>1, SeqIs
  <2>3. \A i : i \in 1 .. Len(<<d>>) <=> i = 1
    BY <2>1
  <2>4. \A x : x \in ToSet(<<d>>) <=> x = d
    BY <2>1, <2>2, <2>3, Zenon
  <2> QED
    BY <2>1, <2>4
<1>3. /\ <<d>> \o RemoveFirst(ds, d) \in Seq(DependentSet)
      /\ ToSet(<<d>> \o RemoveFirst(ds, d)) = ToSet(<<d>>) \cup ToSet(RemoveFirst(ds, d))
  <2>1. PICK a \in Seq(DependentSet) : a = <<d>>
    BY <1>2
  <2>2. PICK b \in Seq(DependentSet) : b = RemoveFirst(ds, d)
    BY <1>1
  <2>3. a \o b \in Seq(DependentSet) /\ ToSet(a \o b) = ToSet(a) \cup ToSet(b)
    BY Joined
  <2> QED
    BY <2>1, <2>2, <2>3, Zenon
<1> QED
  BY <1>1, <1>2, <1>3 DEF AddDependent

\* The client's part of the state stays as it is while the server works.
LEMMA ClientStays ==
  ASSUME IInv, UNCHANGED client
  PROVE  /\ UNCHANGED <<chain, notify, register, seen, stack>>
         /\ StackInv' /\ ChainInv'
BY DEF client, IInv, StackInv, ChainInv

LEMMA ServeKeeps ==
  ASSUME IInv, Serve
  PROVE  IInv'
<1> DEFINE q == Head(toServer)
           r == Result(q.get, val[q.slot])
<1>1. /\ UNCHANGED <<val, chain, notify, register, seen, stack>>
      /\ StackInv' /\ ChainInv'
  BY ClientStays DEF Serve
<1>2. /\ toServer \in Seq(RequestSet) /\ toServer # <<>> /\ toServer' = Tail(toServer)
      /\ deps' = [deps EXCEPT ![q.slot] = AddDependent(@, q.by)]
      /\ toClient' = IF q.get = 0 THEN toClient ELSE Append(toClient, r)
  BY DEF Serve, IInv, Types
<1>3. /\ toServer' \in Seq(RequestSet) /\ q \in RequestSet /\ q = toServer[1]
      /\ Len(toServer) \in Nat \ {0} /\ Len(toServer') = Len(toServer) - 1
      /\ \A i \in 1 .. Len(toServer) - 1 : toServer'[i] = toServer[i + 1]
  BY <1>2, Taken
<1>4. 1 \in 1 .. Len(toServer) /\ \A i \in 1 .. Len(toServer') :
        i + 1 \in 1 .. Len(toServer) /\ i + 1 # 1 /\ toServer'[i] = toServer[i + 1]
  BY <1>3
<1>5. q.slot \in Slot /\ q.by \in DependentSet /\ q.get \in Nat
  BY <1>3, Requests
<1>6. /\ toClient \in Seq(DocumentSet) /\ val[q.slot] \in Nat /\ Len(toClient) \in Nat
      /\ deps \in [Slot -> Seq(DependentSet)] /\ deps[q.slot] \in Seq(DependentSet)
  BY <1>5, SeqIs DEF IInv, Types
<1> HIDE DEF q
<1>7. r \in DocumentSet /\ r.type = "RESULT" /\ r.id = q.get /\ r.v = val[q.slot]
  BY <1>5, <1>6, Documents
<1> HIDE DEF r
<1>8. /\ deps' \in [Slot -> Seq(DependentSet)]
      /\ ToSet(deps'[q.slot]) = ToSet(deps[q.slot]) \cup {q.by}
      /\ \A s \in Slot : s # q.slot => deps'[s] = deps[s]
  BY <1>2, <1>5, <1>6, AddDependentDoes
<1>9. /\ toClient' \in Seq(DocumentSet)
      /\ \A j \in 1 .. Len(toClient') :
           \/ j \in 1 .. Len(toClient) /\ toClient'[j] = toClient[j]
           \/ j = Len(toClient) + 1 /\ q.get # 0 /\ toClient'[j] = r
  BY <1>2, <1>6, <1>7, Pushed
<1>10. Types'
  BY <1>1, <1>3, <1>8, <1>9 DEF IInv, Types
<1>11. q.get # 0 => Waits(stack, q.get, q.slot)
  BY <1>3, <1>4 DEF IInv, AnswersInv, RequestFits
<1>12. \A j \in 1 .. Len(toServer') : toServer'[j].get # 0 => toServer'[j].get # q.get
  BY <1>3, <1>4 DEF IInv, AnswersInv
<1>13. \A j \in 1 .. Len(toClient) : q.get # 0 /\ IsResult(toClient[j]) => toClient[j].id # q.get
  BY <1>3, <1>4 DEF IInv, AnswersInv
<1>14. AnswersInv'
  <2>1. ASSUME NEW j \in 1 .. Len(toServer') PROVE RequestFits(stack', toServer'[j])
    BY <1>1, <1>4 DEF IInv, AnswersInv
  <2>2. ASSUME NEW j \in 1 .. Len(toClient') PROVE ResultFits(stack', val', toClient'[j])
    <3>1. CASE j \in 1 .. Len(toClient) /\ toClient'[j] = toClient[j]
      BY <1>1, <3>1 DEF IInv, AnswersInv
    <3>2. CASE q.get # 0 /\ toClient'[j] = r
      <4>1. GetFits(val, stack[q.get]) /\ stack[q.get].at = "get" /\ stack[q.get].slot = q.slot
            /\ stack[q.get] \in Frame
        BY <1>11, <3>2, SeqIs DEF IInv, AnswersInv, Waits, Types
      <4>2. stack[q.get].from <= val[q.slot] /\ stack[q.get].from \in Nat
        BY <4>1, Calls DEF GetFits
      <4>3. val[q.slot] \in stack[q.get].from .. val[q.slot]
        BY <1>6, <4>2
      <4> QED
        BY <1>1, <1>7, <1>11, <3>2, <4>1, <4>3 DEF ResultFits
    <3> QED
      BY <1>9, <3>1, <3>2
  <2>3. \A i \in 1 .. Len(stack') : GetFits(val', stack'[i])
    BY <1>1 DEF IInv, AnswersInv
  <2>4. ASSUME NEW j \in 1 .. Len(toServer'), NEW k \in 1 .. Len(toServer'),
               toServer'[j].get # 0, toServer'[j].get = toServer'[k].get
        PROVE  j = k
    <3>1. j + 1 = k + 1
      BY <1>4, <2>4 DEF IInv, AnswersInv
    <3> QED
      BY <1>3, <3>1
  <2>5. \A j, k \in 1 .. Len(toClient') :
          IsResult(toClient'[j]) /\ IsResult(toClient'[k]) /\ toClient'[j].id = toClient'[k].id => j = k
    BY <1>7, <1>9, <1>13 DEF IInv, AnswersInv
  <2>6. \A j \in 1 .. Len(toServer'), k \in 1 .. Len(toClient') :
          toServer'[j].get # 0 /\ IsResult(toClient'[k]) => toClient'[k].id # toServer'[j].get
    <3> SUFFICES ASSUME NEW j \in 1 .. Len(toServer'), NEW k \in 1 .. Len(toClient'),
                        toServer'[j].get # 0, IsResult(toClient'[k])
                 PROVE  toClient'[k].id # toServer'[j].get
      OBVIOUS
    <3>1. CASE k \in 1 .. Len(toClient) /\ toClient'[k] = toClient[k]
      <4>1. j + 1 \in 1 .. Len(toServer) /\ toServer'[j] = toServer[j + 1]
        BY <1>4
      <4> QED
        BY <3>1, <4>1 DEF IInv, AnswersInv
    <3>2. CASE q.get # 0 /\ toClient'[k] = r
      BY <1>7, <1>12, <3>2
    <3> QED
      BY <1>9, <3>1, <3>2
  <2> QED
    BY <2>1, <2>2, <2>3, <2>4, <2>5, <2>6 DEF AnswersInv
<1>15. OnTheWay' = OnTheWay
  <2>1. Notices(toClient') = Notices(toClient)
    <3>1. r.type # "NOTIFY"
      BY <1>7
    <3>2. ASSUME q.get # 0
          PROVE  Notices(Append(toClient, r))
                   = Notices(toClient) \cup (IF r.type = "NOTIFY" THEN {r.by} ELSE {})
      BY <1>6, <1>7, <3>2, NoticesIs
    <3>3. CASE q.get # 0
      BY <1>2, <3>1, <3>2, <3>3
    <3>4. CASE q.get = 0
      BY <1>2, <3>4
    <3> QED
      BY <3>3, <3>4
  <2> QED
    BY <1>1, <2>1 DEF OnTheWay, Notices
<1>16. HandlesInv'
  <2> DEFINE X == {}
  <2>1. Known(deps') = Known(deps) \cup {q.by}
    BY <1>5, <1>8 DEF Known
  <2>2. Askers(toServer) = Askers(toServer') \cup {q.by}
    BY <1>2, AskersAre DEF q
  <2>3. /\ Dependents' \subseteq Dependents \cup X
        /\ \A d \in X : Held(chain', d)
    BY <1>15, <2>1, <2>2 DEF Dependents, Known, Askers
  <2>4. \A h \in 0 .. Chains - 1 : Len(chain[h]) <= Len(chain'[h])
    <3>1. \A h \in 0 .. Chains - 1 : chain[h] \in Seq(CacheEntry)
      BY DEF IInv, Types
    <3> QED
      BY <1>1, <3>1, SeqIs
  <2>5. \A j \in 1 .. Len(register') : register'[j].by.reader
    BY <1>1 DEF IInv, HandlesInv
  <2> HIDE DEF X
  <2> QED
    BY <1>10, <2>3, <2>4, <2>5, HandlesStay DEF IInv
<1>17. ToldInv'
  <2> SUFFICES ASSUME NEW p \in Private
               PROVE  /\ \A j \in 1 .. Len(chain'[Hash[p]]) :
                           ~chain'[Hash[p]][j].ood => chain'[Hash[p]][j].value \in Safe(p)'
                      /\ \A i \in 1 .. Len(stack') :
                           stack'[i].at = "get" /\ stack'[i].slot = p /\ ~stack'[i].waiting
                             => stack'[i].res \in Safe(p)'
                      /\ \A j \in 1 .. Len(toClient') :
                           IsResult(toClient'[j]) /\ stack'[toClient'[j].id].slot = p
                             => toClient'[j].v \in Safe(p)'
                      /\ \A j \in 1 .. Len(toServer') :
                           toServer'[j].get # 0 /\ toServer'[j].slot = p => toServer'[j].by = First(p)
    BY DEF ToldInv, Private, First, Handle
  <2>1. p \in Slot
    BY DEF Private
  <2>2. Safe(p) \subseteq Safe(p)'
    <3>1. ToSet(deps[p]) \subseteq ToSet(deps'[p])
      BY <1>8, <2>1
    <3> QED
      BY <1>1, <1>15, <3>1 DEF Safe, First, Handle
  <2>3. /\ \A j \in 1 .. Len(chain'[Hash[p]]) :
             ~chain'[Hash[p]][j].ood => chain'[Hash[p]][j].value \in Safe(p)'
        /\ \A i \in 1 .. Len(stack') :
             stack'[i].at = "get" /\ stack'[i].slot = p /\ ~stack'[i].waiting
               => stack'[i].res \in Safe(p)'
    BY <1>1, <2>2 DEF IInv, ToldInv
  <2>4. ASSUME NEW j \in 1 .. Len(toClient'), IsResult(toClient'[j]), stack'[toClient'[j].id].slot = p
        PROVE  toClient'[j].v \in Safe(p)'
    <3>1. CASE j \in 1 .. Len(toClient) /\ toClient'[j] = toClient[j]
      BY <1>1, <2>2, <2>4, <3>1 DEF IInv, ToldInv
    <3>2. CASE q.get # 0 /\ toClient'[j] = r
      <4>1. q.slot = p
        BY <1>1, <1>7, <1>11, <2>4, <3>2 DEF Waits
      <4>2. q.by = First(p)
        BY <1>3, <1>4, <3>2, <4>1 DEF IInv, ToldInv
      <4>3. First(p) \in ToSet(deps'[p]) /\ val'[p] = val[q.slot]
        BY <1>1, <1>8, <4>1, <4>2
      <4> QED
        BY <1>6, <1>7, <3>2, <4>3 DEF Safe, First, Handle
    <3> QED
      BY <1>9, <3>1, <3>2
  <2>5. \A j \in 1 .. Len(toServer') :
          toServer'[j].get # 0 /\ toServer'[j].slot = p => toServer'[j].by = First(p)
    BY <1>4 DEF IInv, ToldInv
  <2> QED
    BY <2>3, <2>4, <2>5
<1> QED
  BY <1>1, <1>10, <1>14, <1>16, <1>17 DEF IInv

LEMMA ChangeKeeps ==
  ASSUME IInv, NEW s \in Slot, Change(s)
  PROVE  IInv'
<1> DEFINE N == [i \in DOMAIN deps[s] |-> Notification(deps[s][i])]
<1>1. /\ UNCHANGED <<toServer, chain, notify, register, seen, stack>>
      /\ StackInv' /\ ChainInv'
  BY ClientStays DEF Change
<1>2. /\ val' = [val EXCEPT ![s] = @ + 1]
      /\ deps' = [deps EXCEPT ![s] = <<>>]
      /\ toClient' = toClient \o N
  BY DEF Change
<1>3. /\ val \in [Slot -> Nat] /\ deps \in [Slot -> Seq(DependentSet)]
      /\ toClient \in Seq(DocumentSet) /\ deps[s] \in Seq(DependentSet)
  BY DEF IInv, Types
<1>4. /\ \A i \in 1 .. Len(deps[s]) : deps[s][i] \in DependentSet
      /\ DOMAIN deps[s] = 1 .. Len(deps[s]) /\ Len(deps[s]) \in Nat
      /\ \A d : d \in ToSet(deps[s]) <=> \E i \in 1 .. Len(deps[s]) : deps[s][i] = d
  BY <1>3, SeqIs
<1>5. N \in Seq(DocumentSet) /\ Len(N) = Len(deps[s])
  <2>1. \A i \in 1 .. Len(deps[s]) : Notification(deps[s][i]) \in DocumentSet
    BY <1>4, Documents
  <2> QED
    BY <1>4, <2>1
<1>6. \A i \in 1 .. Len(N) : N[i].type = "NOTIFY" /\ N[i].by = deps[s][i]
  BY <1>4, <1>5, Documents
<1> HIDE DEF N
<1>7. Notices(N) = ToSet(deps[s])
  <2>1. \A x : x \in ToSet(N) <=> \E i \in 1 .. Len(N) : N[i] = x
    BY <1>5, SeqIs
  <2>2. ASSUME NEW d PROVE d \in Notices(N) <=> d \in ToSet(deps[s])
    <3>1. ASSUME d \in Notices(N) PROVE d \in ToSet(deps[s])
      <4>1. PICK x \in ToSet(N) : x.by = d
        BY <3>1 DEF Notices
      <4>2. PICK i \in 1 .. Len(N) : N[i] = x
        BY <2>1, <4>1
      <4> QED
        BY <1>4, <1>5, <1>6, <4>1, <4>2
    <3>2. ASSUME d \in ToSet(deps[s]) PROVE d \in Notices(N)
      <4>1. PICK i \in 1 .. Len(N) : deps[s][i] = d
        BY <1>4, <1>5, <3>2
      <4>2. N[i] \in ToSet(N) /\ N[i].type = "NOTIFY" /\ N[i].by = d
        BY <1>6, <2>1, <4>1
      <4> QED
        BY <4>2 DEF Notices
    <3> QED
      BY <3>1, <3>2
  <2> QED
    BY <2>2
<1>8. /\ toClient' \in Seq(DocumentSet)
      /\ Notices(toClient') = Notices(toClient) \cup ToSet(deps[s])
  BY <1>2, <1>3, <1>5, <1>7, Joined, NoticesIs
<1>9. \A j \in 1 .. Len(toClient') :
        \/ j \in 1 .. Len(toClient) /\ toClient'[j] = toClient[j]
        \/ toClient'[j].type = "NOTIFY"
  <2>1. /\ Len(toClient') = Len(toClient) + Len(N) /\ Len(toClient) \in Nat /\ Len(N) \in Nat
        /\ \A i \in 1 .. Len(toClient) : toClient'[i] = toClient[i]
        /\ \A i \in 1 .. Len(N) : toClient'[Len(toClient) + i] = N[i]
    <3>1. /\ Len(toClient \o N) = Len(toClient) + Len(N)
          /\ \A i \in 1 .. Len(toClient) : (toClient \o N)[i] = toClient[i]
          /\ \A i \in 1 .. Len(N) : (toClient \o N)[Len(toClient) + i] = N[i]
      <4>1. toClient \in Seq(DocumentSet) /\ N \in Seq(DocumentSet)
        BY <1>3, <1>5
      <4>2. Len(toClient \o N) = Len(toClient) + Len(N)
        BY <4>1, Joined
      <4>3. ASSUME NEW i \in 1 .. Len(toClient) PROVE (toClient \o N)[i] = toClient[i]
        BY <4>1, Joined
      <4>4. ASSUME NEW i \in 1 .. Len(N) PROVE (toClient \o N)[Len(toClient) + i] = N[i]
        BY <4>1, Joined
      <4> QED
        BY <4>2, <4>3, <4>4, Zenon
    <3>2. Len(toClient) \in Nat /\ Len(N) \in Nat
      BY <1>3, <1>5, SeqIs
    <3>3. toClient' = toClient \o N
      BY <1>2
    <3> QED
      BY <3>1, <3>2, <3>3
  <2> SUFFICES ASSUME NEW j \in 1 .. Len(toClient'), j \notin 1 .. Len(toClient)
               PROVE  toClient'[j].type = "NOTIFY"
    BY <2>1
  <2>2. j - Len(toClient) \in 1 .. Len(N) /\ Len(toClient) + (j - Len(toClient)) = j
    BY <2>1
  <2>3. toClient'[j] = N[j - Len(toClient)]
    BY <2>1, <2>2
  <2> QED
    BY <1>6, <2>2, <2>3
<1>10. /\ val' \in [Slot -> Nat] /\ \A t \in Slot : val[t] \in Nat /\ val'[t] \in Nat /\ val[t] <= val'[t]
       /\ \A t \in Slot : t # s => val'[t] = val[t]
  BY <1>2, <1>3
<1>11. /\ deps' \in [Slot -> Seq(DependentSet)] /\ deps'[s] = <<>>
       /\ \A t \in Slot : t # s => deps'[t] = deps[t]
  BY <1>2, <1>3, EmptySeq
<1>12. Types'
  BY <1>1, <1>8, <1>10, <1>11 DEF IInv, Types
<1>13. \A i \in 1 .. Len(stack) : stack[i].at = "get" => stack[i].slot \in Slot /\ stack[i].from \in Nat
  BY SeqIs, Calls DEF IInv, Types
<1>14. AnswersInv'
  <2>1. \A j \in 1 .. Len(toServer') : RequestFits(stack', toServer'[j])
    BY <1>1 DEF IInv, AnswersInv
  <2>2. ASSUME NEW j \in 1 .. Len(toClient') PROVE ResultFits(stack', val', toClient'[j])
    <3>1. CASE toClient'[j].type = "NOTIFY"
      BY <3>1 DEF ResultFits, IsResult
    <3>2. CASE j \in 1 .. Len(toClient) /\ toClient'[j] = toClient[j] /\ IsResult(toClient[j])
      <4> DEFINE k == toClient[j].id
      <4>1. Waits(stack, k, stack[k].slot) /\ toClient[j].v \in stack[k].from .. val[stack[k].slot]
        BY <3>2 DEF IInv, AnswersInv, ResultFits
      <4>2. stack[k].slot \in Slot /\ stack[k].from \in Nat
        BY <1>13, <4>1 DEF Waits
      <4>3. toClient[j].v \in stack[k].from .. val'[stack[k].slot]
        BY <1>10, <4>1, <4>2
      <4> QED
        BY <1>1, <3>2, <4>1, <4>3 DEF ResultFits
    <3> QED
      BY <1>9, <3>1, <3>2 DEF ResultFits
  <2>3. ASSUME NEW i \in 1 .. Len(stack') PROVE GetFits(val', stack'[i])
    <3> SUFFICES ASSUME stack[i].at = "get"
                 PROVE  /\ stack[i].from <= val'[stack[i].slot]
                        /\ ~stack[i].waiting => stack[i].res \in stack[i].from .. val'[stack[i].slot]
      BY <1>1 DEF GetFits
    <3>1. GetFits(val, stack[i]) /\ stack[i].slot \in Slot /\ stack[i].from \in Nat
      BY <1>1, <1>13 DEF IInv, AnswersInv
    <3> QED
      BY <1>10, <3>1 DEF GetFits
  <2>4. /\ \A j, k \in 1 .. Len(toServer') :
             toServer'[j].get # 0 /\ toServer'[j].get = toServer'[k].get => j = k
        /\ \A j, k \in 1 .. Len(toClient') :
             IsResult(toClient'[j]) /\ IsResult(toClient'[k]) /\ toClient'[j].id = toClient'[k].id => j = k
        /\ \A j \in 1 .. Len(toServer'), k \in 1 .. Len(toClient') :
             toServer'[j].get # 0 /\ IsResult(toClient'[k]) => toClient'[k].id # toServer'[j].get
    BY <1>1, <1>9 DEF IInv, AnswersInv, IsResult
  <2> QED
    BY <2>1, <2>2, <2>3, <2>4 DEF AnswersInv
<1>15. OnTheWay' = OnTheWay \cup ToSet(deps[s])
  BY <1>1, <1>8 DEF OnTheWay, Notices
<1>16. HandlesInv'
  <2> DEFINE X == {}
  <2>1. ToSet(deps[s]) \subseteq Known(deps)
    BY Zenon DEF Known
  <2>2. Known(deps') \subseteq Known(deps)
    <3>1. ToSet(deps'[s]) = {}
      BY <1>11 DEF ToSet
    <3> QED
      BY <1>11, <3>1 DEF Known
  <2>3. /\ Dependents' \subseteq Dependents \cup X
        /\ \A d \in X : Held(chain', d)
    BY <1>1, <1>15, <2>1, <2>2 DEF Dependents, Known
  <2>4. \A h \in 0 .. Chains - 1 : Len(chain[h]) <= Len(chain'[h])
    <3>1. \A h \in 0 .. Chains - 1 : chain[h] \in Seq(CacheEntry)
      BY DEF IInv, Types
    <3> QED
      BY <1>1, <3>1, SeqIs
  <2>5. \A j \in 1 .. Len(register') : register'[j].by.reader
    BY <1>1 DEF IInv, HandlesInv
  <2> HIDE DEF X
  <2> QED
    BY <1>12, <2>3, <2>4, <2>5, HandlesStay DEF IInv
<1>17. ToldInv'
  <2> SUFFICES ASSUME NEW p \in Private
               PROVE  /\ \A j \in 1 .. Len(chain'[Hash[p]]) :
                           ~chain'[Hash[p]][j].ood => chain'[Hash[p]][j].value \in Safe(p)'
                      /\ \A i \in 1 .. Len(stack') :
                           stack'[i].at = "get" /\ stack'[i].slot = p /\ ~stack'[i].waiting
                             => stack'[i].res \in Safe(p)'
                      /\ \A j \in 1 .. Len(toClient') :
                           IsResult(toClient'[j]) /\ stack'[toClient'[j].id].slot = p
                             => toClient'[j].v \in Safe(p)'
                      /\ \A j \in 1 .. Len(toServer') :
                           toServer'[j].get # 0 /\ toServer'[j].slot = p => toServer'[j].by = First(p)
    BY DEF ToldInv, Private, First, Handle
  <2>1. p \in Slot
    BY DEF Private
  <2>2. Safe(p) \subseteq Safe(p)'
    <3>1. CASE p = s
      BY <1>15, <3>1 DEF Safe, First, Handle
    <3>2. CASE p # s
      BY <1>10, <1>11, <1>15, <2>1, <3>2 DEF Safe, First, Handle
    <3> QED
      BY <3>1, <3>2
  <2>3. /\ \A j \in 1 .. Len(chain'[Hash[p]]) :
             ~chain'[Hash[p]][j].ood => chain'[Hash[p]][j].value \in Safe(p)'
        /\ \A i \in 1 .. Len(stack') :
             stack'[i].at = "get" /\ stack'[i].slot = p /\ ~stack'[i].waiting
               => stack'[i].res \in Safe(p)'
    BY <1>1, <2>2 DEF IInv, ToldInv
  <2>4. \A j \in 1 .. Len(toClient') :
          IsResult(toClient'[j]) /\ stack'[toClient'[j].id].slot = p => toClient'[j].v \in Safe(p)'
    BY <1>1, <1>9, <2>2 DEF IInv, ToldInv, IsResult
  <2>5. \A j \in 1 .. Len(toServer') :
          toServer'[j].get # 0 /\ toServer'[j].slot = p => toServer'[j].by = First(p)
    BY <1>1 DEF IInv, ToldInv
  <2> QED
    BY <2>3, <2>4, <2>5
<1> QED
  BY <1>1, <1>12, <1>14, <1>16, <1>17 DEF IInv

-----------------------------------------------------------------------------
(***************************************************************************)
(* The theorems.                                                           *)
(***************************************************************************)
LEMMA InitHolds == Init => IInv
<1> SUFFICES ASSUME Init PROVE IInv
  OBVIOUS
<1>1. /\ val = [s \in Slot |-> 0] /\ deps = [s \in Slot |-> <<>>]
      /\ toServer = <<>> /\ toClient = <<>> /\ chain = [h \in 0 .. Chains - 1 |-> <<>>]
      /\ notify = <<>> /\ register = <<>> /\ seen = [r \in Reader |-> None] /\ stack = <<>>
  BY DEF Init
<1>2. Types
  <2>1. /\ <<>> \in Seq(DependentSet) /\ <<>> \in Seq(RequestSet) /\ <<>> \in Seq(DocumentSet)
        /\ <<>> \in Seq(CacheEntry) /\ <<>> \in Seq(RegisterSet) /\ <<>> \in Seq(Frame)
    OBVIOUS
  <2> QED
    BY <1>1, <2>1 DEF Types
<1>3. \A i : i \notin 1 .. Len(<<>>)
  OBVIOUS
<1>4. StackInv
  BY <1>1, <1>3 DEF StackInv, Nested
<1>5. AnswersInv
  BY <1>1, <1>3 DEF AnswersInv
<1>6. ChainInv
  BY <1>1, <1>3 DEF ChainInv, ChainFits
<1>7. HandlesInv
  <2>1. ToSet(<<>>) = {}
    BY <1>3 DEF ToSet
  <2>2. Dependents = {}
    BY <1>1, <2>1 DEF Dependents, OnTheWay
  <2> QED
    BY <1>1, <1>3, <2>2 DEF HandlesInv
<1>8. ToldInv
  <2>1. \A s \in Private : Hash[s] \in 0 .. Chains - 1
    BY Constants DEF Private
  <2> QED
    BY <1>1, <1>3, <2>1 DEF ToldInv
<1> QED
  BY <1>2, <1>4, <1>5, <1>6, <1>7, <1>8 DEF IInv

LEMMA NextKeeps == IInv /\ [Next]_vars => IInv'
<1> SUFFICES ASSUME IInv, [Next]_vars PROVE IInv'
  OBVIOUS
<1>1. CASE GetReturn
  BY <1>1, GetReturnKeeps
<1>2. CASE Invalidate
  BY <1>2, InvalidateKeeps
<1>3. CASE EvalCached
  BY <1>3, EvalCachedKeeps
<1>4. CASE EvalGets
  BY <1>4, EvalGetsKeeps
<1>5. CASE Register
  BY <1>5, RegisterKeeps
<1>6. CASE NextPhase
  BY <1>6, NextPhaseKeeps
<1>7. CASE ReceiveResult
  BY <1>7, ReceiveResultKeeps
<1>8. CASE ReceiveNotify
  BY <1>8, ReceiveNotifyKeeps
<1>9. CASE UpdateReturn
  BY <1>9, UpdateReturnKeeps
<1>10. CASE MainUpdate
  BY <1>10, MainUpdateKeeps
<1>11. CASE Serve
  BY <1>11, ServeKeeps
<1>12. ASSUME NEW s \in MainReads, MainGet(s) PROVE IInv'
  BY <1>12, MainGetKeeps
<1>13. ASSUME NEW r \in Reader, MainDefine(r) PROVE IInv'
  BY <1>13, MainDefineKeeps
<1>14. ASSUME NEW s \in Slot, Change(s) PROVE IInv'
  BY <1>14, ChangeKeeps
<1>15. CASE UNCHANGED vars
  <2>1. UNCHANGED <<val, deps, toServer, toClient, chain, notify, register, seen, stack>>
    BY <1>15 DEF vars, server, client
  <2>2. OnTheWay' = OnTheWay /\ Dependents' = Dependents
    BY <2>1 DEF OnTheWay, Dependents
  <2>3. Types' /\ StackInv' /\ AnswersInv' /\ ChainInv' /\ HandlesInv'
    BY <2>1, <2>2 DEF IInv, Types, StackInv, AnswersInv, ChainInv, HandlesInv
  <2>4. ToldInv'
    <3>1. \A s : Safe(s)' = Safe(s)
      BY <2>1, <2>2 DEF Safe, First, Handle
    <3> QED
      BY <2>1, <3>1 DEF IInv, ToldInv, Private, First, Handle
  <2> QED
    BY <2>3, <2>4 DEF IInv
<1> QED
  BY <1>1, <1>2, <1>3, <1>4, <1>5, <1>6, <1>7, <1>8, <1>9, <1>10, <1>11, <1>12, <1>13, <1>14, <1>15
     DEF Next, Machine

\* The strengthening holds of every state.
THEOREM Inductive == Spec => []IInv
BY InitHolds, NextKeeps, PTL DEF Spec

\* The server, the cache, the connection and the client's calls hold what they are
\* declared to hold: an answer is for a call that is in progress, and no instant
\* starts inside another (XNetConnection::update, Processor::send).
THEOREM TypeCorrect == Spec => []TypeOK
<1>1. IInv => TypeOK
  <2> SUFFICES ASSUME IInv PROVE TypeOK
    OBVIOUS
  <2>1. Types /\ Nested(stack) /\ stack \in Seq(Frame) /\ DOMAIN stack = 1 .. Len(stack)
    BY SeqIs DEF IInv, StackInv, Types
  <2>2. toClient \in Seq([type : {"RESULT"}, id : DOMAIN stack, v : Nat]
                           \cup [type : {"NOTIFY"}, by : DependentSet])
    <3> DEFINE D == [type : {"RESULT"}, id : DOMAIN stack, v : Nat]
                      \cup [type : {"NOTIFY"}, by : DependentSet]
    <3>1. toClient \in Seq(DocumentSet)
      BY <2>1 DEF Types
    <3>2. ASSUME NEW j \in 1 .. Len(toClient) PROVE toClient[j] \in D
      <4>1. toClient[j] \in DocumentSet
        BY <3>1, SeqIs
      <4>2. IsResult(toClient[j]) => toClient[j].id \in DOMAIN stack
        BY <2>1 DEF IInv, AnswersInv, ResultFits, Waits
      <4> QED
        BY <4>1, <4>2 DEF DocumentSet, IsResult
    <3> HIDE DEF D
    <3>3. toClient \in Seq(D)
      BY <3>1, <3>2
    <3> QED
      BY <3>3 DEF D
  <2>3. \A i, j \in DOMAIN stack : stack[i].at = "instant" /\ stack[j].at = "instant" => i = j
    BY <2>1 DEF Nested
  <2> QED
    BY <2>1, <2>2, <2>3 DEF Types, TypeOK, RequestSet, CacheEntry, RegisterSet
<1> QED
  BY <1>1, Inductive, PTL

\* Whatever the number of attributes, chains and readers, every handle the server
\* holds or sends names an entry of the cache (XNetCache::handle).
THEOREM HandlesCorrect == Spec => []HandlesNameEntries
<1>1. IInv => HandlesNameEntries
  <2> SUFFICES ASSUME IInv, NEW d \in Dependents, ~d.reader
               PROVE  /\ HandleChain(d) \in DOMAIN chain
                      /\ HandleIndex(d) \in DOMAIN chain[HandleChain(d)]
    BY DEF HandlesNameEntries
  <2>1. HandleChain(d) \in 0 .. Chains - 1 /\ HandleIndex(d) \in 1 .. Len(chain[HandleChain(d)])
    BY DEF IInv, HandlesInv, Held
  <2>2. chain \in [0 .. Chains - 1 -> Seq(CacheEntry)]
    BY DEF IInv, Types
  <2> QED
    BY <2>1, <2>2
<1> QED
  BY <1>1, Inductive, PTL

\* However deep gets nest, each returns a value that its attribute had while it
\* waited (XNetProtocol::onResult, wait, getResult).
THEOREM AnswersCorrect == Spec => []AnswersAreFresh
<1>1. IInv => AnswersAreFresh
  <2> SUFFICES ASSUME IInv PROVE AnswersAreFresh
    OBVIOUS
  <2>1. DOMAIN stack = 1 .. Len(stack)
    BY SeqIs DEF IInv, Types
  <2> QED
    BY <2>1 DEF IInv, AnswersInv, GetFits, AnswersAreFresh
<1> QED
  BY <1>1, Inductive, PTL

\* A cache entry of an attribute that has a chain to itself and that only handlers
\* read is never out of date without a NOTIFY for it on its way (XNetCache::get,
\* handle).
THEOREM StaleCorrect == Spec => []StaleIsNotified
<1>1. IInv => StaleIsNotified
  <2> SUFFICES ASSUME IInv, NEW s \in Private,
                      Position(chain[Hash[s]], s) # 0,
                      ~chain[Hash[s]][Position(chain[Hash[s]], s)].ood,
                      chain[Hash[s]][Position(chain[Hash[s]], s)].value # val[s]
               PROVE  Handle(Hash[s], Position(chain[Hash[s]], s) - 1) \in OnTheWay
    BY DEF StaleIsNotified
  <2> DEFINE i == Position(chain[Hash[s]], s)
  <2>1. chain[Hash[s]] \in Seq(CacheEntry)
    BY Constants DEF IInv, Types, Private
  <2>2. i \in 1 .. Len(chain[Hash[s]])
    BY <2>1, Positions, SeqIs
  <2>3. i = 1
    BY <2>2, PrivateIs DEF IInv
  <2>4. chain[Hash[s]][i].value \in Safe(s)
    BY <2>2 DEF IInv, ToldInv
  <2>5. First(s) \in OnTheWay
    BY <2>4 DEF Safe
  <2>6. i - 1 = 0
    BY <2>3
  <2> QED
    BY <2>5, <2>6 DEF First
<1> QED
  BY <1>1, Inductive, PTL

=============================================================================
