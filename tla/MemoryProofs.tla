---------------------------- MODULE MemoryProofs ----------------------------
(***************************************************************************)
(* Proofs about the two tables the program allocates from itself: the pool *)
(* of events (EventPool), for every size and every set of holders, and the *)
(* table of buffers with the calls that hold them (Objects), for every set *)
(* of objects, number of elements, size of the table, growth of the key    *)
(* lists and number of events.                                             *)
(***************************************************************************)
EXTENDS EventPool, Objects, SequenceTheorems, FiniteSetTheorems, WellFoundedInduction, TLAPS

-----------------------------------------------------------------------------
(***************************************************************************)
(* The pool of events.                                                     *)
(***************************************************************************)
\* The free cells point to different events, none of which is in use.
FreeIsFree ==
  /\ \A i, j \in Cell : i >= ppos /\ j >= ppos /\ i # j => pool[i] # pool[j]
  /\ \A i \in Cell : i >= ppos =>
       pool[i] \notin leaked /\ \A h \in Holder : pool[i] # held[h]

\* Nothing points to a leaked event.
LeakedIsLost == \A h \in Holder : held[h] \notin leaked

\* A pool without an allocated cell has every event: its cells are as many, and all point
\* to different ones.
LEMMA FullPoolHasAll ==
  ASSUME pool \in [Cell -> Event], \A i, j \in Cell : i # j => pool[i] # pool[j]
  PROVE  \A e \in Event : \E i \in Cell : pool[i] = e
<1>1. Cell = 0 .. PoolSize - 1 /\ Event = Cell /\ 0 \in Int /\ PoolSize - 1 \in Int
  BY PoolSizeAssumption DEF Cell, Event
<1>2. IsFiniteSet(Cell)
  BY <1>1, FS_Interval
<1>3. pool \in Injection(Cell, Event)
  BY DEF Injection, IsInjective
<1>4. pool \in Surjection(Cell, Event)
  BY <1>1, <1>2, <1>3, FS_Injection
<1> QED
  BY <1>4 DEF Surjection

\* Until the pool overflows nobody shares an event: the events of the holders, the free
\* ones and the leaked ones all differ.
PoolInv == PoolTypeOK /\ (~overflowed => NoAlias /\ FreeIsFree /\ LeakedIsLost)

\* Allocation keeps the invariant: the event it takes is free until then.
LEMMA NewKeeps ==
  ASSUME PoolInv, NEW h \in Holder, New(h)
  PROVE  PoolInv'
<1> USE PoolSizeAssumption, NoneAssumption DEF Cell, Event
<1>1. PoolTypeOK'
  <2>1. /\ pool \in [Cell -> Event] /\ ppos \in Cell /\ pool[ppos] \in Event
        /\ held \in [Holder -> Event \cup {None}]
    BY DEF PoolInv, PoolTypeOK
  <2>2. pool' \in [Cell -> Event] /\ leaked' \subseteq Event /\ overflowed' \in BOOLEAN
    BY DEF PoolInv, PoolTypeOK, New
  <2>3. ppos' \in Cell
    BY <2>1 DEF New
  <2>4. held' \in [Holder -> Event \cup {None}]
    BY <2>1 DEF New
  <2> QED
    BY <2>2, <2>3, <2>4 DEF PoolTypeOK
<1>2. ASSUME ~overflowed'
      PROVE  NoAlias' /\ FreeIsFree' /\ LeakedIsLost'
  <2>1. /\ ~overflowed /\ ppos < PoolSize - 1 /\ ppos' = ppos + 1
        /\ ppos \in Cell /\ pool' = pool /\ leaked' = leaked
    BY <1>2 DEF PoolInv, PoolTypeOK, New
  <2>2. held' = [held EXCEPT ![h] = pool[ppos]] /\ held \in [Holder -> Event \cup {None}]
    BY DEF PoolInv, PoolTypeOK, New
  <2>3. NoAlias /\ FreeIsFree /\ LeakedIsLost
    BY <2>1 DEF PoolInv
  <2>4. \A g \in Holder : held[g] # pool[ppos]
    BY <2>1, <2>3 DEF FreeIsFree
  <2>5. pool[ppos] \notin leaked
    BY <2>1, <2>3 DEF FreeIsFree
  <2>6. NoAlias'
    BY <2>2, <2>3, <2>4 DEF NoAlias
  <2>7. LeakedIsLost'
    BY <2>1, <2>2, <2>3, <2>5 DEF LeakedIsLost
  <2>8. ASSUME NEW i \in Cell, i >= ppos'
        PROVE  i >= ppos /\ pool[i] # pool[ppos]
    BY <2>1, <2>3, <2>8 DEF FreeIsFree
  <2>9. \A i \in Cell : i >= ppos' =>
          pool[i] \notin leaked /\ \A g \in Holder : pool[i] # held'[g]
    BY <2>2, <2>3, <2>8 DEF FreeIsFree
  <2>10. \A i, j \in Cell : i >= ppos' /\ j >= ppos' /\ i # j => pool[i] # pool[j]
    BY <2>3, <2>8 DEF FreeIsFree
  <2> QED
    BY <2>1, <2>6, <2>7, <2>9, <2>10 DEF FreeIsFree
<1> QED
  BY <1>1, <1>2 DEF PoolInv

\* Deletion keeps the invariant: the event it puts back is in nobody else's use.
LEMMA DeleteKeeps ==
  ASSUME PoolInv, NEW h \in Holder, Delete(h)
  PROVE  PoolInv'
<1> USE PoolSizeAssumption, NoneAssumption DEF Cell, Event
<1>1. /\ held[h] # None /\ held' = [held EXCEPT ![h] = None]
      /\ leaked' = leaked /\ overflowed' = overflowed
      /\ held \in [Holder -> Event \cup {None}] /\ pool \in [Cell -> Event] /\ ppos \in Cell
  BY DEF PoolInv, PoolTypeOK, Delete
<1>2. held[h] \in Event
  BY <1>1
<1>3. PoolTypeOK'
  <2>1. CASE ppos = 0
    BY <2>1, <1>1 DEF PoolInv, PoolTypeOK, Delete
  <2>2. CASE ppos # 0
    <3>1. pool' = [pool EXCEPT ![ppos - 1] = held[h]] /\ ppos' = ppos - 1 /\ ppos - 1 \in Cell
      BY <2>2, <1>1 DEF Delete
    <3>2. pool' \in [Cell -> Event]
      BY <3>1, <1>1, <1>2
    <3>3. held' \in [Holder -> Event \cup {None}]
      BY <1>1
    <3>4. leaked' \subseteq Event /\ overflowed' \in BOOLEAN
      BY <1>1 DEF PoolInv, PoolTypeOK
    <3> QED
      BY <3>1, <3>2, <3>3, <3>4 DEF PoolTypeOK
  <2> QED
    BY <2>1, <2>2
<1>4. ASSUME ~overflowed'
      PROVE  NoAlias' /\ FreeIsFree' /\ LeakedIsLost'
  <2>1. NoAlias /\ FreeIsFree /\ LeakedIsLost
    BY <1>1, <1>4 DEF PoolInv
  <2>2. None \notin leaked
    BY DEF PoolInv, PoolTypeOK
  <2>3. NoAlias' /\ LeakedIsLost'
    BY <1>1, <2>1, <2>2 DEF NoAlias, LeakedIsLost
  <2>4. \A i \in Cell : pool[i] # None
    BY <1>1
  <2>5. CASE ppos = 0
    <3>1. ppos' = ppos /\ pool' = pool
      BY <2>5 DEF Delete
    <3> QED
      BY <3>1, <1>1, <2>1, <2>3, <2>4 DEF FreeIsFree
  <2>6. CASE ppos # 0
    <3>1. ppos' = ppos - 1 /\ pool' = [pool EXCEPT ![ppos - 1] = held[h]] /\ ppos - 1 \in Cell
      BY <2>6, <1>1 DEF Delete
    <3>2. ASSUME NEW i \in Cell, i >= ppos', i # ppos - 1
          PROVE  i >= ppos /\ pool'[i] = pool[i] /\ pool[i] # held[h]
      BY <3>1, <3>2, <1>1, <2>1 DEF FreeIsFree
    <3>3. pool'[ppos - 1] = held[h]
      BY <3>1, <1>1
    <3>4. ASSUME NEW i \in Cell, i >= ppos'
          PROVE  pool'[i] \notin leaked /\ \A g \in Holder : pool'[i] # held'[g]
      <4>1. CASE i = ppos - 1
        BY <4>1, <3>3, <1>1, <1>2, <2>1 DEF NoAlias, LeakedIsLost
      <4>2. CASE i # ppos - 1
        BY <4>2, <3>2, <3>4, <1>1, <2>1, <2>4 DEF FreeIsFree
      <4> QED
        BY <4>1, <4>2
    <3>5. ASSUME NEW i \in Cell, NEW j \in Cell, i >= ppos', j >= ppos', i # j
          PROVE  pool'[i] # pool'[j]
      <4>1. CASE i = ppos - 1
        BY <4>1, <3>2, <3>3, <3>5
      <4>2. CASE j = ppos - 1
        BY <4>2, <3>2, <3>3, <3>5
      <4>3. CASE i # ppos - 1 /\ j # ppos - 1
        BY <4>3, <3>2, <3>5, <2>1 DEF FreeIsFree
      <4> QED
        BY <4>1, <4>2, <4>3
    <3> QED
      BY <3>4, <3>5, <1>1, <2>3 DEF FreeIsFree
  <2> QED
    BY <2>5, <2>6
<1> QED
  BY <1>3, <1>4 DEF PoolInv

\* A lost event was in one holder's use and now is in nobody's.
LEMMA LoseKeeps ==
  ASSUME PoolInv, NEW h \in Holder, Lose(h)
  PROVE  PoolInv'
<1> USE PoolSizeAssumption, NoneAssumption DEF Cell, Event
<1>1. /\ held[h] # None /\ held' = [held EXCEPT ![h] = None]
      /\ leaked' = leaked \cup {held[h]}
      /\ pool' = pool /\ ppos' = ppos /\ overflowed' = overflowed
      /\ held \in [Holder -> Event \cup {None}] /\ pool \in [Cell -> Event]
      /\ None \notin leaked
  BY DEF PoolInv, PoolTypeOK, Lose
<1>2. PoolTypeOK'
  BY <1>1 DEF PoolInv, PoolTypeOK
<1>3. ASSUME ~overflowed'
      PROVE  NoAlias' /\ FreeIsFree' /\ LeakedIsLost'
  <2>1. NoAlias /\ FreeIsFree /\ LeakedIsLost
    BY <1>1, <1>3 DEF PoolInv
  <2>2. NoAlias'
    BY <1>1, <2>1 DEF NoAlias
  <2>3. LeakedIsLost'
    BY <1>1, <2>1 DEF NoAlias, LeakedIsLost
  <2>4. \A i \in Cell : i >= ppos =>
          pool[i] \notin leaked' /\ \A g \in Holder : pool[i] # held'[g]
    BY <1>1, <2>1 DEF FreeIsFree
  <2> QED
    BY <1>1, <2>1, <2>2, <2>3, <2>4 DEF FreeIsFree
<1> QED
  BY <1>2, <1>3 DEF PoolInv

\* The invariant holds in every reachable state.
THEOREM PoolInductive == PoolSpec => []PoolInv
<1>1. PoolInit => PoolInv
  <2>1. PoolInit => PoolTypeOK
    <3>1. PoolInit => pool \in [Cell -> Event] /\ ppos \in Cell
      BY PoolSizeAssumption DEF PoolInit, Cell, Event
    <3>2. PoolInit => /\ held \in [Holder -> Event \cup {None}]
                  /\ leaked \subseteq Event /\ overflowed \in BOOLEAN
      BY DEF PoolInit
    <3> QED
      BY <3>1, <3>2 DEF PoolTypeOK
  <2>2. PoolInit => NoAlias /\ LeakedIsLost
    BY DEF PoolInit, NoAlias, LeakedIsLost
  <2>3. PoolInit => FreeIsFree
    BY NoneAssumption DEF PoolInit, FreeIsFree, Cell, Event
  <2> QED
    BY <2>1, <2>2, <2>3 DEF PoolInv
<1>2. PoolInv /\ [PoolNext]_poolVars => PoolInv'
  <2>1. ASSUME PoolInv, PoolNext
        PROVE  PoolInv'
    BY <2>1, NewKeeps, DeleteKeeps, LoseKeeps DEF PoolNext
  <2>2. ASSUME PoolInv, UNCHANGED poolVars
        PROVE  PoolInv'
    BY <2>2 DEF poolVars, PoolInv, PoolTypeOK, NoAlias, FreeIsFree, LeakedIsLost
  <2> QED
    BY <2>1, <2>2
<1> QED
  BY <1>1, <1>2, PTL DEF PoolSpec

\* Whatever is allocated and deleted, even after an overflow, s_ppos stays inside
\* the pool and the cells point to events of the block.
THEOREM PoolTypeCorrect == PoolSpec => []PoolTypeOK
<1>1. PoolInv => PoolTypeOK
  BY DEF PoolInv
<1> QED
  BY <1>1, PoolInductive, PTL

\* Until the first allocation that finds no event free, no event is given to two
\* owners: the queues and the handlers never write into each other's events.
THEOREM EventsHaveOneOwner == PoolSpec => []NoAliasUntilOverflow
<1>1. PoolInv => NoAliasUntilOverflow
  BY DEF PoolInv, NoAliasUntilOverflow
<1> QED
  BY <1>1, PoolInductive, PTL

\* An event that is allocated goes from the free cells to its holder.
LEMMA NewKeepsAll ==
  ASSUME PoolInv, NoneLost, NEW h \in Holder, New(h), ~overflowed'
  PROVE  NoneLost'
<1>1. /\ ~overflowed /\ ppos \in Int /\ ppos' = ppos + 1 /\ pool' = pool /\ leaked' = leaked
      /\ held' = [held EXCEPT ![h] = pool[ppos]] /\ held \in [Holder -> Event \cup {None}]
      /\ held[h] = None
  BY PoolSizeAssumption DEF PoolInv, PoolTypeOK, New, Cell
<1> SUFFICES ASSUME NEW e \in Event
             PROVE  e \in InUse' \/ \E i \in FreeCells' : pool'[i] = e
  BY DEF NoneLost
<1>2. e # None
  BY NoneAssumption
<1>3. CASE e \in InUse
  <2>1. CASE e \in leaked
    BY <2>1, <1>1 DEF InUse
  <2>2. ASSUME NEW g \in Holder, held[g] = e
        PROVE  e \in InUse'
    BY <2>2, <1>1, <1>2 DEF InUse
  <2> QED
    BY <1>3, <2>1, <2>2 DEF InUse
<1>4. ASSUME NEW i \in FreeCells, pool[i] = e
      PROVE  e \in InUse' \/ \E j \in FreeCells' : pool'[j] = e
  <2>1. i \in Cell /\ i \in Int /\ i >= ppos
    BY <1>4, PoolSizeAssumption DEF FreeCells, Cell
  <2>2. CASE i = ppos
    <3>1. held'[h] = e
      BY <2>2, <1>1, <1>4
    <3> QED
      BY <3>1 DEF InUse
  <2>3. CASE i # ppos
    <3>1. i >= ppos'
      BY <2>1, <2>3, <1>1
    <3>2. i \in FreeCells'
      BY <2>1, <3>1 DEF FreeCells, Cell
    <3> QED
      BY <3>2, <1>1, <1>4
  <2> QED
    BY <2>2, <2>3
<1> QED
  BY <1>1, <1>3, <1>4 DEF NoneLost

\* One that is deleted goes back.  When no cell is allocated there is none to delete: all
\* the events are free.
LEMMA DeleteKeepsAll ==
  ASSUME PoolInv, NoneLost, NEW h \in Holder, Delete(h), ~overflowed'
  PROVE  NoneLost'
<1>1. /\ ~overflowed /\ ppos \in Cell /\ pool \in [Cell -> Event] /\ leaked' = leaked
      /\ held' = [held EXCEPT ![h] = None] /\ held \in [Holder -> Event \cup {None}]
      /\ held[h] # None /\ FreeIsFree
  BY DEF PoolInv, PoolTypeOK, Delete
<1>2. \A i \in Cell : i \in Int /\ i >= 0 /\ i < PoolSize
  BY PoolSizeAssumption DEF Cell
<1>3. ppos # 0
  <2> SUFFICES ASSUME ppos = 0
               PROVE  FALSE
    OBVIOUS
  <2>1. \A i, j \in Cell : i # j => pool[i] # pool[j]
    BY <1>1, <1>2 DEF FreeIsFree
  <2>2. PICK i \in Cell : pool[i] = held[h]
    BY <2>1, <1>1, FullPoolHasAll
  <2> QED
    BY <2>2, <1>1, <1>2 DEF FreeIsFree
<1>4. /\ ppos' = ppos - 1 /\ pool' = [pool EXCEPT ![ppos - 1] = held[h]]
      /\ ppos - 1 \in Cell /\ ppos \in Int
  BY <1>1, <1>2, <1>3, PoolSizeAssumption DEF Delete, Cell
<1> SUFFICES ASSUME NEW e \in Event
             PROVE  e \in InUse' \/ \E i \in FreeCells' : pool'[i] = e
  BY DEF NoneLost
<1>5. CASE e = held[h]
  <2>1. ppos - 1 \in FreeCells' /\ pool'[ppos - 1] = e
    BY <1>1, <1>4, <1>5 DEF FreeCells, Cell
  <2> QED
    BY <2>1
<1>6. CASE e # held[h]
  <2>1. CASE e \in leaked
    BY <2>1, <1>1 DEF InUse
  <2>2. ASSUME NEW g \in Holder, held[g] = e
        PROVE  e \in InUse'
    <3>1. held'[g] = e
      BY <2>2, <1>1, <1>6
    <3> QED
      BY <3>1 DEF InUse
  <2>3. ASSUME NEW i \in FreeCells, pool[i] = e
        PROVE  \E j \in FreeCells' : pool'[j] = e
    <3>1. i \in Cell /\ i >= ppos /\ i \in Int
      BY <1>2 DEF FreeCells
    <3>2. i >= ppos' /\ i # ppos - 1
      BY <3>1, <1>4
    <3>3. i \in FreeCells' /\ pool'[i] = e
      BY <3>1, <3>2, <1>1, <1>4, <2>3 DEF FreeCells, Cell
    <3> QED
      BY <3>3
  <2> QED
    BY <1>1, <2>1, <2>2, <2>3 DEF NoneLost, InUse
<1> QED
  BY <1>5, <1>6

\* One that is lost stays in use.
LEMMA LoseKeepsAll ==
  ASSUME PoolInv, NoneLost, NEW h \in Holder, Lose(h), ~overflowed'
  PROVE  NoneLost'
<1>1. /\ ~overflowed /\ ppos' = ppos /\ pool' = pool /\ leaked' = leaked \cup {held[h]}
      /\ held' = [held EXCEPT ![h] = None] /\ held \in [Holder -> Event \cup {None}]
  BY DEF PoolInv, PoolTypeOK, Lose
<1>2. \A e \in InUse : e \in InUse'
  BY <1>1 DEF InUse
<1>3. FreeCells' = FreeCells
  BY <1>1 DEF FreeCells, Cell
<1> QED
  BY <1>1, <1>2, <1>3 DEF NoneLost

\* Until the first allocation that finds no event free, every event is in use or can be
\* allocated: operator delete never drops one for want of a cell.
THEOREM NoEventIsLost == PoolSpec => []NoneLost
<1>1. PoolInit => NoneLost
  <2>1. PoolInit => FreeCells = Cell /\ \A i \in Cell : pool[i] = i
    BY PoolSizeAssumption DEF PoolInit, FreeCells, Cell
  <2> QED
    BY <2>1 DEF NoneLost, Cell, Event
<1>2. PoolInv /\ NoneLost /\ [PoolNext]_poolVars => NoneLost'
  <2>1. ASSUME PoolInv, NoneLost, PoolNext
        PROVE  NoneLost'
    <3>1. CASE overflowed'
      BY <3>1 DEF NoneLost
    <3>2. CASE ~overflowed'
      BY <2>1, <3>2, NewKeepsAll, DeleteKeepsAll, LoseKeepsAll DEF PoolNext
    <3> QED
      BY <3>1, <3>2
  <2>2. ASSUME NoneLost, UNCHANGED poolVars
        PROVE  NoneLost'
    BY <2>2 DEF poolVars, NoneLost, InUse, FreeCells
  <2> QED
    BY <2>1, <2>2
<1> QED
  BY <1>1, <1>2, PoolInductive, PTL DEF PoolSpec

-----------------------------------------------------------------------------
(***************************************************************************)
(* The inductive invariant of Objects.                                     *)
(***************************************************************************)
Content   == Value \cup {Null}
Attribute == [val : Content, def : Slot \cup {Null}, ood : BOOLEAN, evaluating : BOOLEAN]

CallFrame ==
  [at : {"iter"}, o : Obj, buf : Slots, cur : Int, first : Seq(Key), seen : Seq(Key \cup {Garbage})]
  \cup [at : {"range"}, o : Obj, buf : Slots, i : 0 .. Elements, since : Int]
  \cup [at : {"eval"}, s : Slot, by : {"get", "range"}, buf : Slots, do : {"get", "dep"},
        res : Content]
  \cup [at : {"text"}, o : Obj, buf : Slots, since : Int]

Types(at, ks, cp, ar, bf, n) ==
  /\ at \in [Slot -> Attribute]
  /\ ks \in [Obj -> Seq(Key)] /\ cp \in [Obj -> Nat] /\ ar \in [Obj -> Nat]
  /\ bf \in [Slots -> Buffer \cup {Null}]
  /\ n \in 0 .. MaxOps

\* The keys of an object differ, and are in its array.
KeysFit(ks, cp) == \A o \in Obj : IsInjective(ks[o]) /\ Len(ks[o]) <= cp[o]

\* Keys are only added, and in the same array they stay where they are.
Grow(ks, ar, ks2, ar2) ==
  \A o \in Obj : /\ ar[o] \in Nat /\ ar2[o] \in Nat /\ ar[o] <= ar2[o]
                 /\ Len(ks[o]) \in Nat
                 /\ ar2[o] = ar[o] =>
                      /\ Len(ks2[o]) \in Nat /\ Len(ks[o]) <= Len(ks2[o])
                      /\ \A j \in 1 .. Len(ks[o]) : ks2[o][j] = ks[o][j]

\* The slots in use are those of the calls.
Held(st, bf) == /\ \A i \in 1 .. Len(st) : st[i].buf = i - 1
                /\ \A i \in Slots : bf[i] # Null <=> i < Len(st)

\* Where an iteration skips the parent: at its place after the first, or behind the end.
SkipsAt(s, p) ==
  /\ p \in 2 .. Len(s) + 1
  /\ p <= Len(s) => s[p] = Parent
  /\ \A j \in 2 .. p - 1 : s[j] # Parent

\* The keys an iteration has seen: all before its index but the one it skipped.
Passed(f)    == IF f.cur = -1 THEN Len(f.first) ELSE f.cur
Visits(f, p) ==
  /\ SkipsAt(f.first, p)
  /\ f.cur + 1 # p
  /\ Len(f.seen) = Passed(f) - (IF p <= Passed(f) THEN 1 ELSE 0)
  /\ \A j \in 1 .. Len(f.seen) : f.seen[j] = IF j < p THEN f.first[j] ELSE f.first[j + 1]

\* An iteration and its buffer b, for the present keys k of its object and their array a:
\* an array that is the same one still has the keys of the beginning.
IterFits(f, b, k, a) ==
  /\ f.first # <<>> /\ IsInjective(f.first)
  /\ f.cur \in -1 .. Len(f.first) - 1
  /\ ~b.own /\ b.data[1] = f.o /\ b.data[2] \in Nat /\ b.data[2] <= a /\ b.count = Len(f.first)
  /\ b.data[2] = a => /\ Len(f.first) <= Len(k)
                      /\ \A j \in 1 .. Len(f.first) : f.first[j] = k[j]
                      /\ \E p \in Int : Visits(f, p)

\* The first m elements of a range that no event interrupted are up to date and have the
\* values in its buffer.
Late(at, s)          == at[s].def # Null /\ at[s].ood
UpToDate(f, b, m, at) == \A j \in 0 .. m - 1 : /\ ~Late(at, <<f.o, j>>)
                                              /\ b.data[j + 1] = at[<<f.o, j>>].val
RangeFits(f, b, m, at, n) ==
  /\ b.own /\ Len(b.data) = Elements /\ f.since <= n
  /\ f.since = n => UpToDate(f, b, m, at)

Fits(f, b, at, ks, ar, n) ==
  /\ f.at = "iter"  => IterFits(f, b, ks[f.o], ar[f.o])
  /\ f.at = "range" => RangeFits(f, b, f.i, at, n)
  /\ f.at = "text"  => RangeFits(f, b, Elements, at, n)
  /\ f.at = "eval"  => at[f.s].def # Null

\* The call i of st, when it evaluates an element for a range, is above that range.
Ranged(st, i) ==
  (st[i].at = "eval" /\ st[i].by = "range")
  => /\ i > 1 /\ st[i - 1].at = "range" /\ st[i - 1].i < Elements
     /\ st[i].s = <<st[i - 1].o, st[i - 1].i>>

\* Above a range that no event interrupted are the evaluation of its element and the
\* evaluations that one needs; none is of an element that has its value.
Timed(f, n)            == f.at \in {"range", "text"} /\ f.since = n
MayBeAbove(f, g, d, at) ==
  /\ f.at = "range" /\ g.at = "eval"
  /\ g.by = "range" <=> d = 1
  /\ d = 1 => ~Late(at, g.s)
  /\ d > 1 => \A j \in 0 .. f.i : g.s # <<f.o, j>>
Quiet(st, at, n) ==
  \A i, k \in 1 .. Len(st) : i < k /\ Timed(st[i], n) => MayBeAbove(st[i], st[k], k - i, at)

CallsFit(st, bf, at, ks, ar, n) ==
  /\ st \in Seq(CallFrame)
  /\ Held(st, bf)
  /\ \A i \in 1 .. Len(st) : Fits(st[i], bf[i - 1], at, ks, ar, n)
  /\ \A i \in 1 .. Len(st) : Ranged(st, i)
  /\ Quiet(st, at, n)

IInv ==
  /\ Types(attr, keys, cap, array, buffers, ops)
  /\ KeysFit(keys, cap)
  /\ CallsFit(stack, buffers, attr, keys, array, ops)
  /\ fault \in BOOLEAN /\ FaultsNeedFullTable

-----------------------------------------------------------------------------
(***************************************************************************)
(* Sequences.                                                              *)
(***************************************************************************)
\* A sequence is a function on the numbers to its length.
LEMMA SeqIs ==
  ASSUME NEW S, NEW s \in Seq(S)
  PROVE  /\ Len(s) \in Nat /\ DOMAIN s = 1 .. Len(s)
         /\ \A i \in 1 .. Len(s) : s[i] \in S
         /\ s # <<>> => Len(s) \in Nat \ {0}
         /\ Len(s) = 0 => s = <<>>
         /\ \A x : x \in ToSet(s) <=> \E i \in 1 .. Len(s) : s[i] = x
BY EmptySeq DEF ToSet

\* What appending an element does.
LEMMA Pushed ==
  ASSUME NEW S, NEW s \in Seq(S), NEW x \in S
  PROVE  /\ Append(s, x) \in Seq(S) /\ Append(s, x) # <<>>
         /\ Len(Append(s, x)) = Len(s) + 1
         /\ \A i \in 1 .. Len(s) : Append(s, x)[i] = s[i]
         /\ Append(s, x)[Len(s) + 1] = x
         /\ Last(Append(s, x)) = x
         /\ ToSet(Append(s, x)) = ToSet(s) \cup {x}
<1>1. /\ Append(s, x) \in Seq(S) /\ Append(s, x) # <<>>
      /\ Len(Append(s, x)) = Len(s) + 1 /\ Len(s) \in Nat
      /\ \A i \in 1 .. Len(s) : Append(s, x)[i] = s[i]
      /\ Append(s, x)[Len(s) + 1] = x
  BY AppendProperties
<1>2. Last(Append(s, x)) = x
  BY <1>1 DEF Last
<1>3. /\ \A y : y \in ToSet(Append(s, x)) <=> \E i \in 1 .. Len(Append(s, x)) : Append(s, x)[i] = y
      /\ \A y : y \in ToSet(s) <=> \E i \in 1 .. Len(s) : s[i] = y
  BY <1>1, SeqIs
<1>4. ToSet(Append(s, x)) = ToSet(s) \cup {x}
  <2> DEFINE t == Append(s, x)
  <2>1. /\ Len(t) = Len(s) + 1 /\ Len(s) \in Nat /\ t[Len(s) + 1] = x
        /\ \A i \in 1 .. Len(s) : t[i] = s[i]
        /\ \A y : y \in ToSet(t) <=> \E i \in 1 .. Len(t) : t[i] = y
    BY <1>1, <1>3
  <2> HIDE DEF t
  <2>2. ASSUME NEW y PROVE y \in ToSet(t) <=> y \in ToSet(s) \/ y = x
    BY <1>3, <2>1
  <2>3. ToSet(t) = ToSet(s) \cup {x}
    BY <2>2
  <2> QED
    BY <2>3 DEF t
<1> QED
  BY <1>1, <1>2, <1>4

\* What taking the last element away leaves.
LEMMA Popped ==
  ASSUME NEW S, NEW s \in Seq(S), s # <<>>
  PROVE  /\ Front(s) \in Seq(S)
         /\ Len(s) \in Nat \ {0} /\ Len(Front(s)) = Len(s) - 1
         /\ \A i \in 1 .. Len(s) - 1 : Front(s)[i] = s[i]
         /\ Last(s) = s[Len(s)] /\ Last(s) \in S
<1>1. Len(s) \in Nat \ {0} /\ \A i \in 1 .. Len(s) : s[i] \in S
  BY SeqIs
<1>2. PICK n \in Nat : n + 1 = Len(s) /\ Len(s) - 1 = n
  <2>1. \A l \in Nat \ {0} : l - 1 \in Nat /\ l - 1 + 1 = l
    OBVIOUS
  <2> QED
    BY <1>1, <2>1, Zenon
<1>3. /\ SubSeq(s, 1, n) \in Seq(S)
      /\ Len(SubSeq(s, 1, n)) = IF 1 <= n THEN n - 1 + 1 ELSE 0
      /\ \A i \in 1 .. n - 1 + 1 : SubSeq(s, 1, n)[i] = s[1 + i - 1]
  <2>1. n \in Int /\ 1 \in Int /\ \A i \in 1 .. n : s[i] \in S
    BY <1>1, <1>2
  <2> QED
    BY <2>1, SubSeqProperties
<1>4. Front(s) = SubSeq(s, 1, n) /\ n = Len(s) - 1
  BY <1>2 DEF Front
<1>5. Len(SubSeq(s, 1, n)) = n /\ \A i \in 1 .. n : i \in 1 .. n - 1 + 1 /\ 1 + i - 1 = i
  BY <1>3
<1>6. \A i \in 1 .. n : SubSeq(s, 1, n)[i] = s[i]
  BY <1>3, <1>5
<1>7. Last(s) = s[Len(s)] /\ Last(s) \in S
  BY <1>1 DEF Last
<1> QED
  BY <1>1, <1>3, <1>4, <1>5, <1>6, <1>7

\* What taking the first element away leaves.
LEMMA Shortened ==
  ASSUME NEW S, NEW s \in Seq(S), s # <<>>
  PROVE  /\ Tail(s) \in Seq(S) /\ Head(s) \in S /\ Head(s) = s[1]
         /\ Len(s) \in Nat \ {0} /\ Len(Tail(s)) = Len(s) - 1
         /\ \A i \in 1 .. Len(s) - 1 : Tail(s)[i] = s[i + 1]
         /\ ToSet(s) = ToSet(Tail(s)) \cup {Head(s)}
<1>1. /\ Tail(s) \in Seq(S) /\ Head(s) \in S /\ Head(s) = s[1]
      /\ Len(s) \in Nat \ {0} /\ Len(Tail(s)) = Len(s) - 1
      /\ \A i \in 1 .. Len(s) - 1 : Tail(s)[i] = s[i + 1]
  BY HeadTailProperties, SeqIs
<1>2. /\ \A y : y \in ToSet(Tail(s)) <=> \E i \in 1 .. Len(Tail(s)) : Tail(s)[i] = y
      /\ \A y : y \in ToSet(s) <=> \E i \in 1 .. Len(s) : s[i] = y
  BY <1>1, SeqIs
<1>3. \A i \in 1 .. Len(s) : i = 1 \/ (i - 1 \in 1 .. Len(s) - 1 /\ s[i] = Tail(s)[i - 1])
  BY <1>1
<1>4. ToSet(s) \subseteq ToSet(Tail(s)) \cup {Head(s)}
  BY <1>1, <1>2, <1>3
<1>5. ToSet(Tail(s)) \cup {Head(s)} \subseteq ToSet(s)
  BY <1>1, <1>2
<1> QED
  BY <1>1, <1>4, <1>5

\* What a sequence behind another does.
LEMMA Joined ==
  ASSUME NEW S, NEW s \in Seq(S), NEW t \in Seq(S)
  PROVE  /\ s \o t \in Seq(S) /\ Len(s \o t) = Len(s) + Len(t)
         /\ \A i \in 1 .. Len(s) : (s \o t)[i] = s[i]
         /\ \A i \in 1 .. Len(t) : (s \o t)[Len(s) + i] = t[i]
         /\ ToSet(s \o t) = ToSet(s) \cup ToSet(t)
<1>1. /\ s \o t \in Seq(S) /\ Len(s \o t) = Len(s) + Len(t)
      /\ Len(s) \in Nat /\ Len(t) \in Nat
      /\ \A i \in 1 .. Len(s) : (s \o t)[i] = s[i]
      /\ \A i \in 1 .. Len(t) : (s \o t)[Len(s) + i] = t[i]
  BY ConcatProperties
<1>2. /\ \A y : y \in ToSet(s \o t) <=> \E i \in 1 .. Len(s \o t) : (s \o t)[i] = y
      /\ \A y : y \in ToSet(s) <=> \E i \in 1 .. Len(s) : s[i] = y
      /\ \A y : y \in ToSet(t) <=> \E i \in 1 .. Len(t) : t[i] = y
  BY <1>1, SeqIs
<1>3. \A i \in 1 .. Len(s) + Len(t) :
        i \in 1 .. Len(s) \/ (i - Len(s) \in 1 .. Len(t) /\ i = Len(s) + (i - Len(s)))
  BY <1>1
<1>4. ToSet(s \o t) = ToSet(s) \cup ToSet(t)
  <2> DEFINE c == s \o t
  <2>1. /\ Len(c) = Len(s) + Len(t) /\ Len(s) \in Nat /\ Len(t) \in Nat
        /\ \A i \in 1 .. Len(s) : c[i] = s[i]
        /\ \A i \in 1 .. Len(t) : c[Len(s) + i] = t[i]
        /\ \A y : y \in ToSet(c) <=> \E i \in 1 .. Len(c) : c[i] = y
    BY <1>1, <1>2
  <2> HIDE DEF c
  <2>2. \A i \in 1 .. Len(t) : Len(s) + i \in 1 .. Len(c)
    BY <2>1
  <2>3. \A i \in 1 .. Len(s) : i \in 1 .. Len(c)
    BY <2>1
  <2>4. ASSUME NEW y \in ToSet(c) PROVE y \in ToSet(s) \cup ToSet(t)
    <3>1. PICK i \in 1 .. Len(c) : c[i] = y
      BY <2>1
    <3>2. CASE i \in 1 .. Len(s)
      BY <1>2, <2>1, <3>1, <3>2
    <3>3. CASE i - Len(s) \in 1 .. Len(t) /\ i = Len(s) + (i - Len(s))
      <4>1. t[i - Len(s)] = y
        BY <2>1, <3>1, <3>3
      <4> QED
        BY <1>2, <3>3, <4>1
    <3> QED
      BY <1>3, <2>1, <3>1, <3>2, <3>3
  <2>5. ASSUME NEW y \in ToSet(s) \cup ToSet(t) PROVE y \in ToSet(c)
    BY <1>2, <2>1, <2>2, <2>3
  <2>6. ToSet(c) = ToSet(s) \cup ToSet(t)
    BY <2>4, <2>5
  <2> QED
    BY <2>6 DEF c
<1> QED
  BY <1>1, <1>4

\* A set of numbers has a least one.
LEMMA Least ==
  ASSUME NEW T, T \subseteq Nat, T # {}
  PROVE  Min(T) \in T /\ \A y \in T : Min(T) <= y
<1>1. IsWellFoundedOn(OpToRel(<, Nat), Nat)
  BY NatLessThanWellFounded
<1>2. PICK x \in T : \A y \in T : ~(<<y, x>> \in OpToRel(<, Nat))
  BY <1>1, WFMin
<1>3. ASSUME NEW y \in T PROVE x <= y
  <2>1. ~(<<y, x>> \in OpToRel(<, Nat)) /\ x \in Nat /\ y \in Nat
    BY <1>2
  <2> QED
    BY <2>1 DEF OpToRel
<1> QED
  BY <1>3, Zenon DEF Min

\* What removing the first occurrence of an element leaves.
LEMMA FirstRemoved ==
  ASSUME NEW S, NEW s \in Seq(S), NEW x \in S
  PROVE  /\ RemoveFirst(s, x) \in Seq(S)
         /\ \/ RemoveFirst(s, x) = s /\ x \notin ToSet(s)
            \/ \E k \in 1 .. Len(s) :
                 /\ s[k] = x
                 /\ Len(RemoveFirst(s, x)) = Len(s) - 1
                 /\ \A i \in 1 .. Len(s) - 1 :
                      RemoveFirst(s, x)[i] = IF i < k THEN s[i] ELSE s[i + 1]
<1> DEFINE I == {i \in 1 .. Len(s) : s[i] = x}
           k == Min(I)
<1>0. Len(s) \in Nat /\ (\A i \in 1 .. Len(s) : s[i] \in S)
     /\ \A y : y \in ToSet(s) <=> \E i \in 1 .. Len(s) : s[i] = y
  BY SeqIs
<1>1. CASE I = {}
  <2>1. RemoveFirst(s, x) = s
    BY <1>1 DEF RemoveFirst
  <2> QED
    BY <1>0, <1>1, <2>1
<1>2. CASE I # {}
  <2>1. RemoveFirst(s, x) = RemoveAt(s, k)
    BY <1>2, Zenon DEF RemoveFirst, SelectInSeq
  <2>2. k \in I
    <3>1. I \subseteq Nat
      OBVIOUS
    <3> HIDE DEF I
    <3> QED
      BY <1>2, <3>1, Least
  <2> DEFINE l == SubSeq(s, 1, k - 1)
             r == SubSeq(s, k + 1, Len(s))
  <2>3. k \in 1 .. Len(s) /\ s[k] = x
    BY <2>2
  <2> HIDE DEF k
  <2>4. /\ l \in Seq(S) /\ Len(l) = k - 1
        /\ \A i \in 1 .. k - 1 : l[i] = s[i]
    <3>1. \A i \in 1 .. k - 1 : s[i] \in S
      BY <1>0, <2>3
    <3>2. /\ l \in Seq(S) /\ Len(l) = IF 1 <= k - 1 THEN (k - 1) - 1 + 1 ELSE 0
          /\ \A i \in 1 .. (k - 1) - 1 + 1 : l[i] = s[1 + i - 1]
      BY <2>3, <3>1, SubSeqProperties
    <3> HIDE DEF l
    <3> QED
      BY <2>3, <3>2
  <2>5. /\ r \in Seq(S) /\ Len(r) = Len(s) - k
        /\ \A i \in 1 .. Len(s) - k : r[i] = s[k + i]
    <3>1. \A i \in k + 1 .. Len(s) : s[i] \in S
      BY <1>0, <2>3
    <3>2. /\ r \in Seq(S) /\ Len(r) = IF k + 1 <= Len(s) THEN Len(s) - (k + 1) + 1 ELSE 0
          /\ \A i \in 1 .. Len(s) - (k + 1) + 1 : r[i] = s[k + 1 + i - 1]
      BY <1>0, <2>3, <3>1, SubSeqProperties
    <3> HIDE DEF r
    <3> QED
      BY <1>0, <2>3, <3>2
  <2>6. RemoveFirst(s, x) = l \o r
    BY <2>1 DEF RemoveAt
  <2> HIDE DEF l, r
  <2> DEFINE t == l \o r
  <2>7. /\ t \in Seq(S) /\ Len(t) = Len(s) - 1
        /\ \A i \in 1 .. k - 1 : t[i] = s[i]
        /\ \A i \in 1 .. Len(s) - k : t[(k - 1) + i] = s[k + i]
    <3>1. /\ t \in Seq(S) /\ Len(t) = Len(l) + Len(r)
          /\ \A i \in 1 .. Len(l) : t[i] = l[i]
          /\ \A i \in 1 .. Len(r) : t[Len(l) + i] = r[i]
      <4>1. PICK a \in Seq(S), b \in Seq(S) : a = l /\ b = r
        BY <2>4, <2>5
      <4>2. /\ a \o b \in Seq(S) /\ Len(a \o b) = Len(a) + Len(b)
            /\ \A i \in 1 .. Len(a) : (a \o b)[i] = a[i]
            /\ \A i \in 1 .. Len(b) : (a \o b)[Len(a) + i] = b[i]
        BY Joined
      <4> QED
        BY <4>1, <4>2
    <3> HIDE DEF t
    <3>2. Len(l) + Len(r) = Len(s) - 1
      BY <1>0, <2>3, <2>4, <2>5
    <3>3. \A i \in 1 .. k - 1 : t[i] = s[i]
      BY <2>4, <3>1
    <3>4. \A i \in 1 .. Len(s) - k : t[(k - 1) + i] = s[k + i]
      BY <2>4, <2>5, <3>1
    <3> QED
      BY <3>1, <3>2, <3>3, <3>4
  <2>9. RemoveFirst(s, x) = t
    BY <2>6
  <2> HIDE DEF t
  <2>8. ASSUME NEW i \in 1 .. Len(s) - 1 PROVE t[i] = IF i < k THEN s[i] ELSE s[i + 1]
    <3>1. CASE i < k
      BY <1>0, <2>3, <2>7, <3>1
    <3>2. CASE ~(i < k)
      <4>1. i - k + 1 \in 1 .. Len(s) - k /\ (k - 1) + (i - k + 1) = i /\ k + (i - k + 1) = i + 1
        BY <1>0, <2>3, <3>2
      <4>2. t[(k - 1) + (i - k + 1)] = s[k + (i - k + 1)]
        BY <2>7, <4>1
      <4> QED
        BY <3>2, <4>1, <4>2
    <3> QED
      BY <3>1, <3>2
  <2> QED
    BY <2>3, <2>7, <2>8, <2>9
<1> QED
  BY <1>1, <1>2


-----------------------------------------------------------------------------
(***************************************************************************)
(* The calls in progress.                                                  *)
(***************************************************************************)
\* A call that starts takes the next slot of the table.
LEMMA PushKeeps ==
  ASSUME NEW st, NEW bf \in [Slots -> Buffer \cup {Null}], NEW at, NEW ks, NEW ar, NEW n,
         CallsFit(st, bf, at, ks, ar, n),
         NEW f \in CallFrame, NEW b \in Buffer, Len(st) \in Slots,
         f.buf = Len(st), Fits(f, b, at, ks, ar, n),
         (f.at = "eval" /\ f.by = "range")
         => /\ st # <<>> /\ Last(st).at = "range" /\ Last(st).i < Elements
            /\ f.s = <<Last(st).o, Last(st).i>>,
         \A i \in 1 .. Len(st) :
           Timed(st[i], n) => MayBeAbove(st[i], f, Len(st) + 1 - i, at)
  PROVE  CallsFit(Append(st, f), [bf EXCEPT ![Len(st)] = b], at, ks, ar, n)
<1> DEFINE s2 == Append(st, f)
           b2 == [bf EXCEPT ![Len(st)] = b]
           m  == Len(st)
<1>1. st \in Seq(CallFrame) /\ Held(st, bf) /\ m \in Nat
  BY SeqIs DEF CallsFit
<1>2. /\ s2 \in Seq(CallFrame) /\ Len(s2) = m + 1 /\ s2[m + 1] = f
      /\ \A i \in 1 .. m : s2[i] = st[i]
  BY <1>1, Pushed
<1>3. b2[m] = b /\ \A i \in Slots : i # m => b2[i] = bf[i]
  OBVIOUS
<1>4. \A i \in 1 .. m : i - 1 \in Slots /\ i - 1 # m
  <2>1. \A i \in 1 .. m : st[i] \in CallFrame /\ st[i].buf = i - 1
    BY <1>1, SeqIs DEF Held
  <2>2. \A g \in CallFrame : g.buf \in Slots
    BY DEF CallFrame
  <2> QED
    BY <1>1, <2>1, <2>2
<1>5. b # Null
  BY ValuesAssumption
<1> HIDE DEF s2, b2, m
<1>6. Held(s2, b2)
  <2>1. \A i \in 1 .. Len(s2) : s2[i].buf = i - 1
    BY <1>1, <1>2 DEF Held, m
  <2>2. \A i \in Slots : b2[i] # Null <=> i < Len(s2)
    <3>1. \A i \in Slots : i \in Int
      BY SizesAssumption DEF Slots
    <3> QED
      BY <1>1, <1>2, <1>3, <1>5, <3>1 DEF Held, m
  <2> QED
    BY <2>1, <2>2 DEF Held
<1>7. ASSUME NEW i \in 1 .. Len(s2)
      PROVE  Fits(s2[i], b2[i - 1], at, ks, ar, n)
  <2>1. CASE i = m + 1
    BY <1>1, <1>2, <1>3, <2>1
  <2>2. CASE i \in 1 .. m
    <3>1. s2[i] = st[i] /\ b2[i - 1] = bf[i - 1]
      BY <1>2, <1>3, <1>4, <2>2
    <3>2. Fits(st[i], bf[i - 1], at, ks, ar, n)
      BY <2>2 DEF CallsFit, m
    <3> QED
      BY <3>1, <3>2
  <2> QED
    BY <1>1, <1>2, <2>1, <2>2
<1>8. ASSUME NEW i \in 1 .. Len(s2)
      PROVE  Ranged(s2, i)
  <2>1. CASE i = m + 1
    <3>1. SUFFICES ASSUME f.at = "eval", f.by = "range"
                   PROVE  /\ i > 1 /\ s2[i - 1].at = "range" /\ s2[i - 1].i < Elements
                          /\ f.s = <<s2[i - 1].o, s2[i - 1].i>>
      BY <1>2, <2>1 DEF Ranged
    <3>4. st # <<>>
      BY <3>1
    <3>5. Last(st) = st[Len(st)] /\ Len(st) \in Nat \ {0}
      BY <1>1, <3>4, Popped
    <3>2. st # <<>> /\ Last(st) = st[m] /\ m \in 1 .. m
      BY <3>4, <3>5 DEF m
    <3>3. s2[i - 1] = st[m] /\ i > 1
      BY <1>1, <1>2, <2>1, <3>2
    <3> QED
      BY <3>1, <3>2, <3>3
  <2>2. CASE i \in 1 .. m
    <3>1. Ranged(st, i)
      BY <2>2 DEF CallsFit, m
    <3>2. i > 1 => i - 1 \in 1 .. m
      BY <1>1, <2>2
    <3> QED
      BY <1>2, <2>2, <3>1, <3>2 DEF Ranged
  <2> QED
    BY <1>1, <1>2, <2>1, <2>2
<1>9. Quiet(s2, at, n)
  <2> SUFFICES ASSUME NEW i \in 1 .. Len(s2), NEW k \in 1 .. Len(s2), i < k, Timed(s2[i], n)
               PROVE  MayBeAbove(s2[i], s2[k], k - i, at)
    BY DEF Quiet
  <2>1. i \in 1 .. m /\ s2[i] = st[i]
    BY <1>1, <1>2
  <2>2. CASE k = m + 1
    BY <1>2, <2>1, <2>2 DEF m
  <2>3. CASE k \in 1 .. m
    <3>1. s2[k] = st[k] /\ Timed(st[i], n)
      BY <1>2, <2>1, <2>3
    <3> QED
      BY <2>1, <2>3, <3>1 DEF CallsFit, Quiet, m
  <2> QED
    BY <1>1, <1>2, <2>2, <2>3
<1> QED
  BY <1>2, <1>6, <1>7, <1>8, <1>9 DEF CallsFit, s2, b2, m

\* A call that ends frees its slot, the last one in use.
LEMMA PopKeeps ==
  ASSUME NEW st, NEW bf \in [Slots -> Buffer \cup {Null}], NEW at, NEW ks, NEW ar, NEW n,
         CallsFit(st, bf, at, ks, ar, n), st # <<>>
  PROVE  /\ CallsFit(Front(st), [bf EXCEPT ![Last(st).buf] = Null], at, ks, ar, n)
         /\ Last(st).buf = Len(st) - 1 /\ Len(Front(st)) = Len(st) - 1 /\ Len(st) - 1 \in Slots
<1> DEFINE s2 == Front(st)
           b2 == [bf EXCEPT ![Last(st).buf] = Null]
           m  == Len(st) - 1
<1>1. st \in Seq(CallFrame) /\ Held(st, bf) /\ Len(st) \in Nat \ {0} /\ m \in Nat
      /\ m + 1 = Len(st)
  <2>1. st \in Seq(CallFrame) /\ Held(st, bf) /\ Len(st) \in Nat \ {0}
    BY Popped DEF CallsFit
  <2> QED
    BY <2>1
<1>2. /\ s2 \in Seq(CallFrame) /\ Len(s2) = m /\ Last(st) = st[Len(st)]
      /\ \A i \in 1 .. m : s2[i] = st[i]
  BY <1>1, Popped
<1>3. Last(st).buf = m /\ m \in Slots
  <2>1. st[Len(st)] \in CallFrame /\ st[Len(st)].buf = m
    BY <1>1, SeqIs DEF Held
  <2>2. \A g \in CallFrame : g.buf \in Slots
    BY DEF CallFrame
  <2> QED
    BY <1>2, <2>1, <2>2
<1>4. b2[m] = Null /\ \A i \in Slots : i # m => b2[i] = bf[i]
  BY <1>3
<1>5. \A i \in 1 .. m : i - 1 \in Slots /\ i - 1 # m /\ i \in 1 .. Len(st)
  <2>1. \A i \in 1 .. m : st[i] \in CallFrame /\ st[i].buf = i - 1
    BY <1>1, SeqIs DEF Held
  <2>2. \A g \in CallFrame : g.buf \in Slots
    BY DEF CallFrame
  <2> HIDE DEF m
  <2> TAKE i \in 1 .. m
  <2>3. i - 1 \in Slots
    BY <2>1, <2>2
  <2>4. i - 1 # m /\ i \in 1 .. m + 1
    BY <1>1
  <2> QED
    BY <1>1, <2>3, <2>4
<1> HIDE DEF s2, b2, m
<1>6. Held(s2, b2)
  <2>1. \A i \in 1 .. Len(s2) : s2[i].buf = i - 1
    BY <1>1, <1>2, <1>5 DEF Held
  <2>2. \A i \in Slots : b2[i] # Null <=> i < Len(s2)
    <3>1. \A i \in Slots : i \in Int
      BY SizesAssumption DEF Slots
    <3> QED
      BY <1>1, <1>2, <1>4, <3>1 DEF Held
  <2> QED
    BY <2>1, <2>2 DEF Held
<1>7. ASSUME NEW i \in 1 .. Len(s2)
      PROVE  Fits(s2[i], b2[i - 1], at, ks, ar, n) /\ Ranged(s2, i)
  <2>1. s2[i] = st[i] /\ b2[i - 1] = bf[i - 1]
    BY <1>2, <1>4, <1>5
  <2>2. Fits(st[i], bf[i - 1], at, ks, ar, n) /\ Ranged(st, i)
    BY <1>2, <1>5 DEF CallsFit
  <2>3. i > 1 => i - 1 \in 1 .. m
    BY <1>1, <1>2
  <2> QED
    BY <1>2, <2>1, <2>2, <2>3 DEF Ranged
<1>8. Quiet(s2, at, n)
  <2> SUFFICES ASSUME NEW i \in 1 .. Len(s2), NEW k \in 1 .. Len(s2), i < k, Timed(s2[i], n)
               PROVE  MayBeAbove(s2[i], s2[k], k - i, at)
    BY DEF Quiet
  <2>1. s2[i] = st[i] /\ s2[k] = st[k] /\ i \in 1 .. Len(st) /\ k \in 1 .. Len(st)
    BY <1>2, <1>5
  <2> QED
    BY <2>1 DEF CallsFit, Quiet
<1>9. CallsFit(s2, b2, at, ks, ar, n)
  BY <1>2, <1>6, <1>7, <1>8 DEF CallsFit
<1> QED
  BY <1>2, <1>3, <1>9 DEF s2, b2, m

\* Whom a call is for is an object or a slot, and its buffer is in the table.
LEMMA CallIs ==
  ASSUME NEW f \in CallFrame
  PROVE  /\ f.buf \in Slots
         /\ f.at \in {"iter", "range", "eval", "text"}
         /\ f.at = "iter" =>
              /\ f.o \in Obj /\ f.cur \in Int
              /\ f.first \in Seq(Key) /\ f.seen \in Seq(Key \cup {Garbage})
         /\ f.at = "range" => f.o \in Obj /\ f.i \in 0 .. Elements /\ f.since \in Int
         /\ f.at = "text" => f.o \in Obj /\ f.since \in Int
         /\ f.at = "eval" => /\ f.s \in Slot /\ f.by \in {"get", "range"}
                             /\ f.do \in {"get", "dep"} /\ f.res \in Content
BY DEF CallFrame

\* An element of an object is a slot.
LEMMA ElementIs ==
  ASSUME NEW o \in Obj, NEW i \in 0 .. Elements - 1
  PROVE  <<o, i>> \in Slot
BY DEF Slot, Key

\* An evaluation changes no element of a range that has its value already.
LEMMA AttributeKeeps ==
  ASSUME NEW st, NEW bf, NEW at \in [Slot -> Attribute], NEW ks, NEW ar, NEW n,
         CallsFit(st, bf, at, ks, ar, n),
         NEW s \in Slot, NEW at2 \in [Slot -> Attribute],
         \A t \in Slot : t # s => at2[t] = at[t],
         at2[s].def = at[s].def, Late(at2, s) => Late(at, s),
         \A i \in 1 .. Len(st) :
           Timed(st[i], n) => /\ st[i].at = "range"
                              /\ \A j \in 0 .. st[i].i - 1 : s # <<st[i].o, j>>
  PROVE  CallsFit(st, bf, at2, ks, ar, n)
<1>1. \A t \in Slot : at2[t].def = at[t].def /\ (Late(at2, t) => Late(at, t))
  BY DEF Late
<1>2. st \in Seq(CallFrame) /\ \A i \in 1 .. Len(st) : st[i] \in CallFrame
  BY SeqIs DEF CallsFit
<1>3. ASSUME NEW i \in 1 .. Len(st)
      PROVE  Fits(st[i], bf[i - 1], at2, ks, ar, n)
  <2>1. Fits(st[i], bf[i - 1], at, ks, ar, n) /\ st[i] \in CallFrame
    BY <1>2 DEF CallsFit
  <2>2. st[i].at = "iter" => IterFits(st[i], bf[i - 1], ks[st[i].o], ar[st[i].o])
    BY <2>1 DEF Fits
  <2>3. ASSUME st[i].at = "range"
        PROVE  RangeFits(st[i], bf[i - 1], st[i].i, at2, n)
    <3>1. RangeFits(st[i], bf[i - 1], st[i].i, at, n)
      BY <2>1, <2>3 DEF Fits
    <3>2. ASSUME st[i].since = n, NEW j \in 0 .. st[i].i - 1
          PROVE  /\ ~Late(at2, <<st[i].o, j>>)
                 /\ bf[i - 1].data[j + 1] = at2[<<st[i].o, j>>].val
      <4>1. st[i].o \in Obj /\ st[i].i \in 0 .. Elements
        BY <2>1, <2>3, CallIs
      <4>2. j \in 0 .. Elements - 1
        BY <4>1, SizesAssumption
      <4>3. <<st[i].o, j>> \in Slot
        BY <4>1, <4>2, ElementIs
      <4>4. <<st[i].o, j>> # s
        BY <2>3, <3>2 DEF Timed
      <4>5. at2[<<st[i].o, j>>] = at[<<st[i].o, j>>]
        BY <4>3, <4>4
      <4> QED
        BY <3>1, <3>2, <4>5 DEF RangeFits, UpToDate, Late
    <3> QED
      BY <3>1, <3>2 DEF RangeFits, UpToDate
  <2>4. ASSUME st[i].at = "text"
        PROVE  RangeFits(st[i], bf[i - 1], Elements, at2, n)
    <3>1. RangeFits(st[i], bf[i - 1], Elements, at, n)
      BY <2>1, <2>4 DEF Fits
    <3>2. st[i].since # n
      BY <2>4 DEF Timed
    <3> QED
      BY <3>1, <3>2 DEF RangeFits
  <2>5. st[i].at = "eval" => at2[st[i].s].def # Null
    BY <1>1, <2>1, CallIs DEF Fits
  <2> QED
    BY <2>2, <2>3, <2>4, <2>5 DEF Fits
<1>4. Quiet(st, at2, n)
  <2> SUFFICES ASSUME NEW i \in 1 .. Len(st), NEW k \in 1 .. Len(st), i < k, Timed(st[i], n)
               PROVE  MayBeAbove(st[i], st[k], k - i, at2)
    BY DEF Quiet
  <2>1. MayBeAbove(st[i], st[k], k - i, at)
    BY DEF CallsFit, Quiet
  <2>2. Late(at2, st[k].s) => Late(at, st[k].s)
    BY <1>1, <1>2, <2>1, CallIs DEF MayBeAbove
  <2> QED
    BY <2>1, <2>2 DEF MayBeAbove
<1> QED
  BY <1>3, <1>4 DEF CallsFit

\* An event of the program makes every range in progress an interrupted one, and adds to the
\* keys of an object.
LEMMA SendKeeps ==
  ASSUME NEW st, NEW bf, NEW at, NEW ks, NEW ar, NEW n \in Int,
         NEW at2, NEW ks2, NEW ar2, NEW m,
         CallsFit(st, bf, at, ks, ar, n), m = n + 1, Grow(ks, ar, ks2, ar2),
         \A t \in Slot : at[t].def # Null => at2[t].def # Null
  PROVE  CallsFit(st, bf, at2, ks2, ar2, m)
<1>1. st \in Seq(CallFrame) /\ \A i \in 1 .. Len(st) : st[i] \in CallFrame
  BY SeqIs DEF CallsFit
<1>2. ASSUME NEW i \in 1 .. Len(st), st[i].at \in {"range", "text"}
      PROVE  st[i].since \in Int /\ st[i].since <= n
  <2>1. Fits(st[i], bf[i - 1], at, ks, ar, n) /\ st[i] \in CallFrame
    BY <1>1 DEF CallsFit
  <2> QED
    BY <1>2, <2>1, CallIs DEF Fits, RangeFits
<1>3. ASSUME NEW i \in 1 .. Len(st)
      PROVE  Fits(st[i], bf[i - 1], at2, ks2, ar2, m)
  <2>1. Fits(st[i], bf[i - 1], at, ks, ar, n) /\ st[i] \in CallFrame
    BY <1>1 DEF CallsFit
  <2>2. ASSUME st[i].at = "iter"
        PROVE  IterFits(st[i], bf[i - 1], ks2[st[i].o], ar2[st[i].o])
    <3> DEFINE f == st[i]
               b == bf[i - 1]
    <3>1. f.o \in Obj /\ f.first \in Seq(Key) /\ IterFits(f, b, ks[f.o], ar[f.o])
      BY <2>1, <2>2, CallIs DEF Fits
    <3>2. Len(f.first) \in Nat
      BY <3>1, SeqIs
    <3> HIDE DEF f, b
    <3>3. b.data[2] <= ar2[f.o] /\ (b.data[2] = ar2[f.o] => ar2[f.o] = ar[f.o])
      BY <3>1 DEF IterFits, Grow
    <3>4. ASSUME b.data[2] = ar2[f.o]
          PROVE  /\ Len(f.first) <= Len(ks2[f.o])
                 /\ \A j \in 1 .. Len(f.first) : f.first[j] = ks2[f.o][j]
                 /\ \E p \in Int : Visits(f, p)
      <4>1. /\ Len(f.first) <= Len(ks[f.o])
            /\ \A j \in 1 .. Len(f.first) : f.first[j] = ks[f.o][j]
            /\ \E p \in Int : Visits(f, p)
        BY <3>1, <3>3, <3>4 DEF IterFits
      <4>2. /\ Len(ks2[f.o]) \in Nat /\ Len(ks[f.o]) <= Len(ks2[f.o]) /\ Len(ks[f.o]) \in Nat
            /\ \A j \in 1 .. Len(ks[f.o]) : ks2[f.o][j] = ks[f.o][j]
        BY <3>1, <3>3, <3>4 DEF Grow
      <4> QED
        BY <3>2, <4>1, <4>2
    <3>5. IterFits(f, b, ks2[f.o], ar2[f.o])
      BY <3>1, <3>3, <3>4 DEF IterFits
    <3> QED
      BY <3>5 DEF f, b
  <2>3. st[i].at = "range" => RangeFits(st[i], bf[i - 1], st[i].i, at2, m)
    BY <1>2, <2>1 DEF Fits, RangeFits
  <2>4. st[i].at = "text" => RangeFits(st[i], bf[i - 1], Elements, at2, m)
    BY <1>2, <2>1 DEF Fits, RangeFits
  <2>5. st[i].at = "eval" => at2[st[i].s].def # Null
    BY <2>1, CallIs DEF Fits
  <2> QED
    BY <2>2, <2>3, <2>4, <2>5 DEF Fits
<1>4. Quiet(st, at2, m)
  BY <1>2 DEF Quiet, Timed
<1> QED
  BY <1>3, <1>4 DEF CallsFit

-----------------------------------------------------------------------------
(***************************************************************************)
(* Keys and iterations.                                                    *)
(***************************************************************************)
\* A key that is added comes behind those there are; when the array is the same one they are
\* where they were.
LEMMA AddKeyKeeps ==
  ASSUME keys \in [Obj -> Seq(Key)], cap \in [Obj -> Nat], array \in [Obj -> Nat],
         KeysFit(keys, cap), NEW o \in Obj, NEW k \in Key, AddKey(o, k)
  PROVE  /\ keys' \in [Obj -> Seq(Key)] /\ cap' \in [Obj -> Nat] /\ array' \in [Obj -> Nat]
         /\ KeysFit(keys', cap')
         /\ Grow(keys, array, keys', array')
<1>1. \A u \in Obj : keys[u] \in Seq(Key) /\ Len(keys[u]) \in Nat
  BY SeqIs
<1>2. CASE Exists(<<o, k>>)
  <2>1. keys' = keys /\ cap' = cap /\ array' = array
    BY <1>2 DEF AddKey
  <2> QED
    BY <1>1, <2>1 DEF Grow
<1>3. CASE ~Exists(<<o, k>>)
  <2>1. keys' = [keys EXCEPT ![o] = Append(@, k)]
    BY <1>3 DEF AddKey
  <2>2. \A i \in 1 .. Len(keys[o]) : keys[o][i] # k
    BY <1>3 DEF Exists, Contains
  <2>3. \/ Len(keys[o]) < cap[o] /\ cap' = cap /\ array' = array
        \/ /\ ~(Len(keys[o]) < cap[o])
           /\ cap' = [cap EXCEPT ![o] = @ + Inc] /\ array' = [array EXCEPT ![o] = @ + 1]
    BY <1>3 DEF AddKey
  <2>4. /\ Append(keys[o], k) \in Seq(Key) /\ Len(Append(keys[o], k)) = Len(keys[o]) + 1
        /\ \A i \in 1 .. Len(keys[o]) : Append(keys[o], k)[i] = keys[o][i]
        /\ Append(keys[o], k)[Len(keys[o]) + 1] = k
    BY <1>1, Pushed
  <2> DEFINE t == Append(keys[o], k)
  <2>5. keys'[o] = t /\ \A u \in Obj : u # o => keys'[u] = keys[u]
    BY <2>1
  <2>6. keys' \in [Obj -> Seq(Key)]
    BY <2>1, <2>4
  <2>7. DOMAIN t = 1 .. Len(keys[o]) + 1 /\ DOMAIN keys[o] = 1 .. Len(keys[o])
    BY <1>1, <2>4, SeqIs
  <2>8. /\ t \in Seq(Key) /\ Len(t) = Len(keys[o]) + 1
        /\ \A i \in 1 .. Len(keys[o]) : t[i] = keys[o][i]
        /\ t[Len(keys[o]) + 1] = k
    BY <2>4
  <2> HIDE DEF t
  <2>9. IsInjective(t)
    <3>1. \A i, j \in 1 .. Len(keys[o]) : keys[o][i] = keys[o][j] => i = j
      BY <2>7 DEF KeysFit, IsInjective
    <3>2. DOMAIN t = 1 .. Len(keys[o]) + 1
      BY <2>8, SeqIs
    <3>3. ASSUME NEW i \in 1 .. Len(keys[o]) + 1, NEW j \in 1 .. Len(keys[o]) + 1, t[i] = t[j]
          PROVE  i = j
      <4>1. Len(keys[o]) \in Nat
        BY <1>1, SeqIs
      <4>2. \A x \in 1 .. Len(keys[o]) + 1 : x = Len(keys[o]) + 1 \/ x \in 1 .. Len(keys[o])
        BY <4>1
      <4>3. CASE i \in 1 .. Len(keys[o]) /\ j \in 1 .. Len(keys[o])
        BY <2>8, <3>1, <3>3, <4>3
      <4>4. CASE i = Len(keys[o]) + 1 \/ j = Len(keys[o]) + 1
        BY <2>2, <2>8, <3>3, <4>2, <4>4
      <4> QED
        BY <4>2, <4>3, <4>4
    <3> QED
      BY <3>2, <3>3 DEF IsInjective
  <2>10. Inc \in Nat \ {0}
    BY SizesAssumption
  <2>11. cap' \in [Obj -> Nat] /\ array' \in [Obj -> Nat]
    <3>1. \A i \in Nat : i + Inc \in Nat /\ i + 1 \in Nat
      BY <2>10
    <3>2. cap[o] + Inc \in Nat /\ array[o] + 1 \in Nat
      BY <3>1
    <3> QED
      BY <2>3, <3>2
  <2>12. \A u \in Obj : Len(keys'[u]) <= cap'[u]
    <3>1. \A u \in Obj : Len(keys[u]) <= cap[u]
      BY DEF KeysFit
    <3>2. Len(t) <= cap'[o]
      BY <1>1, <2>3, <2>8, <2>10, <3>1
    <3>3. \A u \in Obj : u # o => cap'[u] = cap[u]
      BY <2>3
    <3> QED
      BY <2>5, <3>1, <3>2, <3>3
  <2>13. KeysFit(keys', cap')
    BY <2>5, <2>9, <2>12 DEF KeysFit
  <2>14. \A u \in Obj : array[u] \in Nat /\ array'[u] \in Nat /\ array[u] <= array'[u]
    BY <2>3
  <2>15. \A u \in Obj : /\ Len(keys'[u]) \in Nat /\ Len(keys[u]) <= Len(keys'[u])
                        /\ \A j \in 1 .. Len(keys[u]) : keys'[u][j] = keys[u][j]
    BY <1>1, <2>5, <2>8
  <2> QED
    BY <1>1, <2>6, <2>11, <2>13, <2>14, <2>15 DEF Grow
<1> QED
  BY <1>2, <1>3

\* A step of an iteration visits the key at its index and leaves the parent out.
LEMMA StepVisits ==
  ASSUME NEW f, f.first \in Seq(Key), f.cur \in Int, f.seen \in Seq(Key \cup {Garbage}),
         IsInjective(f.first), f.cur >= 0, f.cur < Len(f.first),
         NEW p \in Int, Visits(f, p),
         NEW g, g.first = f.first, g.seen = Append(f.seen, f.first[f.cur + 1]),
         g.cur = IF f.cur + 1 >= Len(f.first) THEN -1
                 ELSE IF f.first[f.cur + 2] = Parent
                      THEN IF f.cur + 2 >= Len(f.first) THEN -1 ELSE f.cur + 2
                 ELSE f.cur + 1
  PROVE  Visits(g, p)
<1>0. PICK s \in Seq(Key), c \in Int, q \in Seq(Key \cup {Garbage}) :
        f.first = s /\ f.cur = c /\ f.seen = q
  OBVIOUS
<1> DEFINE L == Len(s)
           r == Append(q, s[c + 1])
<1>7. /\ IsInjective(s) /\ c >= 0 /\ c < L /\ g.first = s /\ g.seen = r
      /\ g.cur = IF c + 1 >= L THEN -1
                 ELSE IF s[c + 2] = Parent THEN IF c + 2 >= L THEN -1 ELSE c + 2
                 ELSE c + 1
  BY <1>0
<1>8. Passed(g) = IF g.cur = -1 THEN L ELSE g.cur
  BY <1>7 DEF Passed
<1>1. L \in Nat /\ DOMAIN s = 1 .. L /\ \A i \in 1 .. L : s[i] \in Key
  BY SeqIs
<1>2. /\ Len(r) = Len(q) + 1 /\ Len(q) \in Nat
      /\ \A i \in 1 .. Len(q) : r[i] = q[i]
      /\ r[Len(q) + 1] = s[c + 1]
  <2>1. s[c + 1] \in Key \cup {Garbage}
    BY <1>7, <1>1
  <2>2. Len(q) \in Nat
    BY SeqIs
  <2> QED
    BY <2>1, <2>2, Pushed
<1> HIDE DEF r
<1>3. /\ p \in 2 .. L + 1 /\ (p <= L => s[p] = Parent)
      /\ \A j \in 2 .. p - 1 : s[j] # Parent
      /\ c + 1 # p
      /\ Len(q) = c - (IF p <= c THEN 1 ELSE 0)
      /\ \A j \in 1 .. Len(q) : q[j] = IF j < p THEN s[j] ELSE s[j + 1]
  <2>1. Passed(f) = c
    BY <1>0, <1>7 DEF Passed
  <2> QED
    BY <1>0, <2>1 DEF Visits, SkipsAt
<1>4. ASSUME NEW j \in 2 .. L, s[j] = Parent
      PROVE  j = p
  <2>1. ~(j \in 2 .. p - 1)
    BY <1>3, <1>4
  <2>2. p <= j /\ p <= L
    BY <1>1, <1>3, <2>1
  <2>3. s[p] = Parent /\ p \in 1 .. L /\ j \in 1 .. L
    BY <1>3, <2>2
  <2> QED
    BY <1>7, <1>1, <1>4, <2>3 DEF IsInjective
<1>5. \A j \in 1 .. Len(r) : r[j] = IF j < p THEN s[j] ELSE s[j + 1]
  <2> TAKE j \in 1 .. Len(r)
  <2>1. CASE j \in 1 .. Len(q)
    BY <1>2, <1>3, <2>1
  <2>2. CASE j = Len(q) + 1
    <3>1. r[j] = s[c + 1]
      BY <1>2, <2>2
    <3>2. CASE p <= c
      <4>1. j = c /\ ~(j < p)
        BY <1>2, <1>3, <2>2, <3>2
      <4> QED
        BY <3>1, <4>1
    <3>3. CASE ~(p <= c)
      <4>1. j = c + 1 /\ j < p
        BY <1>2, <1>3, <2>2, <3>3
      <4> QED
        BY <3>1, <4>1
    <3> QED
      BY <3>2, <3>3
  <2> QED
    BY <1>2, <2>1, <2>2
<1>6. /\ g.cur + 1 # p
      /\ Len(r) = Passed(g) - (IF p <= Passed(g) THEN 1 ELSE 0)
  <2>1. CASE c + 1 >= L
    <3>1. g.cur = -1 /\ Passed(g) = L /\ L = c + 1
      <4>1. g.cur = -1
        BY <1>7, <2>1
      <4>2. Passed(g) = L
        BY <1>8, <4>1
      <4>3. L \in Nat /\ c < L /\ c + 1 >= L
        BY <1>7, <1>1, <2>1
      <4> HIDE DEF L
      <4>4. L = c + 1
        BY <4>3
      <4> QED
        BY <4>1, <4>2, <4>4
    <3> HIDE DEF L
    <3>2. p \in 2 .. L + 1 /\ c + 1 # p /\ L \in Nat /\ c \in Int
      BY <1>1, <1>3
    <3>3. g.cur + 1 # p /\ (p <= L <=> p <= c)
      BY <3>1, <3>2
    <3>4. Len(r) = c - (IF p <= c THEN 1 ELSE 0) + 1
      BY <1>2, <1>3
    <3>5. Len(r) = L - (IF p <= L THEN 1 ELSE 0)
      <4>1. CASE p <= c
        BY <3>1, <3>2, <3>3, <3>4, <4>1
      <4>2. CASE ~(p <= c)
        BY <3>1, <3>2, <3>3, <3>4, <4>2
      <4> QED
        BY <4>1, <4>2
    <3> QED
      BY <3>1, <3>3, <3>5
  <2>2. CASE c + 1 < L /\ s[c + 2] # Parent
    <3>1. g.cur = c + 1 /\ Passed(g) = c + 1
      BY <1>7, <1>8, <1>1, <2>2
    <3>2. c + 2 # p
      BY <1>7, <1>1, <1>3, <2>2
    <3> QED
      BY <1>2, <1>3, <3>1, <3>2
  <2>3. CASE c + 1 < L /\ s[c + 2] = Parent
    <3>1. c + 2 = p
      BY <1>7, <1>1, <1>4, <2>3
    <3>2. CASE c + 2 >= L
      <4>2. L = c + 2
        <5>1. L \in Int /\ c + 1 < L /\ c + 2 >= L
          BY <1>1, <2>3, <3>2
        <5> HIDE DEF L
        <5> QED
          BY <5>1
      <4>3. g.cur = -1
        BY <1>7, <2>3, <4>2
      <4>1. g.cur = -1 /\ Passed(g) = L /\ L = c + 2
        BY <1>8, <4>2, <4>3
      <4> QED
        BY <1>2, <1>3, <3>1, <4>1
    <3>3. CASE ~(c + 2 >= L)
      <4>1. g.cur = c + 2 /\ Passed(g) = c + 2
        BY <1>7, <1>8, <1>1, <2>3, <3>3
      <4> QED
        BY <1>2, <1>3, <3>1, <4>1
    <3> QED
      BY <3>2, <3>3
  <2> QED
    BY <1>1, <2>1, <2>2, <2>3
<1> QED
  BY <1>7, <1>3, <1>5, <1>6 DEF Visits, SkipsAt

\* An iteration that goes on stays within its buffer.
LEMMA AdvanceFits ==
  ASSUME keys \in [Obj -> Seq(Key)], array \in [Obj -> Nat],
         NEW f \in CallFrame, f.at = "iter", f.cur >= 0,
         NEW b, IterFits(f, b, keys[f.o], array[f.o]),
         NEW g, g = [f EXCEPT !.cur = NextIndex(b, @), !.seen = Append(@, Element(b, f.cur))]
  PROVE  g \in CallFrame /\ g.at = "iter" /\ g.buf = f.buf /\ g.o = f.o
         /\ IterFits(g, b, keys[g.o], array[g.o])
<1> DEFINE c == f.cur
           s == f.first
           L == Len(f.first)
           q == f.seen
           e == Element(b, c)
           x == NextIndex(b, c)
           valid == b.data[2] = array[f.o]
<1>1. /\ f.o \in Obj /\ c \in Int /\ s \in Seq(Key) /\ q \in Seq(Key \cup {Garbage})
      /\ L \in Nat /\ \A i \in 1 .. L : s[i] \in Key
  BY CallIs, SeqIs
<1>2. /\ c >= 0 /\ c < L /\ ~b.own /\ b.data[1] = f.o /\ b.count = L /\ IsInjective(s)
      /\ valid => L <= Len(keys[f.o]) /\ \A j \in 1 .. L : s[j] = keys[f.o][j]
  BY <1>1 DEF IterFits
<1>3. \A j \in 0 .. L - 1 : Element(b, j) = IF valid THEN s[j + 1] ELSE Garbage
  <2>1. \A j \in 0 .. L - 1 : j + 1 \in 1 .. L
    BY <1>1
  <2> QED
    BY <1>2, <2>1 DEF Element
<1>4. e \in Key \cup {Garbage} /\ (valid => e = s[c + 1])
  <2>1. c \in 0 .. L - 1 /\ c + 1 \in 1 .. L
    BY <1>1, <1>2
  <2> QED
    BY <1>1, <1>3, <2>1
<1>5. /\ x \in -1 .. L - 1
      /\ valid => x = IF c + 1 >= L THEN -1
                      ELSE IF s[c + 2] = Parent THEN IF c + 2 >= L THEN -1 ELSE c + 2
                      ELSE c + 1
  <2>1. After(b, c) = IF c + 1 >= L THEN -1 ELSE c + 1
    BY <1>2 DEF After
  <2>2. CASE c + 1 >= L
    <3>1. x = -1
      BY <2>1, <2>2 DEF NextIndex
    <3> QED
      BY <1>1, <2>2, <3>1
  <2>3. CASE ~(c + 1 >= L)
    <3>1. After(b, c) = c + 1 /\ c + 1 >= 0 /\ c + 1 \in 0 .. L - 1
      BY <1>1, <1>2, <2>1, <2>3
    <3>2. x = IF Element(b, c + 1) = Parent THEN After(b, c + 1) ELSE c + 1
      BY <3>1 DEF NextIndex
    <3>3. After(b, c + 1) = IF c + 2 >= L THEN -1 ELSE c + 2
      BY <1>1, <1>2 DEF After
    <3>4. valid => Element(b, c + 1) = s[c + 2]
      <4>1. (c + 1) + 1 = c + 2
        BY <1>1
      <4> QED
        BY <1>3, <3>1, <4>1
    <3>5. x \in -1 .. L - 1
      BY <1>1, <1>2, <3>1, <3>2, <3>3
    <3> QED
      BY <2>3, <3>2, <3>3, <3>4, <3>5
  <2> QED
    BY <2>2, <2>3
<1>6. Append(q, e) \in Seq(Key \cup {Garbage})
  BY <1>1, <1>4, Pushed
<1>7. f \in [at : {"iter"}, o : Obj, buf : Slots, cur : Int, first : Seq(Key),
             seen : Seq(Key \cup {Garbage})]
  BY DEF CallFrame
<1>8. g = [f EXCEPT !.cur = x, !.seen = Append(q, e)]
  OBVIOUS
<1>9. x \in Int
  BY <1>1, <1>5
<1> HIDE DEF c, s, L, q, e, x
<1>10. /\ g \in [at : {"iter"}, o : Obj, buf : Slots, cur : Int, first : Seq(Key),
                seen : Seq(Key \cup {Garbage})]
       /\ g.at = "iter" /\ g.buf = f.buf /\ g.o = f.o /\ g.cur = x /\ g.first = f.first
       /\ g.seen = Append(q, e)
  BY <1>6, <1>7, <1>8, <1>9
<1>11. g \in CallFrame
  BY <1>10 DEF CallFrame
<1>12. ASSUME valid
       PROVE  \E p \in Int : Visits(g, p)
  <2>1. PICK p \in Int : Visits(f, p)
    BY <1>12 DEF IterFits
  <2>2. /\ g.first = f.first /\ g.seen = Append(f.seen, f.first[f.cur + 1])
        /\ g.cur = IF f.cur + 1 >= Len(f.first) THEN -1
                   ELSE IF f.first[f.cur + 2] = Parent
                        THEN IF f.cur + 2 >= Len(f.first) THEN -1 ELSE f.cur + 2
                   ELSE f.cur + 1
    BY <1>4, <1>5, <1>10, <1>12 DEF s, L, c, q
  <2>3. /\ f.first \in Seq(Key) /\ f.cur \in Int /\ f.seen \in Seq(Key \cup {Garbage})
        /\ IsInjective(f.first) /\ f.cur >= 0 /\ f.cur < Len(f.first)
    BY <1>1, <1>2 DEF s, c, q, L
  <2>4. Visits(g, p)
    BY <2>1, <2>2, <2>3, StepVisits
  <2> QED
    BY <2>4
<1> QED
  BY <1>5, <1>10, <1>11, <1>12 DEF IterFits, L

-----------------------------------------------------------------------------
(***************************************************************************)
(* What changes at the innermost call.                                     *)
(***************************************************************************)
\* The innermost call, and those below it.
LEMMA Innermost ==
  ASSUME NEW st, NEW bf, NEW at, NEW ks, NEW ar, NEW n,
         CallsFit(st, bf, at, ks, ar, n), st # <<>>
  PROVE  /\ st \in Seq(CallFrame) /\ Len(st) \in Nat \ {0} /\ Len(st) \in 1 .. Len(st)
         /\ Last(st) = st[Len(st)] /\ Last(st) \in CallFrame
         /\ Last(st).buf = Len(st) - 1 /\ Last(st).buf \in Slots /\ bf[Last(st).buf] # Null
         /\ Fits(Last(st), bf[Last(st).buf], at, ks, ar, n)
         /\ Ranged(st, Len(st))
         /\ Front(st) \in Seq(CallFrame) /\ Len(Front(st)) = Len(st) - 1
         /\ \A i \in 1 .. Len(st) - 1 : Front(st)[i] = st[i] /\ i \in 1 .. Len(st)
<1>1. st \in Seq(CallFrame)
  BY DEF CallsFit
<1>2. /\ Len(st) \in Nat \ {0} /\ Last(st) = st[Len(st)] /\ Last(st) \in CallFrame
      /\ Front(st) \in Seq(CallFrame) /\ Len(Front(st)) = Len(st) - 1
      /\ \A i \in 1 .. Len(st) - 1 : Front(st)[i] = st[i]
  BY <1>1, Popped
<1>3. Len(st) \in 1 .. Len(st) /\ \A i \in 1 .. Len(st) - 1 : i \in 1 .. Len(st)
  BY <1>2
<1>4. Last(st).buf = Len(st) - 1
  BY <1>2, <1>3 DEF CallsFit, Held
<1>5. Last(st).buf \in Slots
  BY <1>2, CallIs
<1>6. bf[Last(st).buf] # Null
  <2>1. Len(st) - 1 < Len(st)
    BY <1>2
  <2> QED
    BY <1>4, <1>5, <2>1 DEF CallsFit, Held
<1>7. Fits(Last(st), bf[Last(st).buf], at, ks, ar, n) /\ Ranged(st, Len(st))
  BY <1>2, <1>3, <1>4 DEF CallsFit
<1> QED
  BY <1>1, <1>2, <1>3, <1>4, <1>5, <1>6, <1>7

\* The innermost call goes on, with its slot of the table.
LEMMA ReplaceKeeps ==
  ASSUME NEW st, NEW bf \in [Slots -> Buffer \cup {Null}], NEW at, NEW ks, NEW ar, NEW n,
         CallsFit(st, bf, at, ks, ar, n), st # <<>>,
         NEW g \in CallFrame, NEW b \in Buffer,
         g.buf = Last(st).buf, Fits(g, b, at, ks, ar, n),
         g.at = "eval" <=> Last(st).at = "eval",
         g.at = "eval" => g.s = Last(st).s /\ g.by = Last(st).by
  PROVE  CallsFit(Append(Front(st), g), [bf EXCEPT ![Last(st).buf] = b], at, ks, ar, n)
<1> DEFINE x  == Last(st).buf
           b1 == [bf EXCEPT ![x] = Null]
           s1 == Front(st)
<1>1. /\ st \in Seq(CallFrame) /\ Len(st) \in Nat \ {0} /\ Len(st) \in 1 .. Len(st)
      /\ Last(st) = st[Len(st)] /\ Last(st) \in CallFrame /\ Ranged(st, Len(st))
      /\ x \in Slots /\ x = Len(st) - 1 /\ Len(s1) = Len(st) - 1 /\ s1 \in Seq(CallFrame)
      /\ \A i \in 1 .. Len(st) - 1 : s1[i] = st[i] /\ i \in 1 .. Len(st)
  BY Innermost
<1>2. CallsFit(s1, b1, at, ks, ar, n)
  BY PopKeeps
<1>3. b1 \in [Slots -> Buffer \cup {Null}] /\ [b1 EXCEPT ![x] = b] = [bf EXCEPT ![x] = b]
  BY <1>1
<1>4. ASSUME g.at = "eval", g.by = "range"
      PROVE  /\ s1 # <<>> /\ Last(s1).at = "range" /\ Last(s1).i < Elements
             /\ g.s = <<Last(s1).o, Last(s1).i>>
  <2>1. /\ Len(st) > 1 /\ st[Len(st) - 1].at = "range" /\ st[Len(st) - 1].i < Elements
        /\ g.s = <<st[Len(st) - 1].o, st[Len(st) - 1].i>>
    BY <1>1, <1>4 DEF Ranged
  <2>2. s1 # <<>> /\ Last(s1) = s1[Len(s1)]
    <3>1. Len(s1) # 0
      BY <1>1, <2>1
    <3>2. s1 # <<>>
      BY <3>1
    <3> QED
      BY <1>1, <3>2, Popped
  <2>3. Last(s1) = st[Len(st) - 1]
    <3>1. Len(st) - 1 \in 1 .. Len(st) - 1
      BY <1>1, <2>1
    <3> QED
      BY <1>1, <2>2, <3>1
  <2> QED
    BY <2>1, <2>2, <2>3
<1>5. ASSUME NEW i \in 1 .. Len(s1), Timed(s1[i], n)
      PROVE  MayBeAbove(s1[i], g, Len(s1) + 1 - i, at)
  <2>1. i \in 1 .. Len(st) /\ i < Len(st) /\ s1[i] = st[i] /\ Len(s1) + 1 - i = Len(st) - i
    BY <1>1
  <2>2. MayBeAbove(st[i], st[Len(st)], Len(st) - i, at)
    BY <1>1, <1>5, <2>1 DEF CallsFit, Quiet
  <2>3. MayBeAbove(st[i], Last(st), Len(st) - i, at)
    BY <1>1, <2>2
  <2>4. g.at = "eval" /\ g.s = Last(st).s /\ g.by = Last(st).by
    BY <2>3 DEF MayBeAbove
  <2> QED
    BY <2>1, <2>3, <2>4 DEF MayBeAbove
<1>6. Len(s1) \in Slots /\ g.buf = Len(s1)
  BY <1>1
<1>7. CallsFit(Append(s1, g), [b1 EXCEPT ![Len(s1)] = b], at, ks, ar, n)
  <2> HIDE DEF s1, b1
  <2> QED
    BY <1>2, <1>3, <1>4, <1>5, <1>6, PushKeeps
<1> QED
  BY <1>1, <1>3, <1>7

\* The same, when the buffer stays as it is.
LEMMA ReplaceOnly ==
  ASSUME NEW st, NEW bf \in [Slots -> Buffer \cup {Null}], NEW at, NEW ks, NEW ar, NEW n,
         CallsFit(st, bf, at, ks, ar, n), st # <<>>,
         NEW g \in CallFrame,
         g.buf = Last(st).buf, Fits(g, bf[g.buf], at, ks, ar, n),
         g.at = "eval" <=> Last(st).at = "eval",
         g.at = "eval" => g.s = Last(st).s /\ g.by = Last(st).by
  PROVE  CallsFit(Append(Front(st), g), bf, at, ks, ar, n)
<1>1. Last(st).buf \in Slots /\ bf[Last(st).buf] # Null
  BY Innermost
<1>2. PICK b \in Buffer : b = bf[Last(st).buf]
  BY <1>1
<1>3. Fits(g, b, at, ks, ar, n)
  BY <1>2
<1>4. CallsFit(Append(Front(st), g), [bf EXCEPT ![Last(st).buf] = b], at, ks, ar, n)
  BY <1>3, ReplaceKeeps
<1>5. [bf EXCEPT ![Last(st).buf] = b] = bf
  BY <1>1, <1>2
<1> QED
  BY <1>4, <1>5

\* A range that no event interrupted has only evaluations above it, the first of its
\* element; so its user has nothing above it.
LEMMA AboveTimed ==
  ASSUME NEW st, NEW bf, NEW at, NEW ks, NEW ar, NEW n,
         CallsFit(st, bf, at, ks, ar, n), st # <<>>,
         NEW i \in 1 .. Len(st), Timed(st[i], n), Last(st).at # "text"
  PROVE  /\ st[i].at = "range" /\ st[i].i \in 0 .. Elements /\ st[i].o \in Obj
         /\ UpToDate(st[i], bf[i - 1], st[i].i, at)
         /\ Last(st).at = "range" => i = Len(st)
         /\ Last(st).at = "eval" =>
              /\ i < Len(st) /\ MayBeAbove(st[i], Last(st), Len(st) - i, at)
              /\ st[i].i < Elements /\ ~Late(at, <<st[i].o, st[i].i>>)
              /\ Len(st) - i = 1 => Last(st).s = <<st[i].o, st[i].i>>
<1>1. /\ st \in Seq(CallFrame) /\ Len(st) \in Nat \ {0} /\ Len(st) \in 1 .. Len(st)
      /\ Last(st) = st[Len(st)]
  BY Innermost
<1>2. \A k \in 1 .. Len(st) : i < k => MayBeAbove(st[i], st[k], k - i, at)
  BY DEF CallsFit, Quiet
<1>3. st[i].at = "range"
  <2>1. i = Len(st) \/ i < Len(st)
    BY <1>1
  <2> QED
    BY <1>1, <1>2, <2>1 DEF MayBeAbove, Timed
<1>4. st[i] \in CallFrame
  BY <1>1, SeqIs
<1>5. st[i].i \in 0 .. Elements /\ st[i].o \in Obj
  BY <1>3, <1>4, CallIs
<1>6. UpToDate(st[i], bf[i - 1], st[i].i, at)
  BY <1>3 DEF CallsFit, Fits, RangeFits, Timed
<1>7. ASSUME Last(st).at = "range" PROVE i = Len(st)
  BY <1>1, <1>2, <1>7 DEF MayBeAbove
<1>8. ASSUME Last(st).at = "eval"
      PROVE  /\ i < Len(st) /\ MayBeAbove(st[i], Last(st), Len(st) - i, at)
             /\ st[i].i < Elements /\ ~Late(at, <<st[i].o, st[i].i>>)
             /\ Len(st) - i = 1 => Last(st).s = <<st[i].o, st[i].i>>
  <2>1. i < Len(st) /\ MayBeAbove(st[i], Last(st), Len(st) - i, at)
    BY <1>1, <1>2, <1>3, <1>8
  <2>2. i + 1 \in 1 .. Len(st) /\ i < i + 1 /\ (i + 1) - i = 1 /\ (i + 1) - 1 = i /\ i + 1 > 1
    BY <1>1, <2>1
  <2>3. /\ st[i + 1].at = "eval" /\ st[i + 1].by = "range" /\ ~Late(at, st[i + 1].s)
    BY <1>2, <2>2 DEF MayBeAbove
  <2>4. Ranged(st, i + 1)
    BY <2>2 DEF CallsFit
  <2>5. st[i].i < Elements /\ st[i + 1].s = <<st[i].o, st[i].i>>
    BY <2>2, <2>3, <2>4 DEF Ranged
  <2>6. Len(st) - i = 1 => Len(st) = i + 1
    BY <1>1
  <2> QED
    BY <1>1, <2>1, <2>3, <2>5, <2>6
<1> QED
  BY <1>3, <1>5, <1>6, <1>7, <1>8

\* An attribute that is out of date is none that a range has the value of, nor the element
\* it evaluates.
LEMMA Unsettled ==
  ASSUME NEW st, NEW bf, NEW at, NEW ks, NEW ar, NEW n,
         CallsFit(st, bf, at, ks, ar, n), st # <<>>,
         Last(st).at \in {"eval", "range"}, NEW s \in Slot, Late(at, s),
         NEW i \in 1 .. Len(st), Timed(st[i], n)
  PROVE  /\ st[i].at = "range"
         /\ \A j \in 0 .. st[i].i - 1 : s # <<st[i].o, j>>
         /\ Last(st).at = "eval" =>
              i < Len(st) /\ \A j \in 0 .. st[i].i : s # <<st[i].o, j>>
         /\ Last(st).at = "range" => i = Len(st)
<1>1. /\ st[i].at = "range" /\ st[i].i \in 0 .. Elements /\ st[i].o \in Obj
      /\ UpToDate(st[i], bf[i - 1], st[i].i, at)
      /\ Last(st).at = "range" => i = Len(st)
      /\ Last(st).at = "eval" => i < Len(st) /\ ~Late(at, <<st[i].o, st[i].i>>)
  BY AboveTimed
<1>2. ASSUME NEW j \in 0 .. st[i].i - 1
      PROVE  s # <<st[i].o, j>>
  BY <1>1 DEF UpToDate
<1>3. ASSUME Last(st).at = "eval", NEW j \in 0 .. st[i].i
      PROVE  s # <<st[i].o, j>>
  <2>1. j = st[i].i \/ j \in 0 .. st[i].i - 1
    BY <1>1
  <2> QED
    BY <1>1, <1>2, <1>3, <2>1
<1> QED
  BY <1>1, <1>2, <1>3

\* The attribute the innermost evaluation is for is none that a range has the value of.
LEMMA UnsettledEval ==
  ASSUME NEW st, NEW bf, NEW at, NEW ks, NEW ar, NEW n,
         CallsFit(st, bf, at, ks, ar, n), st # <<>>, Last(st).at = "eval",
         NEW i \in 1 .. Len(st), Timed(st[i], n)
  PROVE  /\ st[i].at = "range"
         /\ \A j \in 0 .. st[i].i - 1 : Last(st).s # <<st[i].o, j>>
<1>1. /\ st[i].at = "range" /\ st[i].i \in 0 .. Elements /\ st[i].o \in Obj
      /\ i < Len(st) /\ MayBeAbove(st[i], Last(st), Len(st) - i, at)
      /\ Len(st) - i = 1 => Last(st).s = <<st[i].o, st[i].i>>
  BY AboveTimed
<1>2. Len(st) \in Nat
  BY Innermost
<1>3. ASSUME NEW j \in 0 .. st[i].i - 1
      PROVE  Last(st).s # <<st[i].o, j>>
  <2>1. CASE Len(st) - i = 1
    <3>1. Last(st).s = <<st[i].o, st[i].i>> /\ j # st[i].i
      BY <1>1, <2>1
    <3> QED
      BY <3>1
  <2>2. CASE Len(st) - i # 1
    <3>1. Len(st) - i > 1
      BY <1>1, <1>2, <2>2
    <3>2. j \in 0 .. st[i].i
      BY <1>1
    <3> QED
      BY <1>1, <3>1, <3>2 DEF MayBeAbove
  <2> QED
    BY <2>1, <2>2
<1> QED
  BY <1>1, <1>3

-----------------------------------------------------------------------------
(***************************************************************************)
(* The events the program sends.                                           *)
(***************************************************************************)
\* The table has a slot for every call in progress; the first free one is that of the next.
LEMMA Table ==
  ASSUME IInv
  PROVE  /\ Len(stack) \in Nat /\ Len(stack) <= MaxBuffers
         /\ Full => Len(stack) = MaxBuffers
         /\ ~Full => FirstFree = Len(stack) /\ Len(stack) \in Slots
<1>1. /\ stack \in Seq(CallFrame) /\ Len(stack) \in Nat
      /\ \A i \in Slots : buffers[i] # Null <=> i < Len(stack)
  BY SeqIs DEF IInv, CallsFit, Held
<1>2. MaxBuffers \in Nat \ {0} /\ Slots = 0 .. MaxBuffers - 1
  BY SizesAssumption DEF Slots
<1>3. Len(stack) <= MaxBuffers
  <2>1. CASE stack = <<>>
    BY <1>2, <2>1
  <2>2. CASE stack # <<>>
    <3>1. Len(stack) - 1 \in Slots
      BY <2>2, Innermost DEF IInv
    <3> QED
      BY <1>1, <1>2, <3>1
  <2> QED
    BY <2>1, <2>2
<1>4. ASSUME Full PROVE Len(stack) = MaxBuffers
  <2>1. MaxBuffers - 1 \in Slots
    BY <1>2
  <2>2. MaxBuffers - 1 < Len(stack)
    BY <1>1, <1>4, <2>1 DEF Full
  <2> QED
    BY <1>1, <1>2, <1>3, <2>2
<1>5. ASSUME ~Full PROVE FirstFree = Len(stack) /\ Len(stack) \in Slots
  <2>1. PICK i \in Slots : buffers[i] = Null
    BY <1>5 DEF Full
  <2>2. i >= Len(stack) /\ Len(stack) \in Slots
    BY <1>1, <1>2, <2>1
  <2>3. /\ buffers[Len(stack)] = Null
        /\ \A j \in Slots : j < Len(stack) => buffers[j] # Null
    BY <1>1, <2>2
  <2> DEFINE P(k) == buffers[k] = Null /\ \A j \in Slots : j < k => buffers[j] # Null
  <2>4. \A k \in Slots : P(k) => k = Len(stack)
    <3> TAKE k \in Slots
    <3> HAVE P(k)
    <3>1. ~(k < Len(stack)) /\ ~(Len(stack) < k)
      BY <1>1, <2>2, <2>3
    <3> QED
      BY <1>1, <1>2, <3>1
  <2>5. P(Len(stack))
    BY <2>3
  <2>6. FirstFree = CHOOSE k \in Slots : P(k)
    BY DEF FirstFree
  <2> HIDE DEF P
  <2>7. FirstFree \in Slots /\ P(FirstFree)
    BY <2>2, <2>5, <2>6
  <2> QED
    BY <2>2, <2>4, <2>7
<1> QED
  BY <1>1, <1>3, <1>4, <1>5

\* No range in progress is as young as the next event.
LEMMA NotTimed ==
  ASSUME NEW st, NEW bf, NEW at, NEW ks, NEW ar, NEW n \in Int,
         CallsFit(st, bf, at, ks, ar, n), NEW i \in 1 .. Len(st)
  PROVE  ~Timed(st[i], n + 1)
<1>1. st[i] \in CallFrame /\ Fits(st[i], bf[i - 1], at, ks, ar, n)
  BY SeqIs DEF CallsFit
<1>2. st[i].at \in {"range", "text"} => st[i].since \in Int /\ st[i].since <= n
  BY <1>1, CallIs DEF Fits, RangeFits
<1> QED
  BY <1>2 DEF Timed

\* An event leaves the calls in progress as they are; a definition may be replaced and keys
\* added.
LEMMA EventKeeps ==
  ASSUME IInv, ops < MaxOps, NEW at2 \in [Slot -> Attribute],
         \A t \in Slot : attr[t].def # Null => at2[t].def # Null,
         \/ keys' = keys /\ cap' = cap /\ array' = array
         \/ \E o \in Obj, k \in Key : AddKey(o, k)
  PROVE  /\ Types(at2, keys', cap', array', buffers, ops + 1)
         /\ KeysFit(keys', cap')
         /\ CallsFit(stack, buffers, at2, keys', array', ops + 1)
<1>1. /\ Types(attr, keys, cap, array, buffers, ops) /\ KeysFit(keys, cap)
      /\ CallsFit(stack, buffers, attr, keys, array, ops)
  BY DEF IInv
<1>2. /\ keys \in [Obj -> Seq(Key)] /\ cap \in [Obj -> Nat] /\ array \in [Obj -> Nat]
      /\ ops \in Int /\ ops + 1 \in 0 .. MaxOps
  BY <1>1, SizesAssumption DEF Types
<1>3. /\ keys' \in [Obj -> Seq(Key)] /\ cap' \in [Obj -> Nat] /\ array' \in [Obj -> Nat]
      /\ KeysFit(keys', cap')
      /\ Grow(keys, array, keys', array')
  <2>1. CASE keys' = keys /\ cap' = cap /\ array' = array
    <3>1. \A u \in Obj : Len(keys[u]) \in Nat /\ array[u] \in Nat
      BY <1>2, SeqIs
    <3>2. KeysFit(keys', cap')
      BY <1>1, <2>1
    <3> QED
      BY <1>2, <2>1, <3>1, <3>2 DEF Grow
  <2>2. CASE \E o \in Obj, k \in Key : AddKey(o, k)
    BY <1>1, <1>2, <2>2, AddKeyKeeps
  <2> QED
    BY <2>1, <2>2
<1>4. CallsFit(stack, buffers, at2, keys', array', ops + 1)
  <2>1. PICK ks2, ar2, m : ks2 = keys' /\ ar2 = array' /\ m = ops + 1
    OBVIOUS
  <2>2. Grow(keys, array, ks2, ar2)
    BY <1>3, <2>1
  <2>3. CallsFit(stack, buffers, at2, ks2, ar2, m)
    BY <1>1, <1>2, <2>1, <2>2, SendKeeps
  <2> QED
    BY <2>1, <2>3
<1>5. Types(at2, keys', cap', array', buffers, ops + 1)
  BY <1>1, <1>2, <1>3 DEF Types
<1> QED
  BY <1>3, <1>4, <1>5

\* A call that an event starts.
LEMMA CallKeeps ==
  ASSUME IInv, ops < MaxOps, ~Full, NEW at2 \in [Slot -> Attribute],
         \A t \in Slot : attr[t].def # Null => at2[t].def # Null,
         keys' = keys, cap' = cap, array' = array,
         NEW f \in CallFrame, NEW b \in Buffer,
         f.buf = FirstFree, Fits(f, b, at2, keys, array, ops + 1),
         ~(f.at = "eval" /\ f.by = "range")
  PROVE  /\ Types(at2, keys, cap, array, [buffers EXCEPT ![FirstFree] = b], ops + 1)
         /\ CallsFit(Append(stack, f), [buffers EXCEPT ![FirstFree] = b], at2, keys, array, ops + 1)
<1>1. /\ Types(at2, keys, cap, array, buffers, ops + 1)
      /\ CallsFit(stack, buffers, at2, keys, array, ops + 1)
  BY EventKeeps
<1>2. FirstFree = Len(stack) /\ Len(stack) \in Slots
  BY Table
<1>3. buffers \in [Slots -> Buffer \cup {Null}] /\ ops \in Int
  BY SizesAssumption DEF IInv, Types
<1>4. \A i \in 1 .. Len(stack) : ~Timed(stack[i], ops + 1)
  BY <1>3, NotTimed DEF IInv
<1>5. CallsFit(Append(stack, f), [buffers EXCEPT ![Len(stack)] = b], at2, keys, array, ops + 1)
  BY <1>1, <1>2, <1>3, <1>4, PushKeeps
<1>6. Types(at2, keys, cap, array, [buffers EXCEPT ![FirstFree] = b], ops + 1)
  BY <1>1, <1>2, <1>3 DEF Types
<1> QED
  BY <1>2, <1>5, <1>6

\* What an evaluation is for and the buffer it gets.
LEMMA EvalIs ==
  ASSUME NEW s \in Slot, NEW by \in {"get", "range"}, NEW u \in Slots
  PROVE  /\ Eval(s, by, u) \in CallFrame /\ Eval(s, by, u).buf = u
         /\ Eval(s, by, u).at = "eval" /\ Eval(s, by, u).s = s /\ Eval(s, by, u).by = by
BY DEF CallFrame, Eval, Content

\* A buffer of one's own.
LEMMA OwnBufferIs ==
  ASSUME NEW n \in Nat
  PROVE  OwnBuffer(n) \in Buffer /\ OwnBuffer(n).own /\ Len(OwnBuffer(n).data) = n
<1> DEFINE d == [i \in 1 .. n |-> Null]
<1>1. d \in Seq(Content) /\ Len(d) = n
  BY DEF Content
<1>2. OwnBuffer(n) = [own |-> TRUE, data |-> d, count |-> n]
  BY DEF OwnBuffer
<1> HIDE DEF d
<1>3. OwnBuffer(n) \in [own : {TRUE}, data : Seq(Value \cup {Null}), count : Nat]
  BY <1>1, <1>2 DEF Content
<1> QED
  BY <1>1, <1>2, <1>3 DEF Buffer

\* The events that start no call.
LEMMA SetKeeps ==
  ASSUME IInv, NEW o \in Obj, NEW k \in Key, NEW v \in Value, Set(o, k, v)
  PROVE  IInv'
<1>1. /\ AddKey(o, k) /\ attr' = [attr EXCEPT ![<<o, k>>].val = v] /\ ops' = ops + 1
      /\ ops < MaxOps /\ buffers' = buffers /\ stack' = stack /\ fault' = fault
  BY DEF Set, MaySend
<1>2. <<o, k>> \in Slot /\ attr \in [Slot -> Attribute]
  BY DEF IInv, Types, Slot
<1>3. attr' \in [Slot -> Attribute] /\ \A t \in Slot : attr'[t].def = attr[t].def
  <2>1. [attr[<<o, k>>] EXCEPT !.val = v] \in Attribute
    BY <1>2 DEF Attribute, Content
  <2> QED
    BY <1>1, <1>2, <2>1
<1>4. PICK a \in [Slot -> Attribute] : a = attr'
  BY <1>3
<1>5. /\ Types(a, keys', cap', array', buffers, ops + 1) /\ KeysFit(keys', cap')
      /\ CallsFit(stack, buffers, a, keys', array', ops + 1)
  BY <1>1, <1>3, <1>4, EventKeeps
<1> QED
  BY <1>1, <1>4, <1>5 DEF IInv, FaultsNeedFullTable

LEMMA DefineKeeps ==
  ASSUME IInv, NEW o \in Obj, NEW k \in Key, NEW d \in Slot, Define(o, k, d)
  PROVE  IInv'
<1>1. /\ AddKey(o, k)
      /\ attr' = [attr EXCEPT ![<<o, k>>].def = d, ![<<o, k>>].ood = TRUE] /\ ops' = ops + 1
      /\ ops < MaxOps /\ buffers' = buffers /\ stack' = stack /\ fault' = fault
  BY DEF Define, MaySend
<1>2. <<o, k>> \in Slot /\ attr \in [Slot -> Attribute] /\ d # Null
  BY ValuesAssumption DEF IInv, Types, Slot
<1>3. attr' \in [Slot -> Attribute] /\ \A t \in Slot : attr[t].def # Null => attr'[t].def # Null
  <2>1. attr' = [attr EXCEPT ![<<o, k>>] = [@ EXCEPT !.def = d, !.ood = TRUE]]
    BY <1>1, <1>2
  <2>2. /\ [attr[<<o, k>>] EXCEPT !.def = d, !.ood = TRUE] \in Attribute
        /\ [attr[<<o, k>>] EXCEPT !.def = d, !.ood = TRUE].def = d
    BY <1>2 DEF Attribute
  <2> QED
    BY <1>2, <2>1, <2>2
<1>4. PICK a \in [Slot -> Attribute] : a = attr'
  BY <1>3
<1>5. /\ Types(a, keys', cap', array', buffers, ops + 1) /\ KeysFit(keys', cap')
      /\ CallsFit(stack, buffers, a, keys', array', ops + 1)
  BY <1>1, <1>3, <1>4, EventKeeps
<1> QED
  BY <1>1, <1>4, <1>5 DEF IInv, FaultsNeedFullTable

LEMMA NotifyKeeps ==
  ASSUME IInv, NEW s \in Slot, Notify(s)
  PROVE  IInv'
<1>1. /\ attr' = [attr EXCEPT ![s].ood = TRUE] /\ ops' = ops + 1 /\ ops < MaxOps
      /\ keys' = keys /\ cap' = cap /\ array' = array
      /\ buffers' = buffers /\ stack' = stack /\ fault' = fault
  BY DEF Notify, MaySend
<1>2. attr \in [Slot -> Attribute]
  BY DEF IInv, Types
<1>3. attr' \in [Slot -> Attribute] /\ \A t \in Slot : attr'[t].def = attr[t].def
  <2>1. [attr[s] EXCEPT !.ood = TRUE] \in Attribute
    BY <1>2 DEF Attribute
  <2> QED
    BY <1>1, <1>2, <2>1
<1>4. PICK a \in [Slot -> Attribute] : a = attr'
  BY <1>3
<1>5. /\ Types(a, keys', cap', array', buffers, ops + 1) /\ KeysFit(keys', cap')
      /\ CallsFit(stack, buffers, a, keys', array', ops + 1)
  BY <1>1, <1>3, <1>4, EventKeeps
<1> QED
  BY <1>1, <1>4, <1>5 DEF IInv, FaultsNeedFullTable

\* A buffer that is not there is used when the table is full.
LEMMA FaultKeeps ==
  ASSUME IInv, Full, fault' = TRUE, buffers' = buffers, stack' = stack, attr' = attr,
         keys' = keys, cap' = cap, array' = array,
         ops' = ops \/ (ops < MaxOps /\ ops' = ops + 1)
  PROVE  IInv'
<1>1. FaultsNeedFullTable'
  <2>1. Len(stack) = MaxBuffers
    BY Table
  <2> QED
    BY <2>1 DEF FaultsNeedFullTable
<1>2. CASE ops' = ops
  BY <1>1, <1>2 DEF IInv
<1>3. CASE ops < MaxOps /\ ops' = ops + 1
  <2>1. attr \in [Slot -> Attribute]
    BY DEF IInv, Types
  <2>2. /\ Types(attr, keys', cap', array', buffers, ops + 1) /\ KeysFit(keys', cap')
        /\ CallsFit(stack, buffers, attr, keys', array', ops + 1)
    BY <1>3, <2>1, EventKeeps
  <2> QED
    BY <1>1, <1>3, <2>2 DEF IInv
<1> QED
  BY <1>2, <1>3

\* An iteration begins with its buffer on the array of the keys there are.
LEMMA IterBegins ==
  ASSUME keys \in [Obj -> Seq(Key)], array \in [Obj -> Nat], KeysFit(keys, cap),
         NEW o \in Obj, keys[o] # <<>>, NEW u \in Slots, NEW n
  PROVE  /\ Iter(o, u) \in CallFrame /\ Iter(o, u).at = "iter" /\ Iter(o, u).buf = u
         /\ KeysBuffer(o) \in Buffer
         /\ Fits(Iter(o, u), KeysBuffer(o), attr, keys, array, n)
<1> DEFINE f == Iter(o, u)
           b == KeysBuffer(o)
           s == keys[o]
           L == Len(keys[o])
<1>1. s \in Seq(Key) /\ L \in Nat \ {0} /\ DOMAIN s = 1 .. L /\ array[o] \in Nat
  BY SeqIs
<1>2. <<>> \in Seq(Key \cup {Garbage}) /\ Len(<<>>) = 0
  OBVIOUS
<1>3. f \in [at : {"iter"}, o : Obj, buf : Slots, cur : Int, first : Seq(Key),
             seen : Seq(Key \cup {Garbage})]
  BY <1>1, <1>2 DEF Iter
<1>4. /\ f.at = "iter" /\ f.buf = u /\ f.o = o /\ f.cur = 0 /\ f.first = s /\ f.seen = <<>>
  BY DEF Iter
<1>5. /\ ~b.own /\ b.data[1] = o /\ b.data[2] = array[o] /\ b.count = L
  BY DEF KeysBuffer
<1>6. b \in Buffer
  <2>1. b \in [own : {FALSE}, data : Obj \X Nat, count : Nat]
    BY <1>1 DEF KeysBuffer
  <2> QED
    BY <2>1 DEF Buffer
<1>7. IsInjective(s)
  BY DEF KeysFit
<1> HIDE DEF f, b, s
<1>8. \E p \in Int : SkipsAt(s, p)
  <2>1. CASE \E j \in 2 .. Len(s) : s[j] = Parent
    <3>1. PICK j \in 2 .. Len(s) : s[j] = Parent
      BY <2>1
    <3>2. \A i \in 2 .. j - 1 : s[i] # Parent
      BY <1>1, <1>7, <3>1 DEF IsInjective, s
    <3>3. j \in Int /\ j \in 2 .. Len(s) + 1
      BY <1>1 DEF s
    <3> QED
      BY <3>1, <3>2, <3>3 DEF SkipsAt
  <2>2. CASE \A j \in 2 .. Len(s) : s[j] # Parent
    <3>1. Len(s) + 1 \in Int /\ Len(s) + 1 \in 2 .. Len(s) + 1 /\ Len(s) + 1 - 1 = Len(s)
          /\ ~(Len(s) + 1 <= Len(s))
      BY <1>1 DEF s
    <3> QED
      BY <2>2, <3>1 DEF SkipsAt
  <2> QED
    BY <2>1, <2>2
<1>9. PICK p \in Int : SkipsAt(s, p)
  BY <1>8
<1>10. Visits(f, p)
  <2>1. p \in 2 .. Len(s) + 1 /\ Len(s) \in Nat
    BY <1>1, <1>9 DEF SkipsAt, s
  <2>2. f.cur + 1 # p /\ Passed(f) = 0 /\ Len(f.seen) = 0
    BY <1>2, <1>4, <2>1 DEF Passed
  <2>3. Len(f.seen) = Passed(f) - (IF p <= Passed(f) THEN 1 ELSE 0)
    <3>1. p \in Int /\ ~(p <= 0)
      BY <2>1
    <3>2. p <= Passed(f) <=> FALSE
      BY <2>2, <3>1
    <3>3. Passed(f) - (IF p <= Passed(f) THEN 1 ELSE 0) = Passed(f) - 0
      BY <3>2, Zenon
    <3> QED
      BY <2>2, <3>3
  <2>4. \A j \in 1 .. Len(f.seen) : f.seen[j] = IF j < p THEN f.first[j] ELSE f.first[j + 1]
    BY <2>2
  <2> QED
    BY <1>4, <1>9, <2>2, <2>3, <2>4 DEF Visits
<1>11. IterFits(f, b, keys[f.o], array[f.o])
  BY <1>1, <1>4, <1>5, <1>7, <1>10 DEF IterFits, s
<1>12. Fits(f, b, attr, keys, array, n)
  BY <1>4, <1>11 DEF Fits
<1> QED
  BY <1>3, <1>4, <1>6, <1>12 DEF CallFrame, f, b

LEMMA BeginKeeps ==
  ASSUME IInv, NEW o \in Obj, Begin(o)
  PROVE  IInv'
<1>1. /\ keys[o] # <<>> /\ ops < MaxOps /\ ops' = ops + 1 /\ attr' = attr
      /\ keys' = keys /\ cap' = cap /\ array' = array /\ ~fault
  BY DEF Begin, MaySend
<1>2. CASE Full /\ fault' = TRUE /\ buffers' = buffers /\ stack' = stack
  BY <1>1, <1>2, FaultKeeps
<1>3. CASE /\ ~Full /\ stack' = Append(stack, Iter(o, FirstFree)) /\ fault' = fault
           /\ buffers' = [buffers EXCEPT ![FirstFree] = KeysBuffer(o)]
  <2>1. /\ attr \in [Slot -> Attribute] /\ keys \in [Obj -> Seq(Key)] /\ array \in [Obj -> Nat]
        /\ KeysFit(keys, cap)
    BY DEF IInv, Types
  <2>2. FirstFree \in Slots
    BY <1>3, Table
  <2>3. PICK f, b : f = Iter(o, FirstFree) /\ b = KeysBuffer(o)
    OBVIOUS
  <2>4. /\ f \in CallFrame /\ f.at = "iter" /\ f.buf = FirstFree /\ b \in Buffer
        /\ Fits(f, b, attr, keys, array, ops + 1)
    BY <1>1, <2>1, <2>2, <2>3, IterBegins
  <2>5. /\ Types(attr, keys, cap, array, [buffers EXCEPT ![FirstFree] = b], ops + 1)
        /\ CallsFit(Append(stack, f), [buffers EXCEPT ![FirstFree] = b], attr, keys, array, ops + 1)
    BY <1>1, <1>3, <2>1, <2>4, CallKeeps
  <2> QED
    BY <1>1, <1>3, <2>1, <2>3, <2>5 DEF IInv, FaultsNeedFullTable
<1> QED
  BY <1>2, <1>3 DEF Begin, Create

LEMMA GetRangeKeeps ==
  ASSUME IInv, NEW o \in Obj, GetRange(o)
  PROVE  IInv'
<1>1. /\ ops < MaxOps /\ ops' = ops + 1 /\ attr' = attr
      /\ keys' = keys /\ cap' = cap /\ array' = array /\ ~fault
  BY DEF GetRange, MaySend
<1>2. CASE Full /\ fault' = TRUE /\ buffers' = buffers /\ stack' = stack
  BY <1>1, <1>2, FaultKeeps
<1>3. CASE /\ ~Full /\ stack' = Append(stack, Ranging(o, FirstFree)) /\ fault' = fault
           /\ buffers' = [buffers EXCEPT ![FirstFree] = OwnBuffer(Elements)]
  <2>1. attr \in [Slot -> Attribute] /\ KeysFit(keys, cap) /\ ops \in Int
    BY SizesAssumption DEF IInv, Types
  <2>2. FirstFree \in Slots /\ Elements \in Nat
    BY <1>3, Table, SizesAssumption
  <2>3. PICK f, b : f = Ranging(o, FirstFree) /\ b = OwnBuffer(Elements)
    OBVIOUS
  <2>4. /\ f \in [at : {"range"}, o : Obj, buf : Slots, i : 0 .. Elements, since : Int]
        /\ f.at = "range" /\ f.buf = FirstFree /\ f.i = 0 /\ f.since = ops + 1
    BY <2>1, <2>2, <2>3 DEF Ranging
  <2>5. f \in CallFrame
    BY <2>4 DEF CallFrame
  <2>6. b \in Buffer /\ b.own /\ Len(b.data) = Elements
    BY <2>2, <2>3, OwnBufferIs
  <2>7. Fits(f, b, attr, keys, array, ops + 1)
    <3>1. UpToDate(f, b, f.i, attr) /\ f.since <= ops + 1
      BY <2>1, <2>4 DEF UpToDate
    <3>2. RangeFits(f, b, f.i, attr, ops + 1)
      BY <2>6, <3>1 DEF RangeFits
    <3> QED
      BY <2>4, <3>2 DEF Fits
  <2>8. /\ Types(attr, keys, cap, array, [buffers EXCEPT ![FirstFree] = b], ops + 1)
        /\ CallsFit(Append(stack, f), [buffers EXCEPT ![FirstFree] = b], attr, keys, array, ops + 1)
    BY <1>1, <1>3, <2>1, <2>4, <2>5, <2>6, <2>7, CallKeeps
  <2> QED
    BY <1>1, <1>3, <2>1, <2>3, <2>8 DEF IInv, FaultsNeedFullTable
<1> QED
  BY <1>2, <1>3 DEF GetRange, Create

LEMMA GetKeeps ==
  ASSUME IInv, NEW s \in Slot, Get(s)
  PROVE  IInv'
<1> DEFINE a == [attr EXCEPT ![s].evaluating = TRUE]
<1>1. /\ ops < MaxOps /\ ops' = ops + 1 /\ OutOfDate(s)
      /\ keys' = keys /\ cap' = cap /\ array' = array /\ ~fault
  BY DEF Get, MaySend
<1>2. CASE Full /\ fault' = TRUE /\ attr' = attr /\ buffers' = buffers /\ stack' = stack
  BY <1>1, <1>2, FaultKeeps
<1>3. CASE /\ ~Full /\ attr' = a /\ stack' = Append(stack, Eval(s, "get", FirstFree))
           /\ buffers' = [buffers EXCEPT ![FirstFree] = OwnBuffer(1)] /\ fault' = fault
  <2>1. attr \in [Slot -> Attribute] /\ KeysFit(keys, cap)
    BY DEF IInv, Types
  <2>2. FirstFree \in Slots
    BY <1>3, Table
  <2>3. a \in [Slot -> Attribute] /\ \A t \in Slot : a[t].def = attr[t].def
    <3>1. [attr[s] EXCEPT !.evaluating = TRUE] \in Attribute
      BY <2>1 DEF Attribute
    <3> QED
      BY <2>1, <3>1
  <2>4. PICK f, b : f = Eval(s, "get", FirstFree) /\ b = OwnBuffer(1)
    OBVIOUS
  <2>5. f \in CallFrame /\ f.at = "eval" /\ f.buf = FirstFree /\ f.s = s /\ f.by = "get"
    BY <2>2, <2>4, EvalIs
  <2>6. b \in Buffer
    BY <2>4, OwnBufferIs
  <2> HIDE DEF a
  <2>7. Fits(f, b, a, keys, array, ops + 1)
    BY <1>1, <2>3, <2>5 DEF Fits, OutOfDate
  <2>8. /\ Types(a, keys, cap, array, [buffers EXCEPT ![FirstFree] = b], ops + 1)
        /\ CallsFit(Append(stack, f), [buffers EXCEPT ![FirstFree] = b], a, keys, array, ops + 1)
    BY <1>1, <1>3, <2>3, <2>5, <2>6, <2>7, CallKeeps
  <2> QED
    BY <1>1, <1>3, <2>1, <2>4, <2>8 DEF IInv, FaultsNeedFullTable
<1> QED
  BY <1>2, <1>3 DEF Get, Evaluate, Create

-----------------------------------------------------------------------------
(***************************************************************************)
(* The calls go on.                                                        *)
(***************************************************************************)
\* A state that differs in the calls and their buffers only.
LEMMA StackChanges ==
  ASSUME IInv, ~fault, attr' \in [Slot -> Attribute],
         buffers' \in [Slots -> Buffer \cup {Null}],
         CallsFit(stack', buffers', attr', keys, array, ops),
         UNCHANGED <<keys, cap, array, fault, ops>>
  PROVE  IInv'
<1>1. Types(attr', keys', cap', array', buffers', ops')
  BY DEF IInv, Types
<1>2. KeysFit(keys', cap') /\ fault' \in BOOLEAN /\ FaultsNeedFullTable'
  BY DEF IInv, FaultsNeedFullTable
<1>3. CallsFit(stack', buffers', attr', keys', array', ops')
  OBVIOUS
<1> QED
  BY <1>1, <1>2, <1>3 DEF IInv

\* The types as the steps need them.
LEMMA TypesAre ==
  ASSUME IInv
  PROVE  /\ attr \in [Slot -> Attribute] /\ buffers \in [Slots -> Buffer \cup {Null}]
         /\ keys \in [Obj -> Seq(Key)] /\ array \in [Obj -> Nat] /\ ops \in Int
         /\ CallsFit(stack, buffers, attr, keys, array, ops)
BY SizesAssumption DEF IInv, Types

LEMMA AdvanceKeeps ==
  ASSUME IInv, Advance
  PROVE  IInv'
<1> DEFINE f == Last(stack)
           b == buffers[f.buf]
<1>1. /\ stack # <<>> /\ f.at = "iter" /\ f.cur >= 0 /\ ~fault
      /\ stack' = Append(Front(stack), [f EXCEPT !.cur = NextIndex(b, @),
                                                !.seen = Append(@, Element(b, f.cur))])
      /\ UNCHANGED <<attr, keys, cap, array, buffers, fault, ops>>
  BY DEF Advance, Running, Top, Below
<1>2. f \in CallFrame /\ Fits(f, b, attr, keys, array, ops)
  BY <1>1, TypesAre, Innermost
<1> HIDE DEF f, b
<1>3. IterFits(f, b, keys[f.o], array[f.o])
  BY <1>1, <1>2 DEF Fits
<1>4. PICK g : g = [f EXCEPT !.cur = NextIndex(b, @), !.seen = Append(@, Element(b, f.cur))]
  OBVIOUS
<1>5. /\ g \in CallFrame /\ g.at = "iter" /\ g.buf = f.buf
      /\ IterFits(g, b, keys[g.o], array[g.o])
  BY <1>1, <1>2, <1>3, <1>4, TypesAre, AdvanceFits
<1>6. Fits(g, buffers[g.buf], attr, keys, array, ops)
  BY <1>5 DEF Fits, b
<1>7. CallsFit(Append(Front(stack), g), buffers, attr, keys, array, ops)
  BY <1>1, <1>5, <1>6, TypesAre, ReplaceOnly DEF f
<1>8. stack' = Append(Front(stack), g)
  BY <1>1, <1>4
<1> QED
  BY <1>1, <1>7, <1>8, TypesAre, StackChanges

\* A call that ends.
LEMMA EndKeeps ==
  ASSUME IInv, stack # <<>>, ~fault, stack' = Front(stack),
         buffers' = [buffers EXCEPT ![Last(stack).buf] = Null],
         UNCHANGED <<attr, keys, cap, array, fault, ops>>
  PROVE  IInv'
<1>1. CallsFit(Front(stack), [buffers EXCEPT ![Last(stack).buf] = Null], attr, keys, array, ops)
  BY TypesAre, PopKeeps
<1>2. [buffers EXCEPT ![Last(stack).buf] = Null] \in [Slots -> Buffer \cup {Null}]
  BY TypesAre
<1> QED
  BY <1>1, <1>2, TypesAre, StackChanges

LEMMA DestroyKeeps ==
  ASSUME IInv, Destroy
  PROVE  IInv'
BY EndKeeps DEF Destroy, Running, Top, Below, Free

LEMMA TextDoneKeeps ==
  ASSUME IInv, TextDone
  PROVE  IInv'
BY EndKeeps DEF TextDone, Running, Top, Below, Free

LEMMA RangeDoneKeeps ==
  ASSUME IInv, RangeDone
  PROVE  IInv'
<1> DEFINE f == Last(stack)
           b == buffers[f.buf]
<1>1. /\ stack # <<>> /\ f.at = "range" /\ f.i = Elements /\ ~fault
      /\ stack' = Append(Front(stack), Text(f.o, f.buf, f.since))
      /\ UNCHANGED <<attr, keys, cap, array, buffers, fault, ops>>
  BY DEF RangeDone, Running, Top, Below
<1>2. f \in CallFrame /\ Fits(f, b, attr, keys, array, ops)
  BY <1>1, TypesAre, Innermost
<1> HIDE DEF f, b
<1>3. f.o \in Obj /\ f.since \in Int /\ f.buf \in Slots
  BY <1>1, <1>2, CallIs
<1>4. PICK g : g = Text(f.o, f.buf, f.since)
  OBVIOUS
<1>5. /\ g \in [at : {"text"}, o : Obj, buf : Slots, since : Int]
      /\ g.at = "text" /\ g.o = f.o /\ g.buf = f.buf /\ g.since = f.since
  BY <1>3, <1>4 DEF Text
<1>6. g \in CallFrame
  BY <1>5 DEF CallFrame
<1>7. Fits(g, buffers[g.buf], attr, keys, array, ops)
  <2>1. RangeFits(f, b, Elements, attr, ops)
    BY <1>1, <1>2 DEF Fits
  <2>2. RangeFits(g, b, Elements, attr, ops)
    BY <1>5, <2>1 DEF RangeFits, UpToDate
  <2> QED
    BY <1>5, <2>2 DEF Fits, b
<1>8. CallsFit(Append(Front(stack), g), buffers, attr, keys, array, ops)
  BY <1>1, <1>5, <1>6, <1>7, TypesAre, ReplaceOnly DEF f
<1>9. stack' = Append(Front(stack), g)
  BY <1>1, <1>4
<1> QED
  BY <1>1, <1>8, <1>9, TypesAre, StackChanges

\* The evaluation that a range or an evaluation needs starts.
LEMMA EvaluateKeeps ==
  ASSUME IInv, stack # <<>>, ~fault, Last(stack).at \in {"eval", "range"}, ~Full,
         NEW s \in Slot, OutOfDate(s), NEW by \in {"get", "range"},
         by = "range" <=> Last(stack).at = "range",
         by = "range" => Last(stack).i < Elements /\ s = <<Last(stack).o, Last(stack).i>>,
         attr' \in [Slot -> Attribute], attr'[s].def = attr[s].def,
         \A t \in Slot : t # s => attr'[t] = attr[t],
         by = "range" => ~Late(attr', s),
         stack' = Append(stack, Eval(s, by, FirstFree)),
         buffers' = [buffers EXCEPT ![FirstFree] = OwnBuffer(1)],
         UNCHANGED <<keys, cap, array, fault, ops>>
  PROVE  IInv'
<1>1. PICK a \in [Slot -> Attribute] : a = attr'
  OBVIOUS
<1>2. Late(attr, s) /\ attr[s].def # Null
  BY DEF OutOfDate, Late
<1>3. ASSUME NEW i \in 1 .. Len(stack), Timed(stack[i], ops)
      PROVE  /\ stack[i].at = "range"
             /\ \A j \in 0 .. stack[i].i - 1 : s # <<stack[i].o, j>>
             /\ Last(stack).at = "eval" =>
                  i < Len(stack) /\ \A j \in 0 .. stack[i].i : s # <<stack[i].o, j>>
             /\ Last(stack).at = "range" => i = Len(stack)
  BY <1>2, <1>3, TypesAre, Unsettled
<1>4. CallsFit(stack, buffers, a, keys, array, ops)
  <2>1. \A t \in Slot : t # s => a[t] = attr[t]
    BY <1>1
  <2>2. a[s].def = attr[s].def /\ (Late(a, s) => Late(attr, s))
    BY <1>1, <1>2
  <2> QED
    BY <1>3, <2>1, <2>2, TypesAre, AttributeKeeps
<1>5. FirstFree = Len(stack) /\ Len(stack) \in Slots /\ Len(stack) \in Nat
  BY Table
<1>6. PICK f, b : f = Eval(s, by, FirstFree) /\ b = OwnBuffer(1)
  OBVIOUS
<1>7. /\ f \in CallFrame /\ f.at = "eval" /\ f.buf = Len(stack) /\ f.s = s /\ f.by = by
      /\ b \in Buffer
  BY <1>5, <1>6, EvalIs, OwnBufferIs
<1>8. Fits(f, b, a, keys, array, ops)
  BY <1>1, <1>2, <1>7 DEF Fits
<1>9. ASSUME NEW i \in 1 .. Len(stack), Timed(stack[i], ops)
      PROVE  MayBeAbove(stack[i], f, Len(stack) + 1 - i, a)
  <2>1. CASE Last(stack).at = "eval"
    <3>1. Len(stack) + 1 - i > 1 /\ Len(stack) + 1 - i # 1
      BY <1>3, <1>5, <1>9, <2>1
    <3>2. f.by # "range"
      BY <1>7, <2>1
    <3> QED
      BY <1>3, <1>7, <1>9, <2>1, <3>1, <3>2 DEF MayBeAbove
  <2>2. CASE Last(stack).at = "range"
    <3>1. Len(stack) + 1 - i = 1 /\ ~(Len(stack) + 1 - i > 1)
      BY <1>3, <1>5, <1>9, <2>2
    <3>2. f.by = "range" /\ ~Late(a, f.s)
      BY <1>1, <1>7, <2>2
    <3> QED
      BY <1>3, <1>7, <1>9, <3>1, <3>2 DEF MayBeAbove
  <2> QED
    BY <2>1, <2>2
<1>10. (f.at = "eval" /\ f.by = "range")
       => /\ stack # <<>> /\ Last(stack).at = "range" /\ Last(stack).i < Elements
          /\ f.s = <<Last(stack).o, Last(stack).i>>
  BY <1>7
<1>11. CallsFit(Append(stack, f), [buffers EXCEPT ![Len(stack)] = b], a, keys, array, ops)
  BY <1>4, <1>5, <1>7, <1>8, <1>9, <1>10, TypesAre, PushKeeps
<1>12. [buffers EXCEPT ![Len(stack)] = b] \in [Slots -> Buffer \cup {Null}]
  BY <1>7, TypesAre
<1> QED
  BY <1>1, <1>5, <1>6, <1>11, <1>12, StackChanges

LEMMA EvalGetKeeps ==
  ASSUME IInv, EvalGet
  PROVE  IInv'
<1> DEFINE f == Last(stack)
           d == attr[f.s].def
<1>1. /\ stack # <<>> /\ f.at = "eval" /\ ~fault /\ UNCHANGED <<keys, cap, array, ops>>
      /\ \/ OutOfDate(d) /\ Evaluate(d, "get", [attr EXCEPT ![d].evaluating = TRUE], stack)
         \/ /\ OutOfDate(d)
            /\ attr' = [attr EXCEPT ![d].val = Null, ![d].ood = FALSE]
            /\ stack' = Append(Front(stack), [f EXCEPT !.do = "dep", !.res = Null])
            /\ buffers' = buffers /\ fault' = fault
         \/ /\ stack' = Append(Front(stack), [f EXCEPT !.do = "dep", !.res = attr[d].val])
            /\ attr' = attr /\ buffers' = buffers /\ fault' = fault
  BY DEF EvalGet, Running, Top, Below
<1>2. /\ f \in CallFrame /\ Fits(f, buffers[f.buf], attr, keys, array, ops)
      /\ attr \in [Slot -> Attribute]
  BY <1>1, TypesAre, Innermost
<1>3. f.s \in Slot /\ d \in Slot
  <2>1. f.s \in Slot /\ attr[f.s].def # Null
    BY <1>1, <1>2, CallIs DEF Fits
  <2>2. attr[f.s] \in Attribute
    BY <1>2, <2>1
  <2> QED
    BY <2>1, <2>2 DEF Attribute
<1>4. PICK e \in Slot : e = d
  BY <1>3
<1>5. ASSUME NEW r \in Content, attr' \in [Slot -> Attribute],
             CallsFit(stack, buffers, attr', keys, array, ops),
             attr'[f.s].def # Null,
             stack' = Append(Front(stack), [f EXCEPT !.do = "dep", !.res = r]),
             buffers' = buffers, fault' = fault
      PROVE  IInv'
  <2>1. PICK g, a : g = [f EXCEPT !.do = "dep", !.res = r] /\ a = attr'
    OBVIOUS
  <2>2. f \in [at : {"eval"}, s : Slot, by : {"get", "range"}, buf : Slots,
               do : {"get", "dep"}, res : Content]
    BY <1>1, <1>2 DEF CallFrame
  <2>3. /\ g \in [at : {"eval"}, s : Slot, by : {"get", "range"}, buf : Slots,
                  do : {"get", "dep"}, res : Content]
        /\ g.at = "eval" /\ g.s = f.s /\ g.by = f.by /\ g.buf = f.buf
    BY <2>1, <2>2
  <2>4. g \in CallFrame
    BY <2>3 DEF CallFrame
  <2>5. Fits(g, buffers[g.buf], a, keys, array, ops)
    BY <1>5, <2>1, <2>3 DEF Fits
  <2>6. CallsFit(stack, buffers, a, keys, array, ops)
    BY <1>5, <2>1
  <2>7. CallsFit(Append(Front(stack), g), buffers, a, keys, array, ops)
    BY <1>1, <2>3, <2>4, <2>5, <2>6, TypesAre, ReplaceOnly
  <2> QED
    BY <1>1, <1>5, <2>1, <2>7, TypesAre, StackChanges
<1>6. CASE OutOfDate(d) /\ Evaluate(d, "get", [attr EXCEPT ![d].evaluating = TRUE], stack)
  <2>1. CASE Full /\ fault' = TRUE /\ attr' = attr /\ buffers' = buffers /\ stack' = stack
    BY <1>1, <2>1, FaultKeeps
  <2>2. CASE /\ ~Full /\ attr' = [attr EXCEPT ![e].evaluating = TRUE]
             /\ stack' = Append(stack, Eval(e, "get", FirstFree))
             /\ buffers' = [buffers EXCEPT ![FirstFree] = OwnBuffer(1)] /\ fault' = fault
    <3>1. [attr[e] EXCEPT !.evaluating = TRUE] \in Attribute
      BY <1>2 DEF Attribute
    <3>2. /\ attr' \in [Slot -> Attribute] /\ attr'[e].def = attr[e].def
          /\ \A t \in Slot : t # e => attr'[t] = attr[t]
      BY <1>2, <2>2, <3>1
    <3>3. OutOfDate(e) /\ Last(stack).at = "eval"
      BY <1>1, <1>4, <1>6
    <3> HIDE DEF d, f
    <3> QED
      BY <1>1, <2>2, <3>2, <3>3, EvaluateKeeps
  <2> QED
    BY <1>4, <1>6, <2>1, <2>2 DEF Evaluate, Create
<1>7. CASE /\ OutOfDate(d)
           /\ attr' = [attr EXCEPT ![d].val = Null, ![d].ood = FALSE]
           /\ stack' = Append(Front(stack), [f EXCEPT !.do = "dep", !.res = Null])
           /\ buffers' = buffers /\ fault' = fault
  <2>1. attr' = [attr EXCEPT ![e] = [@ EXCEPT !.val = Null, !.ood = FALSE]]
    BY <1>2, <1>4, <1>7
  <2>2. /\ [attr[e] EXCEPT !.val = Null, !.ood = FALSE] \in Attribute
        /\ [attr[e] EXCEPT !.val = Null, !.ood = FALSE].def = attr[e].def
        /\ [attr[e] EXCEPT !.val = Null, !.ood = FALSE].ood = FALSE
    BY <1>2 DEF Attribute, Content
  <2>3. PICK a : a = attr'
    OBVIOUS
  <2>4. /\ a \in [Slot -> Attribute] /\ a[e].def = attr[e].def /\ ~a[e].ood
        /\ \A t \in Slot : t # e => a[t] = attr[t]
    BY <1>2, <2>1, <2>2, <2>3
  <2>5. Late(attr, e) /\ ~Late(a, e)
    BY <1>4, <1>7, <2>4 DEF OutOfDate, Late
  <2>6. \A i \in 1 .. Len(stack) :
          Timed(stack[i], ops) => /\ stack[i].at = "range"
                                  /\ \A j \in 0 .. stack[i].i - 1 : e # <<stack[i].o, j>>
    <3> HIDE DEF d
    <3> QED
      BY <1>1, <2>5, TypesAre, Unsettled
  <2>7. CallsFit(stack, buffers, a, keys, array, ops)
    BY <2>4, <2>5, <2>6, TypesAre, AttributeKeeps
  <2>8. attr'[f.s].def # Null
    <3>1. attr[f.s].def # Null
      BY <1>1, <1>2 DEF Fits
    <3> QED
      BY <1>3, <2>3, <2>4, <3>1
  <2>9. Null \in Content
    BY DEF Content
  <2> QED
    BY <1>5, <1>7, <2>3, <2>4, <2>7, <2>8, <2>9
<1>8. CASE /\ stack' = Append(Front(stack), [f EXCEPT !.do = "dep", !.res = attr[d].val])
           /\ attr' = attr /\ buffers' = buffers /\ fault' = fault
  <2>1. attr[d].val \in Content /\ attr[f.s].def # Null
    BY <1>1, <1>2, <1>3 DEF Attribute, Fits
  <2> QED
    BY <1>2, <1>5, <1>8, <2>1, TypesAre
<1> QED
  BY <1>1, <1>6, <1>7, <1>8

\* A range puts a value into its buffer and goes on to the next element.
LEMMA RangeFills ==
  ASSUME NEW r \in CallFrame, r.at = "range", r.i < Elements,
         NEW b \in Buffer, NEW at, NEW n, RangeFits(r, b, r.i, at, n),
         NEW v \in Content, v = at[<<r.o, r.i>>].val,
         r.since = n => ~Late(at, <<r.o, r.i>>)
  PROVE  LET g == [r EXCEPT !.i = @ + 1]
             c == [b EXCEPT !.data[r.i + 1] = v]
         IN  /\ g \in CallFrame /\ g.at = "range" /\ g.buf = r.buf
             /\ c \in Buffer
             /\ RangeFits(g, c, g.i, at, n)
<1> DEFINE g == [r EXCEPT !.i = @ + 1]
           c == [b EXCEPT !.data[r.i + 1] = v]
           t == [b.data EXCEPT ![r.i + 1] = v]
<1>1. /\ r \in [at : {"range"}, o : Obj, buf : Slots, i : 0 .. Elements, since : Int]
      /\ r.i \in 0 .. Elements - 1 /\ r.i + 1 \in 1 .. Elements /\ r.i \in Nat
  <2>1. r \in [at : {"range"}, o : Obj, buf : Slots, i : 0 .. Elements, since : Int]
    BY DEF CallFrame
  <2> QED
    BY <2>1, SizesAssumption
<1>2. /\ g \in [at : {"range"}, o : Obj, buf : Slots, i : 0 .. Elements, since : Int]
      /\ g.at = "range" /\ g.buf = r.buf /\ g.o = r.o /\ g.since = r.since /\ g.i = r.i + 1
  <2>1. r.i + 1 \in 0 .. Elements
    BY <1>1
  <2> QED
    BY <1>1, <2>1
<1>3. /\ b.own /\ Len(b.data) = Elements
      /\ b \in [own : {TRUE}, data : Seq(Content), count : Nat]
  <2>1. b.own /\ Len(b.data) = Elements
    BY DEF RangeFits
  <2>2. ~(b \in [own : {FALSE}, data : Obj \X Nat, count : Nat])
    BY <2>1
  <2> QED
    BY <2>1, <2>2 DEF Buffer, Content
<1>4. /\ t \in Seq(Content) /\ Len(t) = Elements /\ t[r.i + 1] = v
      /\ \A j \in 1 .. Elements : j # r.i + 1 => t[j] = b.data[j]
  <2>1. PICK q \in Seq(Content) : q = b.data
    BY <1>3
  <2>2. PICK x : x = r.i + 1
    OBVIOUS
  <2>3. x \in 1 .. Len(q)
    BY <1>1, <1>3, <2>1, <2>2
  <2>4. /\ [q EXCEPT ![x] = v] \in Seq(Content) /\ Len([q EXCEPT ![x] = v]) = Len(q)
        /\ \A j \in 1 .. Len(q) : [q EXCEPT ![x] = v][j] = IF j = x THEN v ELSE q[j]
    BY <2>3, ExceptSeq
  <2> QED
    BY <1>3, <2>1, <2>2, <2>3, <2>4
<1>5. /\ c \in [own : {TRUE}, data : Seq(Content), count : Nat]
      /\ c.own /\ c.data = t
  <2>1. c = [b EXCEPT !.data = t]
    BY <1>3
  <2> HIDE DEF c, t
  <2> QED
    BY <1>3, <1>4, <2>1
<1>6. c \in Buffer /\ g \in CallFrame
  BY <1>2, <1>5 DEF Buffer, CallFrame, Content
<1> HIDE DEF c, t, g
<1>7. ASSUME g.since = n
      PROVE  UpToDate(g, c, g.i, at)
  <2>1. UpToDate(r, b, r.i, at)
    BY <1>2, <1>7 DEF RangeFits
  <2> SUFFICES ASSUME NEW j \in 0 .. g.i - 1
               PROVE  ~Late(at, <<g.o, j>>) /\ c.data[j + 1] = at[<<g.o, j>>].val
    BY DEF UpToDate
  <2>4. j \in 0 .. r.i /\ g.o = r.o /\ c.data = t
    BY <1>1, <1>2, <1>5
  <2>2. CASE j = r.i
    BY <1>2, <1>4, <1>7, <2>2, <2>4
  <2>3. CASE j # r.i
    <3>1. j \in 0 .. r.i - 1 /\ j + 1 \in 1 .. Elements /\ j + 1 # r.i + 1
      BY <1>1, <2>3, <2>4, SizesAssumption
    <3> QED
      BY <1>4, <2>1, <2>4, <3>1 DEF UpToDate
  <2> QED
    BY <2>2, <2>3
<1>8. RangeFits(g, c, g.i, at, n)
  BY <1>2, <1>4, <1>5, <1>7 DEF RangeFits
<1> QED
  BY <1>2, <1>6, <1>8 DEF g, c

\* The range that is the innermost call goes on.
LEMMA FillKeeps ==
  ASSUME NEW st, NEW bf \in [Slots -> Buffer \cup {Null}], NEW at, NEW n,
         CallsFit(st, bf, at, keys, array, n), st # <<>>,
         Last(st).at = "range", Last(st).i < Elements,
         NEW v \in Content, v = at[<<Last(st).o, Last(st).i>>].val,
         Last(st).since = n => ~Late(at, <<Last(st).o, Last(st).i>>)
  PROVE  LET r  == Last(st)
             b2 == [bf EXCEPT ![r.buf].data[r.i + 1] = v]
         IN  /\ CallsFit(Append(Front(st), [r EXCEPT !.i = @ + 1]), b2, at, keys, array, n)
             /\ b2 \in [Slots -> Buffer \cup {Null}]
<1> DEFINE r  == Last(st)
           b2 == [bf EXCEPT ![r.buf].data[r.i + 1] = v]
<1>1. /\ r \in CallFrame /\ r.buf \in Slots /\ bf[r.buf] # Null
      /\ Fits(r, bf[r.buf], at, keys, array, n)
  BY Innermost
<1>2. PICK b \in Buffer : b = bf[r.buf]
  BY <1>1
<1>3. RangeFits(r, b, r.i, at, n)
  BY <1>1, <1>2 DEF Fits
<1>4. PICK g, c : g = [r EXCEPT !.i = @ + 1] /\ c = [b EXCEPT !.data[r.i + 1] = v]
  OBVIOUS
<1>5. /\ g \in CallFrame /\ g.at = "range" /\ g.buf = r.buf /\ c \in Buffer
      /\ RangeFits(g, c, g.i, at, n)
  <2> HIDE DEF r
  <2>1. r.at = "range" /\ r.i < Elements /\ v = at[<<r.o, r.i>>].val
        /\ (r.since = n => ~Late(at, <<r.o, r.i>>))
    BY DEF r
  <2> QED
    BY <1>1, <1>3, <1>4, <2>1, RangeFills
<1>6. Fits(g, c, at, keys, array, n)
  BY <1>5 DEF Fits
<1>7. CallsFit(Append(Front(st), g), [bf EXCEPT ![r.buf] = c], at, keys, array, n)
  BY <1>5, <1>6, ReplaceKeeps
<1>8. b2 = [bf EXCEPT ![r.buf] = c]
  BY <1>1, <1>2, <1>4
<1>9. [bf EXCEPT ![r.buf] = c] \in [Slots -> Buffer \cup {Null}]
  BY <1>5
<1> QED
  BY <1>4, <1>7, <1>8, <1>9

LEMMA RangeStepKeeps ==
  ASSUME IInv, RangeStep
  PROVE  IInv'
<1> DEFINE f == Last(stack)
           s == <<f.o, f.i>>
<1>1. /\ stack # <<>> /\ f.at = "range" /\ f.i < Elements /\ ~fault
      /\ UNCHANGED <<keys, cap, array, ops>>
      /\ \/ OutOfDate(s) /\ Evaluate(s, "range", [attr EXCEPT ![s].ood = FALSE], stack)
         \/ /\ ~OutOfDate(s)
            /\ buffers' = [buffers EXCEPT ![f.buf].data[f.i + 1] = attr[s].val]
            /\ stack' = Append(Front(stack), [f EXCEPT !.i = @ + 1])
            /\ attr' = attr /\ fault' = fault
  BY DEF RangeStep, Running, Top, Below
<1>2. f \in CallFrame /\ attr \in [Slot -> Attribute]
  BY <1>1, TypesAre, Innermost
<1>3. s \in Slot
  <2>1. f.o \in Obj /\ f.i \in 0 .. Elements - 1
    BY <1>1, <1>2, CallIs, SizesAssumption
  <2> QED
    BY <2>1, ElementIs
<1>4. CASE OutOfDate(s) /\ Evaluate(s, "range", [attr EXCEPT ![s].ood = FALSE], stack)
  <2>1. CASE Full /\ fault' = TRUE /\ attr' = attr /\ buffers' = buffers /\ stack' = stack
    BY <1>1, <2>1, FaultKeeps
  <2>2. CASE /\ ~Full /\ attr' = [attr EXCEPT ![s].ood = FALSE]
             /\ stack' = Append(stack, Eval(s, "range", FirstFree))
             /\ buffers' = [buffers EXCEPT ![FirstFree] = OwnBuffer(1)] /\ fault' = fault
    <3>1. PICK e \in Slot : e = s
      BY <1>3
    <3>2. /\ [attr[e] EXCEPT !.ood = FALSE] \in Attribute
          /\ attr' = [attr EXCEPT ![e] = [attr[e] EXCEPT !.ood = FALSE]]
      BY <1>2, <2>2, <3>1 DEF Attribute
    <3>3. /\ attr' \in [Slot -> Attribute] /\ attr'[e].def = attr[e].def /\ ~attr'[e].ood
          /\ \A t \in Slot : t # e => attr'[t] = attr[t]
      BY <1>2, <3>2 DEF Attribute
    <3>4. ~Late(attr', e)
      BY <3>3 DEF Late
    <3>5. OutOfDate(e) /\ e = <<Last(stack).o, Last(stack).i>> /\ Last(stack).at = "range"
          /\ Last(stack).i < Elements /\ stack' = Append(stack, Eval(e, "range", FirstFree))
      BY <1>1, <1>4, <2>2, <3>1
    <3> HIDE DEF s, f
    <3> QED
      BY <1>1, <2>2, <3>3, <3>4, <3>5, EvaluateKeeps
  <2> QED
    BY <1>4, <2>1, <2>2 DEF Evaluate, Create
<1>5. CASE /\ ~OutOfDate(s)
           /\ buffers' = [buffers EXCEPT ![f.buf].data[f.i + 1] = attr[s].val]
           /\ stack' = Append(Front(stack), [f EXCEPT !.i = @ + 1])
           /\ attr' = attr /\ fault' = fault
  <2>1. PICK v \in Content : v = attr[s].val
    BY <1>2, <1>3 DEF Attribute
  <2>2. ~Late(attr, s)
    BY <1>5 DEF OutOfDate, Late
  <2>3. /\ CallsFit(Append(Front(stack), [f EXCEPT !.i = @ + 1]),
                    [buffers EXCEPT ![f.buf].data[f.i + 1] = v], attr, keys, array, ops)
        /\ [buffers EXCEPT ![f.buf].data[f.i + 1] = v] \in [Slots -> Buffer \cup {Null}]
    BY <1>1, <2>1, <2>2, TypesAre, FillKeeps
  <2> HIDE DEF s, f
  <2> QED
    BY <1>1, <1>5, <2>1, <2>3, TypesAre, StackChanges
<1> QED
  BY <1>1, <1>4, <1>5

\* A change of the last element of a sequence.
LEMMA LastChanges ==
  ASSUME NEW S, NEW s \in Seq(S), s # <<>>, NEW g \in S
  PROVE  [s EXCEPT ![Len(s)] = g] = Append(Front(s), g)
<1>1. /\ Front(s) \in Seq(S) /\ Len(s) \in Nat \ {0} /\ Len(Front(s)) = Len(s) - 1
      /\ \A i \in 1 .. Len(s) - 1 : Front(s)[i] = s[i]
  BY Popped
<1>2. PICK n \in 1 .. Len(s) : n = Len(s)
  BY <1>1
<1>a. /\ [s EXCEPT ![n] = g] \in Seq(S) /\ Len([s EXCEPT ![n] = g]) = Len(s)
      /\ \A j \in 1 .. Len(s) : [s EXCEPT ![n] = g][j] = IF j = n THEN g ELSE s[j]
  BY ExceptSeq
<1>3. PICK t \in Seq(S) : /\ t = [s EXCEPT ![n] = g] /\ Len(t) = Len(s)
                          /\ \A j \in 1 .. Len(s) : t[j] = IF j = n THEN g ELSE s[j]
  BY <1>a
<1>b. PICK c \in Seq(S) : c = Front(s)
  BY <1>1
<1>c. /\ Append(c, g) \in Seq(S) /\ Len(Append(c, g)) = Len(c) + 1
      /\ Append(c, g)[Len(c) + 1] = g
      /\ \A j \in 1 .. Len(c) : Append(c, g)[j] = c[j]
  BY Pushed
<1>4. PICK u \in Seq(S) : /\ u = Append(Front(s), g) /\ Len(u) = Len(Front(s)) + 1
                          /\ u[Len(Front(s)) + 1] = g
                          /\ \A j \in 1 .. Len(Front(s)) : u[j] = Front(s)[j]
  BY <1>b, <1>c
<1>5. Len(u) = Len(t) /\ Len(Front(s)) + 1 = Len(s)
  BY <1>1, <1>3, <1>4
<1>6. \A j \in 1 .. Len(t) : t[j] = u[j]
  BY <1>1, <1>2, <1>3, <1>4, <1>5
<1>7. t = u
  BY <1>5, <1>6, SeqEqual
<1> QED
  BY <1>2, <1>3, <1>4, <1>7

\* The answer of an evaluation reaches the evaluation that asked for it.
LEMMA AnswerKeeps ==
  ASSUME NEW st, NEW bf \in [Slots -> Buffer \cup {Null}], NEW at, NEW ks, NEW ar, NEW n,
         CallsFit(st, bf, at, ks, ar, n), NEW v \in Content
  PROVE  CallsFit(Answered(st, v), bf, at, ks, ar, n)
<1>1. CASE ~(st # <<>> /\ Last(st).at = "eval")
  BY <1>1 DEF Answered
<1>2. CASE st # <<>> /\ Last(st).at = "eval"
  <2>1. /\ st \in Seq(CallFrame) /\ Last(st) = st[Len(st)] /\ Last(st) \in CallFrame
        /\ Len(st) \in 1 .. Len(st) /\ Fits(Last(st), bf[Last(st).buf], at, ks, ar, n)
    BY <1>2, Innermost
  <2>2. PICK f : f = Last(st)
    OBVIOUS
  <2>3. f \in [at : {"eval"}, s : Slot, by : {"get", "range"}, buf : Slots,
               do : {"get", "dep"}, res : Content]
    BY <1>2, <2>1, <2>2 DEF CallFrame
  <2> DEFINE g == [f EXCEPT !.do = IF @ = "get" THEN "dep" ELSE @,
                            !.res = IF f.do = "get" THEN v ELSE @]
  <2>4. /\ g \in [at : {"eval"}, s : Slot, by : {"get", "range"}, buf : Slots,
                  do : {"get", "dep"}, res : Content]
        /\ g.at = "eval" /\ g.s = f.s /\ g.by = f.by /\ g.buf = f.buf
    BY <2>3
  <2>5. Answered(st, v) = [st EXCEPT ![Len(st)] = g]
    <3>1. st[Len(st)] = f
      BY <2>1, <2>2
    <3>2. Answered(st, v) = [st EXCEPT ![Len(st)].do = IF @ = "get" THEN "dep" ELSE @,
                                       ![Len(st)].res = IF f.do = "get" THEN v ELSE @]
      BY <1>2, <3>1, Zenon DEF Answered
    <3>3. DOMAIN st = 1 .. Len(st)
      BY <2>1, SeqIs
    <3>4. Len(st) \in DOMAIN st
      BY <2>1, <3>3
    <3> QED
      BY <2>3, <3>1, <3>2, <3>4
  <2> HIDE DEF g
  <2>6. g \in CallFrame
    BY <2>4 DEF CallFrame
  <2>7. Answered(st, v) = Append(Front(st), g)
    BY <1>2, <2>1, <2>5, <2>6, LastChanges
  <2>8. Fits(g, bf[g.buf], at, ks, ar, n)
    BY <1>2, <2>1, <2>2, <2>4 DEF Fits
  <2>9. CallsFit(Append(Front(st), g), bf, at, ks, ar, n)
    BY <1>2, <2>2, <2>4, <2>6, <2>8, ReplaceOnly
  <2> QED
    BY <2>7, <2>9
<1> QED
  BY <1>1, <1>2

LEMMA EvalDoneKeeps ==
  ASSUME IInv, EvalDone
  PROVE  IInv'
<1> DEFINE f == Last(stack)
           B == [buffers EXCEPT ![f.buf] = Null]
           r == Last(Front(stack))
<1>1. /\ stack # <<>> /\ f.at = "eval" /\ ~fault /\ UNCHANGED <<keys, cap, array, fault, ops>>
      /\ \/ /\ f.by = "get"
            /\ attr' = [attr EXCEPT ![f.s].val = f.res, ![f.s].ood = FALSE,
                                    ![f.s].evaluating = FALSE]
            /\ buffers' = B /\ stack' = Answered(Front(stack), f.res)
         \/ /\ f.by = "range"
            /\ attr' = [attr EXCEPT ![f.s].val = f.res]
            /\ buffers' = [B EXCEPT ![r.buf].data[r.i + 1] = f.res]
            /\ stack' = Append(Front(Front(stack)), [r EXCEPT !.i = @ + 1])
  BY DEF EvalDone, Running, Top, Below, Free
<1>2. /\ f \in CallFrame /\ attr \in [Slot -> Attribute]
      /\ buffers \in [Slots -> Buffer \cup {Null}] /\ B \in [Slots -> Buffer \cup {Null}]
  BY <1>1, TypesAre, Innermost
<1>3. f.s \in Slot /\ f.res \in Content
  BY <1>1, <1>2, CallIs
<1>4. PICK s \in Slot, v \in Content : s = f.s /\ v = f.res
  BY <1>3
<1>5. ASSUME NEW a \in [Slot -> Attribute], a[s].def = attr[s].def, a[s].ood => attr[s].ood,
             \A t \in Slot : t # s => a[t] = attr[t]
      PROVE  CallsFit(Front(stack), B, a, keys, array, ops)
  <2>1. Late(a, s) => Late(attr, s)
    BY <1>5 DEF Late
  <2>2. \A i \in 1 .. Len(stack) :
          Timed(stack[i], ops) => /\ stack[i].at = "range"
                                  /\ \A j \in 0 .. stack[i].i - 1 : s # <<stack[i].o, j>>
    <3>1. stack # <<>> /\ Last(stack).at = "eval" /\ s = Last(stack).s
      BY <1>1, <1>4
    <3>2. CallsFit(stack, buffers, attr, keys, array, ops)
      BY TypesAre
    <3> HIDE DEF f, B, r
    <3>3. ASSUME NEW i \in 1 .. Len(stack), Timed(stack[i], ops)
          PROVE  /\ stack[i].at = "range"
                 /\ \A j \in 0 .. stack[i].i - 1 : Last(stack).s # <<stack[i].o, j>>
      BY <3>1, <3>2, <3>3, UnsettledEval
    <3> QED
      BY <3>1, <3>3
  <2>3. CallsFit(stack, buffers, a, keys, array, ops)
    BY <1>2, <1>5, <2>1, <2>2, TypesAre, AttributeKeeps
  <2> QED
    BY <1>1, <1>2, <2>3, PopKeeps
<1>6. CASE /\ attr' = [attr EXCEPT ![f.s].val = f.res, ![f.s].ood = FALSE,
                                   ![f.s].evaluating = FALSE]
           /\ buffers' = B /\ stack' = Answered(Front(stack), f.res)
  <2>1. PICK a : a = attr'
    OBVIOUS
  <2>2. a = [attr EXCEPT ![s] = [@ EXCEPT !.val = v, !.ood = FALSE, !.evaluating = FALSE]]
    BY <1>2, <1>4, <1>6, <2>1
  <2> DEFINE e == [attr[s] EXCEPT !.val = v, !.ood = FALSE, !.evaluating = FALSE]
  <2>3. e \in Attribute /\ e.def = attr[s].def /\ e.ood = FALSE
    BY <1>2 DEF Attribute
  <2>4. a = [attr EXCEPT ![s] = e]
    BY <2>2
  <2> HIDE DEF e
  <2>5. /\ a \in [Slot -> Attribute] /\ a[s].def = attr[s].def /\ (a[s].ood => attr[s].ood)
        /\ \A t \in Slot : t # s => a[t] = attr[t]
    BY <1>2, <2>3, <2>4
  <2>6. CallsFit(Front(stack), B, a, keys, array, ops)
    BY <1>5, <2>5
  <2>7. CallsFit(Answered(Front(stack), v), B, a, keys, array, ops)
    BY <1>2, <2>6, AnswerKeeps
  <2> QED
    BY <1>1, <1>2, <1>4, <1>6, <2>1, <2>5, <2>7, StackChanges
<1>7. CASE /\ f.by = "range"
           /\ attr' = [attr EXCEPT ![f.s].val = f.res]
           /\ buffers' = [B EXCEPT ![r.buf].data[r.i + 1] = f.res]
           /\ stack' = Append(Front(Front(stack)), [r EXCEPT !.i = @ + 1])
  <2>1. PICK a : a = attr'
    OBVIOUS
  <2> DEFINE e == [attr[s] EXCEPT !.val = v]
  <2>2. e \in Attribute /\ e.def = attr[s].def /\ e.ood = attr[s].ood /\ e.val = v
    BY <1>2 DEF Attribute
  <2>3. a = [attr EXCEPT ![s] = e]
    BY <1>2, <1>4, <1>7, <2>1
  <2> HIDE DEF e
  <2>4. /\ a \in [Slot -> Attribute] /\ a[s].def = attr[s].def /\ a[s].ood = attr[s].ood
        /\ a[s].val = v /\ \A t \in Slot : t # s => a[t] = attr[t]
    BY <1>2, <2>2, <2>3
  <2>5. CallsFit(Front(stack), B, a, keys, array, ops)
    BY <1>5, <2>4
  <2> DEFINE m == Len(stack)
  <2>6. /\ m \in Nat \ {0} /\ f = stack[m] /\ Ranged(stack, m)
        /\ Front(stack) \in Seq(CallFrame) /\ Len(Front(stack)) = m - 1
        /\ \A i \in 1 .. m - 1 : Front(stack)[i] = stack[i] /\ i \in 1 .. m
    BY <1>1, TypesAre, Innermost
  <2>7. /\ m > 1 /\ stack[m - 1].at = "range" /\ stack[m - 1].i < Elements
        /\ s = <<stack[m - 1].o, stack[m - 1].i>>
    BY <1>1, <1>4, <1>7, <2>6 DEF Ranged
  <2>8. Front(stack) # <<>> /\ r = stack[m - 1] /\ m - 1 \in 1 .. m /\ m - (m - 1) = 1
    <3>1. Len(Front(stack)) # 0 /\ m - 1 \in 1 .. m - 1
      BY <2>6, <2>7
    <3>2. Front(stack) # <<>>
      BY <3>1
    <3>3. r = Front(stack)[Len(Front(stack))]
      BY <2>6, <3>2, Popped
    <3> QED
      BY <2>6, <3>1, <3>2, <3>3
  <2>9. r.at = "range" /\ r.i < Elements /\ s = <<r.o, r.i>>
    BY <2>7, <2>8
  <2>10. ASSUME r.since = ops
         PROVE  ~Late(a, <<r.o, r.i>>)
    <3>1. Timed(stack[m - 1], ops)
      BY <2>8, <2>9, <2>10 DEF Timed
    <3>2. ~Late(attr, <<stack[m - 1].o, stack[m - 1].i>>)
      <4>1. PICK x \in 1 .. Len(stack) : x = m - 1
        BY <2>8
      <4>2. Timed(stack[x], ops) /\ Last(stack).at = "eval"
        BY <1>1, <3>1, <4>1
      <4>3. ~Late(attr, <<stack[x].o, stack[x].i>>)
        BY <1>1, <4>2, TypesAre, AboveTimed
      <4> QED
        BY <4>1, <4>3
    <3> QED
      BY <2>4, <2>8, <2>9, <3>2 DEF Late
  <2>11. v = a[<<r.o, r.i>>].val
    BY <2>4, <2>9
  <2>12. /\ CallsFit(Append(Front(Front(stack)), [r EXCEPT !.i = @ + 1]),
                     [B EXCEPT ![r.buf].data[r.i + 1] = v], a, keys, array, ops)
         /\ [B EXCEPT ![r.buf].data[r.i + 1] = v] \in [Slots -> Buffer \cup {Null}]
    <3>1. PICK st : st = Front(stack)
      OBVIOUS
    <3>11. PICK bf \in [Slots -> Buffer \cup {Null}] : bf = B
      BY <1>2
    <3>2. /\ CallsFit(st, bf, a, keys, array, ops) /\ st # <<>>
          /\ Last(st).at = "range" /\ Last(st).i < Elements
          /\ v = a[<<Last(st).o, Last(st).i>>].val
          /\ (Last(st).since = ops => ~Late(a, <<Last(st).o, Last(st).i>>))
      BY <2>5, <2>8, <2>9, <2>10, <2>11, <3>1, <3>11
    <3>3. /\ CallsFit(Append(Front(st), [Last(st) EXCEPT !.i = @ + 1]),
                      [bf EXCEPT ![Last(st).buf].data[Last(st).i + 1] = v], a, keys, array, ops)
          /\ [bf EXCEPT ![Last(st).buf].data[Last(st).i + 1] = v]
               \in [Slots -> Buffer \cup {Null}]
      BY <3>2, FillKeeps
    <3> QED
      BY <3>1, <3>11, <3>3
  <2> HIDE DEF f, B, r
  <2> QED
    BY <1>1, <1>4, <1>7, <2>1, <2>4, <2>12, StackChanges
<1> QED
  BY <1>1, <1>6, <1>7

-----------------------------------------------------------------------------
(***************************************************************************)
(* The theorems about Objects.                                             *)
(***************************************************************************)
\* The invariant holds in every reachable state.
THEOREM ObjectsInductive == Spec => []IInv
<1>1. Init => IInv
  <2> SUFFICES ASSUME Init PROVE IInv
    OBVIOUS
  <2>1. NoAttribute \in Attribute
    BY DEF NoAttribute, Attribute, Content
  <2>2. <<>> \in Seq(Key) /\ Len(<<>>) = 0 /\ DOMAIN <<>> = 1 .. 0 /\ <<>> \in Seq(CallFrame)
    OBVIOUS
  <2>3. Types(attr, keys, cap, array, buffers, ops)
    BY <2>1, <2>2, SizesAssumption DEF Init, Types
  <2>4. KeysFit(keys, cap)
    <3>1. \A o \in Obj : keys[o] = <<>> /\ cap[o] \in Nat
      BY SizesAssumption DEF Init
    <3>2. \A n \in Nat : 0 <= n
      OBVIOUS
    <3> QED
      BY <2>2, <3>1, <3>2 DEF KeysFit, IsInjective
  <2>5. CallsFit(stack, buffers, attr, keys, array, ops)
    <3>1. stack = <<>> /\ Len(stack) = 0 /\ \A i \in Slots : buffers[i] = Null /\ ~(i < 0)
      BY <2>2, SizesAssumption DEF Init, Slots
    <3> QED
      BY <2>2, <3>1 DEF CallsFit, Held, Quiet
  <2>6. fault \in BOOLEAN /\ FaultsNeedFullTable
    BY DEF Init, FaultsNeedFullTable
  <2> QED
    BY <2>3, <2>4, <2>5, <2>6 DEF IInv
<1>2. IInv /\ [Next]_vars => IInv'
  <2>1. ASSUME IInv, Next PROVE IInv'
    <3>1. CASE \E o \in Obj, k \in Key, v \in Value : Set(o, k, v)
      BY <2>1, <3>1, SetKeeps
    <3>2. CASE \E o \in Obj, k \in Key, d \in Slot : Define(o, k, d)
      BY <2>1, <3>2, DefineKeeps
    <3>3. CASE \E o \in Obj : Begin(o) \/ GetRange(o)
      BY <2>1, <3>3, BeginKeeps, GetRangeKeeps
    <3>4. CASE \E s \in Slot : Get(s) \/ Notify(s)
      BY <2>1, <3>4, GetKeeps, NotifyKeeps
    <3>5. CASE Machine
      BY <2>1, <3>5, AdvanceKeeps, EvalGetKeeps, EvalDoneKeeps, RangeStepKeeps, RangeDoneKeeps,
         TextDoneKeeps, DestroyKeeps DEF Machine
    <3>6. CASE Destroy
      BY <2>1, <3>6, DestroyKeeps
    <3> QED
      BY <2>1, <3>1, <3>2, <3>3, <3>4, <3>5, <3>6 DEF Next
  <2>2. ASSUME IInv, UNCHANGED vars PROVE IInv'
    BY <2>2 DEF vars, IInv, FaultsNeedFullTable
  <2> QED
    BY <2>1, <2>2
<1> QED
  BY <1>1, <1>2, PTL DEF Spec

\* Every call in progress is one, holds the slot of its place, and fits its buffer.
LEMMA CallsAre ==
  ASSUME IInv, NEW i \in 1 .. Len(stack)
  PROVE  /\ stack[i] \in CallFrame /\ stack[i].buf = i - 1
         /\ Fits(stack[i], buffers[stack[i].buf], attr, keys, array, ops)
<1>1. CallsFit(stack, buffers, attr, keys, array, ops)
  BY TypesAre
<1>2. stack \in Seq(CallFrame) /\ stack[i].buf = i - 1
  BY <1>1 DEF CallsFit, Held
<1>3. Fits(stack[i], buffers[i - 1], attr, keys, array, ops)
  BY <1>1 DEF CallsFit
<1> QED
  BY <1>2, <1>3, SeqIs

\* There are as many keys as the set of them has, which is finite.
LEMMA KeysAreFew ==
  ASSUME NEW s \in Seq(Key), IsInjective(s)
  PROVE  Len(s) <= Cardinality(Key) /\ Len(s) \in Nat /\ Cardinality(Key) \in Nat
<1> DEFINE D == 1 .. Len(s)
<1>1. IsFiniteSet(Key)
  <2>1. IsFiniteSet(0 .. Elements - 1)
    BY FS_Interval, SizesAssumption
  <2>2. IsFiniteSet({Parent})
    BY FS_Singleton
  <2> QED
    BY <2>1, <2>2, FS_Union DEF Key
<1>2. s \in [D -> Key] /\ Len(s) \in Nat
  BY SeqIs
<1>3. s \in Injection(D, Key)
  <2> HIDE DEF D
  <2> QED
    BY <1>2 DEF Injection
<1>4. Cardinality(D) <= Cardinality(Key)
  <2> HIDE DEF D
  <2> QED
    BY <1>1, <1>3, FS_Injection
<1>5. Cardinality(D) = Len(s)
  <2>1. \A n \in Nat : Cardinality(1 .. n) = n
    <3> TAKE n \in Nat
    <3>1. Cardinality(1 .. n) = IF 1 > n THEN 0 ELSE n - 1 + 1
      BY FS_Interval
    <3> QED
      BY <3>1
  <2> QED
    BY <1>2, <2>1
<1> QED
  BY <1>1, <1>2, <1>4, <1>5, FS_CardinalityType

\* The types of the variables of Objects: the slots, attributes and frames are what the
\* handlers of local.cpp and the calls that hold buffers expect, and no key is stored
\* behind the end of its array.
THEOREM ObjectsTypeCorrect == Spec => []TypeOK
<1>1. IInv => TypeOK
  <2> SUFFICES ASSUME IInv PROVE TypeOK
    OBVIOUS
  <2>1. ASSUME NEW i \in DOMAIN stack PROVE Frame(stack[i])
    <3>1. stack \in Seq(CallFrame)
      BY TypesAre DEF CallsFit
    <3>2. i \in 1 .. Len(stack)
      BY <3>1, SeqIs
    <3>3. PICK f \in CallFrame : f = stack[i] /\ Fits(f, buffers[f.buf], attr, keys, array, ops)
      BY <3>2, CallsAre
    <3>4. f.at = "iter" => f.cur \in -1 .. Cardinality(Key) - 1
      <4> SUFFICES ASSUME f.at = "iter" PROVE f.cur \in -1 .. Cardinality(Key) - 1
        OBVIOUS
      <4>1. f.first \in Seq(Key) /\ IsInjective(f.first) /\ f.cur \in -1 .. Len(f.first) - 1
        BY <3>3, CallIs DEF Fits, IterFits
      <4>2. Len(f.first) <= Cardinality(Key) /\ Len(f.first) \in Nat /\ Cardinality(Key) \in Nat
        BY <4>1, KeysAreFew
      <4> QED
        BY <4>1, <4>2
    <3>5. Frame(f)
      BY <3>4, CallIs DEF Frame
    <3> QED
      BY <3>3, <3>5
  <2> QED
    BY <2>1 DEF TypeOK, IInv, Types, KeysFit, Attribute, Content
<1> QED
  BY <1>1, ObjectsInductive, PTL

\* The slots of the table of buffers in use are those of the calls in progress, one each
\* and in their order: neither an iteration that is left early, nor a range that evaluates
\* an element, nor an evaluation that calls another forgets, shares or frees twice a slot.
THEOREM TableFollowsCalls == Spec => []BuffersAreHeld
<1>1. IInv => BuffersAreHeld
  <2> SUFFICES ASSUME IInv PROVE BuffersAreHeld
    OBVIOUS
  <2>1. Held(stack, buffers) /\ stack \in Seq(CallFrame)
    BY TypesAre DEF CallsFit
  <2>2. DOMAIN stack = 1 .. Len(stack)
    BY <2>1, SeqIs
  <2> QED
    BY <2>1, <2>2 DEF BuffersAreHeld, Held
<1> QED
  BY <1>1, ObjectsInductive, PTL

\* The null buffer that allocate answers when it finds no free slot is used only where as
\* many loops, ranges and evaluations are nested as the table has slots.
THEOREM FaultsOnlyWhenFull == Spec => []FaultsNeedFullTable
<1>1. IInv => FaultsNeedFullTable
  BY DEF IInv
<1> QED
  BY <1>1, ObjectsInductive, PTL

\* A range that no event interrupted is up to date when it returns and agrees with the
\* values its elements have, although it locks nothing, marks an element up to date before
\* its value is known and evaluates others in between.
THEOREM RangesAgree == Spec => []RangeAgrees
<1>1. IInv => RangeAgrees
  <2> SUFFICES ASSUME IInv, Running("text"), Top.since = ops
               PROVE  \A i \in 0 .. Elements - 1 :
                        /\ ~OutOfDate(<<Top.o, i>>)
                        /\ buffers[Top.buf].data[i + 1] = attr[<<Top.o, i>>].val
    BY DEF RangeAgrees
  <2>1. CallsFit(stack, buffers, attr, keys, array, ops) /\ stack # <<>>
    BY TypesAre DEF Running
  <2>2. Len(stack) \in 1 .. Len(stack) /\ Last(stack) = stack[Len(stack)]
    BY <2>1, Innermost
  <2>3. PICK f : f = Top
    OBVIOUS
  <2>4. Fits(f, buffers[f.buf], attr, keys, array, ops) /\ f.at = "text" /\ f.since = ops
    <3>1. f = stack[Len(stack)]
      BY <2>2, <2>3 DEF Top
    <3>2. Fits(f, buffers[f.buf], attr, keys, array, ops)
      BY <2>2, <3>1, CallsAre
    <3> QED
      BY <2>3, <3>2 DEF Running
  <2>5. UpToDate(f, buffers[f.buf], Elements, attr)
    BY <2>4 DEF Fits, RangeFits
  <2> QED
    BY <2>3, <2>5 DEF UpToDate, Late, OutOfDate
<1> QED
  BY <1>1, ObjectsInductive, PTL

\* Keys that differ without the first parent behind the first of them: the parent's place p
\* is left out, and when there is none all are there.
LEMMA ParentRemoved ==
  ASSUME NEW s \in Seq(Key), s # <<>>, IsInjective(s), NEW p \in Int, SkipsAt(s, p)
  PROVE  LET r == <<s[1]>> \o RemoveFirst(Tail(s), Parent)
         IN  /\ r \in Seq(Key)
             /\ Len(r) = Len(s) - (IF p <= Len(s) THEN 1 ELSE 0)
             /\ \A j \in 1 .. Len(r) : r[j] = IF j < p THEN s[j] ELSE s[j + 1]
<1> DEFINE L == Len(s)
           t == Tail(s)
           q == RemoveFirst(t, Parent)
           r == <<s[1]>> \o q
<1>1. /\ t \in Seq(Key) /\ L \in Nat \ {0} /\ Len(t) = L - 1 /\ s[1] \in Key
      /\ \A i \in 1 .. L - 1 : t[i] = s[i + 1]
  BY Shortened
<1>2. \A x : x \in ToSet(t) <=> \E i \in 1 .. Len(t) : t[i] = x
  BY <1>1, SeqIs
<1>3. \A i, j \in 1 .. L : s[i] = s[j] => i = j
  BY SeqIs DEF IsInjective
<1>4. /\ p \in 2 .. L + 1 /\ (p <= L => s[p] = Parent)
      /\ \A j \in 2 .. p - 1 : s[j] # Parent
  BY DEF SkipsAt
<1>5. /\ q \in Seq(Key)
      /\ \/ q = t /\ Parent \notin ToSet(t)
         \/ \E k \in 1 .. Len(t) :
              /\ t[k] = Parent /\ Len(q) = Len(t) - 1
              /\ \A i \in 1 .. Len(t) - 1 : q[i] = IF i < k THEN t[i] ELSE t[i + 1]
  <2>1. Parent \in Key
    BY DEF Key
  <2>2. ASSUME NEW u \in Seq(Key)
        PROVE  /\ RemoveFirst(u, Parent) \in Seq(Key)
               /\ \/ RemoveFirst(u, Parent) = u /\ Parent \notin ToSet(u)
                  \/ \E k \in 1 .. Len(u) :
                       /\ u[k] = Parent /\ Len(RemoveFirst(u, Parent)) = Len(u) - 1
                       /\ \A i \in 1 .. Len(u) - 1 :
                            RemoveFirst(u, Parent)[i] = IF i < k THEN u[i] ELSE u[i + 1]
    BY <2>1, FirstRemoved
  <2> HIDE DEF t
  <2> QED
    BY <1>1, <2>2
<1>6. /\ r \in Seq(Key) /\ Len(r) = Len(q) + 1 /\ r[1] = s[1] /\ Len(q) \in Nat
      /\ \A i \in 1 .. Len(q) : r[1 + i] = q[i]
  <2> DEFINE h == <<s[1]>>
  <2>1. h \in Seq(Key) /\ Len(h) = 1 /\ h[1] = s[1]
    BY <1>1
  <2> HIDE DEF h, q
  <2>2. /\ h \o q \in Seq(Key) /\ Len(h \o q) = Len(h) + Len(q) /\ Len(q) \in Nat
        /\ \A i \in 1 .. Len(h) : (h \o q)[i] = h[i]
        /\ \A i \in 1 .. Len(q) : (h \o q)[Len(h) + i] = q[i]
    <3>1. PICK a \in Seq(Key), b \in Seq(Key) : a = h /\ b = q
      BY <1>5, <2>1
    <3>2. /\ a \o b \in Seq(Key) /\ Len(a \o b) = Len(a) + Len(b) /\ Len(b) \in Nat
          /\ \A i \in 1 .. Len(a) : (a \o b)[i] = a[i]
          /\ \A i \in 1 .. Len(b) : (a \o b)[Len(a) + i] = b[i]
      BY Joined, SeqIs
    <3> QED
      BY <3>1, <3>2
  <2>3. 1 \in 1 .. Len(h)
    BY <2>1
  <2> QED
    BY <2>1, <2>2, <2>3 DEF h
<1> HIDE DEF r, q, t, L
<1>7. \A j \in 1 .. Len(r) : j = 1 \/ (j - 1 \in 1 .. Len(q) /\ r[j] = q[j - 1])
  <2>1. \A j \in 1 .. Len(r) : j = 1 \/ (j - 1 \in 1 .. Len(q) /\ 1 + (j - 1) = j)
    BY <1>6
  <2> QED
    BY <1>6, <2>1
<1>8. CASE q = t /\ Parent \notin ToSet(t)
  <2>1. p = L + 1
    <3> SUFFICES ASSUME p <= L PROVE FALSE
      BY <1>1, <1>4
    <3>1. p - 1 \in 1 .. Len(t) /\ p - 1 \in 1 .. L - 1 /\ p - 1 + 1 = p
      BY <1>1, <1>4
    <3>2. t[p - 1] = Parent
      BY <1>1, <1>4, <3>1
    <3> QED
      BY <1>2, <1>8, <3>1, <3>2
  <2>2. Len(r) = L
    BY <1>1, <1>6, <1>8
  <2>3. ASSUME NEW j \in 1 .. Len(r) PROVE r[j] = s[j] /\ j < p
    <3>1. j - 1 \in 1 .. L - 1 => t[j - 1] = s[j - 1 + 1]
      BY <1>1
    <3>2. j - 1 + 1 = j /\ j < p
      BY <1>1, <2>1, <2>2
    <3> QED
      BY <1>1, <1>6, <1>7, <1>8, <3>1, <3>2
  <2>4. ~(p <= L) /\ L - 0 = L
    BY <1>1, <2>1
  <2> QED
    BY <1>6, <2>2, <2>3, <2>4 DEF r, q, t, L
<1>9. CASE \E k \in 1 .. Len(t) :
             /\ t[k] = Parent /\ Len(q) = Len(t) - 1
             /\ \A i \in 1 .. Len(t) - 1 : q[i] = IF i < k THEN t[i] ELSE t[i + 1]
  <2>1. PICK k \in 1 .. L - 1 :
          /\ t[k] = Parent /\ Len(q) = L - 2
          /\ \A i \in 1 .. L - 2 : q[i] = IF i < k THEN t[i] ELSE t[i + 1]
    <3>1. Len(t) - 1 = L - 2 /\ Len(t) = L - 1
      BY <1>1
    <3> QED
      BY <1>9, <3>1
  <2>2. s[k + 1] = Parent
    BY <1>1, <2>1
  <2>3. p = k + 1
    <3>1. k + 1 \in 1 .. L /\ k + 1 \in 2 .. L
      BY <1>1, <2>1
    <3>2. p <= L
      <4> SUFFICES ASSUME p = L + 1 PROVE FALSE
        BY <1>1, <1>4
      <4>1. k + 1 \in 2 .. p - 1
        BY <1>1, <3>1
      <4> QED
        BY <1>4, <2>2, <4>1
    <3>3. p \in 1 .. L
      BY <1>1, <1>4, <3>2
    <3> QED
      BY <1>3, <1>4, <2>2, <3>1, <3>2, <3>3
  <2>4. Len(r) = L - 1 /\ p <= L
    BY <1>1, <1>6, <2>1, <2>3
  <2>5. ASSUME NEW j \in 1 .. Len(r) PROVE r[j] = IF j < p THEN s[j] ELSE s[j + 1]
    <3>1. CASE j = 1
      BY <1>1, <1>4, <1>6, <3>1
    <3>2. CASE j # 1
      <4>1. /\ j - 1 \in 1 .. L - 2 /\ j - 1 \in 1 .. L - 1 /\ j \in 1 .. L - 1
            /\ j - 1 + 1 = j /\ (j - 1 < k <=> j < p)
        BY <1>1, <2>1, <2>3, <2>4, <3>2
      <4>2. r[j] = q[j - 1]
        BY <1>7, <3>2
      <4>3. q[j - 1] = IF j - 1 < k THEN t[j - 1] ELSE t[j - 1 + 1]
        BY <2>1, <4>1
      <4>4. t[j - 1] = s[j] /\ t[j] = s[j + 1]
        BY <1>1, <4>1
      <4> QED
        BY <4>1, <4>2, <4>3, <4>4
    <3> QED
      BY <3>1, <3>2
  <2> QED
    BY <1>6, <2>4, <2>5 DEF r, q, t, L
<1> QED
  BY <1>5, <1>8, <1>9

\* An iteration whose array of keys was not replaced visits the keys of its beginning, each
\* once and in the order they were added, and leaves the parent out unless it is the first,
\* whatever its body adds.
THEOREM IterationsVisit == Spec => []IterationFaithful
<1>1. IInv => IterationFaithful
  <2> SUFFICES ASSUME IInv, NEW i \in DOMAIN stack, stack[i].at = "iter", stack[i].cur = -1,
                      buffers[stack[i].buf].data[2] = array[stack[i].o]
               PROVE  /\ stack[i].seen = <<stack[i].first[1]>>
                                         \o RemoveFirst(Tail(stack[i].first), Parent)
                      /\ IsInjective(stack[i].seen)
    BY DEF IterationFaithful
  <2>1. i \in 1 .. Len(stack)
    BY TypesAre, SeqIs DEF CallsFit
  <2>2. PICK f \in CallFrame : f = stack[i] /\ Fits(f, buffers[f.buf], attr, keys, array, ops)
    BY <2>1, CallsAre
  <2>3. f.first \in Seq(Key) /\ f.seen \in Seq(Key \cup {Garbage})
    BY <2>2, CallIs
  <2>4. /\ f.first # <<>> /\ IsInjective(f.first)
        /\ \E p \in Int : Visits(f, p)
    BY <2>2 DEF Fits, IterFits
  <2>5. PICK p \in Int : Visits(f, p)
    BY <2>4
  <2> DEFINE s == f.first
             r == <<s[1]>> \o RemoveFirst(Tail(s), Parent)
  <2>6. /\ SkipsAt(s, p) /\ Len(f.seen) = Len(s) - (IF p <= Len(s) THEN 1 ELSE 0)
        /\ \A j \in 1 .. Len(f.seen) : f.seen[j] = IF j < p THEN s[j] ELSE s[j + 1]
    BY <2>2, <2>5 DEF Visits, Passed
  <2>7. /\ r \in Seq(Key) /\ Len(r) = Len(s) - (IF p <= Len(s) THEN 1 ELSE 0)
        /\ \A j \in 1 .. Len(r) : r[j] = IF j < p THEN s[j] ELSE s[j + 1]
    BY <2>3, <2>4, <2>6, ParentRemoved
  <2> HIDE DEF r, s
  <2>8. f.seen = r
    <3>1. r \in Seq(Key \cup {Garbage})
      BY <2>7
    <3>2. Len(f.seen) = Len(r) /\ \A j \in 1 .. Len(f.seen) : f.seen[j] = r[j]
      BY <2>6, <2>7
    <3> QED
      BY <2>3, <3>1, <3>2, SeqEqual
  <2>9. IsInjective(f.seen)
    <3>1. DOMAIN f.seen = 1 .. Len(f.seen) /\ Len(f.seen) \in Nat /\ Len(s) \in Nat
      BY <2>3, SeqIs DEF s
    <3>2. \A j, k \in 1 .. Len(s) : s[j] = s[k] => j = k
      BY <2>3, <2>4, SeqIs DEF IsInjective, s
    <3>3. p \in 2 .. Len(s) + 1
      BY <2>6 DEF SkipsAt
    <3>5. \/ p <= Len(s) /\ Len(f.seen) = Len(s) - 1
          \/ p = Len(s) + 1 /\ Len(f.seen) = Len(s)
      BY <2>6, <3>1, <3>3
    <3>4. ASSUME NEW j \in 1 .. Len(f.seen), NEW k \in 1 .. Len(f.seen), f.seen[j] = f.seen[k]
          PROVE  j = k
      <4> DEFINE at(x) == IF x < p THEN x ELSE x + 1
      <4>1. \A x \in 1 .. Len(f.seen) : at(x) \in 1 .. Len(s) /\ f.seen[x] = s[at(x)]
        <5> TAKE x \in 1 .. Len(f.seen)
        <5>1. CASE x < p
          <6>1. at(x) = x /\ x \in 1 .. Len(s)
            BY <3>1, <3>3, <5>1
          <6> QED
            BY <2>6, <5>1, <6>1
        <5>2. CASE ~(x < p)
          <6>1. at(x) = x + 1 /\ x + 1 \in 1 .. Len(s)
            BY <3>1, <3>3, <3>5, <5>2
          <6> QED
            BY <2>6, <5>2, <6>1
        <5> QED
          BY <5>1, <5>2
      <4>2. at(j) = at(k)
        <5> HIDE DEF at
        <5> QED
          BY <3>2, <3>4, <4>1
      <4> QED
        BY <3>1, <3>3, <4>2
    <3> QED
      BY <3>1, <3>4 DEF IsInjective
  <2> QED
    BY <2>2, <2>8, <2>9 DEF r, s
<1> QED
  BY <1>1, ObjectsInductive, PTL
=============================================================================
