------------------------------ MODULE EventPool ------------------------------
(***************************************************************************)
(* The pool every event is allocated from (core/event.cpp): an array of    *)
(* pointers to the events of one block, of which those from s_ppos on are  *)
(* free.  Event's operator new takes the first free one and its operator   *)
(* delete puts a pointer back before it.                                   *)
(*                                                                         *)
(* The code that allocates is a set of pointer variables, each of which    *)
(* receives an event and later deletes it or loses it: Attribute::notify   *)
(* returns without deleting its event when it meets a cycle.               *)
(***************************************************************************)
EXTENDS Integers

CONSTANTS
  PoolSize,  \* EVENT_POOL_SIZE
  Holder,    \* the pointer variables that receive events
  None       \* no event

Cell  == 0 .. PoolSize - 1
Event == 0 .. PoolSize - 1   \* the events of s_block, by their index

ASSUME PoolSizeAssumption == PoolSize \in Nat \ {0}
ASSUME NoneAssumption     == None \notin Event

VARIABLES
  pool,       \* s_pool: the event each cell points to
  ppos,       \* s_ppos: the first free cell
  held,       \* held[h]: the event h points to, or None
  leaked,     \* the events that nothing points to any more
  overflowed  \* history: an event was allocated when none was free

poolVars == <<pool, ppos, held, leaked, overflowed>>

-----------------------------------------------------------------------------
\* Event::initialise.
PoolInit ==
  /\ pool = [i \in Cell |-> i]
  /\ ppos = 0
  /\ held = [h \in Holder |-> None]
  /\ leaked = {}
  /\ overflowed = FALSE

New_keepsPos(h) ==
  /\ held[h] = None
  /\ held' = [held EXCEPT ![h] = pool[ppos]]
  /\ overflowed' = (overflowed \/ ppos >= PoolSize - 1)
  /\ UNCHANGED <<pool, ppos, leaked>>

\* operator new.  One cell from the end it reports a fatal error and goes on: the
\* event it returns stays free.
New(h) ==
  /\ held[h] = None
  /\ held' = [held EXCEPT ![h] = pool[ppos]]
  /\ \/ ppos < PoolSize - 1 /\ ppos' = ppos + 1 /\ UNCHANGED overflowed
     \/ ppos >= PoolSize - 1 /\ overflowed' = TRUE /\ UNCHANGED ppos
  /\ UNCHANGED <<pool, leaked>>

Delete_unguarded(h) ==
  /\ held[h] # None
  /\ held' = [held EXCEPT ![h] = None]
  /\ ppos' = ppos - 1
  /\ pool' = [pool EXCEPT ![ppos - 1] = held[h]]
  /\ UNCHANGED <<leaked, overflowed>>

Delete_postDecrement(h) ==
  /\ held[h] # None
  /\ held' = [held EXCEPT ![h] = None]
  /\ \/ ppos = 0 /\ UNCHANGED <<pool, ppos>>
     \/ ppos # 0 /\ ppos' = ppos - 1 /\ pool' = [pool EXCEPT ![ppos] = held[h]]
  /\ UNCHANGED <<leaked, overflowed>>

\* operator delete.
Delete(h) ==
  /\ held[h] # None
  /\ held' = [held EXCEPT ![h] = None]
  /\ \/ ppos = 0 /\ UNCHANGED <<pool, ppos>>
     \/ ppos # 0 /\ ppos' = ppos - 1 /\ pool' = [pool EXCEPT ![ppos - 1] = held[h]]
  /\ UNCHANGED <<leaked, overflowed>>

\* A pointer goes out of scope without a delete.
Lose(h) ==
  /\ held[h] # None
  /\ held' = [held EXCEPT ![h] = None]
  /\ leaked' = leaked \cup {held[h]}
  /\ UNCHANGED <<pool, ppos, overflowed>>

PoolNext == \E h \in Holder : New(h) \/ Delete(h) \/ Lose(h)

PoolSpec == PoolInit /\ [][PoolNext]_poolVars

-----------------------------------------------------------------------------
(***************************************************************************)
(* Properties.                                                             *)
(***************************************************************************)
\* The variables have the types their declarations give them: whatever has been
\* allocated and deleted, even after an overflow, s_ppos stays inside the pool.
PoolTypeOK ==
  /\ pool \in [Cell -> Event]
  /\ ppos \in Cell
  /\ held \in [Holder -> Event \cup {None}]
  /\ leaked \subseteq Event
  /\ overflowed \in BOOLEAN

\* No two pointers share an event.
NoAlias ==
  \A g, h \in Holder : g # h /\ held[g] # None => held[g] # held[h]

\* Until the pool overflows no event is given to two owners at once.
NoAliasUntilOverflow == ~overflowed => NoAlias

\* The events in use, and the free cells.
InUse     == {held[h] : h \in Holder} \cup leaked
FreeCells == {i \in Cell : i >= ppos}

\* Until the pool overflows it loses no event: each one is in use or free.
NoneLost == ~overflowed => \A e \in Event : e \in InUse \/ \E i \in FreeCells : pool[i] = e
=============================================================================
