------------------------------- MODULE Routing -------------------------------
(***************************************************************************)
(* Who answers for an object.  Handlers register ranges of OIDs in a table *)
(* of 20 entries (core/handler.cpp), the first entry that holds the        *)
(* destination of an event gets it, and an entry is never removed.  The    *)
(* core handlers register at start-up; XNet registers two ranges whenever  *)
(* a peer announces its base: the peer's objects, for the connection's     *)
(* XNetHandler, and the identifiers under which the connection's cache is  *)
(* notified, which are the same for every connection.  The store allocates *)
(* objects by incrementing an OID that starts at the bottom of its range   *)
(* (handlers/local.cpp).                                                   *)
(***************************************************************************)
EXTENDS OIDs, FiniteSets, SequencesExt

CONSTANTS
  Base,            \* OID::local(), the base of this machine
  Peers,           \* the bases of other machines
  MaxHandlers,     \* MAX_HANDLERS
  MaxConnections,  \* MAX_CONNECTIONS of XNet
  None,            \* no handler
  AgentsTop,       \* the last words of three ranges: 0xFF,
  DirectoryTop,    \*   100000
  CacheTop,        \*   and 0xFFFFFFF
  MaxCreated,      \* bounds of the model: the objects created
  MaxLocals        \* and the announcements received

\* A base is what initialise makes of its argument: the last two words are zero, and
\* the first is not, which keeps it from the reserved identifiers.
IsBase(x) == x \in OID /\ x.a > 0 /\ x.c = 0 /\ x.d = 0

ASSUME BasesAssumption == IsBase(Base) /\ \A p \in Peers : IsBase(p)
ASSUME SizesAssumption ==
  /\ MaxHandlers \in Nat /\ MaxHandlers >= 6 /\ MaxConnections \in Nat
  /\ MaxCreated \in Nat /\ MaxCreated < 2 * W /\ MaxLocals \in Nat
  /\ W > 101 /\ {AgentsTop, DirectoryTop, CacheTop} \subseteq Word

VARIABLES
  table,    \* s_handlers: the entries, in the order they were registered
  alloc,    \* s_alloc of the store
  created,  \* history: the objects the store has handed out, in order
  conns,    \* the connections: the base of the peer and its handler's number
  locals    \* the number of announcements received

vars == <<table, alloc, created, conns, locals>>

Top == W - 1

Entry(ha, l, h) == [ha |-> ha, l |-> l, h |-> h]

\* The constructor of a handler, and map, for one entry after the other: nothing but a
\* warning when the table is full.
Registered(t, es) ==
  t \o SubSeq(es, 1, IF Len(es) <= MaxHandlers - Len(t) THEN Len(es) ELSE MaxHandlers - Len(t))

\* Mutant: the last entry that holds the object.
Route_last(o) ==
  LET holds == {i \in DOMAIN table : AtMost(table[i].l, o) /\ AtLeast(table[i].h, o)}
  IN  IF holds = {} THEN None ELSE table[CHOOSE i \in holds : \A j \in holds : i >= j].ha

\* The entries that hold an object.
Holds(o) == {i \in DOMAIN table : AtMost(table[i].l, o) /\ AtLeast(table[i].h, o)}

\* route: the handler of the first of them.
Route(o) ==
  IF Holds(o) = {} THEN None
  ELSE table[CHOOSE i \in Holds(o) : \A j \in Holds(o) : i <= j].ha

-----------------------------------------------------------------------------
Handler(kind, n) == [kind |-> kind, n |-> n]
VStore           == Handler("store", 0)

Object(base, c, d) == Plus(base, O(0, 0, c, d))

\* The handlers of start-up, in order: the store with its objects and the booleans, the
\* operators of numbers (which the constructor of Number makes after its own entry),
\* the agents and the directories.
CoreEntries ==
  << Entry(VStore, Object(Base, 1, 0), Object(Base, 1, Top)),
     Entry(VStore, O(0, 0, 0, 1), O(0, 0, 0, 2)),
     Entry(Handler("number", 0), O(0, 1, 0, 0), O(0, 2, Top, Top)),
     Entry(Handler("numop", 0), O(0, 16, 0, 0), O(0, 70, Top, Top)),
     Entry(Handler("agents", 0), Object(Base, 15, 0), Object(Base, 15, AgentsTop)),
     Entry(Handler("directory", 0), O(0, 101, 0, 0), O(0, 101, 0, DirectoryTop)) >>

\* The entries of the n-th XNetHandler, for the peer at base p, and of its cache.
PeerEntries(p, n) ==
  << Entry(Handler("peer", n), Object(p, 1, 0), Object(p, 17, Top)),
     Entry(Handler("cache", n), Object(Base, 16, 0), Object(Base, 17, CacheTop)) >>

Init ==
  /\ table   = Registered(<<>>, CoreEntries)
  /\ alloc   = Object(Base, 1, 0)
  /\ created = <<>>
  /\ conns   = <<>>
  /\ locals  = 0

\* A CREATE, which only the store answers.
Create ==
  /\ Len(created) < MaxCreated
  /\ Route(Object(Base, 1, 0)) = VStore
  /\ created' = Append(created, alloc)
  /\ alloc'   = Inc(alloc)
  /\ UNCHANGED <<table, conns, locals>>

\* A connection with the peer at p is made: it takes a slot, if there is one.
Connect(p) ==
  /\ Len(conns) < MaxConnections
  /\ conns' = Append(conns, [peer |-> p, handler |-> None])
  /\ UNCHANGED <<table, alloc, created, locals>>

\* The peer of connection i announces its base: onLocal makes a new handler and a new
\* cache for it, whatever the connection had before.
Local(i) ==
  /\ locals < MaxLocals
  /\ locals' = locals + 1
  /\ table'  = Registered(table, PeerEntries(conns[i].peer, locals'))
  /\ conns'  = [conns EXCEPT ![i].handler = locals']
  /\ UNCHANGED <<alloc, created>>

Next == Create \/ (\E p \in Peers : Connect(p)) \/ (\E i \in DOMAIN conns : Local(i))

Spec == Init /\ [][Next]_vars

-----------------------------------------------------------------------------
(***************************************************************************)
(* Properties.                                                             *)
(***************************************************************************)
Kinds       == {"store", "number", "numop", "agents", "directory", "peer", "cache"}
HandlerName == [kind : Kinds, n : Nat]
EntryType   == [ha : HandlerName, l : OID, h : OID]

\* The types of the variables, and the limit of the table.
TypeOK ==
  /\ table \in Seq(EntryType)
  /\ Len(table) <= MaxHandlers
  /\ alloc \in OID
  /\ created \in Seq(OID) /\ Len(created) <= MaxCreated
  /\ locals \in 0 .. MaxLocals
  /\ conns \in Seq([peer : Peers, handler : (1 .. locals) \cup {None}])

\* The objects the store creates are all different, and events for them come back to
\* the store: as long as there are no more of them than a word has values.  The next
\* one is in nobody's range.
CreatedAreRouted ==
  /\ IsInjective(created)
  /\ Len(created) <= W => \A i \in DOMAIN created : Route(created[i]) = VStore

\* An object whose events have a handler keeps it, whoever registers later: the ranges
\* overlap, the order in the table decides, and nothing is removed or moved.
RoutesAreStable ==
  [][\A i \in DOMAIN table : \A o \in {table[i].l, table[i].h} :
       Route(o) # None => Route(o)' = Route(o)]_vars

Announced(p) == {i \in DOMAIN conns : conns[i].peer = p /\ conns[i].handler # None}

\* How often the base p was announced, counting those whose entry was dropped.
Dropped == Len(CoreEntries) + 2 * locals > MaxHandlers
Entries(p) == {i \in DOMAIN table : table[i].ha.kind = "peer" /\ table[i].l = Object(p, 1, 0)}

\* The objects of a peer, in the part of it that the store of its machine fills, are
\* sent to the connection with it: when its base is not this machine's own, it was
\* announced once, and no announcement found the table full.
PeersAreRouted ==
  \A p \in Peers : \A i \in Announced(p) :
    (~Dropped /\ p # Base /\ Cardinality(Entries(p)) = 1)
    => \A d \in {0, Top} : Route(Object(p, 1, d)) = Handler("peer", conns[i].handler)

\* The same for every peer that announced itself.
EveryPeerIsRouted ==
  \A p \in Peers : \A i \in Announced(p) :
    Route(Object(p, 1, 0)) = Handler("peer", conns[i].handler)

\* The notification of a cached attribute reaches the cache that asked for it, for
\* every peer that announced itself once.
CachesAreNotified ==
  \A i \in DOMAIN conns :
    (conns[i].handler # None /\ Cardinality(Entries(conns[i].peer)) = 1)
    => Route(Object(Base, 16, 0)) = Handler("cache", conns[i].handler)
=============================================================================
