---------------------------- MODULE RoutingProofs ----------------------------
(***************************************************************************)
(* For words and tables of any size: OIDs, compared in halves, are totally *)
(* ordered, and operator++ leads to the next of them; the objects the      *)
(* store creates are different and are routed to the store, until a word   *)
(* has no more values; a destination that has a handler keeps it; and the  *)
(* objects of a peer that announced itself once are routed to the          *)
(* connection with it.                                                     *)
(***************************************************************************)
EXTENDS Routing, FiniteSetTheorems, SequenceTheorems, WellFoundedInduction, TLAPS

-----------------------------------------------------------------------------
(***************************************************************************)
(* The order of OIDs and what an increment does to it.                     *)
(***************************************************************************)
\* An OID is its four words.
LEMMA SameWords ==
  ASSUME NEW x \in OID, NEW y \in OID, x.a = y.a, x.b = y.b, x.c = y.c, x.d = y.d
  PROVE  x = y
BY DEF OID

\* The words of an OID are natural numbers below W.
LEMMA Words ==
  ASSUME NEW x \in OID
  PROVE  /\ x.a \in Nat /\ x.b \in Nat /\ x.c \in Nat /\ x.d \in Nat
         /\ x.a < W /\ x.b < W /\ x.c < W /\ x.d < W
BY WordAssumption DEF OID, Word

\* Comparing the high halves first and then the low ones is comparing word by word.
LEMMA LessByWords ==
  ASSUME NEW x, NEW y
  PROVE  Less(x, y) <=> \/ x.a < y.a
                        \/ x.a = y.a /\ x.b < y.b
                        \/ x.a = y.a /\ x.b = y.b /\ x.c < y.c
                        \/ x.a = y.a /\ x.b = y.b /\ x.c = y.c /\ x.d < y.d
<1>1. High(x) = High(y) <=> x.a = y.a /\ x.b = y.b
  BY DEF High
<1>2. HalfLess(High(x), High(y)) <=> x.a < y.a \/ (x.a = y.a /\ x.b < y.b)
  BY DEF High, HalfLess
<1>3. HalfLess(Low(x), Low(y)) <=> x.c < y.c \/ (x.c = y.c /\ x.d < y.d)
  BY DEF Low, HalfLess
<1> QED
  BY <1>1, <1>2, <1>3 DEF Less

\* No OID is less than itself, and of two OIDs one at most is less than the other.
THEOREM LessAsymmetric ==
  ASSUME NEW x \in OID, NEW y \in OID, Less(x, y)
  PROVE  x # y /\ ~Less(y, x)
<1>1. ~Less(y, x)
  BY Words, LessByWords
<1> QED
  BY <1>1

\* The order is transitive: comparing the high halves first loses nothing.
THEOREM LessTransitive ==
  ASSUME NEW x \in OID, NEW y \in OID, NEW z \in OID, Less(x, y), Less(y, z)
  PROVE  Less(x, z)
BY Words, LessByWords

\* Of two OIDs one is less than the other, or they are equal in all four words.
THEOREM LessTotal ==
  ASSUME NEW x \in OID, NEW y \in OID
  PROVE  x = y \/ Less(x, y) \/ Less(y, x)
<1>1. CASE x.a = y.a /\ x.b = y.b /\ x.c = y.c /\ x.d = y.d
  BY <1>1, SameWords
<1>2. CASE ~(x.a = y.a /\ x.b = y.b /\ x.c = y.c /\ x.d = y.d)
  BY <1>2, Words, LessByWords
<1> QED
  BY <1>1, <1>2

\* The words of an increment, by how far the carry goes.
LEMMA IncWords ==
  ASSUME NEW x \in OID
  PROVE  /\ Inc(x) \in OID
         /\ x.d # W - 1 => Inc(x).a = x.a /\ Inc(x).b = x.b /\ Inc(x).c = x.c /\ Inc(x).d = x.d + 1
         /\ x.d = W - 1 /\ x.c # W - 1
            => Inc(x).a = x.a /\ Inc(x).b = x.b /\ Inc(x).c = x.c + 1 /\ Inc(x).d = 0
         /\ x.d = W - 1 /\ x.c = W - 1 /\ x.b # W - 1
            => Inc(x).a = x.a /\ Inc(x).b = x.b + 1 /\ Inc(x).c = 0 /\ Inc(x).d = 0
         /\ x.d = W - 1 /\ x.c = W - 1 /\ x.b = W - 1 /\ x.a # W - 1
            => Inc(x).a = x.a + 1 /\ Inc(x).b = 0 /\ Inc(x).c = 0 /\ Inc(x).d = 0
<1>1. (x.a + 1) % W \in Word /\ (x.a # W - 1 => (x.a + 1) % W = x.a + 1)
  BY Words, WordAssumption DEF Word
<1> QED
  BY <1>1, Words, WordAssumption DEF OID, Word, Inc, O

\* operator++ carries rightly: any OID but the greatest is less than its increment.
THEOREM IncIsGreater ==
  ASSUME NEW x \in OID, x # O(W - 1, W - 1, W - 1, W - 1)
  PROVE  Less(x, Inc(x))
<1>1. x.a # W - 1 \/ x.b # W - 1 \/ x.c # W - 1 \/ x.d # W - 1
  BY DEF OID, O
<1> QED
  BY <1>1, WordAssumption, Words, IncWords, LessByWords

\* And nothing is between an OID and its increment: no object is left out.
THEOREM IncIsNext ==
  ASSUME NEW x \in OID, NEW y \in OID, Less(x, y)
  PROVE  AtMost(Inc(x), y)
<1>1. Inc(x) \in OID
  BY IncWords
<1>2. ASSUME Less(y, Inc(x))
      PROVE  FALSE
  <2> DEFINE z == Inc(x)
  <2>1. /\ y.a \in Nat /\ y.b \in Nat /\ y.c \in Nat /\ y.d \in Nat
        /\ y.a < W /\ y.b < W /\ y.c < W /\ y.d < W
        /\ x.a \in Nat /\ x.b \in Nat /\ x.c \in Nat /\ x.d \in Nat
        /\ x.a < W /\ x.b < W /\ x.c < W /\ x.d < W
        /\ W \in Nat
    BY Words, WordAssumption
  <2>2. \/ x.a < y.a
        \/ x.a = y.a /\ x.b < y.b
        \/ x.a = y.a /\ x.b = y.b /\ x.c < y.c
        \/ x.a = y.a /\ x.b = y.b /\ x.c = y.c /\ x.d < y.d
    BY LessByWords
  <2>3. \/ y.a < z.a
        \/ y.a = z.a /\ y.b < z.b
        \/ y.a = z.a /\ y.b = z.b /\ y.c < z.c
        \/ y.a = z.a /\ y.b = z.b /\ y.c = z.c /\ y.d < z.d
    BY <1>2, LessByWords
  <2>4. CASE x.d # W - 1
    <3>1. z.a = x.a /\ z.b = x.b /\ z.c = x.c /\ z.d = x.d + 1
      BY <2>4, IncWords
    <3> HIDE DEF z
    <3> QED
      BY <2>1, <2>2, <2>3, <3>1
  <2>5. CASE x.d = W - 1 /\ x.c # W - 1
    <3>1. z.a = x.a /\ z.b = x.b /\ z.c = x.c + 1 /\ z.d = 0
      BY <2>5, IncWords
    <3> HIDE DEF z
    <3> QED
      BY <2>1, <2>2, <2>3, <2>5, <3>1
  <2>6. CASE x.d = W - 1 /\ x.c = W - 1 /\ x.b # W - 1
    <3>1. z.a = x.a /\ z.b = x.b + 1 /\ z.c = 0 /\ z.d = 0
      BY <2>6, IncWords
    <3> HIDE DEF z
    <3> QED
      BY <2>1, <2>2, <2>3, <2>6, <3>1
  <2>7. CASE x.d = W - 1 /\ x.c = W - 1 /\ x.b = W - 1
    <3>1. x.a < y.a
      BY <2>1, <2>2, <2>7
    <3>2. x.a # W - 1
      BY <2>1, <3>1
    <3>3. z.a = x.a + 1 /\ z.b = 0 /\ z.c = 0 /\ z.d = 0
      BY <2>7, <3>2, IncWords
    <3> HIDE DEF z
    <3> QED
      BY <2>1, <2>3, <3>1, <3>3
  <2> QED
    BY <2>4, <2>5, <2>6, <2>7
<1> QED
  BY <1>1, <1>2, LessTotal DEF AtMost

-----------------------------------------------------------------------------
(***************************************************************************)
(* The table of handlers.                                                  *)
(***************************************************************************)
\* Adding zero to a word.
LEMMA WordPlus ==
  ASSUME NEW x \in Word
  PROVE  (x + 0) % W = x /\ (0 + x) % W = x
BY WordAssumption DEF Word

\* The objects of a base are the base with other last words.
LEMMA ObjectWords ==
  ASSUME NEW base, IsBase(base), NEW c \in Word, NEW d \in Word
  PROVE  Object(base, c, d) = O(base.a, base.b, c, d) /\ Object(base, c, d) \in OID
<1>1. base.a \in Word /\ base.b \in Word /\ base.c = 0 /\ base.d = 0
  BY DEF IsBase, OID
<1> QED
  BY <1>1, WordPlus DEF Object, Plus, O, OID

\* The words the handlers use exist.
LEMMA SmallWords ==
  /\ Top \in Word /\ AgentsTop \in Word /\ DirectoryTop \in Word /\ CacheTop \in Word
  /\ 0 \in Word /\ 1 \in Word /\ 2 \in Word /\ 15 \in Word /\ 16 \in Word /\ 17 \in Word
  /\ 70 \in Word /\ 101 \in Word
BY WordAssumption, SizesAssumption DEF Word, Top

\* Four words make an OID.
LEMMA OIDType ==
  ASSUME NEW a \in Word, NEW b \in Word, NEW c \in Word, NEW d \in Word
  PROVE  O(a, b, c, d) \in OID
BY DEF O, OID

\* A handler's entry.
LEMMA EntryIsEntry ==
  ASSUME NEW kind \in Kinds, NEW n \in Nat, NEW l \in OID, NEW h \in OID
  PROVE  Entry(Handler(kind, n), l, h) \in EntryType
BY DEF Entry, Handler, EntryType, HandlerName

\* The core handlers are six entries, of which the store's objects are the first.
LEMMA CoreType ==
  /\ CoreEntries \in Seq(EntryType) /\ Len(CoreEntries) = 6
  /\ CoreEntries[1] = Entry(VStore, Object(Base, 1, 0), Object(Base, 1, Top))
<1>1. VStore = Handler("store", 0) /\ 0 \in Nat /\ IsBase(Base)
  BY BasesAssumption DEF VStore
<1>2. Entry(VStore, Object(Base, 1, 0), Object(Base, 1, Top)) \in EntryType
  <2>1. Object(Base, 1, 0) \in OID /\ Object(Base, 1, Top) \in OID
    BY <1>1, SmallWords, ObjectWords
  <2> QED
    BY <1>1, <2>1, EntryIsEntry DEF Kinds
<1>3. Entry(VStore, O(0, 0, 0, 1), O(0, 0, 0, 2)) \in EntryType
  <2>1. O(0, 0, 0, 1) \in OID /\ O(0, 0, 0, 2) \in OID
    BY SmallWords, OIDType
  <2> QED
    BY <1>1, <2>1, EntryIsEntry DEF Kinds
<1>4. Entry(Handler("number", 0), O(0, 1, 0, 0), O(0, 2, Top, Top)) \in EntryType
  <2>1. O(0, 1, 0, 0) \in OID /\ O(0, 2, Top, Top) \in OID
    BY SmallWords, OIDType
  <2> QED
    BY <1>1, <2>1, EntryIsEntry DEF Kinds
<1>5. Entry(Handler("numop", 0), O(0, 16, 0, 0), O(0, 70, Top, Top)) \in EntryType
  <2>1. O(0, 16, 0, 0) \in OID /\ O(0, 70, Top, Top) \in OID
    BY SmallWords, OIDType
  <2> QED
    BY <1>1, <2>1, EntryIsEntry DEF Kinds
<1>6. Entry(Handler("agents", 0), Object(Base, 15, 0), Object(Base, 15, AgentsTop)) \in EntryType
  <2>1. Object(Base, 15, 0) \in OID /\ Object(Base, 15, AgentsTop) \in OID
    BY <1>1, SmallWords, ObjectWords
  <2> QED
    BY <1>1, <2>1, EntryIsEntry DEF Kinds
<1>7. Entry(Handler("directory", 0), O(0, 101, 0, 0), O(0, 101, 0, DirectoryTop)) \in EntryType
  <2>1. O(0, 101, 0, 0) \in OID /\ O(0, 101, 0, DirectoryTop) \in OID
    BY SmallWords, OIDType
  <2> QED
    BY <1>1, <2>1, EntryIsEntry DEF Kinds
<1> QED
  BY <1>2, <1>3, <1>4, <1>5, <1>6, <1>7 DEF CoreEntries

\* A peer is two entries.
LEMMA PeerType ==
  ASSUME NEW p \in Peers, NEW n \in Nat
  PROVE  PeerEntries(p, n) \in Seq(EntryType) /\ Len(PeerEntries(p, n)) = 2
<1>1. Entry(Handler("peer", n), Object(p, 1, 0), Object(p, 17, Top)) \in EntryType
  <2>1. Object(p, 1, 0) \in OID /\ Object(p, 17, Top) \in OID
    BY BasesAssumption, SmallWords, ObjectWords
  <2> QED
    BY <2>1, EntryIsEntry DEF Kinds
<1>2. Entry(Handler("cache", n), Object(Base, 16, 0), Object(Base, 17, CacheTop)) \in EntryType
  <2>1. Object(Base, 16, 0) \in OID /\ Object(Base, 17, CacheTop) \in OID
    BY BasesAssumption, SmallWords, ObjectWords
  <2> QED
    BY <2>1, EntryIsEntry DEF Kinds
<1> QED
  BY <1>1, <1>2 DEF PeerEntries

\* Registering entries leaves those there are where they are, and respects the limit.
LEMMA RegisteredKeeps ==
  ASSUME NEW t \in Seq(EntryType), NEW es \in Seq(EntryType), Len(t) <= MaxHandlers
  PROVE  /\ Registered(t, es) \in Seq(EntryType)
         /\ Len(Registered(t, es)) \in Len(t) .. MaxHandlers
         /\ \A i \in 1 .. Len(t) : Registered(t, es)[i] = t[i]
         /\ Len(t) + Len(es) <= MaxHandlers => Registered(t, es) = t \o SubSeq(es, 1, Len(es))
<1> DEFINE n == IF Len(es) <= MaxHandlers - Len(t) THEN Len(es) ELSE MaxHandlers - Len(t)
<1>1. n \in 0 .. Len(es) /\ Len(t) + n <= MaxHandlers /\ n \in Nat
  BY SizesAssumption
<1>2. SubSeq(es, 1, n) \in Seq(EntryType) /\ Len(SubSeq(es, 1, n)) = n
  BY <1>1
<1>3. Registered(t, es) = t \o SubSeq(es, 1, n)
  BY DEF Registered
<1>4. Len(t) + Len(es) <= MaxHandlers => n = Len(es)
  BY SizesAssumption
<1>5. Len(t) + Len(es) <= MaxHandlers => Registered(t, es) = t \o SubSeq(es, 1, Len(es))
  BY <1>3, <1>4
<1> HIDE DEF n
<1> DEFINE s == SubSeq(es, 1, n)
<1>6. s \in Seq(EntryType) /\ Len(s) = n
  BY <1>2
<1> HIDE DEF s
<1>7. t \o s \in Seq(EntryType) /\ Len(t \o s) = Len(t) + n /\ Len(t) \in Nat
  BY <1>1, <1>6
<1>8. \A i \in 1 .. Len(t) : (t \o s)[i] = t[i]
  BY <1>6
<1>9. Registered(t, es) = t \o s
  BY <1>3 DEF s
<1>10. Len(Registered(t, es)) \in Len(t) .. MaxHandlers
  BY <1>1, <1>7, <1>9, SizesAssumption
<1> QED
  BY <1>5, <1>7, <1>8, <1>9, <1>10

-----------------------------------------------------------------------------
\* Every variable keeps its type, for any number of words, peers and handlers.
LEMMA InitTypeOK == Init => TypeOK
<1> SUFFICES ASSUME Init PROVE TypeOK
  OBVIOUS
<1>1. <<>> \in Seq(EntryType) /\ Len(<<>>) = 0
  OBVIOUS
<1>2. table \in Seq(EntryType) /\ Len(table) <= MaxHandlers
  <2>1. table = Registered(<<>>, CoreEntries)
    BY DEF Init
  <2>2. 0 <= MaxHandlers /\ MaxHandlers \in Nat
    BY SizesAssumption
  <2>3. Registered(<<>>, CoreEntries) \in Seq(EntryType)
        /\ Len(Registered(<<>>, CoreEntries)) \in Len(<<>>) .. MaxHandlers
    BY <1>1, <2>2, CoreType, RegisteredKeeps
  <2> QED
    BY <1>1, <2>1, <2>2, <2>3
<1>3. alloc \in OID
  BY ObjectWords, SmallWords, BasesAssumption DEF Init
<1> QED
  BY <1>2, <1>3, SizesAssumption DEF Init, TypeOK

\* An increment is an OID.
LEMMA IncIsOID ==
  ASSUME NEW x \in OID
  PROVE  Inc(x) \in OID
<1>1. x.a \in Word /\ x.b \in Word /\ x.c \in Word /\ x.d \in Word
  BY DEF OID
<1>2. (x.a + 1) % W \in Word /\ 0 \in Word
  BY <1>1, WordAssumption DEF Word
<1>3. /\ x.d # W - 1 => x.d + 1 \in Word
      /\ x.c # W - 1 => x.c + 1 \in Word
      /\ x.b # W - 1 => x.b + 1 \in Word
  BY <1>1, WordAssumption DEF Word
<1> QED
  BY <1>1, <1>2, <1>3 DEF Inc, O, OID

\* Every action keeps the types.
LEMMA NextTypeOK == TypeOK /\ [Next]_vars => TypeOK'
<1> SUFFICES ASSUME TypeOK, [Next]_vars PROVE TypeOK'
  OBVIOUS
<1>1. CASE Create
  <2>1. created' = Append(created, alloc) /\ Len(created) < MaxCreated /\ alloc' \in OID
    BY <1>1, IncIsOID DEF Create, TypeOK
  <2>2. created \in Seq(OID) /\ alloc \in OID /\ MaxCreated \in Nat
    BY SizesAssumption DEF TypeOK
  <2>3. created' \in Seq(OID) /\ Len(created') <= MaxCreated
    BY <2>1, <2>2
  <2> QED
    BY <1>1, <2>1, <2>3 DEF Create, TypeOK
<1>2. ASSUME NEW p \in Peers, Connect(p) PROVE TypeOK'
  BY <1>2 DEF Connect, TypeOK
<1>3. ASSUME NEW i \in DOMAIN conns, Local(i) PROVE TypeOK'
  <2>1. locals' \in 1 .. MaxLocals /\ locals' \in Nat /\ locals' = locals + 1
    BY <1>3, SizesAssumption DEF Local, TypeOK
  <2> DEFINE B == [peer : Peers, handler : (1 .. locals) \cup {None}]
             C == [peer : Peers, handler : (1 .. locals') \cup {None}]
  <2>2. conns \in Seq(B) /\ i \in 1 .. Len(conns)
    BY <1>3 DEF TypeOK
  <2>a. conns[i] \in B
    <3> HIDE DEF B
    <3> QED
      BY <2>2
  <2>b. conns[i].peer \in Peers
    BY <2>a
  <2>3. table' \in Seq(EntryType) /\ Len(table') <= MaxHandlers
    <3>1. table' = Registered(table, PeerEntries(conns[i].peer, locals'))
      BY <1>3 DEF Local
    <3>2. PeerEntries(conns[i].peer, locals') \in Seq(EntryType)
      BY <2>1, <2>b, PeerType
    <3>3. table \in Seq(EntryType) /\ Len(table) <= MaxHandlers
      BY DEF TypeOK
    <3> HIDE DEF B, C
    <3>4. Registered(table, PeerEntries(conns[i].peer, locals')) \in Seq(EntryType)
          /\ Len(Registered(table, PeerEntries(conns[i].peer, locals'))) \in Len(table) .. MaxHandlers
      BY <3>2, <3>3, RegisteredKeeps
    <3>5. Len(table) \in Nat /\ MaxHandlers \in Nat
      BY <3>3, SizesAssumption
    <3> QED
      BY <3>1, <3>4, <3>5
  <2>4. conns' \in Seq(C)
    <3>1. B \subseteq C
      BY <2>1, SizesAssumption DEF TypeOK
    <3>2. [conns[i] EXCEPT !.handler = locals'] \in C
      BY <2>1, <2>a
    <3>3. conns' = [conns EXCEPT ![i] = [conns[i] EXCEPT !.handler = locals']]
      BY <1>3 DEF Local
    <3> HIDE DEF B, C
    <3>4. conns \in Seq(C)
      BY <2>2, <3>1
    <3> QED
      BY <2>2, <3>2, <3>3, <3>4
  <2> QED
    BY <1>3, <2>1, <2>3, <2>4 DEF Local, TypeOK
<1>4. CASE UNCHANGED vars
  BY <1>4 DEF vars, TypeOK
<1> QED
  BY <1>1, <1>2, <1>3, <1>4 DEF Next

\* Every variable has its type in every state, and the table never exceeds its limit.
THEOREM TypeCorrect == Spec => []TypeOK
BY InitTypeOK, NextTypeOK, PTL DEF Spec

-----------------------------------------------------------------------------
\* A set of numbers has a least one: < is well-founded.
NatLess == OpToRel(<, Nat)

\* A set of numbers has a least one.
LEMMA Least ==
  ASSUME NEW T, T \subseteq Nat, T # {}
  PROVE  \E x \in T : \A y \in T : x <= y
<1>1. IsWellFoundedOn(NatLess, Nat)
  BY NatLessThanWellFounded DEF NatLess
<1>2. PICK x \in T : \A y \in T : ~(<<y, x>> \in NatLess)
  BY <1>1, WFMin
<1>3. ASSUME NEW y \in T PROVE x <= y
  <2>1. ~(<<y, x>> \in NatLess) /\ x \in Nat /\ y \in Nat
    BY <1>2
  <2> QED
    BY <2>1 DEF NatLess, OpToRel
<1> QED
  BY <1>3

\* The least entry that holds an object routes it.
LEMMA RouteByLeast ==
  ASSUME TypeOK, NEW o, NEW m \in Holds(o), \A j \in Holds(o) : m <= j
  PROVE  Route(o) = table[m].ha
<1>1. Holds(o) \subseteq Nat
  BY DEF Holds, TypeOK
<1>2. \A k \in Holds(o) : (\A j \in Holds(o) : k <= j) => k = m
  BY <1>1
<1>3. (CHOOSE i \in Holds(o) : \A j \in Holds(o) : i <= j) = m
  BY <1>2
<1> QED
  BY <1>3 DEF Route

\* Entries at the end of the table do not change who answers for an object that has a
\* handler.
LEMMA LaterEntries ==
  ASSUME TypeOK, TypeOK', NEW o, Route(o) # None, Len(table) <= Len(table'),
         \A k \in 1 .. Len(table) : table'[k] = table[k]
  PROVE  Route(o)' = Route(o)
<1>0. /\ DOMAIN table = 1 .. Len(table) /\ Len(table) \in Nat
      /\ DOMAIN table' = 1 .. Len(table') /\ Len(table') \in Nat
  BY DEF TypeOK
<1>1. Holds(o) \subseteq 1 .. Len(table) /\ Holds(o) # {} /\ Len(table) \in Nat
  <2>1. Holds(o) # {}
    BY DEF Route
  <2> QED
    BY <1>0, <2>1 DEF Holds
<1>2. Holds(o)' \subseteq 1 .. Len(table') /\ Len(table') \in Nat
  BY <1>0 DEF Holds
<1>3. PICK m \in Holds(o) : \A j \in Holds(o) : m <= j
  <2>1. Holds(o) \subseteq Nat
    BY <1>1
  <2> QED
    BY <1>1, <2>1, Least
<1>4. \A k \in 1 .. Len(table) : k \in Holds(o) <=> k \in Holds(o)'
  <2>1. DOMAIN table = 1 .. Len(table) /\ DOMAIN table' = 1 .. Len(table')
    BY DEF TypeOK
  <2> QED
    BY <1>1, <1>2, <2>1 DEF Holds
<1>5. m \in Holds(o)' /\ \A j \in Holds(o)' : m <= j
  BY <1>1, <1>2, <1>3, <1>4
<1>6. Route(o) = table[m].ha
  BY <1>3, RouteByLeast
<1>7. Route(o)' = table'[m].ha
  <2>1. \A k \in Holds(o)' : (\A j \in Holds(o)' : k <= j) => k = m
    BY <1>2, <1>5
  <2>2. (CHOOSE i \in Holds(o)' : \A j \in Holds(o)' : i <= j) = m
    BY <1>5, <2>1
  <2> QED
    BY <1>5, <2>2 DEF Route
<1> QED
  BY <1>1, <1>3, <1>6, <1>7

\* No step moves, changes or drops an entry.
LEMMA EntriesStay ==
  ASSUME TypeOK, [Next]_vars
  PROVE  Len(table) <= Len(table') /\ \A k \in 1 .. Len(table) : table'[k] = table[k]
<1>0. table \in Seq(EntryType) /\ Len(table) <= MaxHandlers /\ MaxHandlers \in Nat
  BY SizesAssumption DEF TypeOK
<1>1. CASE UNCHANGED table
  BY <1>0, <1>1
<1>2. ASSUME NEW i \in DOMAIN conns, Local(i)
      PROVE  Len(table) <= Len(table') /\ \A k \in 1 .. Len(table) : table'[k] = table[k]
  <2>1. conns[i].peer \in Peers /\ locals' \in Nat
    <3> DEFINE B == [peer : Peers, handler : (1 .. locals) \cup {None}]
    <3>1. conns \in Seq(B) /\ i \in 1 .. Len(conns)
      BY <1>2 DEF TypeOK
    <3>2. conns[i] \in B
      <4> HIDE DEF B
      <4> QED
        BY <3>1
    <3>3. locals' \in Nat
      BY <1>2, SizesAssumption DEF TypeOK, Local
    <3> QED
      BY <3>2, <3>3
  <2>2. PeerEntries(conns[i].peer, locals') \in Seq(EntryType)
    BY <2>1, PeerType
  <2>3. table' = Registered(table, PeerEntries(conns[i].peer, locals'))
    BY <1>2 DEF Local
  <2>4. /\ Len(Registered(table, PeerEntries(conns[i].peer, locals'))) \in Len(table) .. MaxHandlers
        /\ \A k \in 1 .. Len(table) :
             Registered(table, PeerEntries(conns[i].peer, locals'))[k] = table[k]
    BY <1>0, <2>2, RegisteredKeeps
  <2>5. Len(table) \in Nat
    BY <1>0
  <2> QED
    BY <1>0, <2>3, <2>4, <2>5
<1> QED
  BY <1>1, <1>2 DEF Next, Create, Connect, vars

\* Every object that has a handler keeps it, whatever registers later: RoutesAreStable,
\* and not only for the objects at the ends of ranges.
THEOREM EveryRouteIsStable ==
  Spec => [][\A o \in OID : Route(o) # None => Route(o)' = Route(o)]_vars
<1>1. TypeOK /\ TypeOK' /\ [Next]_vars
      => [\A o \in OID : Route(o) # None => Route(o)' = Route(o)]_vars
  BY EntriesStay, LaterEntries
<1> QED
  BY <1>1, TypeCorrect, PTL DEF Spec

\* The handler of an entry's first and last object never changes.
THEOREM RoutesStable == Spec => RoutesAreStable
<1>1. TypeOK /\ TypeOK' /\ [Next]_vars
      => [\A i \in DOMAIN table : \A o \in {table[i].l, table[i].h} :
            Route(o) # None => Route(o)' = Route(o)]_vars
  BY EntriesStay, LaterEntries
<1> QED
  BY <1>1, TypeCorrect, PTL DEF Spec, RoutesAreStable

-----------------------------------------------------------------------------
\* The n-th object the store allocates, while the third word has been carried into once
\* at the most.
Nth(n) == IF n <= W THEN O(Base.a, Base.b, 1, n - 1) ELSE O(Base.a, Base.b, 2, n - W - 1)

\* The first entry is the store's, and it has handed out the objects in order.
StoreFirst ==
  /\ Len(table) >= 1
  /\ table[1] = Entry(VStore, Object(Base, 1, 0), Object(Base, 1, Top))
Allocated ==
  /\ alloc = Nth(Len(created) + 1)
  /\ \A i \in 1 .. Len(created) : created[i] = Nth(i)

\* Incrementing the n-th object gives the next.
LEMMA NthIsNext ==
  ASSUME NEW n \in 1 .. 2 * W - 1
  PROVE  Inc(Nth(n)) = Nth(n + 1)
<1>1. n \in Nat /\ W \in Nat /\ n >= 1 /\ n <= 2 * W - 1
  BY WordAssumption
<1>2. CASE n < W
  BY <1>1, <1>2 DEF Nth, Inc, O
<1>3. CASE n = W
  BY <1>1, <1>3, SizesAssumption DEF Nth, Inc, O
<1>4. CASE n > W
  BY <1>1, <1>4 DEF Nth, Inc, O
<1> QED
  BY <1>1, <1>2, <1>3, <1>4

\* At the start, and after every step.
LEMMA InitAllocated == Init => StoreFirst /\ Allocated
<1> SUFFICES ASSUME Init PROVE StoreFirst /\ Allocated
  OBVIOUS
<1>1. table = Registered(<<>>, CoreEntries) /\ <<>> \in Seq(EntryType) /\ Len(<<>>) = 0
  BY DEF Init
<1>2. MaxHandlers \in Nat /\ MaxHandlers >= 6
  BY SizesAssumption
<1>3. Registered(<<>>, CoreEntries) = <<>> \o SubSeq(CoreEntries, 1, Len(CoreEntries))
  <2>1. CoreEntries \in Seq(EntryType) /\ Len(CoreEntries) = 6
    BY CoreType
  <2>2. Len(<<>>) <= MaxHandlers /\ Len(<<>>) + Len(CoreEntries) <= MaxHandlers
    BY <1>1, <1>2, <2>1
  <2>3. <<>> \in Seq(EntryType)
    OBVIOUS
  <2> QED
    BY <2>1, <2>2, <2>3, RegisteredKeeps
<1>4. <<>> \o SubSeq(CoreEntries, 1, Len(CoreEntries)) = CoreEntries
  BY CoreType
<1>5. table = CoreEntries
  BY <1>1, <1>3, <1>4
<1>6. StoreFirst
  BY <1>5, CoreType DEF StoreFirst
<1>7. alloc = O(Base.a, Base.b, 1, 0) /\ created = <<>>
  BY ObjectWords, SmallWords, BasesAssumption DEF Init
<1>8. Nth(1) = O(Base.a, Base.b, 1, 0)
  BY WordAssumption DEF Nth
<1> QED
  BY <1>6, <1>7, <1>8 DEF Allocated

\* Every step keeps both.
LEMMA NextAllocated ==
  ASSUME TypeOK, StoreFirst, Allocated, [Next]_vars
  PROVE  StoreFirst' /\ Allocated'
<1>1. StoreFirst'
  <2>1. Len(table') >= 1 /\ table'[1] = table[1]
    <3>1. Len(table) \in Nat /\ Len(table) >= 1
      BY DEF TypeOK, StoreFirst
    <3>2. Len(table) <= Len(table') /\ table'[1] = table[1]
      BY <3>1, EntriesStay
    <3>3. Len(table') \in Nat
      BY NextTypeOK DEF TypeOK
    <3> QED
      BY <3>1, <3>2, <3>3
  <2> QED
    BY <2>1 DEF StoreFirst
<1>2. Allocated'
  <2>1. CASE UNCHANGED <<alloc, created>>
    BY <2>1 DEF Allocated
  <2>2. CASE Create
    <3>1. created \in Seq(OID) /\ alloc \in OID /\ Len(created) < MaxCreated
          /\ created' = Append(created, alloc) /\ alloc' = Inc(alloc)
      BY <2>2 DEF Create, TypeOK
    <3> DEFINE n == Len(created)
    <3>2. n \in Nat /\ n + 1 \in 1 .. 2 * W - 1
      BY <3>1, SizesAssumption, WordAssumption
    <3>3. Len(created') = n + 1 /\ created'[n + 1] = alloc
          /\ \A i \in 1 .. n : created'[i] = created[i]
      BY <3>1
    <3>4. alloc = Nth(n + 1) /\ \A i \in 1 .. n : created[i] = Nth(i)
      BY DEF Allocated
    <3>5. alloc' = Nth(n + 2)
      <4>1. Inc(Nth(n + 1)) = Nth((n + 1) + 1)
        BY <3>2, NthIsNext
      <4>2. (n + 1) + 1 = n + 2
        BY <3>2
      <4> QED
        BY <3>1, <3>4, <4>1, <4>2
    <3>6. \A i \in 1 .. Len(created') : created'[i] = Nth(i)
      BY <3>2, <3>3, <3>4
    <3>7. Len(created') + 1 = n + 2
      BY <3>2, <3>3
    <3> QED
      BY <3>5, <3>6, <3>7 DEF Allocated
  <2> QED
    BY <2>1, <2>2 DEF Next, Connect, Local, vars
<1> QED
  BY <1>1, <1>2

\* Up to the last value of a word the n-th object is in the store's own range, and
\* different numbers give different objects.
LEMMA NthInRange ==
  ASSUME NEW n \in 1 .. W
  PROVE  AtMost(Object(Base, 1, 0), Nth(n)) /\ AtLeast(Object(Base, 1, Top), Nth(n))
<1>1. Object(Base, 1, 0) = O(Base.a, Base.b, 1, 0) /\ Object(Base, 1, Top) = O(Base.a, Base.b, 1, Top)
  BY ObjectWords, SmallWords, BasesAssumption
<1>2. Nth(n) = O(Base.a, Base.b, 1, n - 1) /\ n - 1 >= 0 /\ n - 1 <= Top /\ W \in Nat /\ n \in Nat
  BY WordAssumption DEF Nth, Top
<1>3. Top \in Nat
  BY WordAssumption DEF Top
<1> QED
  BY <1>1, <1>2, <1>3 DEF AtMost, AtLeast, Less, HalfLess, High, Low, O

\* Different numbers give different objects.
LEMMA NthDiffer ==
  ASSUME NEW m \in Nat, NEW n \in Nat, Nth(m) = Nth(n)
  PROVE  m = n
BY WordAssumption DEF Nth, O

\* CreatedAreRouted follows.
LEMMA AllocatedRouted == TypeOK /\ StoreFirst /\ Allocated => CreatedAreRouted
<1> SUFFICES ASSUME TypeOK, StoreFirst, Allocated PROVE CreatedAreRouted
  OBVIOUS
<1>1. DOMAIN created = 1 .. Len(created) /\ Len(created) \in Nat
  BY DEF TypeOK
<1>2. \A i \in 1 .. Len(created) : created[i] = Nth(i)
  BY DEF Allocated
<1>3. IsInjective(created)
  <2>1. ASSUME NEW i \in DOMAIN created, NEW j \in DOMAIN created, created[i] = created[j]
        PROVE  i = j
    <3>1. i \in Nat /\ j \in Nat /\ Nth(i) = Nth(j)
      BY <1>1, <1>2, <2>1
    <3> QED
      BY <3>1, NthDiffer
  <2> QED
    BY <2>1 DEF IsInjective
<1>4. ASSUME Len(created) <= W, NEW i \in DOMAIN created PROVE Route(created[i]) = VStore
  <2>1. i \in 1 .. W /\ created[i] = Nth(i)
    BY <1>1, <1>2, <1>4, WordAssumption
  <2>2. 1 \in DOMAIN table /\ table[1] = Entry(VStore, Object(Base, 1, 0), Object(Base, 1, Top))
    BY DEF StoreFirst, TypeOK
  <2>3. 1 \in Holds(created[i])
    BY <2>1, <2>2, NthInRange DEF Holds, Entry
  <2>4. \A j \in Holds(created[i]) : 1 <= j
    BY DEF Holds, TypeOK
  <2>5. Route(created[i]) = table[1].ha
    BY <2>3, <2>4, RouteByLeast
  <2> QED
    BY <2>2, <2>5 DEF Entry
<1> QED
  BY <1>3, <1>4 DEF CreatedAreRouted

\* The objects the store creates are all different, and as long as there are no more of
\* them than a word has values, their events come back to the store, whatever the
\* peers announce.
THEOREM CreatedRouted == Spec => []CreatedAreRouted
<1>1. Init => TypeOK /\ StoreFirst /\ Allocated
  BY InitTypeOK, InitAllocated
<1>2. (TypeOK /\ StoreFirst /\ Allocated) /\ [Next]_vars => (TypeOK /\ StoreFirst /\ Allocated)'
  BY NextTypeOK, NextAllocated
<1> QED
  BY <1>1, <1>2, AllocatedRouted, PTL DEF Spec

-----------------------------------------------------------------------------
\* As long as no announcement found it full, the table has the core's entries and two for
\* each announcement, and a handler of a connection has the first of its two.
PeerRows ==
  /\ Len(table) = 6 + 2 * locals
  /\ \A k \in 1 .. 6 : table[k] = CoreEntries[k]
  /\ \A k \in 7 .. Len(table) : \E p \in Peers, n \in Nat :
       table[k] = PeerEntries(p, n)[1] \/ table[k] = PeerEntries(p, n)[2]
  /\ \A i \in DOMAIN conns : conns[i].handler # None =>
       table[5 + 2 * conns[i].handler] = PeerEntries(conns[i].peer, conns[i].handler)[1]

PeersInv == ~Dropped => PeerRows

\* Entries that fit are appended.
LEMMA RegisteredAppends ==
  ASSUME NEW t \in Seq(EntryType), NEW es \in Seq(EntryType),
         Len(t) + Len(es) <= MaxHandlers
  PROVE  Registered(t, es) = t \o es
<1>1. Len(t) \in Nat /\ Len(es) \in Nat /\ MaxHandlers \in Nat
  BY SizesAssumption
<1>2. Len(t) <= MaxHandlers
  BY <1>1
<1>3. Registered(t, es) = t \o SubSeq(es, 1, Len(es))
  BY <1>2, RegisteredKeeps
<1>4. SubSeq(es, 1, Len(es)) = es
  OBVIOUS
<1> QED
  BY <1>3, <1>4

\* Two entries behind others.
LEMMA TwoMore ==
  ASSUME NEW t \in Seq(EntryType), NEW es \in Seq(EntryType), Len(es) = 2
  PROVE  /\ Len(t \o es) = Len(t) + 2
         /\ \A k \in 1 .. Len(t) : (t \o es)[k] = t[k]
         /\ (t \o es)[Len(t) + 1] = es[1] /\ (t \o es)[Len(t) + 2] = es[2]
<1>a. t \in Seq(EntryType) /\ es \in Seq(EntryType) /\ Len(t) \in Nat
  OBVIOUS
<1>b. /\ Len(t \o es) = Len(t) + Len(es)
      /\ \A k \in 1 .. Len(t) + Len(es) :
           (t \o es)[k] = IF k <= Len(t) THEN t[k] ELSE es[k - Len(t)]
  BY <1>a, ConcatProperties, Zenon
<1>1. /\ Len(t) \in Nat /\ Len(t \o es) = Len(t) + 2
      /\ \A k \in 1 .. Len(t) + 2 : (t \o es)[k] = IF k <= Len(t) THEN t[k] ELSE es[k - Len(t)]
  BY <1>a, <1>b, Zenon
<1>2. Len(t) + 1 - Len(t) = 1 /\ Len(t) + 2 - Len(t) = 2
  BY <1>1
<1> QED
  BY <1>1, <1>2

\* The core handlers register first, and there is room for them.
LEMMA InitPeersInv == Init => PeersInv
<1> SUFFICES ASSUME Init PROVE PeerRows
  BY DEF PeersInv
<1>1. table = Registered(<<>>, CoreEntries) /\ conns = <<>> /\ locals = 0
  BY DEF Init
<1>2. CoreEntries \in Seq(EntryType) /\ Len(CoreEntries) = 6 /\ MaxHandlers \in Nat
      /\ MaxHandlers >= 6
  BY CoreType, SizesAssumption
<1>3. Registered(<<>>, CoreEntries) = <<>> \o CoreEntries
  <2>1. <<>> \in Seq(EntryType) /\ Len(<<>>) = 0
    OBVIOUS
  <2>2. Len(<<>>) + Len(CoreEntries) <= MaxHandlers
    BY <1>2, <2>1
  <2> QED
    BY <1>2, <2>1, <2>2, RegisteredAppends
<1>4. table = CoreEntries
  BY <1>1, <1>2, <1>3
<1>5. Len(table) = 6 + 2 * locals /\ \A k \in 1 .. 6 : table[k] = CoreEntries[k]
  BY <1>1, <1>2, <1>4
<1>6. 7 .. Len(table) = {}
  BY <1>2, <1>4
<1>7. DOMAIN conns = {}
  BY <1>1
<1> QED
  BY <1>5, <1>6, <1>7 DEF PeerRows

\* The peer of a connection is a peer, and its handler one that has registered.
LEMMA ConnType ==
  ASSUME TypeOK, NEW i \in DOMAIN conns
  PROVE  conns[i].peer \in Peers /\ (conns[i].handler # None => conns[i].handler \in 1 .. locals)
<1> DEFINE B == [peer : Peers, handler : (1 .. locals) \cup {None}]
<1>1. conns \in Seq(B) /\ i \in 1 .. Len(conns)
  BY DEF TypeOK
<1>2. conns[i] \in B
  <2> HIDE DEF B
  <2> QED
    BY <1>1
<1> QED
  BY <1>2

\* An announcement adds its two entries behind the others.
LEMMA LocalPeersInv ==
  ASSUME TypeOK, PeersInv, NEW i \in DOMAIN conns, Local(i), ~Dropped'
  PROVE  PeerRows'
<1>1. /\ locals \in Nat /\ locals' = locals + 1 /\ locals' \in Nat
      /\ 6 + 2 * locals' <= MaxHandlers /\ MaxHandlers \in Nat
  BY CoreType, SizesAssumption DEF TypeOK, Local, Dropped
<1>2. PeerRows
  BY <1>1, CoreType DEF PeersInv, Dropped
<1> DEFINE es == PeerEntries(conns[i].peer, locals')
<1>3. conns[i].peer \in Peers
  BY ConnType
<1>4. es \in Seq(EntryType) /\ Len(es) = 2
  BY <1>1, <1>3, PeerType
<1>5. table \in Seq(EntryType) /\ Len(table) = 6 + 2 * locals /\ Len(table) \in Nat
  BY <1>2 DEF TypeOK, PeerRows
<1>6. table' = table \o es
  <2>1. table' = Registered(table, es)
    BY DEF Local
  <2> HIDE DEF es
  <2>2. Len(table) + Len(es) <= MaxHandlers
    BY <1>1, <1>4, <1>5
  <2> QED
    BY <1>4, <1>5, <2>1, <2>2, RegisteredAppends
<1> HIDE DEF es
<1>7. /\ Len(table') = Len(table) + 2
      /\ \A k \in 1 .. Len(table) : table'[k] = table[k]
      /\ table'[Len(table) + 1] = es[1] /\ table'[Len(table) + 2] = es[2]
  BY <1>4, <1>5, <1>6, TwoMore
<1>8. Len(table') = 6 + 2 * locals'
  <2>1. 6 + 2 * locals + 2 = 6 + 2 * (locals + 1)
    BY <1>1
  <2> QED
    BY <1>1, <1>5, <1>7, <2>1
<1>9. \A k \in 1 .. 6 : table'[k] = CoreEntries[k]
  <2>1. \A k \in 1 .. 6 : k \in 1 .. Len(table)
    BY <1>5, SizesAssumption DEF TypeOK
  <2>2. \A k \in 1 .. 6 : table[k] = CoreEntries[k]
    BY <1>2 DEF PeerRows
  <2> QED
    BY <1>7, <2>1, <2>2
<1>10. ASSUME NEW k \in 7 .. Len(table')
       PROVE  \E p \in Peers, n \in Nat :
                table'[k] = PeerEntries(p, n)[1] \/ table'[k] = PeerEntries(p, n)[2]
  <2>1. CASE k <= Len(table)
    <3>1. k \in 7 .. Len(table) /\ table'[k] = table[k]
      BY <2>1, <1>5, <1>7
    <3> QED
      BY <3>1, <1>2 DEF PeerRows
  <2>2. CASE k > Len(table)
    <3>1. k = Len(table) + 1 \/ k = Len(table) + 2
      BY <2>2, <1>5, <1>7
    <3> QED
      BY <3>1, <1>1, <1>3, <1>7 DEF es
  <2> QED
    BY <2>1, <2>2, <1>5
<1>11. ASSUME NEW j \in DOMAIN conns', conns'[j].handler # None
       PROVE  table'[5 + 2 * conns'[j].handler]
              = PeerEntries(conns'[j].peer, conns'[j].handler)[1]
  <2>1. j \in DOMAIN conns
    BY DEF Local
  <2>2. CASE j = i
    <3>1. conns'[j] = [conns[i] EXCEPT !.handler = locals']
      BY <2>1, <2>2 DEF Local
    <3>2. conns[i] = [peer |-> conns[i].peer, handler |-> conns[i].handler]
      <4> DEFINE B == [peer : Peers, handler : (1 .. locals) \cup {None}]
      <4>1. conns \in Seq(B) /\ i \in 1 .. Len(conns)
        BY DEF TypeOK
      <4>2. conns[i] \in B
        <5> HIDE DEF B
        <5> QED
          BY <4>1
      <4> QED
        BY <4>2
    <3>3. conns'[j].handler = locals' /\ conns'[j].peer = conns[i].peer
      BY <3>1, <3>2
    <3>4. 5 + 2 * locals' = Len(table) + 1
      BY <1>1, <1>5
    <3> QED
      BY <3>3, <3>4, <1>7 DEF es
  <2>3. CASE j # i
    <3>1. conns'[j] = conns[j]
      BY <2>1, <2>3 DEF Local
    <3>2. conns[j].handler \in 1 .. locals
      BY <2>1, <3>1, <1>11, ConnType
    <3>3. 5 + 2 * conns[j].handler \in 1 .. Len(table)
      BY <3>2, <1>1, <1>5
    <3>4. table[5 + 2 * conns[j].handler] = PeerEntries(conns[j].peer, conns[j].handler)[1]
      BY <2>1, <3>1, <1>2, <1>11 DEF PeerRows
    <3> QED
      BY <3>1, <3>3, <3>4, <1>7
  <2> QED
    BY <2>2, <2>3
<1> QED
  BY <1>8, <1>9, <1>10, <1>11 DEF PeerRows

\* A connection that is made has no handler yet.
LEMMA ConnectPeersInv ==
  ASSUME TypeOK, PeersInv, NEW q \in Peers, Connect(q)
  PROVE  PeersInv'
<1> SUFFICES ASSUME ~Dropped' PROVE PeerRows'
  BY DEF PeersInv
<1>1. table' = table /\ locals' = locals /\ conns' = Append(conns, [peer |-> q, handler |-> None])
  BY DEF Connect
<1>2. PeerRows
  BY <1>1 DEF PeersInv, Dropped
<1>3. \A j \in DOMAIN conns' : conns'[j].handler # None => j \in DOMAIN conns /\ conns'[j] = conns[j]
  <2> DEFINE B == [peer : Peers, handler : (1 .. locals) \cup {None}]
             c == [peer |-> q, handler |-> None]
  <2>1. conns \in Seq(B) /\ c \in B
    BY DEF TypeOK
  <2>2. conns' = Append(conns, c)
    BY <1>1
  <2>3. c.handler = None
    OBVIOUS
  <2> HIDE DEF B, c
  <2> QED
    BY <2>1, <2>2, <2>3
<1>4. \A j \in DOMAIN conns' : conns'[j].handler # None =>
        table'[5 + 2 * conns'[j].handler] = PeerEntries(conns'[j].peer, conns'[j].handler)[1]
  BY <1>1, <1>2, <1>3 DEF PeerRows
<1> QED
  BY <1>1, <1>2, <1>4 DEF PeerRows

\* Every step keeps the invariant.
LEMMA NextPeersInv ==
  ASSUME TypeOK, PeersInv, [Next]_vars
  PROVE  PeersInv'
<1>1. CASE UNCHANGED <<table, conns, locals>>
  BY <1>1 DEF PeersInv, PeerRows, Dropped
<1> QED
  BY <1>1, ConnectPeersInv, LocalPeersInv DEF Next, Create, vars, PeersInv

\* Objects of two bases in one range have the same base.
LEMMA RangeHasOneBase ==
  ASSUME NEW base, IsBase(base), NEW p, IsBase(p),
         NEW c \in Word, NEW d \in Word, NEW e \in Word, NEW f \in Word,
         NEW g \in Word, NEW h \in Word,
         AtMost(Object(base, c, d), Object(p, g, h)), AtLeast(Object(base, e, f), Object(p, g, h))
  PROVE  base = p
<1>1. /\ Object(base, c, d) = O(base.a, base.b, c, d) /\ Object(base, e, f) = O(base.a, base.b, e, f)
      /\ Object(p, g, h) = O(p.a, p.b, g, h)
  BY ObjectWords
<1>2. /\ base.a \in Int /\ base.b \in Int /\ p.a \in Int /\ p.b \in Int
      /\ base \in OID /\ p \in OID
      /\ base.c = p.c /\ base.d = p.d
  BY WordAssumption DEF IsBase, OID, Word
<1>3. base.a < p.a \/ (base.a = p.a /\ base.b < p.b) \/ (base.a = p.a /\ base.b = p.b)
  BY <1>1, <1>2 DEF AtMost, Less, HalfLess, High, Low, O
<1>4. p.a < base.a \/ (base.a = p.a /\ p.b < base.b) \/ (base.a = p.a /\ base.b = p.b)
  BY <1>1, <1>2 DEF AtLeast, Less, HalfLess, High, Low, O
<1>5. base.a = p.a /\ base.b = p.b
  BY <1>2, <1>3, <1>4
<1> QED
  BY <1>2, <1>5 DEF OID

\* No object of a base is among the reserved identifiers.
LEMMA NotReserved ==
  ASSUME NEW p, IsBase(p), NEW c \in Word, NEW d \in Word, NEW x, NEW y, NEW z,
         AtLeast(O(0, x, y, z), Object(p, c, d))
  PROVE  FALSE
<1>1. Object(p, c, d) = O(p.a, p.b, c, d) /\ p.a \in Int /\ p.a > 0
  BY ObjectWords, WordAssumption DEF IsBase, OID, Word
<1> QED
  BY <1>1 DEF AtLeast, Less, HalfLess, High, O

\* The core's entries hold no object of another base.
LEMMA CoreHoldsNoPeer ==
  ASSUME NEW p \in Peers, p # Base, NEW d \in Word, NEW k \in 1 .. 6,
         AtMost(CoreEntries[k].l, Object(p, 1, d)), AtLeast(CoreEntries[k].h, Object(p, 1, d))
  PROVE  FALSE
<1>1. IsBase(p) /\ IsBase(Base)
  BY BasesAssumption
<1>2. k = 1 \/ k = 2 \/ k = 3 \/ k = 4 \/ k = 5 \/ k = 6
  OBVIOUS
<1>3. CASE k = 1
  <2>1. CoreEntries[k].l = Object(Base, 1, 0) /\ CoreEntries[k].h = Object(Base, 1, Top)
    BY <1>3 DEF CoreEntries, Entry
  <2>2. AtMost(Object(Base, 1, 0), Object(p, 1, d)) /\ AtLeast(Object(Base, 1, Top), Object(p, 1, d))
    BY <2>1
  <2> QED
    BY <2>2, <1>1, SmallWords, RangeHasOneBase
<1>4. CASE k = 5
  <2>1. CoreEntries[k].l = Object(Base, 15, 0) /\ CoreEntries[k].h = Object(Base, 15, AgentsTop)
    BY <1>4 DEF CoreEntries, Entry
  <2>2. AtMost(Object(Base, 15, 0), Object(p, 1, d)) /\ AtLeast(Object(Base, 15, AgentsTop), Object(p, 1, d))
    BY <2>1
  <2> QED
    BY <2>2, <1>1, SmallWords, RangeHasOneBase
<1>5. CASE k = 2
  <2>1. CoreEntries[k].h = O(0, 0, 0, 2)
    BY <1>5 DEF CoreEntries, Entry
  <2> QED
    BY <2>1, <1>1, SmallWords, NotReserved
<1>6. CASE k = 3
  <2>1. CoreEntries[k].h = O(0, 2, Top, Top)
    BY <1>6 DEF CoreEntries, Entry
  <2> QED
    BY <2>1, <1>1, SmallWords, NotReserved
<1>7. CASE k = 4
  <2>1. CoreEntries[k].h = O(0, 70, Top, Top)
    BY <1>7 DEF CoreEntries, Entry
  <2> QED
    BY <2>1, <1>1, SmallWords, NotReserved
<1>8. CASE k = 6
  <2>1. CoreEntries[k].h = O(0, 101, 0, DirectoryTop)
    BY <1>8 DEF CoreEntries, Entry
  <2> QED
    BY <2>1, <1>1, SmallWords, NotReserved
<1> QED
  BY <1>2, <1>3, <1>4, <1>5, <1>6, <1>7, <1>8

\* The two entries of a peer.
LEMMA PeerEntryFields ==
  ASSUME NEW p \in Peers, NEW n \in Nat
  PROVE  /\ PeerEntries(p, n)[1].ha = Handler("peer", n) /\ PeerEntries(p, n)[1].ha.kind = "peer"
         /\ PeerEntries(p, n)[1].l = Object(p, 1, 0) /\ PeerEntries(p, n)[1].h = Object(p, 17, Top)
         /\ PeerEntries(p, n)[2].l = Object(Base, 16, 0)
         /\ PeerEntries(p, n)[2].h = Object(Base, 17, CacheTop)
BY DEF PeerEntries, Entry, Handler

\* PeersAreRouted follows: the only entry that holds an object of the peer is the one of
\* the only announcement of its base.
LEMMA PeerRowsRouted == TypeOK /\ PeersInv => PeersAreRouted
<1> SUFFICES ASSUME TypeOK, PeersInv, NEW p \in Peers, NEW i \in Announced(p), ~Dropped, p # Base,
                    Cardinality(Entries(p)) = 1, NEW d \in {0, Top}
             PROVE  Route(Object(p, 1, d)) = Handler("peer", conns[i].handler)
  BY DEF PeersAreRouted
<1> DEFINE n == conns[i].handler
           k == 5 + 2 * n
           o == Object(p, 1, d)
<1>1. PeerRows
  BY DEF PeersInv
<1>2. /\ table \in Seq(EntryType) /\ Len(table) = 6 + 2 * locals /\ locals \in Nat
      /\ DOMAIN table = 1 .. Len(table) /\ Len(table) \in Nat
  BY <1>1, SizesAssumption DEF TypeOK, PeerRows
<1>3. i \in DOMAIN conns /\ conns[i].peer = p /\ n # None
  BY DEF Announced
<1>4. n \in 1 .. locals /\ n \in Nat
  BY <1>2, <1>3, ConnType
<1>5. k \in DOMAIN table /\ table[k] = PeerEntries(p, n)[1]
  BY <1>1, <1>2, <1>3, <1>4 DEF PeerRows
<1>6. d \in Word /\ IsBase(p) /\ IsBase(Base)
  BY SmallWords, BasesAssumption
<1>7. k \in Entries(p)
  BY <1>4, <1>5, PeerEntryFields DEF Entries
<1>8. \A j \in Entries(p) : j = k
  <2>1. IsFiniteSet(Entries(p))
    <3>1. IsFiniteSet(1 .. Len(table))
      BY <1>2, FS_Interval
    <3>2. Entries(p) \subseteq 1 .. Len(table)
      BY <1>2 DEF Entries
    <3> QED
      BY <3>1, <3>2, FS_Subset
  <2>2. PICK x : Entries(p) = {x}
    BY <2>1, FS_Singleton
  <2> QED
    BY <2>2, <1>7
<1>9. k \in Holds(o)
  <2>1. /\ o = O(p.a, p.b, 1, d) /\ Object(p, 1, 0) = O(p.a, p.b, 1, 0)
        /\ Object(p, 17, Top) = O(p.a, p.b, 17, Top)
    BY <1>6, SmallWords, ObjectWords
  <2>2. d \in Nat /\ d >= 0
    BY <1>6 DEF Word
  <2>3. AtMost(Object(p, 1, 0), o)
    BY <2>1, <2>2 DEF AtMost, Less, HalfLess, High, Low, O
  <2>4. AtLeast(Object(p, 17, Top), o)
    BY <2>1, <2>2 DEF AtLeast, Less, HalfLess, High, Low, O
  <2>5. table[k].l = Object(p, 1, 0) /\ table[k].h = Object(p, 17, Top)
    BY <1>4, <1>5, PeerEntryFields
  <2> QED
    BY <1>5, <2>3, <2>4, <2>5 DEF Holds
<1>10. ASSUME NEW j \in Holds(o) PROVE j = k
  <2>1. j \in 1 .. Len(table) /\ AtMost(table[j].l, o) /\ AtLeast(table[j].h, o)
    BY <1>2 DEF Holds
  <2>2. CASE j \in 1 .. 6
    <3>1. table[j] = CoreEntries[j]
      BY <2>2, <1>1 DEF PeerRows
    <3> QED
      BY <2>1, <2>2, <3>1, <1>6, CoreHoldsNoPeer
  <2>3. CASE j \in 7 .. Len(table)
    <3>1. PICK q \in Peers, m \in Nat :
            table[j] = PeerEntries(q, m)[1] \/ table[j] = PeerEntries(q, m)[2]
      BY <2>3, <1>1 DEF PeerRows
    <3>2. CASE table[j] = PeerEntries(q, m)[1]
      <4>1. table[j].ha.kind = "peer" /\ table[j].l = Object(q, 1, 0) /\ table[j].h = Object(q, 17, Top)
        BY <3>2, PeerEntryFields
      <4>2. IsBase(q)
        BY BasesAssumption
      <4>a. AtMost(Object(q, 1, 0), Object(p, 1, d)) /\ AtLeast(Object(q, 17, Top), Object(p, 1, d))
        BY <2>1, <4>1
      <4>3. q = p
        BY <4>a, <4>2, <1>6, SmallWords, RangeHasOneBase
      <4>4. j \in Entries(p)
        BY <1>2, <2>1, <4>1, <4>3 DEF Entries
      <4> QED
        BY <4>4, <1>8
    <3>3. CASE table[j] = PeerEntries(q, m)[2]
      <4>1. table[j].l = Object(Base, 16, 0) /\ table[j].h = Object(Base, 17, CacheTop)
        BY <3>3, PeerEntryFields
      <4>a. AtMost(Object(Base, 16, 0), Object(p, 1, d)) /\ AtLeast(Object(Base, 17, CacheTop), Object(p, 1, d))
        BY <2>1, <4>1
      <4>2. Base = p
        BY <4>a, <1>6, SmallWords, RangeHasOneBase
      <4> QED
        BY <4>2
    <3> QED
      BY <3>1, <3>2, <3>3
  <2> QED
    BY <1>2, <2>1, <2>2, <2>3
<1>11. \A j \in Holds(o) : k <= j
  BY <1>4, <1>10
<1>12. Route(o) = table[k].ha
  BY <1>9, <1>11, RouteByLeast
<1> QED
  BY <1>4, <1>5, <1>12, PeerEntryFields

\* The events for the objects of a peer that announced itself once go to the connection
\* with it, in whatever order peers connect and announce themselves, until the table of
\* handlers is full.
THEOREM PeersRouted == Spec => []PeersAreRouted
<1>1. Init => TypeOK /\ PeersInv
  BY InitTypeOK, InitPeersInv
<1>2. (TypeOK /\ PeersInv) /\ [Next]_vars => (TypeOK /\ PeersInv)'
  BY NextTypeOK, NextPeersInv
<1> QED
  BY <1>1, <1>2, PeerRowsRouted, PTL DEF Spec
=============================================================================
