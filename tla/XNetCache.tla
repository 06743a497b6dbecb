------------------------------ MODULE XNetCache ------------------------------
(***************************************************************************)
(* Remote attributes (modules/xnet/src): a client that reads attributes of *)
(* a server through its cache (xnetcache.cpp), the requests and answers    *)
(* between them (xnetprotocol.cpp, xnethandler.cpp), and the loop that     *)
(* polls the connection (xnetconnection.cpp).                              *)
(*                                                                         *)
(* A read of an attribute that is not cached, or out of date, registers    *)
(* the cache entry as a dependent of the attribute, asks for the value and *)
(* polls the connection until the answer is there.  Whatever else arrives  *)
(* meanwhile is handled, at once or, inside an instant, by that instant:   *)
(* reads nest, and the calls in progress are part of the state.            *)
(*                                                                         *)
(* The client also has readers: attributes with a := definition that GETs  *)
(* one remote attribute.  The server's attributes have no definitions.     *)
(* A connection delivers documents in order.  A get is known by its place  *)
(* on the stack: the table of results is the module XNetResults.           *)
(***************************************************************************)
EXTENDS Integers, FiniteSets, SequencesExt

CONSTANTS
  Slot,         \* the attributes of the server
  Hash,         \* hashOIDS: the chain of the cache each of them belongs to
  Chains,       \* CACHE_SIZE, the number of chains
  Width,        \* the positions a handle has room for: 256.  No chain is longer.
  Reader,       \* the attributes of the client with definitions
  Reads,        \* Reads[r]: the attribute of the server the definition of r GETs
  MainReads,    \* the attributes that client code outside every handler reads
  LoopLimit,    \* the documents that one call of update handles
  MaxChanges    \* bound of the model: how often each attribute of the server changes

ASSUME HashAssumption    == Chains \in Nat \ {0} /\ Hash \in [Slot -> 0 .. Chains - 1]
ASSUME WidthAssumption   == IsFiniteSet(Slot)
                            /\ \A h \in 0 .. Chains - 1 : Cardinality({s \in Slot : Hash[s] = h}) <= Width
ASSUME ReadsAssumption   == Reads \in [Reader -> Slot] /\ MainReads \subseteq Slot
ASSUME NumbersAssumption == {Width, LoopLimit} \subseteq Nat \ {0} /\ MaxChanges \in [Slot -> Nat]

VARIABLES
  val,       \* val[s]: the value of attribute s, the number of its changes
  deps,      \* deps[s]: the dependents of s, the newest first
  toServer,  \* the documents on their way to the server
  toClient,  \* the documents on their way to the client
  chain,     \* chain[h]: the cache entries of chain h, the newest first
  notify,    \* the client's notifications: queue 1 of its processor
  register,  \* the client's dependencies: queue 2
  seen,      \* seen[r]: the value the last evaluation of reader r got, or None
  stack      \* the client's calls in progress, the innermost last

server == <<val, deps>>
client == <<chain, notify, register, seen, stack>>
vars   == <<server, toServer, toClient, client>>

None == -1

-----------------------------------------------------------------------------
(***************************************************************************)
(* Dependents, documents and calls.                                        *)
(***************************************************************************)
\* A dependent is a reader or a handle of the cache: a chain and a position in it,
\* in one number.
Handle(h, i)   == [reader |-> FALSE, id |-> h * Width + i]
Dependent(r)   == [reader |-> TRUE, id |-> r]
HandleChain(d) == d.id \div Width
HandleIndex(d) == (d.id % Width) + 1

\* What the client sends: an ADDDEP for the dependent by, then a GET unless get
\* is 0.
Request(s, by, get) == [slot |-> s, by |-> by, get |-> get]
\* What the server sends.
Result(id, v)      == [type |-> "RESULT", id |-> id, v |-> v]
Notification(d)    == [type |-> "NOTIFY", by |-> d]

\* A GET that waits for its answer, the loop that polls, the instant in its
\* notify or dependency phase, the evaluation of a reader.
\* from is a history variable: the value when the GET was sent.
Get(s)     == [at |-> "get", slot |-> s, waiting |-> TRUE, res |-> None, from |-> val[s]]
Update(n)  == [at |-> "update", n |-> n]
Instant(q) == [at |-> "instant", q |-> q]
Eval(r)    == [at |-> "eval", r |-> r]

Running(at) == stack # <<>> /\ Last(stack).at = at
Idle        == \A i \in DOMAIN stack : stack[i].at # "instant"
Quiet       == /\ stack = <<>> /\ notify = <<>> /\ register = <<>>
               /\ toServer = <<>> /\ toClient = <<>>

Init ==
  /\ val      = [s \in Slot |-> 0]
  /\ deps     = [s \in Slot |-> <<>>]
  /\ toServer = <<>>
  /\ toClient = <<>>
  /\ chain    = [h \in 0 .. Chains - 1 |-> <<>>]
  /\ notify   = <<>>
  /\ register = <<>>
  /\ seen     = [r \in Reader |-> None]
  /\ stack    = <<>>

-----------------------------------------------------------------------------
(***************************************************************************)
(* The cache.                                                              *)
(***************************************************************************)
\* The position of the entry for s in a chain, or 0.
Position(ch, s) == SelectInSeq(ch, LAMBDA e : e.slot = s)

\* lookup: the chain of s with an entry for s, a new one at the front.
Lookup(s) ==
  LET ch == chain[Hash[s]]
  IN  IF Position(ch, s) # 0 THEN ch
      ELSE <<[slot |-> s, value |-> None, ood |-> TRUE]>> \o ch

Entry(s)  == Lookup(s)[Position(Lookup(s), s)]
Cached(s) == ~Entry(s).ood

\* The handle of the entry for s: lookupCount is the number of entries before it.
HandleOf_fromOne(s) == Handle(Hash[s], Position(Lookup(s), s))
HandleOf(s)         == Handle(Hash[s], Position(Lookup(s), s) - 1)

StartGet_asksOnce(c, s) ==
  /\ chain'    = [chain EXCEPT ![Hash[s]] = Lookup(s)]
  /\ LET get == IF Position(chain[Hash[s]], s) = 0 THEN Len(c) + 1 ELSE 0
     IN  toServer' = Append(toServer, Request(s, HandleOf(s), get))
  /\ stack'    = c \o <<Get(s), Update(0)>>

\* get of an entry that is out of date, up to the wait, with the calls c in
\* progress: the dependency and the GET go in one document.
StartGet(c, s) ==
  /\ chain'    = [chain EXCEPT ![Hash[s]] = Lookup(s)]
  /\ toServer' = Append(toServer, Request(s, HandleOf(s), Len(c) + 1))
  /\ stack'    = c \o <<Get(s), Update(0)>>

\* Code outside every handler reads a remote attribute.  A cached one is just
\* there.
MainGet(s) ==
  /\ stack = <<>>
  /\ ~Cached(s)
  /\ StartGet(<<>>, s)
  /\ UNCHANGED <<server, toClient, notify, register, seen>>

\* The evaluation of reader r has got v.  Its dependency is queued.
Evaluated(r, v) ==
  /\ seen'     = [seen EXCEPT ![r] = v]
  /\ register' = Append(register, Request(Reads[r], Dependent(r), 0))

\* The answer is there when update returns: the entry is up to date.
GetReturn ==
  /\ Running("get") /\ ~Last(stack).waiting
  /\ LET s == Last(stack).slot
         v == Last(stack).res
         c == Front(stack)
     IN  /\ chain' = [chain EXCEPT ![Hash[s]] =
              [@ EXCEPT ![Position(@, s)].value = v, ![Position(@, s)].ood = FALSE]]
         /\ \/ c = <<>> /\ stack' = c /\ UNCHANGED <<seen, register>>
            \/ c # <<>> /\ stack' = Front(c) /\ Evaluated(Last(c).r, v)
  /\ UNCHANGED <<server, toServer, toClient, notify>>

-----------------------------------------------------------------------------
(***************************************************************************)
(* The instants of the client.                                             *)
(***************************************************************************)
\* The next event of the notify phase is for a handle of the cache, or a reader.
Notified(isReader) ==
  /\ Running("instant") /\ Last(stack).q = 1
  /\ notify # <<>> /\ Head(notify).reader = isReader
  /\ notify' = Tail(notify)

\* handle: the entry at the position is out of date.
Invalidate ==
  /\ Notified(FALSE)
  /\ LET d == Head(notify)
     IN  chain' = [chain EXCEPT ![HandleChain(d)] = [@ EXCEPT ![HandleIndex(d)].ood = TRUE]]
  /\ UNCHANGED <<server, toServer, toClient, register, seen, stack>>

\* A reader is evaluated.
EvalCached ==
  /\ Notified(TRUE)
  /\ LET r == Head(notify).id
     IN  Cached(Reads[r]) /\ Evaluated(r, Entry(Reads[r]).value)
  /\ UNCHANGED <<server, toServer, toClient, chain, stack>>

EvalGets ==
  /\ Notified(TRUE)
  /\ LET r == Head(notify).id
     IN  ~Cached(Reads[r]) /\ StartGet(Append(stack, Eval(r)), Reads[r])
  /\ UNCHANGED <<server, toClient, register, seen>>

\* A reader's dependency goes to the server.
Register ==
  /\ Running("instant") /\ Last(stack).q = 2 /\ register # <<>>
  /\ toServer' = Append(toServer, Head(register))
  /\ register' = Tail(register)
  /\ UNCHANGED <<server, toClient, chain, notify, seen, stack>>

NextPhase ==
  /\ Running("instant")
  /\ \/ Last(stack).q = 1 /\ notify = <<>> /\ stack' = Append(Front(stack), Instant(2))
     \/ Last(stack).q = 2 /\ register = <<>> /\ stack' = Front(stack)
  /\ UNCHANGED <<server, toServer, toClient, chain, notify, register, seen>>

\* A NOTIFY for d is sent with the calls c in progress: it starts an instant
\* unless one is running.
SendNotify(c, d) ==
  /\ notify' = Append(notify, d)
  /\ stack'  = IF Idle THEN Append(c, Instant(1)) ELSE c

\* Reader r is given its definition: the instant has come to its notify phase.
MainDefine(r) ==
  /\ stack = <<>> /\ seen[r] = None
  /\ SendNotify(<<>>, Dependent(r))
  /\ UNCHANGED <<server, toServer, toClient, chain, register, seen>>

-----------------------------------------------------------------------------
(***************************************************************************)
(* Polling.                                                                *)
(***************************************************************************)
MainUpdate ==
  /\ stack = <<>>
  /\ stack' = <<Update(0)>>
  /\ UNCHANGED <<server, toServer, toClient, chain, notify, register, seen>>

\* The next document is handled.
Received ==
  /\ Running("update") /\ Last(stack).n < LoopLimit /\ toClient # <<>>
  /\ toClient' = Tail(toClient)
Polled == Append(Front(stack), Update(Last(stack).n + 1))

ReceiveResult_innermost ==
  /\ Received /\ Head(toClient).type = "RESULT"
  /\ LET i == Len(stack) - 1
     IN  stack' = [Polled EXCEPT ![i].waiting = FALSE, ![i].res = Head(toClient).v]
  /\ UNCHANGED <<server, toServer, chain, notify, register, seen>>

\* onResult: the answer goes to the get that asked, innermost or not.
ReceiveResult ==
  /\ Received /\ Head(toClient).type = "RESULT"
  /\ LET i == Head(toClient).id
     IN  stack' = [Polled EXCEPT ![i].waiting = FALSE, ![i].res = Head(toClient).v]
  /\ UNCHANGED <<server, toServer, chain, notify, register, seen>>

\* onEvent of a NOTIFY.
ReceiveNotify ==
  /\ Received /\ Head(toClient).type = "NOTIFY"
  /\ SendNotify(Polled, Head(toClient).by)
  /\ UNCHANGED <<server, toServer, chain, register, seen>>

\* Nothing is readable, or the loop has run for too long: update returns, and is
\* called again by a get that still waits.
UpdateReturn ==
  /\ Running("update")
  /\ toClient = <<>> \/ Last(stack).n = LoopLimit
  /\ LET c == Front(stack)
     IN  stack' = IF c # <<>> /\ Last(c).waiting THEN Append(c, Update(0)) ELSE c
  /\ UNCHANGED <<server, toServer, toClient, chain, notify, register, seen>>

-----------------------------------------------------------------------------
(***************************************************************************)
(* The server.                                                             *)
(***************************************************************************)
\* addDependent: at the front, and only once.
AddDependent(ds, d) == <<d>> \o RemoveFirst(ds, d)

Serve_lastOnly ==
  /\ toServer # <<>>
  /\ LET q == Head(toServer)
     IN  IF q.get = 0
         THEN deps' = [deps EXCEPT ![q.slot] = AddDependent(@, q.by)] /\ UNCHANGED toClient
         ELSE toClient' = Append(toClient, Result(q.get, val[q.slot])) /\ UNCHANGED deps
  /\ toServer' = Tail(toServer)
  /\ UNCHANGED <<val, client>>

\* onEvent of the ADDDEP of a document and of the GET after it.
Serve ==
  /\ toServer # <<>>
  /\ LET q == Head(toServer)
     IN  /\ deps' = [deps EXCEPT ![q.slot] = AddDependent(@, q.by)]
         /\ toClient' = IF q.get = 0 THEN toClient
                        ELSE Append(toClient, Result(q.get, val[q.slot]))
  /\ toServer' = Tail(toServer)
  /\ UNCHANGED <<val, client>>

\* An attribute of the server changes: its dependents are notified, the newest
\* first, and forgotten.
Change(s) ==
  /\ val[s] < MaxChanges[s]
  /\ val'  = [val EXCEPT ![s] = @ + 1]
  /\ deps' = [deps EXCEPT ![s] = <<>>]
  /\ toClient' = toClient \o [i \in DOMAIN deps[s] |-> Notification(deps[s][i])]
  /\ UNCHANGED <<toServer, client>>

\* The client works on the calls in progress.
Machine ==
  \/ GetReturn \/ Invalidate \/ EvalCached \/ EvalGets \/ Register \/ NextPhase
  \/ ReceiveResult \/ ReceiveNotify \/ UpdateReturn

Next ==
  \/ Machine \/ MainUpdate \/ Serve
  \/ \E s \in MainReads : MainGet(s)
  \/ \E r \in Reader : MainDefine(r)
  \/ \E s \in Slot : Change(s)

Spec     == Init /\ [][Next]_vars
FairSpec == Spec /\ WF_vars(Machine) /\ WF_vars(Serve)
\* A patient server, which changes nothing until everybody is done.
SlowSpec == Init /\ [][Next /\ (val' # val => Quiet)]_vars

-----------------------------------------------------------------------------
(***************************************************************************)
(* Properties.                                                             *)
(***************************************************************************)
DependentSet == [reader : {FALSE}, id : Nat] \cup [reader : {TRUE}, id : Reader]
Frame ==
  [at : {"get"}, slot : Slot, waiting : BOOLEAN, res : Nat \cup {None}, from : Nat]
    \cup [at : {"update"}, n : 0 .. LoopLimit]
    \cup [at : {"instant"}, q : 1 .. 2]
    \cup [at : {"eval"}, r : Reader]

\* The type invariant: what the server, the cache, the client's queues, the
\* connection and the calls in progress hold; at most one instant runs.
TypeOK ==
  /\ val \in [Slot -> Nat]
  /\ deps \in [Slot -> Seq(DependentSet)]
  /\ toServer \in Seq([slot : Slot, by : DependentSet, get : Nat])
  /\ toClient \in Seq([type : {"RESULT"}, id : DOMAIN stack, v : Nat]
                         \cup [type : {"NOTIFY"}, by : DependentSet])
  /\ chain \in [0 .. Chains - 1 ->
                  Seq([slot : Slot, value : Nat \cup {None}, ood : BOOLEAN])]
  /\ notify \in Seq(DependentSet)
  /\ register \in Seq([slot : Slot, by : DependentSet, get : {0}])
  /\ seen \in [Reader -> Nat \cup {None}]
  /\ stack \in Seq(Frame)
  /\ \A i, j \in DOMAIN stack :
       stack[i].at = "instant" /\ stack[j].at = "instant" => i = j

\* The dependents that are on their way to the client or wait for its instant.
OnTheWay ==
  ToSet(notify) \cup {m.by : m \in {x \in ToSet(toClient) : x.type = "NOTIFY"}}

\* Every dependent that the server knows or will know, or that is being notified.
Dependents ==
  OnTheWay \cup (UNION {ToSet(deps[s]) : s \in Slot})
           \cup {q.by : q \in ToSet(toServer)}

\* The attributes that have a chain to themselves and that only handlers read.
Private == {s \in Slot \ MainReads : \A t \in Slot \ {s} : Hash[t] # Hash[s]}

\* A cache entry that is up to date and has a value its attribute no longer has is
\* going to be invalidated (XNetCache::get, handle): its handle is in a NOTIFY
\* that has not been handled yet.  This is so for attributes that have a chain to
\* themselves and that only handlers read.
StaleIsNotified ==
  \A s \in Private :
    LET i == Position(chain[Hash[s]], s)
    IN  i # 0 /\ ~chain[Hash[s]][i].ood /\ chain[Hash[s]][i].value # val[s]
          => Handle(Hash[s], i - 1) \in OnTheWay

\* When nothing is left to do, on the server, on the way or on the client, what
\* the cache takes for up to date is the attribute's value (XNetCache::get).
CacheAgrees ==
  Quiet => \A h \in DOMAIN chain : \A i \in DOMAIN chain[h] :
             LET e == chain[h][i] IN ~e.ood => e.value = val[e.slot]

\* When nothing is left to do, a definition has been evaluated with the present
\* value of the attribute it reads (the NOTIFY of a change makes it so).
ReadersAgree ==
  Quiet => \A r \in Reader : seen[r] # None => seen[r] = val[Reads[r]]

\* Every handle the server holds or sends names an entry of the cache:
\* XNetCache::handle walks to that entry and writes to it unconditionally.
HandlesNameEntries ==
  \A d \in Dependents :
    ~d.reader => /\ HandleChain(d) \in DOMAIN chain
                 /\ HandleIndex(d) \in DOMAIN chain[HandleChain(d)]

\* However gets nest, each returns a value that its own attribute had while it
\* waited (XNetProtocol::onResult, wait, getResult).
AnswersAreFresh ==
  \A i \in DOMAIN stack :
    stack[i].at = "get" /\ ~stack[i].waiting
      => stack[i].res \in stack[i].from .. val[stack[i].slot]

\* A get, and whatever else the client is doing, comes to an end, although the
\* loop it waits in starts instants and gets of its own (XNetConnection::update).
GetsReturn == (stack # <<>>) ~> (stack = <<>>)
=============================================================================
