# Verification of the Cadence virtual machine

TLA+ modules for the reactive core of Cadence (`libcadence-vm`): the event
processor, the attribute store with its two kinds of definitions, objects and
buffers, agents, the routing of events, the event pool and the notation DASM; and
for its networking module (`modules/xnet`): the connections, the cache of remote
attributes and the table of results. TLC checks them on small instances; TLAPS
proves the theorems of `ProcessorProofs`, `VStoreProofs`, `MemoryProofs`,
`AgentsProofs`, `RoutingProofs`, `XNetCacheProofs`, `XNetResultsProofs` and
`XNetUpdateProofs` for all values of the constants.

Paths below are relative to `libcadence-vm/` unless they say otherwise.

## The system

Cadence is a single-threaded, event-driven virtual machine. All state is a graph
of objects whose attributes have values; an attribute may also have a
*definition*, from which its value is recomputed when something it read changes.
Everything is done by *events* (get, set, define, notify, add a dependency). Some
are routed to their handler at once; the others are put in one of three queues and
handled in an *instant*: first all sets, then all notifications, then all
dependencies. Programs are written in C++ or in DASM, whose statements are carried
out while they are parsed.

Within one machine there are no threads, locks or crashes to survive. What is hard
is that the code is re-entrant: a handler sends events, a send may run a whole
instant on its caller's stack, and a synchronous set inside a handler drains the
queues from inside the handler. State read before a call is used after it, and which
queue is handled when depends on who is below on the call stack.

With XNet, machines share attributes. A read of a remote attribute polls the
network until its answer is there and handles whatever else arrives meanwhile, and
the machines interleave as they like.

### Inventory

| Component | Source | State | Operations | What makes it correct |
|---|---|---|---|---|
| Event processor | `src/core/processor.cpp` | three rings, `s_idle`, `curq` | `send`, `processInstant`, `processRemaining`, `processQueue`, `processAll` | no event lost or overtaken; phases in order; a synchronous operation waits for its event |
| Event pool | `src/core/event.cpp` | `s_pool`, `s_ppos` | `operator new`, `operator delete` | no event with two owners, none lost |
| Attribute store | `src/handlers/local.cpp` | attributes: value, definition, flags, lock, dependents; objects: keys | one case per event type | cached values agree with definitions; dependents are registered; locks are released; notification ends; an iteration sees what was there |
| Definitions | `src/core/definition.cpp` | the evaluation in progress, the context | `evaluate`, `parseExpression`, `toString` | every read registers a dependency; a definition means what its text says |
| Objects' operations | `src/core/oid.cpp` | none | `get`, `set`, `define`, `definefuture`, `create`, `copy`, iterators, arithmetic | synchronous ones block until done; identifiers are ordered and unique |
| Errors | `src/messages.cpp` | `root.error`, `root.warning` | constructors, which set attributes | do not disturb the instant they happen in |
| Handler table | `src/core/handler.cpp` | up to 20 ranges and a global handler | register, `route` | the first matching range handles, for ever |
| Agents | `src/handlers/agenthandler.cpp`, `src/agents/softagent.cpp` | the table of agents | `add`, `update`, `remove`, `handle` | a removed agent is not called; a changed condition is noticed |
| Buffers | `src/core/buffer.cpp` | 50 slots | `create`, `free`, `lookup` | no slot with two owners; nested evaluations fit |
| Numbers, names | `src/handlers/number.cpp`, `src/core/names.cpp` | curried operands; the name table | handlers | arithmetic; one number per name |
| DASM | `src/notations/dasm.cpp` | the text, the variables | `execute`, one function per construct | text, code, printed code and copies mean the same; errors are reported |
| Containers | `list.h`, `vector.h`, `map.h`, `object.h` | elements | add, remove, iterate | iteration survives what is done meanwhile |
| XNet | `modules/xnet/src` | the cache of remote values, the table of results, ten connections | `get`, `handle`, `event`, `data`, `update` | an invalidation reaches its entry; a request gets its own answer; calls return |
| Modules, files, UI, daemon | see `PROJECT.json` | | | not part of the core logic |

How they interact: `OID` operations allocate an event from the pool and send it;
the processor routes it (handler table) to the store, the agents, the numbers or
XNet; the store evaluates definitions, which send events in turn; agents and errors
set attributes. Every arrow may start or nest a drain of the queues.

## The modules

| Module | Models |
|---|---|
| `Processor` | the rings, the instant, the nested drain and the call stack; handlers are arbitrary |
| `EventQueues` | what the processor promises: three queues, routed from only in an instant |
| `ProcessorProofs` | theorems about `Processor`, and that it implements `EventQueues` |
| `VStore`, `VStoreMC`, `VStoreProofs` | the store and the evaluation of definitions, driven by the instants, and theorems |
| `EventPool` | the pool |
| `Agents`, `AgentsMC`, `AgentsProofs` | the agent handler and what agents do while they are notified, driven by the instants, and theorems |
| `Objects`, `ObjectsMC` | keys, GET_KEYS and GET_RANGE, and the buffers they and evaluations hold |
| `MemoryProofs` | theorems about the two tables of memory: `EventPool` and `Objects` |
| `OIDs` | the order and the increment of identifiers |
| `Routing`, `RoutingMC`, `RoutingProofs` | the handler table with creation of objects and announcements of peers, and theorems about it and about `OIDs` |
| `Language` | expressions: their text in DASM and, independently, what they mean |
| `Dasm`, `DasmMC` | the DASM parser, the evaluation of what it compiles, printing and copying |
| `XNetCache`, `XNetCacheMC`, `XNetCacheProofs` | a client that reads a server's attributes through its cache, both ends of the connection, and the client's instants; theorems about them |
| `XNetResults`, `XNetResultsProofs` | the table of results, and theorems about it |
| `XNetUpdate`, `XNetUpdateMC`, `XNetUpdateProofs` | peers that poll their connections and call each other, and theorems about them |

Modules with a name in `MC` hold the instances that are checked. Operators with a
name of the form `X_how` next to an operator `X` are what `X` would be with a
plausible bug. Each property has one that breaks it.

How they fit together: `VStore` and `Agents` have queues for rings, which
`ProcessorProofs` justifies (`ProcessorImplementsQueues`). `Routing` extends `OIDs`, `Dasm` extends `Language`.
`XNetCache` identifies a get with its place on the stack, which `XNetResults`
justifies, and takes the connection as reliable, which `XNetUpdate` looks at.

### Processor and EventQueues

`slots`, `get`, `put` are the rings; `idle` and `curq` the two flags; `stack` the
calls in progress. A handler is abstracted to what it can do to the processor: send
an event to a queue its kind of handler sends to (`Emits`, read off the cases of
`VStore::handle` and the `Warning` of `Handler::route`), make a synchronous set,
return. A synchronous operation is two steps, because `send` may run a whole instant
before `processRemaining` is called: `SyncSet` pushes a `sync` frame below the
instant it starts, and `CallRemaining` goes on when that instant has ended.
`processQueue` is one step per event (`Route`), and the loop goes on to its next
phase when its ring is empty (`InstantPhase`, `RemainingPhase`).

Events routed at once (GET, CREATE, NOTIFY_IS and the others with a type below
0x10) touch none of this state.

`MaxSends` bounds a behaviour, `LiveEvents` the events that exist at once: in the
code, the event pool (99999 of 100000, against 100000 slots in a ring).

`EventQueues` is the processor as its callers see it. The refinement maps a queue to
the slots between `get` and `put`, and `busy` to `~idle`.

### VStore

`attr[s]` is the attribute of slot `s` (an object and a key): `val`, `def`, the flags
`isf` (FLAG_FUNCTION) and `ood` (FLAG_OUT_OF_DATE), `evaluating`, `deps`. A slot
without an attribute has `exists = FALSE`. `stack` holds the calls: instants and
nested drains, notifications of an attribute's dependents (with the index of the
iteration), evaluations (with the position in the path), synchronous operations and
the construction of an `Error`.

* A definition is a path: GET one key after another from a base object. That is what
  `parseExpression` does with elements that are not modifiers, and it is where
  dependencies come from, dynamic ones included (the second read depends on the
  value of the first).
* A GET in an evaluation is a step (`GetAnswers`, `GetEvaluates`, `GetCyclic`), the
  dependency it sends another (`AddDep`): the value is read before the send, and the
  send may run an instant.
* A GET of a missing attribute evaluates the definition of the object's `$` for it
  and then, asynchronously, gives the attribute that definition (`FinishWild`).
* NOTIFY is queued. NOTIFY_IS has a type below 0x10 and is routed at once, so the
  marking of 'is' attributes is recursive (`NotifyIsDependent`).
* `Tick` is the main loop setting `root.time`, the only thing that starts an instant
  when the program is otherwise idle.

The main program is any sequence of synchronous sets and definitions, any number of
reads, and ticks, as far as its `prog` allows: a program gives the operations and
reads there are, how many operations may be made, and whether it may read while sets
are left over from the last instant (they usually are after a := definition has been
notified). The initial states choose the program, so one run checks several.

### EventPool

One variable per pointer that can own an event. The module's specification has `Pool` in
its names (`PoolSpec`, `PoolTypeOK`) since `MemoryProofs` extends it beside `Objects`. `Lose` is the early return of
`Attribute::notify`, which forgets its event.

### Agents

`entries` is the table of `AgentHandler`, `alive` the agents that are not deleted,
`deps` the entries registered with each attribute, `queue`, `curq` and `stack` as in
the processor. The notification of an entry is two frames: the evaluation of its
condition (`eval`), whose dependency and, with a condition that depends on itself,
whose `Error` it sends before the entry is looked up again, and the call of the agent
(`body`). In a body an agent may set attributes, synchronously too, register and
update entries, and delete agents. A fault is an entry or an agent that is used
after it is gone; `FaultsNeedDrain` says what it takes.

### Objects

`keys[o]`, `cap[o]` and `array[o]` are the vector of an object's keys: its contents,
its room and the identity of the memory, which changes when it grows. `buffers` is
the table of `core/buffer.cpp`; a buffer either owns its data or points into an
array of keys. The stack holds loops (`iter`), ranges being collected (`range`),
evaluations (`eval`), and the use of a finished range (`text`), each with its
buffer. A definition is abstracted to the attribute it reads. A call that finds the
table full sets `fault`: the code uses a null pointer there.

### OIDs and Routing

An OID is its four words, of width `W`. `Less` and `Inc` are the comparison of the
two halves and the increment with its carries. `table` of `Routing` holds the ranges
in the order they were registered: the six of the core, and two for each connection
whose peer announces its base. The store allocates by `Inc` from the bottom of its
range; `created` is the history of that.

### Language and Dasm

`Language` has expressions as trees, `Text` to write one in DASM and `Meaning` to
say what it denotes from the attributes it reads, with no code, cache or dependency.
`Dasm` is what the program does with the text: an operator per function of
`notations/dasm.cpp`, over a state `vm` with the attributes, their code and
dependents; `Path` is `parseExpression` on that code, and `ToText` with `Copy` the
printing and re-parsing that copying an object comes down to. A step runs one
statement, outside of any instant, so that what a send queues has been handled when
it returns. `meant` records the expression that each attribute was last given.

A dot before a word is part of the text and says nothing (`Undot`), and an error in the
condition of an if or a select is reported but does not stop the parser there
(`ParseCondition`): `if (` cut off is reported twice, and `if () {5}` is reported and
compiled.

The operators were also run on some thousands of random programs next to a build of
the library, of whole statements and of statements with words left out, put in or cut off.
They report an error for the same ones and give the same values, but for a definition that
ends with a modifier, which reads past its end, and for empty brackets.

### XNetCache, XNetResults and XNetUpdate

`XNetCache` composes four parts. The server (`val`, `deps`) notifies the dependents
of an attribute that changes, newest first, and forgets them. The connection
(`toServer`, `toClient`) delivers documents in order. The cache (`chain`) has an
entry per attribute that was ever read, in hash chains with the newest entry first.
The client's processor is reduced to the two queues that matter here (`notify`,
`register`) and runs instants; its attributes with := definitions (`Reader`) GET one
remote attribute each.

`stack` holds what the C++ stack holds: `get` frames that wait, `update` frames that
poll, the instant and the evaluation. `StartGet` is `XNetCache::get` up to the wait,
`GetReturn` the rest of it. Between the two, `ReceiveNotify` may start an instant
whose evaluations call `get` again; inside an instant, where a nested one cannot
start, it only queues.

`XNetResults` is the table of `ResultEntries` of one connection, with a nesting depth
for each request. Past the table the model goes on as the code does, in one more
entry for the memory behind it.

`XNetUpdate` has any number of peers, each with one thread. `stack[p]` holds waiting
calls, handlers of events and polls (with the slot the loop has come to and the count
of its rounds); `ready[p]` is the static set that select fills and that a nested poll
refills. Messages are whole and in order within a connection; a poll finds any part
of what has been sent. A table may be full of other connections, and a connection may
be closed.

## What is checked

| Run | Question | Instance |
|---|---|---|
| `processor` | Does anything get lost, overtaken or nested wrongly, does a set inside the notify phase wait, is a dependency registered before the next set? | rings of 4 slots, 3 live events, 5 sends per queue: every ring wraps, nested drains nest again; the main program sends sets and notifications |
| `vstore` | Do values agree with definitions, are locks released, and does the store come to rest? | four programs: three definitions in a chain, each of both kinds (6 operations); a path of two keys through a value that changes and a default `$` (6); a cycle of two definitions and two readers (6); `$` as default and as name for all attributes (3, left-over reads allowed) |
| `event_pool` | Can two owners share an event, can one vanish? | 4 cells, 4 owners: the pool overflows |
| `agents` | Does an agent miss a change, is one woken twice, and when is a deleted one used? | two agents, one with a condition, two entries, two attributes, 4 operations |
| `objects` | Do loops, ranges and evaluations keep their buffers and see what they should? | two objects, two elements and a parent, 3 buffers, arrays of two keys that grow, definitions in a chain and in a cycle, 5 operations |
| `routing` | Does every object keep the handler it should have? | words of 110 values and 111 objects created: a carry; 10 handlers, three announcements (the last finds the table full), three peers, one with this machine's own base |
| `dasm` | Do text, code, cached values, copies and statements all mean the same? | 4 statements of 62, with nested brackets, dots, if, select, sequences, both kinds of assignment, variables, copies, a condition that is missing, and definitions cut off after every word |
| `xnet_cache` | Do gets that nest return, with their own answers, and is a stale entry always about to be invalidated? | two attributes in one chain, read by the main program, that change once and twice; one with a chain to itself, read by a reader, that changes three times |
| `xnet_results` | Does each request get its own entry and its own answer? | 3 entries, 5 nested requests: two beyond the table |
| `xnet_update` | Does a read ever wait, do peers wait for each other, does every call return? | three peers, two of them connected to the third, 3 calls in any nesting, a table with and without room, a connection that may be closed, polls that give up after two rounds |

Two more runs, `vstore_stale` and `dasm_test`, are about the documentation: see below.

What the bounds leave out: five sends per ring of four slots make each index pass
the end of its ring, and three live events are enough for a handler with a nested
drain that routes an event whose handler nests another. In `VStore` a chain of three
definitions is the shortest in which a value has to pass through two instants, and six
operations define the whole chain, redefine one link with the other kind and still set
its source twice. In `Agents` two entries are enough for one agent to be called while
another one's call is waiting in a set, and to delete it. In `Objects` three buffers are
held by a loop, a range in its body and an evaluation of an element of that range; one
more call finds the table full. In `Dasm` four statements are two definitions, one of
which reads the other or is copied, with a change before and after the first read. In
`XNetCache` reads nest at most twice (an evaluation within the poll of a get of the
main program), whatever the number of readers; a third attribute makes a chain of two.
Three changes let an entry become stale, be read again and become stale once more.
`LoopLimit` is 2 and `UpdateLimit` 1 so that `update` gives up, as it does after a
hundred messages. In `XNetUpdate` three calls are a call, one made by its handler to
the third peer, and one back from there: a circle.

`TypeOK` in each module says what its variables may hold. It holds in all these
instances, and is among the properties of a run only in `event_pool` (`PoolTypeOK`), where it
bounds the index of the pool; for the modules there are theorems about it is proved
(`TypeCorrect`, `PoolTypeCorrect`, `ObjectsTypeCorrect`).

### The properties

* `ImplementsQueues`: `Processor` implements `EventQueues`: events leave each queue in
  order, only while an instant runs, and an instant ends with only sets queued.
* `NoEventLost`: the slots between `get` and `put` hold exactly the events that were
  sent and not routed, in order.
* `DependenciesBeforeSets`: no set is routed while a dependency is queued.
* `SyncSetInNotifyPhase`, `NestingInv`: see the module.
* `ValuesAgree`: at rest every up-to-date defined attribute has the value that its
  definition gives on the lazy answers (`GetValue`) of what it reads.
* `DependenciesRegistered`: at rest an attribute that is up to date, or that others
  depend upon, is registered with everything its definition reads.
* `LockedIsRunning`: an attribute is locked iff exactly one evaluation or
  notification of it is in progress.
* `RemainingFindsSets`: a nested drain in the store always finds a set to go on to.
  That is why `VStore` leaves out the branch of `processRemaining` that finds none.
* `InstantsEnd`, `ComesToRest`: every instant ends, and the store comes to rest
  again and again.
* `NoAliasUntilOverflow`, `NoneLost`: see the module.
* `AgentsInformed`: at rest the condition of every entry was last evaluated on the value
  its attribute has now, and the entry is registered for the next change.
* `OneWakeup`: at most one thing (a queued notification, a dependency, a registration)
  leads to the next evaluation of an entry, and one more for each update of it.
* `FaultsNeedDrain`: an entry or an agent that is gone is used only by a call that has
  waited in a nested drain.
* `BuffersAreHeld`, `FaultsNeedFullTable`: the slots in use are those of the calls in
  progress, in their order, and only a full table makes a call use a null pointer.
* `IterationFaithful`: a loop visits the keys there were when it began, once each, as
  long as the array is not replaced; `RangeAgrees`: a range holds what GETs of its
  elements would answer; `CallsEnd`: cyclic definitions in ranges come to an end.
* `CreatedAreRouted`, `PeersAreRouted`, `RoutesAreStable`: see the module.
* `ValuesAreMeant`: reading an attribute gives the `Meaning` of the expression it was last
  given, evaluated, cached, notified or copied as it may be. `ResultsAreMeant` says the same
  of expressions in statements. `ErrorsAreMeant`: a statement is reported exactly if it is
  cut off or its result is undefined. `StaysInside`: no evaluation reads past its code.
* `StaleIsNotified`: an entry that is up to date and differs from the attribute has
  its handle in a NOTIFY that is on its way or queued. It holds for attributes that
  have a chain to themselves and that the main program does not read, and without
  either condition it does not: see the counterexamples below.
* `HandlesNameEntries`: every handle the server may send back leads to an entry, not
  past the end of its chain.
* `AnswersAreFresh`, `GetsReturn`: a get returns a value its attribute had while the
  get waited, and it does return.
* `IndexIsDepth`, `EntriesComeBack`, `AnswersAreOwn`: see the module.
* `ReadsDoNotWait`: whatever nested polls did to the sets of select, the loop reads only
  connections with something to read. `NoCircularWait`, `CallsReturn`: while a call waits
  some peer can go on, and every call returns. All three except what the code has no answer
  to (`Trouble`, `overrun`).

### Fairness

`FairSpec` of `VStore` has weak fairness on `Machine` (the machine goes on with the
calls in progress: one thread, no blocking call) and on `Tick` (the main loop of
`src/cadence.cpp:354-419` runs for as long as the program does, and sets
`root.time` on every iteration if asked to; without that setting a left-over set
waits for the next operation, and `ComesToRest` is not claimed). `Agents` and `Objects`
have the former. There is no fairness on the operations of the main program or of agents.

`FairSpec` of `XNetCache` has weak fairness on the client's `Machine`, for the same
reason, and on `Serve`: the server's main loop calls `update` through its module, and
the connection of this model does not fail.

`XNetUpdate` has weak fairness on the steps of each peer that change its stack: its
thread goes on, and a poll finds something if there is something to find for ever, which
is that what was sent arrives. Nothing makes peers connect, call or close.

Deadlock is checked where the system cannot stop: `Tick` leads back to a state in which
it is enabled, `ProcessAll` is always possible outside handlers, pools can delete what
they allocated, and a peer can poll. `Agents`, `Objects`, `Routing` and `Dasm` stop at
the bound on their operations, and their configurations do not check it.

### Where the code and its documentation differ

Two of these are runs:

* **An 'is' definition may be stale** (`vstore_stale`). `core/oid.h:302-303` says that
  it evaluates on read. The value is cached, and a set that is left over from the last
  instant can slip in between the evaluation and the registration of its dependency.
* **A definition may not begin with a bracket** (`dasm_test`).
  `src/tests/dasm-test.cpp:64-65` expects `d is { this ((a)) }` to be the value of `a`.
  `parseDefinition` wants an object first, reports an error and leaves `d` undefined.

`src/tests/dasm-test.cpp` contradicts the code at a second place, lines 111-113: it expects an
error for `this.`. `parseSubExpr` reads over the dot (`dasm.cpp:688`) and takes the end of the
text for the end of the statement (line 966), so nothing is reported. The `ErrorsAreMeant` of
the run `dasm` is about statements that are cut off behind `is`, among them the other two of that test;
`DasmTest.cfg` with `Statements <- DotStatements` finds it violated by `this.`.

The others have a configuration beside the modules, which TLC runs with the module
named, and which ends in a counterexample:

| Configuration | Module | Violated | Behaviour |
|---|---|---|---|
| `ProcessorSync.cfg` | `Processor` | `SyncSetBlocksUntilDone` | `core/oid.h:279` says that a synchronous set blocks until done. `processRemaining` leaves `curq` at -1 when it finds no set, and later synchronous operations of the same handler return at once. |
| `ProcessorSend.cfg` | `Processor` | `SendIsNonBlocking` | `core/event.h:68` and `core/processor.h:120` say that a send does not block. Outside an instant it runs one. |
| `VStoreDefault.cfg` | `VStoreMC` | `DependenciesChangeNoAnswer` | `local.cpp:142` says that the value of `$` stands in for a missing attribute. A dependency on that attribute creates it. |
| `AgentsFault.cfg` | `AgentsMC` | `RemovedIsNotUsed` | An agent whose set calls an agent that deletes it is then used by the handler that called it, although its destructor has removed it. |
| `ObjectsGrow.cfg` | `ObjectsMC` | `PointersStayValid` | `core/buffer.h:59-61` says that the array behind a buffer must stay valid. That of GET_KEYS is the list of keys, which a new key may move. |
| `RoutingRejoin.cfg` | `RoutingMC` | `EveryPeerIsRouted` | A peer that announces itself again is routed to the connection it had before: handlers are never removed. |
| `RoutingCaches.cfg` | `RoutingMC` | `CachesAreNotified` | All caches register the same range of handles, and the first one gets the notifications of all. |
| `DasmThis.cfg` | `DasmMC` | `ValuesAreMeant` | `this` in a part of an if is the object of the if, not that of the definition. With `Statements <- ElseStatements` it fails as `VStoreDefault` does: the else part of an if is the `$` of an object, and a dependency creates the attribute it stands in for. With `Statements <- NumberStatements` a path that goes on after a number keeps the number: the event is reused, with its last result. With `Statements <- LineStatements` a definition that is not in braces takes the next line for a part of it: `parseDefinition` could stop at the end of the line, but `dasm.cpp:842` gives it one argument too few (`src/libcadence-vm/src/notations/dasm.h:56`) and sets `ncontext` instead of `endnl`. |
| `DasmCopy.cfg` | `DasmMC` | `ValuesAreMeant` | Printing a definition leaves out `;` and the parts of an if that are objects, and copies are parsed from the print. |
| `DasmNow.cfg` | `DasmMC` | `ResultsAreMeant` | In a statement `==` compares the key before it and not the attribute. |
| `XNetCacheOrder.cfg` | `XNetCacheMC` | `ReadersAgree` | `core/event.h:136` says that NOTIFY tells that a definition is out of date. A definition that reads a remote attribute is notified before the cache it reads through and gets the cached value. No race is needed: `SlowSpec` lets the server change an attribute only when everything is at rest. |
| `XNetCacheLate.cfg` | `XNetCacheMC` | `ReadersAgree` | A definition registers with the server after it has used the answer, and misses a change in between. |
| `XNetCacheShift.cfg` | `XNetCacheMC` | `CacheAgrees` | The server is given the position of a cache entry in its chain, which changes when the chain grows: the invalidation reaches another entry. |
| `XNetCacheOvertaken.cfg` | `XNetCacheMC` | `CacheAgrees` | `get` marks its entry up to date after everything that arrived behind the answer has been handled, an invalidation included. |
| `XNetResultsFull.cfg` | `XNetResults` | `BlocksForResult` | `modules/xnet/src/xnethandler.cpp:36` says that a request blocks for its result. The eleventh and the twelfth of nested requests share the memory behind the table, and the answer to one lets the other go on. |
| `XNetUpdateLimit.cfg` | `XNetUpdateMC` | `ReadsNeverWait` | A nested poll that gives up leaves the outer one with its sets, and with a connection that has nothing to read: `recv` waits. |
| `XNetUpdateFull.cfg` | `XNetUpdateMC` | `CallsAlwaysReturn` | A peer that connects to a full table makes every `update` return before it reads anything. |
| `XNetUpdateClosed.cfg` | `XNetUpdateMC` | `CallsAlwaysReturn` | Nothing ends the wait for an answer when the connection is closed. |

## What is proved

Theorems of the form `Spec => []P` follow from an inductive invariant (`IInv`, or one for
the purpose), of which the modules prove, one action at a time, that it holds initially,
that every step keeps it, and that it implies `P`, which TLC checks on the instances above.

Every theorem about `Processor` assumes `RingsHoldPool`, that fewer events exist at
once than a ring has slots. In the code both sizes are 100000 and the pool holds one
event back. Without it the rings do lose events, since `send` does not look at `get`.

`IInv` is the inductive invariant. `NoEventLost` alone is not inductive: that an
instant leaves only sets depends on which loops are below on the stack, and that a
synchronous set waits depends on where its event is. `IInv` therefore adds

* `NestingInv`: outside an instant there is at most a synchronous call or
  `processAll`; there is at most one instant, at the bottom; above a loop that drains
  sets or dependencies there are only that queue's handlers and synchronous sets;
* `PhaseInv`: while a loop drains dependencies no notification is queued, and while
  one drains sets no dependency is;
* `WaitInv`: a synchronous set that entered a nested drain and whose event is still
  queued has the drain just above it.

| Theorem | States | For |
|---|---|---|
| `TypeCorrect` | `[]TypeOK` | every ring size and bound |
| `RingsAreQueues` | `[]NoEventLost` | " |
| `CallsNest` | `[]NestingInv` | " |
| `InstantsLeaveOnlySets` | `[]OnlySetsLeft` | " |
| `NotifyPhaseSetsBlock` | `[]SyncSetInNotifyPhase` | " |
| `DependenciesFirst` | `DependenciesBeforeSets` | main programs that send no dependency |

`DependenciesFirst` needs its second assumption: a read by the main program of an
out-of-date 'is' attribute sends dependencies from outside an instant, as does
`OID::dependency`, and the instant this starts handles the sets first. That is the
order behind `vstore_stale`.

`VStoreProofs` proves `TypeCorrect`, `LocksCorrect` (`LockedIsRunning`) and
`RemainingCorrect` (`RemainingFindsSets`) for any number of objects and keys, any
definitions and any program of the kind `ProgramsAssumption` describes (operations are sets
and definitions; that is the type of `Programs` and no more). None is inductive, and the
invariant of all three adds

* `DefsInv`: an attribute with FLAG_FUNCTION has a definition, so an evaluation has one;
* `LocksFit`: each lock is held by exactly one call, an evaluation or the notification of
  its attribute. A nested drain, a mark that goes through the same attributes, or an Error
  in the middle of an evaluation changes no lock of the calls below;
* `Nested`: an evaluation that waits has a key left and its definition, only an instant is
  above a synchronous operation that started one, and below a nested drain is an Error;
* `Instants`: one instant at most, with the nested drains above it, and `curq` is -1
  without one;
* `SetsFit`: below a nested drain that has still to get to the sets there is one queued, or
  an Error further up the stack that is going to queue one. This is what makes
  `RemainingFindsSets` true although nested drains take the sets of the outer ones.

The invariant is about the stack, the flags and the first queue only. That is why a step is
proved as a change of these (`PushKeeps`, `PopKeeps`, `GoOnKeeps` and others), and the lemmas of
the actions only say which change they make.

It proves more of the programs that are plain (`Plain` in `VStore`): orderly ones, which
define attributes other than `$`, without an initial value, set only attributes they do
not define, and whose definitions can be ranked, such that each keeps to attributes of a
lower rank whatever the values are that it meets on its way. The ranks, like the objects,
keys, paths and numbers of operations, are any. `PlainProgram` says that there are some.

| Theorem | States |
|---|---|
| `PlainStaysSettled` | the invariant below, in every behaviour of a plain program |
| `PlainProgramsAgree` | `[](PlainProgram => ValuesAgree)` |
| `PlainProgramsRegister` | `[](PlainProgram => DependenciesRegistered)` |

Programs of the instances are plain: `PlainPrograms`, which TLC evaluates, says so of `Chain`,
and of `Dynamic` without its definitions of `$`. That the program has to be orderly is what
`vstore_stale` shows; with a `$` that has a value a GET may change its answer although
nothing was set (`VStoreDefault.cfg`), and one that is defined gives other attributes
definitions while they are read. The invariant (`PlainInv`) says of every moment, in the
middle of an instant too:

* `Shape`: what the calls are. The notifications on the stack go up the ranks and the
  evaluations go down; no definition is cyclic, so no `Error` is made and no drain nests;
* `Queues`: all queued sets are results of definitions, but for one of the main program, which
  is the last and is drained at once; a queued dependency is of a defined attribute on one of a
  lower rank that is up to date; while dependencies are queued no set of the main program runs;
* `SlotFits`: definitions have ranks, and dependents higher ones than what they depend upon;
* `InCall`: the part of its path that an evaluation has been through still leads, value by value,
  to what it has got (`Steady`), and the dependencies for it are registered or queued;
  a notification has told the dependents it is done with;
* `Unneeded`: an 'is' attribute that is out of date has no dependents, but while it is being
  notified: whatever used the value it had has been told;
* `Settled`: a defined attribute is a dependent that a notification on the stack has still to get to,
  or is marked, or has a NOTIFY queued or its evaluation running; otherwise its value,
  once the last set queued for it is handled, is where its path leads.

With no call and nothing queued only the last is left: every attribute on the path of a defined
one is up to date, so that a GET answers with its value, and key after key the path
leads where it led when the value was computed. TLC had found the invariant to hold of `Chain`
and the plain part of `Dynamic` before it was proved.

`GetValue` is a function on the depth of evaluation and `Along` one on the keys of a path, both
defined by recursion on a number, so that the prover has no RECURSIVE operator to deal with; that
such functions exist, and their equations, are proved from the least number of which they would
fail (`AlongIs`, `GetValueIs`). `FiniteAssumption`, that
there are finitely many objects and keys (an OID has 128 bits), makes `Depth`, the number of
attributes, a number.

`AgentsProofs` proves `TypeCorrect`, `FaultsCorrect` (`FaultsNeedDrain`), `InformedCorrect`
(`AgentsInformed`) and `WakeupCorrect` (`OneWakeup`) for any number of agents, entries, attributes and
operations, from an invariant in three layers, each on those before:

* `CallsInv`: below another call there are only loops that drain the notifications and
  agents and evaluations that wait; one instant at most is below all of these; the innermost
  call goes on with an entry and an agent that are there, unless it waited
  (`FaultsNeedDrain`); while sets are handled no dependency is queued, and between instants
  there is neither a notification nor a dependency;
* `InformedInv`: each entry has its DEFINE or a notification queued, or it was evaluated on
  the value its attribute has, and is registered with the attribute or its dependency is
  queued. A set between the evaluation and the registration would go unnoticed; that no
  dependency is queued while sets are handled, in nested drains too, is what `CallsInv` is
  needed for;
* `WakeInv`: the events and registrations that lead to an evaluation of an entry are counted:
  a set turns the registrations with its attribute into as many notifications, for none is
  there twice, and every other step turns one thing into one other, or drops one that the
  entry does not need. An index that was never given out has none, which a new entry relies
  on: the table never gives one out again (`remove` leaves a hole).

`AttrAssumption` says that there are finitely many attributes (an OID has 128 bits), without
which the registrations could not be counted. `AddDependent` removes the first other
occurrence of an entry, where `List::unique` removes all; that there is no second is part of
`OneWakeup`.

`MemoryProofs` proves, of `EventPool`, `PoolTypeCorrect` and `EventsHaveOneOwner`
(`[]NoAliasUntilOverflow`) for every pool size and every set of owners. Its invariant adds
that no free cell points to an event in use, that free cells point to different events, and
the same of lost events. `NoEventIsLost` (`[]NoneLost`) counts with it: a pool all of whose
cells are free points to as many events as it has cells, so to all of them, and an event
that is in use always finds a cell to go back to.

Of `Objects` it proves `ObjectsTypeCorrect`, `TableFollowsCalls` (`BuffersAreHeld`),
`FaultsOnlyWhenFull` (`FaultsNeedFullTable`), `IterationsVisit` (`IterationFaithful`) and
`RangesAgree` (`RangeAgrees`), for any objects, number of elements, size of the table,
first size and growth of the key lists, and number of events. The only assumptions are that
these numbers are positive and that null is no value, slot or buffer. The invariant says of
the calls in progress and their buffers:

* `Held`: the call at depth `i` has slot `i`, and no other slot is in use. So the first free
  slot is that of the next call (`Table`), and calls fail exactly when the table is full;
* `IterFits`: as long as the array of the keys is the one the iteration began with, it has
  the keys of that time in their places (`Grow`: keys are only appended), and the loop has
  seen all before its index but the one it skipped. That place is `p` of `Visits`, the
  first parent after the first key, or behind the end when there is none. `KeysFit`, that no
  key is there twice, makes it unique;
* `RangeFits`: the elements before `i` of a range that no event interrupted (`Timed`) are up
  to date and have the values in its buffer;
* `Quiet`: above such a range is the evaluation of its element, which was marked up to date,
  and above that the evaluations which that one needs. None of them is of an element up to
  the present one, for these are up to date and only what is out of date is evaluated
  (`Unsettled`). So no evaluation changes what the range has already (`AttributeKeeps`), in
  cycles too: a definition that comes back to the present element finds it up to date and
  takes its old value.

An event makes every range in progress one that was interrupted (`NotTimed`), after which the
invariant says nothing of its values.

`XNetResultsProofs` proves `TypeCorrect`, `IndexIsDepthCorrect`,
`EntriesComeBackCorrect` and `AnswersAreOwnCorrect` for every length of the table and
any depth of nesting. Its invariant adds that the entries that are available are those
from the depth on (`AvailAreRest`), from which the search for an entry can be computed
(`FirstIsDepth`), and that at most one answer is on its way for each entry of the table
(`AnswersInv`). Without the second a late answer could end the wait of the next request
of the same depth.

`XNetUpdateProofs` proves `TypeCorrect`, `ReadsCorrect` (`ReadsDoNotWait`) and
`NoDeadlock` (`NoCircularWait`) for any number of peers, links, slots, calls and rounds,
and calls nested to any depth. Neither is inductive. For the first the invariant is about
the innermost `update` of a stack only (`ReadyInv`): whatever it has still to read is
there, since each connection has one slot (`ConnsInv`) and only the peer itself reads from
it; the outer ones find the sets that the innermost left. For the second it adds that a
handler waits only for calls later than the one it serves (`OrderInv`), that calls have
owners (`OwnersInv`), and that a call without an answer is on its way, being served, or
its answer is on its way (`LiveInv`). If all peers waited, the greatest call they wait for
would be served below the wait for a greater one, or there to be read (`NoCircle`).

`ProcessorProofs` also proves `ProcessorImplementsQueues`, `Spec => ImplementsQueues`, from
`IInv`. `RingsAreWindows` adds that the contents of a ring are a window of the sends in
order, from which `EnqueueIsPut` and `RouteIsTake` show that the steps that touch a ring
are the steps of a queue; the other steps change nothing a caller sees, or end an instant
when `OnlySetsLeft` says it may.

`RoutingProofs` proves for words of every width that the comparison by halves is total
(`LessTotal`) and transitive (`LessTransitive`), and that nothing lies between an
identifier and its increment (`IncIsNext`).

It also proves `TypeCorrect`, `RoutesStable` (`RoutesAreStable`) and, for every
object and not only the ends of ranges, `EveryRouteIsStable`: a table that only grows at
its end, with the first match deciding, never takes an object away. `CreatedRouted`
(`CreatedAreRouted`) needs as its invariant that the objects created are the successors of
the first, that the next is `alloc`, and that the first six entries are those of the core.
`PeersRouted` (`PeersAreRouted`) has another, `PeersInv`: while no announcement found the
table full, it holds the entries of the core and then two for each announcement, and each
connection's handler is in the first of its two. Only the peer's own base falls in the
range of that entry, and none of the core's.

`XNetCacheProofs` proves `TypeCorrect`, `HandlesCorrect` (`HandlesNameEntries`),
`AnswersCorrect` (`AnswersAreFresh`) and `StaleCorrect` (`StaleIsNotified`) for any number
of attributes, chains, readers and changes, and gets nested to any depth. Handles are
numbers of a chain and a position below `Width`, and `WidthAssumption` says that no chain
gets longer than that: 256 in the code. The invariant has five parts besides the types:

* `StackInv`: what may be above what; only a reader that an instant evaluates reads inside
  another call;
* `AnswersInv`: for each get that waits at most one request or answer is on its way, and
  the answer is a value that its attribute has had meanwhile;
* `ChainInv`: a chain has one entry for each attribute that was read, and only its own;
* `HandlesInv`: every handle that is held or on its way leads to an entry;
* `ToldInv`: whatever is or will be taken for the value of a private attribute (by its
  entry, by a get that is about to return, by an answer on its way) is that value, with the
  entry registered at the server, or the entry's handle is on its way in a NOTIFY.

The last is what `StaleIsNotified` needs, which speaks of entries only: an invalidation
that overtakes an answer in the cache has still to be there when the answer is used.

Only model-checked: the liveness properties and ENABLED, which the prover does not do;
`ValuesAgree` and `DependenciesRegistered` of `VStore` for the programs that are not plain,
where the default of an object is evaluated for a missing attribute, definitions are cyclic, or a
defined attribute is given a value (of the last two the properties say something only
at rest and of what is up to date); and everything about `Dasm`. `Language` and
`Dasm` are recursive over trees and texts, so what they compute is out of the prover's
reach; that is where the instances are largest.

## What is not modelled

Of the parts that are modelled:

* `Processor`: the registry of processors and the context pointer, which is only
  saved and restored; the early return of `evaluate` that leaves it (`definition.cpp:231`).
* `VStore`: special keys, the hash chains, GETDEF, GETFLAGS, SETFLAGS. GETDEF and GETFLAGS
  of a missing attribute go on to the attribute that is not there (`local.cpp:178`), which
  no model is needed to see.
* A set of a `:=` attribute overrides its value until the next notification; a
  definition given with an initial value is not evaluated and registers nothing. Both
  are actions of the model, but the instances for `ValuesAgree` do not use them on
  defined attributes.
* An 'is' definition that reads the `$` of its own object makes
  `notifyAll(key, value)` recurse without end, and its iteration (`local.cpp:663-667`)
  outlive the list. No instance has one.
* In `VStore` a dependency on an attribute of `Null` is registered; the code drops it
  (`handler.cpp:123-130`). Nothing sets such attributes, so it is never notified.
* The event pool and the rings are unbounded in `VStore`, `Agents` and `Objects`.
* `Agents`: the instructions of soft agents (`softagent.cpp`), which index their registers
  unchecked; the last set of `root.error` by the constructor of `Error` (`messages.cpp:46`),
  which is not synchronous and which no property depends on. `Objects`: definitions of more
  than one read.
* `Routing`: the warnings that a failed registration sends, and objects beyond the range of
  the store.
* `Dasm`: `:=` (which `VStore` has) and so copies of attributes with it, where `local.cpp`
  tests flags with `&&`; the copies of attributes that have flags but no definition, as the `$`
  of an if without else, whose values are copied in turn (lines 429-443), and the flags of a
  copy (line 450); empty brackets, which stand for the object that was parsed before them; `%list`, `%include`, `%deep`, strings and the characters of words;
  floating point, division, shifts and the mathematical functions; texts longer than the
  buffers they are printed to.
* `XNetCache`: one client and one connection, which does not fail; server attributes
  without definitions, so that the server never polls; 'is' definitions of the client;
  chains longer than a handle has positions (256), whose handles run into those of the
  next chain.
* `XNetResults`: what is in the memory behind the table besides the one entry.
* `XNetUpdate`: a connection that is made again, which takes a second slot of the table
  (`xnetconnection.cpp:483`); a connection made by the handler of an event that is being served
  (lines 33-64): only a peer that does nothing else connects; a connection that is reset,
  whose socket is closed and not read again (lines 405-414), where the model has the end of the
  file: in either case the caller polls on; `listen`, which clears the table (line 212); headers read in
  part (line 390); the 1000 characters a document is put together in; events without an
  answer; login and share.

The other components, with reasons, are in `PROJECT.json`: vendored code (TinyXML), Qt
widgets, files and streams, names, loading of modules, the daemon and the examples. They
are most of the lines of the repository and have no rules of their own for a model to
check.

## What could follow

* Proofs: that attributes settle for programs that define `$` too. `FinishWild` copies a definition
  to the attribute that was missing, so the ranks have to be of what is copied.
* An abstract store, in which a defined attribute simply has the value of its definition
  at rest, and `VStore` shown to implement it; an abstract cache likewise.
* Reconnection and messages read in part in `XNetUpdate`, once the code says what they
  should do.
