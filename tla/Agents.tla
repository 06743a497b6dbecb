------------------------------- MODULE Agents -------------------------------
(***************************************************************************)
(* Agents (handlers/agenthandler.cpp, agent.h): objects of the host        *)
(* program that are told when the condition they watch may have changed.   *)
(*                                                                         *)
(* An agent registers entries in the static table of the agent handler.    *)
(* The notification of an entry evaluates its condition, which registers   *)
(* it with the attribute read, and then calls the agent, on the stack of   *)
(* the notify phase.  What the agent does there may set attributes,        *)
(* synchronously too, register entries and delete agents, itself included: *)
(* a synchronous set drains the queues and so calls other agents before it *)
(* returns.  Instants are those of Processor, rings being plain queues as  *)
(* proved there.  A condition reads one attribute, and then perhaps one    *)
(* outside the model that may turn out to depend on itself.                *)
(***************************************************************************)
EXTENDS Integers, FiniteSets, SequencesExt

CONSTANTS
  Agent,        \* the agents: objects of the host program
  Conditional,  \* those registered with AE_CONDITIONAL: called if the condition is True
  Attr,         \* the attributes conditions read
  Null, True,   \* the values
  ErrorSets,    \* the synchronous sets an Error makes, at least
  MaxEntries,   \* bound of the model: the entries registered
  MaxOps        \* bound of the model: the operations of main program and agents

Value   == {Null, True}
EntryId == 0 .. MaxEntries - 1

ASSUME AttrAssumption        == IsFiniteSet(Attr)
ASSUME ConditionalAssumption == Conditional \subseteq Agent
ASSUME BoundsAssumption      == ErrorSets \in Nat /\ MaxEntries \in Nat /\ MaxOps \in Nat

VARIABLES
  entries,  \* s_agents: entries[i + 1] is entry i
  alive,    \* the agents that have not been deleted
  val,      \* val[x]: the value of attribute x
  deps,     \* deps[x]: the entries registered with x, the newest first
  queue,    \* queue[k]: the events of queue k, the oldest first
  curq,     \* the queue being drained, or -1
  stack,    \* the calls in progress, the innermost last
  ops       \* the operations done

vars  == <<entries, alive, val, deps, queue, curq, stack, ops>>
store == <<entries, alive, val, deps>>

-----------------------------------------------------------------------------
\* An entry of the table: the agent, the attribute its condition reads, and whether
\* reading the rest of the condition may report an error.  Two history fields: the
\* DEFINE events sent for it, and the value last read.
Entry(a, x, fails) == [agent |-> a, watch |-> x, fails |-> fails, asked |-> 1, seen |-> Null]
Removed     == [removed |-> TRUE]
At(i)       == entries[i + 1]
Live(i)     == i < Len(entries) /\ At(i) # Removed

SetEvent(x, v) == [type |-> "SET", attr |-> x, v |-> v]
DefineEvent(i) == [type |-> "DEFINE", id |-> i]
OtherSet       == [type |-> "SET_OTHER"]   \* of an attribute no condition reads
Dep(x, i)      == [attr |-> x, id |-> i]

Instant(q)     == [at |-> "instant", q |-> q]
Remaining(q)   == [at |-> "remaining", q |-> q]
Sync           == [at |-> "sync"]
Failing(n)     == [at |-> "error", n |-> n]
\* The evaluation of the condition of entry i, with result v; waited says that the
\* queues were drained meanwhile.
Evaluation(i, v, w) == [at |-> "eval", id |-> i, res |-> v, waited |-> w]
\* Agent a, called for its entry i.
Body(i, a)          == [at |-> "body", id |-> i, agent |-> a, waited |-> FALSE]

Top         == Last(stack)
Running(at) == stack # <<>> /\ Top.at = at
Draining(k) == (Running("instant") \/ Running("remaining")) /\ Top.q = k /\ queue[k] # <<>>
Idle        == \A f \in ToSet(stack) : f.at # "instant"
Quiet       == stack = <<>> /\ \A k \in 0 .. 2 : queue[k] = <<>>

\* processInstant with the calls c in progress, and Processor::send.
ProcessInstant(c) ==
  IF Idle THEN stack' = Append(c, Instant(0)) /\ curq' = 0
          ELSE stack' = c /\ UNCHANGED curq
Sent(c, k, e) == queue' = [queue EXCEPT ![k] = Append(@, e)] /\ ProcessInstant(c)
Taken(k)      == [queue EXCEPT ![k] = Tail(@)]

-----------------------------------------------------------------------------
Init ==
  /\ entries = <<>>
  /\ alive   = Agent
  /\ val     = [x \in Attr |-> Null]
  /\ deps    = [x \in Attr |-> <<>>]
  /\ queue   = [k \in 0 .. 2 |-> <<>>]
  /\ curq    = -1
  /\ stack   = <<>>
  /\ ops     = 0

(***************************************************************************)
(* What code may do: the main program, or the agent called last while it   *)
(* exists.                                                                 *)
(***************************************************************************)
CodeRuns == \/ stack = <<>>
            \/ Running("body") /\ Top.agent \in alive
Operates == CodeRuns /\ ops < MaxOps /\ ops' = ops + 1

\* AgentHandler::add: the index of the new entry is its id from then on.
Add(a, x, fails) ==
  /\ Operates
  /\ a \in alive
  /\ Len(entries) < MaxEntries
  /\ entries' = Append(entries, Entry(a, x, fails))
  /\ Sent(stack, 0, DefineEvent(Len(entries)))
  /\ UNCHANGED <<alive, val, deps>>

\* AgentHandler::update, with another condition.
Update(i, x) ==
  /\ Operates
  /\ Live(i)
  /\ At(i).watch # x
  /\ entries' = [entries EXCEPT ![i + 1].watch = x, ![i + 1].asked = @ + 1]
  /\ Sent(stack, 0, DefineEvent(i))
  /\ UNCHANGED <<alive, val, deps>>

RemoveAgent_closesGap(a) ==
  /\ Operates
  /\ a \in alive
  /\ alive'   = alive \ {a}
  /\ entries' = SelectSeq(entries, LAMBDA e : e = Removed \/ e.agent # a)
  /\ stack'   = IF stack # <<>> /\ Top.agent = a THEN Front(stack) ELSE stack
  /\ UNCHANGED <<val, deps, queue, curq>>

RemoveAgent_keepsEntries(a) ==
  /\ Operates
  /\ a \in alive
  /\ alive'   = alive \ {a}
  /\ stack'   = IF stack # <<>> /\ Top.agent = a THEN Front(stack) ELSE stack
  /\ UNCHANGED <<entries, val, deps, queue, curq>>

\* ~BaseAgent: an agent is deleted, and its entries are set to 0.  An agent that
\* deletes itself returns.
RemoveAgent(a) ==
  /\ Operates
  /\ a \in alive
  /\ alive'   = alive \ {a}
  /\ entries' = [j \in DOMAIN entries |->
                   IF entries[j] # Removed /\ entries[j].agent = a THEN Removed ELSE entries[j]]
  /\ stack'   = IF stack # <<>> /\ Top.agent = a THEN Front(stack) ELSE stack
  /\ UNCHANGED <<val, deps, queue, curq>>

Waiting(c) == IF c = <<>> THEN c ELSE [c EXCEPT ![Len(c)].waited = TRUE]

SetAsync(x, v) ==
  /\ Operates
  /\ Sent(stack, 0, SetEvent(x, v))
  /\ UNCHANGED store

SetSync(x, v) ==
  /\ Operates
  /\ Sent(Append(Waiting(stack), Sync), 0, SetEvent(x, v))
  /\ UNCHANGED store

BodyReturn ==
  /\ Running("body") /\ Top.agent \in alive
  /\ stack' = Front(stack)
  /\ UNCHANGED <<store, queue, curq, ops>>

-----------------------------------------------------------------------------
(***************************************************************************)
(* The handlers.                                                           *)
(***************************************************************************)
\* A set notifies the entries registered with the attribute, and forgets them.
HandleSet ==
  LET e == Head(queue[0])
  IN  /\ Draining(0) /\ e.type = "SET"
      /\ \/ /\ val[e.attr] # e.v
            /\ val'   = [val EXCEPT ![e.attr] = e.v]
            /\ queue' = [Taken(0) EXCEPT ![1] = @ \o deps[e.attr]]
            /\ deps'  = [deps EXCEPT ![e.attr] = <<>>]
         \/ /\ val[e.attr] = e.v
            /\ queue' = Taken(0)
            /\ UNCHANGED <<val, deps>>
      /\ UNCHANGED <<entries, alive, curq, stack, ops>>

HandleOtherSet ==
  /\ Draining(0) /\ Head(queue[0]).type = "SET_OTHER"
  /\ queue' = Taken(0)
  /\ UNCHANGED <<store, curq, stack, ops>>

\* AgentHandler::handle of a DEFINE.
HandleDefine ==
  /\ Draining(0) /\ Head(queue[0]).type = "DEFINE"
  /\ queue' = [Taken(0) EXCEPT ![1] = Append(@, Head(queue[0]).id)]
  /\ UNCHANGED <<store, curq, stack, ops>>

HandleNotify_unregistered(fails) ==
  LET i == Head(queue[1])
  IN  /\ Draining(1)
      /\ \/ /\ ~Live(i) /\ ~fails
            /\ queue' = Taken(1)
            /\ UNCHANGED <<entries, stack>>
         \/ /\ Live(i) /\ (fails => At(i).fails)
            /\ queue' = Taken(1)
            /\ entries' = [entries EXCEPT ![i + 1].seen = val[At(i).watch]]
            /\ stack' = stack \o
                 IF fails THEN <<Evaluation(i, Null, TRUE), Failing(ErrorSets)>>
                          ELSE <<Evaluation(i, val[At(i).watch], FALSE)>>
      /\ UNCHANGED <<alive, val, deps, curq, ops>>

\* AgentHandler::handle of a NOTIFY: the condition of an entry that is still there is
\* evaluated.  It reads the attribute, sends the dependency, and goes on; an error
\* drains the queues, and the result is Null.
HandleNotify(fails) ==
  LET i == Head(queue[1])
  IN  /\ Draining(1)
      /\ \/ /\ ~Live(i) /\ ~fails
            /\ queue' = Taken(1)
            /\ UNCHANGED <<entries, stack>>
         \/ /\ Live(i) /\ (fails => At(i).fails)
            /\ queue' = [Taken(1) EXCEPT ![2] = Append(@, Dep(At(i).watch, i))]
            /\ entries' = [entries EXCEPT ![i + 1].seen = val[At(i).watch]]
            /\ stack' = stack \o
                 IF fails THEN <<Evaluation(i, Null, TRUE), Failing(ErrorSets)>>
                          ELSE <<Evaluation(i, val[At(i).watch], FALSE)>>
      /\ UNCHANGED <<alive, val, deps, curq, ops>>

\* An Error makes synchronous sets of attributes of its own.
ErrorSet ==
  /\ Running("error") /\ Top.n > 0
  /\ Sent(Front(stack) \o <<Failing(Top.n - 1), Sync>>, 0, OtherSet)
  /\ UNCHANGED <<store, ops>>

ErrorDone ==
  /\ Running("error") /\ Top.n = 0
  /\ stack' = Front(stack)
  /\ UNCHANGED <<store, queue, curq, ops>>

\* The condition has been evaluated.  The entry is looked up again: its flags and the
\* result say whether its agent is called.
CallAgent ==
  /\ Running("eval")
  /\ Live(Top.id)
  /\ LET a == At(Top.id).agent
     IN  stack' = Front(stack) \o
                  IF a \in Conditional /\ Top.res # True THEN <<>> ELSE <<Body(Top.id, a)>>
  /\ UNCHANGED <<store, queue, curq, ops>>

\* addDependent: the newest first, and only once, so one other of it at most has to go.
AddDependent(ds, i) == <<i>> \o RemoveFirst(ds, i)

HandleDep ==
  LET e == Head(queue[2])
  IN  /\ Draining(2)
      /\ queue' = Taken(2)
      /\ deps'  = [deps EXCEPT ![e.attr] = AddDependent(@, e.id)]
      /\ UNCHANGED <<entries, alive, val, curq, stack, ops>>

-----------------------------------------------------------------------------
(***************************************************************************)
(* The instants.                                                           *)
(***************************************************************************)
NextPhase_stopsEarly ==
  /\ Running("instant") /\ queue[Top.q] = <<>>
  /\ \/ Top.q < 1 /\ curq' = Top.q + 1 /\ stack' = Append(Front(stack), Instant(Top.q + 1))
     \/ Top.q = 1 /\ curq' = -1 /\ stack' = Front(stack)
  /\ UNCHANGED <<store, queue, ops>>

NextPhase ==
  /\ Running("instant") /\ queue[Top.q] = <<>>
  /\ \/ Top.q < 2 /\ curq' = Top.q + 1 /\ stack' = Append(Front(stack), Instant(Top.q + 1))
     \/ Top.q = 2 /\ curq' = -1 /\ stack' = Front(stack)
  /\ UNCHANGED <<store, queue, ops>>

RemainingPhase ==
  /\ Running("remaining") /\ queue[Top.q] = <<>>
  /\ \/ Top.q = 1 /\ curq' = 2 /\ stack' = Append(Front(stack), Remaining(2))
     \/ Top.q = 2 /\ queue[0] # <<>> /\ curq' = 0 /\ stack' = Append(Front(stack), Remaining(0))
     \/ Top.q = 2 /\ queue[0] = <<>> /\ curq' = -1 /\ stack' = Front(stack)
     \/ Top.q = 0 /\ curq' = 1 /\ stack' = Front(stack)
  /\ UNCHANGED <<store, queue, ops>>

SyncRemaining ==
  /\ Running("sync")
  /\ IF curq = 1 THEN stack' = Append(Front(stack), Remaining(1)) /\ UNCHANGED curq
                 ELSE ProcessInstant(Front(stack))
  /\ UNCHANGED <<store, queue, ops>>

\* The main program's loop: processAll.
ProcessAll ==
  /\ stack = <<>> /\ queue[0] # <<>>
  /\ ProcessInstant(stack)
  /\ UNCHANGED <<store, queue, ops>>

Machine ==
  \/ HandleSet \/ HandleOtherSet \/ HandleDefine \/ HandleDep
  \/ \E fails \in BOOLEAN : HandleNotify(fails)
  \/ ErrorSet \/ ErrorDone \/ CallAgent \/ BodyReturn
  \/ NextPhase \/ RemainingPhase \/ SyncRemaining \/ ProcessAll

Next ==
  \/ Machine
  \/ \E a \in Agent, x \in Attr, fails \in BOOLEAN : Add(a, x, fails)
  \/ \E i \in EntryId, x \in Attr : Update(i, x)
  \/ \E a \in Agent : RemoveAgent(a)
  \/ \E x \in Attr, v \in Value : SetAsync(x, v) \/ SetSync(x, v)

Spec == Init /\ [][Next]_vars /\ WF_vars(Machine)

-----------------------------------------------------------------------------
(***************************************************************************)
(* Properties.                                                             *)
(***************************************************************************)
EntryRecord ==
  [agent : Agent, watch : Attr, fails : BOOLEAN, asked : 1 .. MaxOps, seen : Value]
Event(k) ==
  CASE k = 0 -> [type : {"SET"}, attr : Attr, v : Value] \cup [type : {"DEFINE"}, id : EntryId]
                \cup {OtherSet}
    [] k = 1 -> EntryId
    [] k = 2 -> [attr : Attr, id : EntryId]
Frame ==
  [at : {"instant", "remaining"}, q : 0 .. 2] \cup {Sync} \cup [at : {"error"}, n : 0 .. ErrorSets]
  \cup [at : {"eval"}, id : EntryId, res : Value, waited : BOOLEAN]
  \cup [at : {"body"}, id : EntryId, agent : Agent, waited : BOOLEAN]

\* The variables have the types their declarations give them, and every event is
\* in the queue its type belongs to.
TypeOK ==
  /\ entries \in Seq(EntryRecord \cup {Removed})
  /\ Len(entries) <= MaxEntries
  /\ alive \subseteq Agent
  /\ val \in [Attr -> Value]
  /\ deps \in [Attr -> Seq(EntryId)]
  /\ \A k \in 0 .. 2 : queue[k] \in Seq(Event(k))
  /\ curq \in -1 .. 2
  /\ stack \in Seq(Frame)
  /\ ops \in 0 .. MaxOps

\* Agents miss no change: when nothing is running or queued, the condition of every
\* entry was last evaluated on the value its attribute has now, and the entry is
\* registered for the next change, whatever its agent and others did meanwhile.
AgentsInformed ==
  Quiet =>
    \A i \in EntryId :
      Live(i) => /\ At(i).seen = val[At(i).watch]
                 /\ i \in ToSet(deps[At(i).watch])

\* How often an element of T is in s.
Count(s, T) == Cardinality({j \in DOMAIN s : s[j] \in T})

\* What can still lead to an evaluation of entry i: its DEFINE, its notification, the
\* dependency of an evaluation, and its registrations.
Tokens(i) ==
  Count(queue[0], {DefineEvent(i)}) + Count(queue[1], {i}) + Count(queue[2], [attr : Attr, id : {i}])
  + Cardinality({x \in Attr : i \in ToSet(deps[x])})

\* An entry is neither forgotten nor called twice for one change: it is registered
\* with an attribute once, one thing leads to its next evaluation, and at most one
\* more for every update.
OneWakeup ==
  /\ \A x \in Attr : IsInjective(deps[x])
  /\ \A i \in EntryId : Live(i) => Tokens(i) \in 1 .. At(i).asked

\* The code goes on with an entry, or with an agent, that is gone.
Faulted == \/ Running("eval") /\ ~Live(Top.id)
           \/ Running("body") /\ Top.agent \notin alive

\* That takes a nested drain, of a synchronous set by the agent or of an error in
\* its condition: an agent that makes none may delete, and be deleted by, any other.
FaultsNeedDrain == Faulted => Top.waited

\* The agents and the main program always come to rest, or to a fault.
ComesToRest == []<>(Quiet \/ Faulted)

\* agent.h: an agent's destructor removes it, after which nothing calls it.
RemovedIsNotUsed == ~Faulted
=============================================================================
