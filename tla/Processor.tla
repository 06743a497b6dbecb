------------------------------ MODULE Processor ------------------------------
(***************************************************************************)
(* The event processor of the virtual machine (core/processor.cpp): three  *)
(* ring queues, the instant that drains them in order, and the nested      *)
(* draining (processRemaining) that a synchronous set runs from inside an  *)
(* event handler.                                                          *)
(*                                                                         *)
(* Everything runs on one thread.  What makes the component hard is that   *)
(* it is re-entrant: a handler called from processQueue may send and may   *)
(* call processRemaining, which calls processQueue again on the same ring. *)
(* The call stack is therefore part of the state.  What a handler does to  *)
(* the object store is left to the other modules; here a handler sends any *)
(* events of the queues its kind of handler sends to, synchronously or     *)
(* not, and returns.                                                       *)
(*                                                                         *)
(* An event is the number of its send among the sends to its queue.        *)
(***************************************************************************)
EXTENDS Integers, SequencesExt

CONSTANTS
  QueueSize,   \* QUEUE_SIZE, the slots of one ring
  LiveEvents,  \* the events that can be queued at once (the event pool's limit)
  MaxSends,    \* bound of the model: the sends to each queue in a behaviour
  MainEmits    \* the queues that code outside every handler sends to

QueueId == 0 .. 2

ASSUME QueueSizeAssumption  == QueueSize \in Nat \ {0, 1}
ASSUME LiveEventsAssumption == LiveEvents \in Nat
ASSUME MaxSendsAssumption   == MaxSends \in Nat
ASSUME MainEmitsAssumption  == MainEmits \subseteq QueueId

VARIABLES
  slots,   \* slots[k][i]: the event in slot i of ring k
  get,     \* get[k]: the index of the oldest event of ring k
  put,     \* put[k]: the index the next event of ring k is written to
  idle,    \* s_idle: no instant is running
  curq,    \* the queue being drained, or -1
  stack,   \* the calls in progress, the innermost last
  sent,    \* history: the number of events sent to each queue
  routed   \* history: the number of events of each queue given to a handler

vars == <<slots, get, put, idle, curq, stack, sent, routed>>

-----------------------------------------------------------------------------
(***************************************************************************)
(* The call stack.  A frame is one of                                      *)
(*   instant    processInstant, draining queue q                           *)
(*   remaining  processRemaining, draining queue q                         *)
(*   handler    Handler::route of event n of queue q                       *)
(*   sync       a synchronous set that has sent its SET event n and has    *)
(*              not called processRemaining yet                            *)
(*   wait       the same set inside processRemaining; q is the value curq  *)
(*              had at the call                                            *)
(*   all        processAll, between two instants                           *)
(* An empty stack is code outside every handler.                           *)
(***************************************************************************)
FrameKind == {"instant", "remaining", "handler", "sync", "wait", "all"}
Frame     == [at : FrameKind, q : -1 .. 2, n : 0 .. MaxSends]

Call(at, q, n) == [at |-> at, q |-> q, n |-> n]
Top            == Last(stack)
Running(at)    == stack # <<>> /\ Top.at = at
IsLoop(f)      == f.at \in {"instant", "remaining"}
Return         == stack' = Front(stack)

(***************************************************************************)
(* The queues the handlers of each queue send to.  A SET or DEFINE notifies*)
(* dependents (queue 1); a NOTIFY evaluates a definition, which registers  *)
(* dependencies (queue 2) and sets the result (queue 0), or runs an agent. *)
(* Any event that no handler takes makes Handler::route set a warning in   *)
(* the root object, so each kind of handler may send to queue 0.           *)
(***************************************************************************)
Emits == [k \in QueueId |-> CASE k = 0 -> {0, 1}
                              [] k = 1 -> {0, 1, 2}
                              [] k = 2 -> {0}]

-----------------------------------------------------------------------------
(***************************************************************************)
(* The rings.                                                              *)
(***************************************************************************)
\* The index after i, as send computes it and as processQueue computes it.
PutNext(i)        == (i + 1) % QueueSize
GetNext(i)        == IF i + 1 = QueueSize THEN 0 ELSE i + 1

\* processQueue's test: the ring is empty when the two indices meet.
Empty(k) == get[k] = put[k]

\* queueSize: the sum of the differences of the indices.
QueueSum == (put[0] - get[0]) + (put[1] - get[1]) + (put[2] - get[2])

\* The slots from index g up to index p, and the number of events in ring k.
Distance(g, p) == IF p >= g THEN p - g ELSE p - g + QueueSize
Wrap(i)        == IF i >= QueueSize THEN i - QueueSize ELSE i
Queued(k)      == Distance(get[k], put[k])

\* The events sent and not routed yet.
Pending(k) == sent[k] - routed[k]

-----------------------------------------------------------------------------
Init ==
  /\ slots  = [k \in QueueId |-> [i \in 0 .. QueueSize - 1 |-> 0]]
  /\ get    = [k \in QueueId |-> 0]
  /\ put    = [k \in QueueId |-> 0]
  /\ idle   = TRUE
  /\ curq   = -1
  /\ stack  = <<>>
  /\ sent   = [k \in QueueId |-> 0]
  /\ routed = [k \in QueueId |-> 0]

\* Code that can send is running: the main program, or a handler of a queue
\* whose handlers send to k.  The number of events alive is the pool's limit.
MaySend(k) ==
  /\ \/ stack = <<>> /\ k \in MainEmits
     \/ Running("handler") /\ k \in Emits[Top.q]
  /\ sent[k] < MaxSends
  /\ Pending(0) + Pending(1) + Pending(2) < LiveEvents

Enqueue_afterPut(k) ==
  /\ slots' = [slots EXCEPT ![k][PutNext(put[k])] = sent[k] + 1]
  /\ put'   = [put EXCEPT ![k] = PutNext(put[k])]
  /\ sent'  = [sent EXCEPT ![k] = @ + 1]
  /\ UNCHANGED <<get, routed>>

\* send, up to the call of processInstant.  Nothing looks at get: a ring that
\* fills up looks empty.
Enqueue(k) ==
  /\ slots' = [slots EXCEPT ![k][put[k]] = sent[k] + 1]
  /\ put'   = [put EXCEPT ![k] = PutNext(put[k])]
  /\ sent'  = [sent EXCEPT ![k] = @ + 1]
  /\ UNCHANGED <<get, routed>>

\* processInstant is called with the calls c in progress: it returns at once
\* when an instant is running and drains queue 0 first otherwise.
EnterInstant_always(c) ==
  /\ idle'  = FALSE
  /\ curq'  = 0
  /\ stack' = Append(c, Call("instant", 0, 0))

EnterInstant(c) ==
  IF idle THEN /\ idle'  = FALSE
               /\ curq'  = 0
               /\ stack' = Append(c, Call("instant", 0, 0))
          ELSE /\ stack' = c
               /\ UNCHANGED <<idle, curq>>

\* Processor::send of an event of queue k.
Send(k) ==
  /\ MaySend(k)
  /\ Enqueue(k)
  /\ EnterInstant(stack)

\* OID::set, define, definefuture or flags with async = false: the event is
\* sent, which may run a whole instant, and then processRemaining is called.
SyncSet ==
  /\ MaySend(0)
  /\ Enqueue(0)
  /\ EnterInstant(Append(stack, Call("sync", curq, sent[0] + 1)))

\* processRemaining is called: inside the notify phase it drains the rest of
\* the phases; anywhere else it is processInstant.
CallRemaining ==
  /\ Running("sync")
  /\ LET c == Append(Front(stack), Call("wait", curq, Top.n))
     IN  IF curq = 1
         THEN /\ stack' = Append(c, Call("remaining", 1, 0))
              /\ UNCHANGED <<idle, curq>>
         ELSE EnterInstant(c)
  /\ UNCHANGED <<slots, get, put, sent, routed>>

SyncReturn ==
  /\ Running("wait")
  /\ Return
  /\ UNCHANGED <<slots, get, put, idle, curq, sent, routed>>

\* Processor::processAll, called outside every handler: instants until the
\* queues are empty.
ProcessAll ==
  /\ stack = <<>>
  /\ EnterInstant(<<Call("all", -1, 0)>>)
  /\ UNCHANGED <<slots, get, put, sent, routed>>

ProcessAllAgain ==
  /\ Running("all")
  /\ IF QueueSum # 0 THEN EnterInstant(stack) ELSE Return /\ UNCHANGED <<idle, curq>>
  /\ UNCHANGED <<slots, get, put, sent, routed>>

\* processQueue takes the oldest event of the queue being drained and routes it.
Route ==
  /\ stack # <<>>
  /\ IsLoop(Top)
  /\ LET k == Top.q
     IN  /\ ~Empty(k)
         /\ get'    = [get EXCEPT ![k] = GetNext(@)]
         /\ routed' = [routed EXCEPT ![k] = @ + 1]
         /\ stack'  = Append(stack, Call("handler", k, slots[k][get[k]]))
  /\ UNCHANGED <<slots, put, idle, curq, sent>>

HandlerReturn ==
  /\ Running("handler")
  /\ Return
  /\ UNCHANGED <<slots, get, put, idle, curq, sent, routed>>

InstantPhase_notifyLast ==
  /\ Running("instant")
  /\ Empty(Top.q)
  /\ LET next == CASE Top.q = 0 -> 2 [] Top.q = 2 -> 1 [] Top.q = 1 -> -1
     IN  /\ curq' = next
         /\ idle' = (next = -1)
         /\ stack' = IF next = -1 THEN Front(stack)
                                  ELSE Append(Front(stack), Call("instant", next, 0))
  /\ UNCHANGED <<slots, get, put, sent, routed>>

\* The instant goes on to the next queue when the one it drains is empty.
InstantPhase ==
  /\ Running("instant")
  /\ Empty(Top.q)
  /\ IF Top.q < 2
     THEN /\ stack' = Append(Front(stack), Call("instant", Top.q + 1, 0))
          /\ curq'  = Top.q + 1
          /\ UNCHANGED idle
     ELSE /\ Return
          /\ curq'  = -1
          /\ idle'  = TRUE
  /\ UNCHANGED <<slots, get, put, sent, routed>>

\* processRemaining goes from the notifications to the dependencies and, when
\* anything is queued then, on to the sets.
RemainingPhase_setsBeforeDeps ==
  /\ Running("remaining")
  /\ Empty(Top.q)
  /\ \/ /\ Top.q = 1
        /\ stack' = Append(Front(stack), Call("remaining", 0, 0))
        /\ curq'  = 0
     \/ /\ Top.q = 0
        /\ Return
        /\ curq'  = 1
  /\ UNCHANGED <<slots, get, put, idle, sent, routed>>

RemainingPhase_skipsSets ==
  /\ Running("remaining")
  /\ Empty(Top.q)
  /\ \/ /\ Top.q = 1
        /\ stack' = Append(Front(stack), Call("remaining", 2, 0))
        /\ curq'  = 2
     \/ /\ Top.q = 2
        /\ Return
        /\ curq'  = 1
  /\ UNCHANGED <<slots, get, put, idle, sent, routed>>

RemainingPhase ==
  /\ Running("remaining")
  /\ Empty(Top.q)
  /\ \/ /\ Top.q = 1
        /\ stack' = Append(Front(stack), Call("remaining", 2, 0))
        /\ curq'  = 2
     \/ /\ Top.q = 2 /\ QueueSum # 0
        /\ stack' = Append(Front(stack), Call("remaining", 0, 0))
        /\ curq'  = 0
     \/ /\ Top.q = 2 /\ QueueSum = 0
        /\ Return
        /\ curq'  = -1
     \/ /\ Top.q = 0
        /\ Return
        /\ curq'  = 1
  /\ UNCHANGED <<slots, get, put, idle, sent, routed>>

Next ==
  \/ \E k \in QueueId : Send(k)
  \/ SyncSet \/ CallRemaining \/ SyncReturn
  \/ ProcessAll \/ ProcessAllAgain
  \/ Route \/ HandlerReturn \/ InstantPhase \/ RemainingPhase

Spec == Init /\ [][Next]_vars

-----------------------------------------------------------------------------
(***************************************************************************)
(* Properties.                                                             *)
(***************************************************************************)

\* The variables have the types their declarations give them.
TypeOK ==
  /\ slots  \in [QueueId -> [0 .. QueueSize - 1 -> 0 .. MaxSends]]
  /\ get    \in [QueueId -> 0 .. QueueSize - 1]
  /\ put    \in [QueueId -> 0 .. QueueSize - 1]
  /\ idle   \in BOOLEAN
  /\ curq   \in -1 .. 2
  /\ stack  \in Seq(Frame)
  /\ sent   \in [QueueId -> 0 .. MaxSends]
  /\ routed \in [QueueId -> 0 .. MaxSends]

\* No event is lost, repeated or overtaken: however sends and nested drains
\* interleave, the slots between the two indices of a ring hold exactly the
\* events that were sent and not routed, in the order they were sent.
NoEventLost ==
  \A k \in QueueId :
    /\ Queued(k) = Pending(k)
    /\ \A j \in 0 .. Queued(k) - 1 : slots[k][Wrap(get[k] + j)] = routed[k] + 1 + j

\* When no instant is running no notification and no dependency is queued: an
\* instant, however many nested drains it contained, leaves only sets behind.
OnlySetsLeft == idle => Pending(1) = 0 /\ Pending(2) = 0

\* A set is routed only when every dependency sent before has been registered,
\* so that the set notifies the definitions that were evaluated before it.  This holds for
\* main programs that send no dependency themselves (2 \notin MainEmits): one outside of
\* any instant may be queued behind a set, the case of FunctionsEvaluateOnRead of VStore.
DependenciesBeforeSets ==
  [][routed'[0] # routed[0] => Pending(2) = 0]_vars

\* A synchronous set called in the notify phase has taken effect when it
\* returns: its event has been routed.
SyncSetInNotifyPhase ==
  Running("wait") /\ Top.q = 1 => routed[0] >= Top.n

\* The nesting of the calls: outside an instant nothing but a synchronous set or
\* processAll is in progress, an instant is never nested in an instant, and
\* above a loop that drains the sets or the dependencies there are only that
\* queue's handlers and the synchronous sets they made.
NestingInv ==
  /\ idle => /\ curq = -1
             /\ Len(stack) <= 1
             /\ \A i \in 1 .. Len(stack) : stack[i].at \in {"sync", "wait", "all"}
  /\ \A i \in 1 .. Len(stack) :
       /\ IsLoop(stack[i]) \/ stack[i].at = "handler" => stack[i].q \in QueueId
       /\ stack[i].at = "instant" =>
            /\ i <= 2
            /\ i = 2 => stack[1].at \in {"sync", "wait", "all"}
       /\ IsLoop(stack[i]) /\ stack[i].q # 1 =>
            /\ curq = stack[i].q
            /\ \A j \in i + 1 .. Len(stack) :
                 /\ stack[j].at \in {"handler", "sync", "wait"}
                 /\ stack[j].q = stack[i].q

\* The events in ring k, the oldest first.
Contents(k) == [j \in 1 .. Queued(k) |-> slots[k][Wrap(get[k] + j - 1)]]

Queues ==
  INSTANCE EventQueues WITH
    Capacity <- LiveEvents, queue <- [k \in QueueId |-> Contents(k)], busy <- ~idle

\* To their callers the rings and the nested drains are three queues: events leave
\* each in the order they came, only while an instant runs, and an instant ends
\* when only sets wait.
ImplementsQueues == Queues!Spec

\* oid.h and processor.h: a synchronous set made by a handler of a notification
\* blocks until done, so its event has been routed when it returns.
SyncSetBlocksUntilDone ==
  Running("wait") /\ Len(stack) > 1 =>
    LET caller == stack[Len(stack) - 1]
    IN  caller.at = "handler" /\ caller.q = 1 => routed[0] >= Top.n

\* event.h and processor.h: send is non-blocking, it adds the event to its queue
\* and returns.  It starts no instant on its caller's stack.
SendIsNonBlocking ==
  [][sent' # sent => \A i \in DOMAIN stack' \ DOMAIN stack : stack'[i].at # "instant"]_vars
=============================================================================
