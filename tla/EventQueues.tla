----------------------------- MODULE EventQueues -----------------------------
(***************************************************************************)
(* What the event processor promises its callers, with no rings, call      *)
(* stack or nested drains: three first-in first-out queues that hold every *)
(* event until it is routed, are routed from only while an instant runs,   *)
(* and of which only the sets may wait between instants.                   *)
(*                                                                         *)
(* Processor implements this specification.                                *)
(***************************************************************************)
EXTENDS Integers, Sequences

CONSTANT Capacity  \* the number of events alive at once

QueueId == 0 .. 2

VARIABLES
  queue,   \* queue[k]: the events of queue k that wait, the oldest first
  sent,    \* sent[k]: the number of events sent to queue k
  busy     \* an instant is running

vars == <<queue, sent, busy>>

Init ==
  /\ queue = [k \in QueueId |-> <<>>]
  /\ sent  = [k \in QueueId |-> 0]
  /\ busy  = FALSE

\* An event goes to the end of its queue, and starts an instant if none runs.
Put(k) ==
  /\ Len(queue[0]) + Len(queue[1]) + Len(queue[2]) < Capacity
  /\ queue' = [queue EXCEPT ![k] = Append(@, sent[k] + 1)]
  /\ sent'  = [sent EXCEPT ![k] = @ + 1]
  /\ busy'  = TRUE

\* The oldest event of a queue is given to its handler.
Take(k) ==
  /\ busy
  /\ queue[k] # <<>>
  /\ queue' = [queue EXCEPT ![k] = Tail(@)]
  /\ UNCHANGED <<sent, busy>>

\* An instant starts without an event, to route sets left over from the last.
Start ==
  /\ busy' = TRUE
  /\ UNCHANGED <<queue, sent>>

\* An instant ends when no notification and no dependency waits.
Rest ==
  /\ queue[1] = <<>>
  /\ queue[2] = <<>>
  /\ busy' = FALSE
  /\ UNCHANGED <<queue, sent>>

Next ==
  \/ \E k \in QueueId : Put(k) \/ Take(k)
  \/ Start
  \/ Rest

Spec == Init /\ [][Next]_vars
=============================================================================
