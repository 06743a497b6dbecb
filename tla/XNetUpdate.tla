----------------------------- MODULE XNetUpdate ------------------------------
(***************************************************************************)
(* Peers that poll their connections (XNetConnection::update and data) and *)
(* call each other (XNetHandler::handle, XNetProtocol::onEvent).           *)
(*                                                                         *)
(* There is one thread in a peer.  A call that needs an answer polls all   *)
(* connections until it is there; an event that is read meanwhile is       *)
(* handled on the same stack and may need answers of its own.  The sets    *)
(* that select fills are static: a nested update changes them under the    *)
(* loop of the outer one, which goes on with what the nested one left.     *)
(*                                                                         *)
(* A message is one event or result; its bytes arrive together.  Events    *)
(* that need no answer keep nobody waiting and are left out.  A connection *)
(* is known by the peer at its other end.                                  *)
(***************************************************************************)
EXTENDS Integers, Sequences, FiniteSets

CONSTANTS
  Peers,           \* the programs
  Links,        \* <<p, q>> if p has an object that connects to q
  Closing,      \* the links whose object may be told to disconnect
  Tables,       \* the slots other connections may have left in the peers' tables
  UpdateLimit,  \* the 100 in update
  MaxCalls      \* bound of the model: the events that are sent

ASSUME LinksAssumption ==
  /\ Closing \subseteq Links /\ Links \subseteq Peers \X Peers
  /\ \A p, q \in Peers : ~(<<p, q>> \in Links /\ <<q, p>> \in Links)
ASSUME TablesAssumption  == Tables \subseteq [Peers -> Nat]
ASSUME NumbersAssumption == {UpdateLimit, MaxCalls} \subseteq Nat

VARIABLES
  stack,     \* stack[p]: the functions p is in, the innermost last
  chan,      \* chan[p][q]: what p has sent to q and q has not read
  slots,     \* slots[p]: the slots of s_conns that p has for these connections
  conns,     \* conns[p]: those connections, in the order of the slots
  backlog,   \* backlog[p]: who has connected to p and is not accepted
  ready,     \* ready[p]: s_fdread, without the listening socket
  closed,    \* <<p, q>> if p has closed its socket to q
  calls,     \* the events sent so far: from whom, to whom
  answered,  \* the calls whose answer has been read
  overrun    \* an update that was nested in another one has ended at its limit

vars == <<slots, stack, chan, conns, backlog, ready, closed, calls, answered, overrun>>

Wait(c)      == [at |-> "wait", call |-> c]
Serve(c)     == [at |-> "serve", call |-> c]
Update(i, n) == [at |-> "update", slot |-> i, count |-> n]
Ask(c)       == [kind |-> "ask", call |-> c]
Answer(c)    == [kind |-> "answer", call |-> c]

Members(s) == {s[i] : i \in DOMAIN s}
Idle(p)    == stack[p] = <<>>
Top(p)     == stack[p][Len(stack[p])]
Below(p)   == SubSeq(stack[p], 1, Len(stack[p]) - 1)
In(p, f)   == ~Idle(p) /\ Top(p).at = f

-----------------------------------------------------------------------------
Init ==
  /\ slots \in Tables
  /\ stack    = [p \in Peers |-> <<>>]
  /\ chan     = [p \in Peers |-> [q \in Peers |-> <<>>]]
  /\ conns    = [p \in Peers |-> <<>>]
  /\ backlog  = [p \in Peers |-> <<>>]
  /\ ready    = [p \in Peers |-> {}]
  /\ closed   = {}
  /\ calls    = <<>>
  /\ answered = {}
  /\ overrun  = FALSE

\* connect makes the connection; without a slot for it nothing will read it.
Connect(p, q) ==
  /\ Idle(p) /\ <<p, q>> \in Links
  /\ p \notin Members(backlog[q]) \cup Members(conns[q])
  /\ backlog' = [backlog EXCEPT ![q] = Append(@, p)]
  /\ \/ /\ Len(conns[p]) < slots[p]
        /\ conns' = [conns EXCEPT ![p] = Append(@, q)]
     \/ /\ Len(conns[p]) >= slots[p]
        /\ UNCHANGED conns
  /\ UNCHANGED <<slots, stack, chan, ready, closed, calls, answered, overrun>>

\* A message to a connection that either end has closed is lost.
Sent(p, q, m) ==
  IF <<p, q>> \in closed \/ <<q, p>> \in closed THEN chan
  ELSE [chan EXCEPT ![p][q] = Append(@, m)]

\* The main program, or the handler of an event, sends an event to another peer.
Call(p, q) ==
  LET c == Len(calls) + 1
  IN  /\ Idle(p) \/ In(p, "serve")
      /\ q \in Members(conns[p]) /\ c <= MaxCalls
      /\ calls' = Append(calls, [from |-> p, to |-> q])
      /\ chan'  = Sent(p, q, Ask(c))
      /\ stack' = [stack EXCEPT ![p] = Append(@, Wait(c))]
      /\ UNCHANGED <<slots, conns, backlog, ready, closed, answered, overrun>>

\* The handler of an event is done and the result goes back.
Finish(p) ==
  /\ In(p, "serve")
  /\ chan'  = Sent(p, calls[Top(p).call].from, Answer(Top(p).call))
  /\ stack' = [stack EXCEPT ![p] = Below(p)]
  /\ UNCHANGED <<slots, conns, backlog, ready, closed, calls, answered, overrun>>

\* The loop around update ends when the answer is there.
Return(p) ==
  /\ In(p, "wait") /\ Top(p).call \in answered
  /\ stack' = [stack EXCEPT ![p] = Below(p)]
  /\ UNCHANGED <<slots, chan, conns, backlog, ready, closed, calls, answered, overrun>>

\* The connection object is told to disconnect: what it has not read is lost.
Close(p, q) ==
  /\ Idle(p) \/ In(p, "serve")
  /\ <<p, q>> \in Closing \ closed /\ q \in Members(conns[p])
  /\ closed' = closed \cup {<<p, q>>}
  /\ chan'   = [chan EXCEPT ![q][p] = <<>>]
  /\ UNCHANGED <<slots, stack, conns, backlog, ready, calls, answered, overrun>>

-----------------------------------------------------------------------------
(***************************************************************************)
(* update.                                                                 *)
(***************************************************************************)
AtEnd(p, q)    == chan[q][p] = <<>> /\ <<q, p>> \in closed
Readable(p)    == {q \in Members(conns[p]) : <<p, q>> \notin closed
                                             /\ (chan[q][p] # <<>> \/ AtEnd(p, q))}

Full(p) == Len(conns[p]) >= slots[p]

\* Mutant: the sets are left alone when there is nothing to read.
Round_keepsSets(p, below, n, r, connecting) ==
  /\ ready' = IF r = {} /\ ~connecting THEN ready ELSE [ready EXCEPT ![p] = r]
  /\ \/ /\ r = {} /\ ~connecting
        /\ stack' = [stack EXCEPT ![p] = below]
        /\ UNCHANGED <<conns, backlog>>
     \/ /\ connecting /\ Full(p)
        /\ stack' = [stack EXCEPT ![p] = below]
        /\ UNCHANGED <<conns, backlog>>
     \/ /\ connecting /\ ~Full(p)
        /\ conns'   = [conns EXCEPT ![p] = Append(@, Head(backlog[p]))]
        /\ backlog' = [backlog EXCEPT ![p] = Tail(@)]
        /\ stack'   = [stack EXCEPT ![p] = Append(below, Update(1, n))]
     \/ /\ r # {} /\ ~connecting
        /\ stack' = [stack EXCEPT ![p] = Append(below, Update(1, n))]
        /\ UNCHANGED <<conns, backlog>>
  /\ UNCHANGED <<slots, chan, closed, calls, answered>>

\* One round of the loop, from select to the first slot, with the rest of the stack below:
\* select finds the connections r, and a new one if connecting.
Round(p, below, n, r, connecting) ==
  /\ ready' = [ready EXCEPT ![p] = r]
  /\ \/ /\ r = {} /\ ~connecting
        /\ stack' = [stack EXCEPT ![p] = below]
        /\ UNCHANGED <<conns, backlog>>
     \/ /\ connecting /\ Full(p)
        /\ stack' = [stack EXCEPT ![p] = below]
        /\ UNCHANGED <<conns, backlog>>
     \/ /\ connecting /\ ~Full(p)
        /\ conns'   = [conns EXCEPT ![p] = Append(@, Head(backlog[p]))]
        /\ backlog' = [backlog EXCEPT ![p] = Tail(@)]
        /\ stack'   = [stack EXCEPT ![p] = Append(below, Update(1, n))]
     \/ /\ r # {} /\ ~connecting
        /\ stack' = [stack EXCEPT ![p] = Append(below, Update(1, n))]
        /\ UNCHANGED <<conns, backlog>>
  /\ UNCHANGED <<slots, chan, closed, calls, answered>>

\* What is sent may not have arrived yet: select finds any part of it.
Rounds(p, below, n) ==
  \E r \in SUBSET Readable(p), connecting \in {FALSE, backlog[p] # <<>>} :
    Round(p, below, n, r, connecting)

\* Mutant: update is not nested.
Polls_notNested(p) ==
  ~(\E f \in Members(stack[p]) : f.at = "update")
  /\ (Idle(p) \/ (In(p, "wait") /\ Top(p).call \notin answered))

\* The main loop, and the loop of a call that waits, call update.
Polls(p) == Idle(p) \/ (In(p, "wait") /\ Top(p).call \notin answered)
Poll(p)  == Polls(p) /\ Rounds(p, stack[p], 1) /\ UNCHANGED overrun

\* Mutant: a slot is left out.
Slots_fromNext(p) == {i \in DOMAIN conns[p] : /\ Top(p).slot < i
                                              /\ <<p, conns[p][i]>> \notin closed
                                              /\ conns[p][i] \in ready[p]}

\* The slots the loop has still to read.
Slots(p) == {i \in DOMAIN conns[p] : /\ Top(p).slot <= i
                                     /\ <<p, conns[p][i]>> \notin closed
                                     /\ conns[p][i] \in ready[p]}
NextSlot(p) == CHOOSE i \in Slots(p) : \A j \in Slots(p) : i <= j

\* data: an event is handled on top of the loop.  The end of a connection reads as nothing,
\* and the header of a message that is not there is waited for.
Data(p) ==
  /\ In(p, "update") /\ Slots(p) # {}
  /\ LET i == NextSlot(p)
         q == conns[p][i]
         m == Head(chan[q][p])
         loop == Append(Below(p), Update(i + 1, Top(p).count))
     IN  \/ /\ AtEnd(p, q)
            /\ stack' = [stack EXCEPT ![p] = loop]
            /\ UNCHANGED <<chan, answered>>
         \/ /\ chan[q][p] # <<>>
            /\ chan' = [chan EXCEPT ![q][p] = Tail(@)]
            /\ \/ /\ m.kind = "ask"
                  /\ stack' = [stack EXCEPT ![p] = Append(loop, Serve(m.call))]
                  /\ UNCHANGED answered
               \/ /\ m.kind = "answer"
                  /\ stack' = [stack EXCEPT ![p] = loop]
                  /\ answered' = answered \cup {m.call}
  /\ UNCHANGED <<slots, conns, backlog, ready, closed, calls, overrun>>

\* All slots are read: the loop goes round, or gives up.
Loop(p) ==
  /\ In(p, "update") /\ Slots(p) = {}
  /\ \/ /\ Top(p).count <= UpdateLimit
        /\ Rounds(p, Below(p), Top(p).count + 1)
        /\ UNCHANGED overrun
     \/ /\ Top(p).count > UpdateLimit
        /\ stack'   = [stack EXCEPT ![p] = Below(p)]
        /\ overrun' = (overrun \/ \E f \in Members(Below(p)) : f.at = "update")
        /\ UNCHANGED <<slots, chan, conns, backlog, ready, closed, calls, answered>>

-----------------------------------------------------------------------------
\* What p does by itself, and what its program may do.
Step(p) == Finish(p) \/ Return(p) \/ Poll(p) \/ Data(p) \/ Loop(p)
Next ==
  \E p \in Peers :
    \/ Step(p)
    \/ \E q \in Peers : Connect(p, q) \/ Call(p, q) \/ Close(p, q)

\* What has been sent arrives: a poll is fair if it finds something.
Fairness == \A p \in Peers : WF_vars(Step(p) /\ (stack' # stack))
Spec == Init /\ [][Next]_vars /\ Fairness

-----------------------------------------------------------------------------
(***************************************************************************)
(* Properties.                                                             *)
(***************************************************************************)
Messages == {m \in [kind : {"ask", "answer"}, call : Nat] : m.call \in DOMAIN calls}

\* The table of connections is not overrun, and calls in progress, messages and answers are
\* of events that have been sent.
TypeOK ==
  /\ \A p \in Peers :
       /\ Len(conns[p]) <= slots[p]
       /\ Members(conns[p]) \cup Members(backlog[p]) \cup ready[p] \subseteq Peers
       /\ \A f \in Members(stack[p]) :
            IF f.at = "update" THEN f.count \in 1 .. UpdateLimit + 1 ELSE f.call \in DOMAIN calls
       /\ \A q \in Peers : \A m \in Members(chan[p][q]) :
            m.kind \in {"ask", "answer"} /\ m.call \in DOMAIN calls
  /\ Len(calls) <= MaxCalls
  /\ answered \subseteq DOMAIN calls

\* What the code has no answer to: a connection that is closed, a table that is full when
\* a connection is made at either end, and a nested update that gives up.
Trouble ==
  \/ overrun
  \/ closed # {}
  \/ \E p \in Peers : Full(p) /\ backlog[p] # <<>>
  \/ \E p, q \in Peers : p \in Members(conns[q]) \cup Members(backlog[q])
                        /\ q \notin Members(conns[p]) \cup Members(backlog[p])

\* data is called only for a connection that has a message, or is at its end: recv does not
\* wait, although the sets it was selected by have been reused since.
ReadsDoNotWait ==
  \A p \in Peers :
    In(p, "update") /\ Slots(p) # {} => conns[p][NextSlot(p)] \in Readable(p) \/ overrun

CanMove(p) ==
  \/ In(p, "serve")
  \/ In(p, "wait") /\ Top(p).call \in answered
  \/ Polls(p) /\ (Readable(p) # {} \/ backlog[p] # <<>>)
  \/ In(p, "update") /\ (Slots(p) = {} \/ conns[p][NextSlot(p)] \in Readable(p))

Waiting(c) == \E p \in Peers : Wait(c) \in Members(stack[p])

\* Peers that wait for each other, on whatever part of their stacks, never all wait: as long
\* as a call has not returned one of them has something to do.
NoCircularWait == (\E c \in DOMAIN calls : Waiting(c)) => Trouble \/ \E p \in Peers : CanMove(p)

\* Not so: XNetUpdateLimit.cfg.
ReadsNeverWait ==
  \A p \in Peers : In(p, "update") /\ Slots(p) # {} => conns[p][NextSlot(p)] \in Readable(p)

\* Not so: XNetUpdateFull.cfg, XNetUpdateClosed.cfg.
CallsAlwaysReturn == \A c \in 1 .. MaxCalls : Waiting(c) ~> ~Waiting(c)

\* Every call returns, unless there is trouble.
CallsReturn == \A c \in 1 .. MaxCalls : Waiting(c) ~> (~Waiting(c) \/ Trouble)
==============================================================================
