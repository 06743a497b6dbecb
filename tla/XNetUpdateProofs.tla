--------------------------- MODULE XNetUpdateProofs ---------------------------
(***************************************************************************)
(* Theorems about XNetUpdate for any number of peers, connections, slots,  *)
(* calls and rounds of update: what update reads is there to be read, and  *)
(* peers do not wait for each other in a circle.                           *)
(***************************************************************************)
EXTENDS XNetUpdate, FiniteSetTheorems, SequenceTheorems, WellFoundedInduction, TLAPS

-----------------------------------------------------------------------------
(***************************************************************************)
(* The inductive invariant.                                                *)
(***************************************************************************)
Number == Nat \ {0}
Frame ==
  [at : {"wait", "serve"}, call : Number] \cup
  [at : {"update"}, slot : Number, count : 1 .. UpdateLimit + 1]
Message == [kind : {"ask", "answer"}, call : Number]

Types ==
  /\ stack \in [Peers -> Seq(Frame)]
  /\ chan \in [Peers -> [Peers -> Seq(Message)]]
  /\ slots \in [Peers -> Nat]
  /\ conns \in [Peers -> Seq(Peers)]
  /\ backlog \in [Peers -> Seq(Peers)]
  /\ ready \in [Peers -> SUBSET Peers]
  /\ closed \subseteq Peers \X Peers
  /\ calls \in Seq([from : Peers, to : Peers])
  /\ answered \subseteq Number
  /\ overrun \in BOOLEAN

\* No peer has two slots for a connection, or one for a connection it has still to accept;
\* who has connected to another peer has been accepted or waits for it.
Once(s) == \A i, j \in DOMAIN s : s[i] = s[j] => i = j
ConnsInv ==
  \A p \in Peers :
    /\ Len(conns[p]) <= slots[p]
    /\ Once(conns[p]) /\ Once(backlog[p])
    /\ Members(conns[p]) \cap Members(backlog[p]) = {}
    /\ \A q \in Members(backlog[p]) : <<q, p>> \in Links
    /\ \A q \in Members(conns[p]) :
         <<p, q>> \in Links => p \in Members(backlog[q]) \cup Members(conns[q])

\* The update on the stack s that is not nested in another one and has none in it: the last.
Innermost(s, k) ==
  /\ k \in DOMAIN s /\ s[k].at = "update"
  /\ \A j \in DOMAIN s : k < j => s[j].at # "update"

\* What the innermost update has still to read is there: the outer ones find its sets.
ReadyAt(p) ==
  \A k \in DOMAIN stack[p] : Innermost(stack[p], k) =>
    \A i \in DOMAIN conns[p] :
      stack[p][k].slot <= i /\ conns[p][i] \in ready[p] /\ <<p, conns[p][i]>> \notin closed
      => conns[p][i] \in Readable(p)
ReadyInv == overrun \/ \A p \in Peers : ReadyAt(p)

\* A handler waits for calls that are later than the one it serves, and so do the handlers
\* of what it reads meanwhile.
Ordered(s) ==
  \A i, j \in DOMAIN s :
    i < j /\ s[i].at = "serve" /\ s[j].at = "wait" => s[i].call < s[j].call
OrderInv == \A p \in Peers : Ordered(stack[p])

\* What a peer is in, its updates apart.
Work(s) == {f \in Members(s) : f.at # "update"}

\* Who waits for a call has made it, over a connection of its own; who serves it was called.
FrameOwned(p, f) ==
  /\ f.at = "wait" => /\ f.call \in DOMAIN calls /\ calls[f.call].from = p
                      /\ calls[f.call].to \in Members(conns[p])
  /\ f.at = "serve" => f.call \in DOMAIN calls /\ calls[f.call].to = p
MessageOwned(p, q, m) ==
  /\ m.call \in DOMAIN calls
  /\ m.kind = "ask" => calls[m.call].from = p /\ calls[m.call].to = q
  /\ m.kind = "answer" => calls[m.call].from = q /\ calls[m.call].to = p
OwnersInv ==
  /\ \A p \in Peers : \A f \in Work(stack[p]) : FrameOwned(p, f)
  /\ \A p, q \in Peers : \A m \in Members(chan[p][q]) : MessageOwned(p, q, m)

\* As long as nothing is closed, a call that is not answered is on its way, being served, or
\* its answer is on its way.
Carried(c) ==
  LET p == calls[c].from
      q == calls[c].to
  IN  \/ Ask(c) \in Members(chan[p][q])
      \/ Serve(c) \in Work(stack[q])
      \/ Answer(c) \in Members(chan[q][p])
LiveInv == closed = {} => \A c \in DOMAIN calls \ answered : Carried(c)

CallsInv == Len(calls) <= MaxCalls /\ answered \subseteq DOMAIN calls

IInv == Types /\ ConnsInv /\ ReadyInv /\ OrderInv /\ OwnersInv /\ LiveInv /\ CallsInv

-----------------------------------------------------------------------------
(***************************************************************************)
(* Stacks and channels as sequences.                                       *)
(***************************************************************************)
Front(s) == SubSeq(s, 1, Len(s) - 1)
Last(s)  == s[Len(s)]

\* What appending does.
LEMMA Appended ==
  ASSUME NEW S, NEW s \in Seq(S), NEW x \in S
  PROVE  /\ Append(s, x) \in Seq(S) /\ Append(s, x) # <<>>
         /\ Len(Append(s, x)) = Len(s) + 1 /\ Len(s) \in Nat
         /\ DOMAIN s = 1 .. Len(s) /\ DOMAIN Append(s, x) = 1 .. Len(s) + 1
         /\ \A i \in 1 .. Len(s) : Append(s, x)[i] = s[i]
         /\ Append(s, x)[Len(s) + 1] = x
         /\ Members(Append(s, x)) = Members(s) \cup {x}
<1>1. /\ Append(s, x) \in Seq(S) /\ Len(Append(s, x)) = Len(s) + 1 /\ Len(s) \in Nat
      /\ DOMAIN s = 1 .. Len(s) /\ DOMAIN Append(s, x) = 1 .. Len(s) + 1
      /\ \A i \in 1 .. Len(s) : Append(s, x)[i] = s[i]
      /\ Append(s, x)[Len(s) + 1] = x
  OBVIOUS
<1>2. Append(s, x) # <<>>
  BY <1>1
<1>3. Members(Append(s, x)) \subseteq Members(s) \cup {x}
  BY <1>1 DEF Members
<1>4. Members(s) \subseteq Members(Append(s, x))
  BY <1>1 DEF Members
<1>5. x \in Members(Append(s, x))
  BY <1>1 DEF Members
<1> QED
  BY <1>1, <1>2, <1>3, <1>4, <1>5

\* What taking the last element away leaves.
LEMMA Shortened ==
  ASSUME NEW S, NEW s \in Seq(S), s # <<>>
  PROVE  /\ Front(s) \in Seq(S)
         /\ Len(s) \in Nat \ {0} /\ DOMAIN s = 1 .. Len(s)
         /\ Len(Front(s)) = Len(s) - 1 /\ DOMAIN Front(s) = 1 .. Len(s) - 1
         /\ \A i \in 1 .. Len(s) - 1 : Front(s)[i] = s[i]
         /\ Last(s) \in S
         /\ Members(s) = Members(Front(s)) \cup {Last(s)}
<1>1. Len(s) \in Nat \ {0} /\ DOMAIN s = 1 .. Len(s)
  BY EmptySeq
<1>2. \A i \in 1 .. Len(s) - 1 : s[i] \in S
  BY <1>1
<1>3. PICK n \in Nat : n + 1 = Len(s) /\ Len(s) - 1 = n
  <2>1. \A l \in Nat \ {0} : l - 1 \in Nat /\ l - 1 + 1 = l
    OBVIOUS
  <2> QED
    BY <1>1, <2>1, Zenon
<1>4. Front(s) \in Seq(S) /\ Len(Front(s)) = n /\ \A i \in 1 .. n : Front(s)[i] = s[i]
  <2>1. n \in Int /\ 1 \in Int /\ \A i \in 1 .. n : s[i] \in S
    BY <1>2, <1>3
  <2>2. /\ SubSeq(s, 1, n) \in Seq(S)
        /\ Len(SubSeq(s, 1, n)) = IF 1 <= n THEN n - 1 + 1 ELSE 0
        /\ \A i \in 1 .. n - 1 + 1 : SubSeq(s, 1, n)[i] = s[1 + i - 1]
    BY <2>1, SubSeqProperties
  <2>3. Front(s) = SubSeq(s, 1, n)
    BY <1>3 DEF Front
  <2>4. /\ Len(SubSeq(s, 1, n)) = n
        /\ \A i \in 1 .. n : i \in 1 .. n - 1 + 1 /\ 1 + i - 1 = i
    BY <2>2
  <2>5. \A i \in 1 .. n : SubSeq(s, 1, n)[i] = s[i]
    BY <2>2, <2>4
  <2> QED
    BY <2>2, <2>3, <2>4, <2>5
<1>5. DOMAIN Front(s) = 1 .. n /\ n = Len(s) - 1
  BY <1>3, <1>4
<1>6. Last(s) \in S
  BY <1>1 DEF Last
<1>7. Members(s) \subseteq Members(Front(s)) \cup {Last(s)}
  BY <1>1, <1>4, <1>5 DEF Members, Last
<1>8. Members(Front(s)) \subseteq Members(s) /\ Last(s) \in Members(s)
  BY <1>1, <1>4, <1>5 DEF Members, Last
<1> QED
  BY <1>1, <1>3, <1>4, <1>5, <1>6, <1>7, <1>8

\* What taking the first element away leaves.
LEMMA HeadTaken ==
  ASSUME NEW S, NEW s \in Seq(S), s # <<>>
  PROVE  /\ Tail(s) \in Seq(S) /\ Head(s) \in S
         /\ Members(s) = Members(Tail(s)) \cup {Head(s)}
         /\ Once(s) => Once(Tail(s)) /\ Head(s) \notin Members(Tail(s))
<1>1. Len(s) \in Nat \ {0} /\ DOMAIN s = 1 .. Len(s)
  BY EmptySeq
<1>2. /\ Tail(s) \in Seq(S) /\ Head(s) \in S /\ Len(Tail(s)) = Len(s) - 1
      /\ \A i \in 1 .. Len(Tail(s)) : Tail(s)[i] = s[i + 1]
  BY HeadTailProperties
<1>3. Head(s) = s[1] /\ DOMAIN Tail(s) = 1 .. Len(s) - 1
  BY <1>1, <1>2
<1>4. Members(Tail(s)) \subseteq Members(s) /\ Head(s) \in Members(s)
  BY <1>1, <1>2, <1>3 DEF Members
<1>5. Members(s) \subseteq Members(Tail(s)) \cup {Head(s)}
  <2>1. \A i \in 1 .. Len(s) : i = 1 \/ (i - 1 \in 1 .. Len(s) - 1 /\ s[i] = Tail(s)[i - 1])
    BY <1>1, <1>2
  <2> QED
    BY <1>1, <1>3, <2>1 DEF Members
<1>6. Once(s) => Once(Tail(s)) /\ Head(s) \notin Members(Tail(s))
  BY <1>1, <1>2, <1>3 DEF Once, Members
<1> QED
  BY <1>2, <1>4, <1>5, <1>6

\* A set of numbers has a least one: < is well-founded.
LEMMA Least ==
  ASSUME NEW T, T \subseteq Nat, T # {}
  PROVE  \E x \in T : \A y \in T : x <= y
<1>1. IsWellFoundedOn(OpToRel(<, Nat), Nat)
  BY NatLessThanWellFounded
<1>2. PICK x \in T : \A y \in T : ~(<<y, x>> \in OpToRel(<, Nat))
  BY <1>1, WFMin
<1>3. ASSUME NEW y \in T PROVE x <= y
  <2>1. ~(<<y, x>> \in OpToRel(<, Nat)) /\ x \in Nat /\ y \in Nat
    BY <1>2
  <2> QED
    BY <2>1 DEF OpToRel
<1> QED
  BY <1>3

\* If they are bounded, a greatest one.
LEMMA Greatest ==
  ASSUME NEW n \in Nat, NEW T, T \subseteq 1 .. n, T # {}
  PROVE  \E x \in T : \A y \in T : y <= x
<1> DEFINE U == {n - x : x \in T}
<1>1. U \subseteq Nat /\ U # {}
  <2>1. \A x \in T : x \in 1 .. n /\ n - x \in Nat
    OBVIOUS
  <2>2. PICK x \in T : TRUE
    OBVIOUS
  <2>3. n - x \in U
    BY <2>2
  <2> QED
    BY <2>1, <2>3
<1>2. PICK u \in U : \A v \in U : u <= v
  <2> HIDE DEF U
  <2> QED
    BY <1>1, Least
<1>3. PICK x \in T : u = n - x
  BY <1>2
<1>4. \A y \in T : n - x <= n - y
  BY <1>2, <1>3
<1>5. ASSUME NEW y \in T PROVE y <= x
  <2>1. x \in Int /\ y \in Int /\ n \in Int /\ n - x <= n - y
    BY <1>4
  <2> QED
    BY <2>1
<1> QED
  BY <1>5

\* A new element is there once.
LEMMA AppendedOnce ==
  ASSUME NEW S, NEW s \in Seq(S), NEW x \in S, Once(s), x \notin Members(s)
  PROVE  Once(Append(s, x))
BY Appended DEF Once, Members

\* The order of calls on a stack survives what a step does to the stack.
LEMMA OrderedSteps ==
  ASSUME NEW s \in Seq(Frame), Ordered(s)
  PROVE  /\ s # <<>> => Ordered(Front(s))
         /\ \A f \in Frame : f.at # "wait" => Ordered(Append(s, f))
         /\ \A c \in Number : (\A f \in Members(s) : f.at = "serve" => f.call < c)
                            => Ordered(Append(s, Wait(c)))
<1>1. s # <<>> => Ordered(Front(s))
  BY Shortened DEF Ordered
<1>2. ASSUME NEW f \in Frame, f.at # "wait"
      PROVE  Ordered(Append(s, f))
  BY <1>2, Appended DEF Ordered
<1>3. ASSUME NEW c \in Number, \A f \in Members(s) : f.at = "serve" => f.call < c
      PROVE  Ordered(Append(s, Wait(c)))
  <2>1. Wait(c) \in Frame /\ Wait(c).at = "wait" /\ Wait(c).call = c
    BY DEF Wait, Frame
  <2>2. \A i \in DOMAIN s : s[i].at = "serve" => s[i].call < c
    BY <1>3 DEF Members
  <2> QED
    BY <2>1, <2>2, Appended DEF Ordered
<1> QED
  BY <1>1, <1>2, <1>3

\* The innermost update of a longer and of a shorter stack.
LEMMA InnermostSteps ==
  ASSUME NEW s \in Seq(Frame), NEW k
  PROVE  /\ \A f \in Frame : f.at # "update" /\ Innermost(Append(s, f), k)
              => Innermost(s, k) /\ Append(s, f)[k] = s[k]
         /\ \A f \in Frame : f.at = "update" /\ Innermost(Append(s, f), k)
              => Append(s, f)[k] = f
         /\ s # <<>> /\ Last(s).at # "update" /\ Innermost(Front(s), k)
              => Innermost(s, k) /\ Front(s)[k] = s[k]
<1>1. ASSUME NEW f \in Frame, f.at # "update", Innermost(Append(s, f), k)
      PROVE  Innermost(s, k) /\ Append(s, f)[k] = s[k]
  BY <1>1, Appended DEF Innermost
<1>2. ASSUME NEW f \in Frame, f.at = "update", Innermost(Append(s, f), k)
      PROVE  Append(s, f)[k] = f
  BY <1>2, Appended DEF Innermost
<1>3. ASSUME s # <<>>, Last(s).at # "update", Innermost(Front(s), k)
      PROVE  Innermost(s, k) /\ Front(s)[k] = s[k]
  <2>1. k \in 1 .. Len(s) - 1 /\ s[k] = Front(s)[k] /\ k \in DOMAIN s
    BY <1>3, Shortened DEF Innermost
  <2>2. ASSUME NEW j \in DOMAIN s, k < j
        PROVE  s[j].at # "update"
    <3>1. CASE j = Len(s)
      BY <1>3, <3>1 DEF Last
    <3>2. CASE j # Len(s)
      BY <1>3, <2>1, <2>2, <3>2, Shortened DEF Innermost
    <3> QED
      BY <3>1, <3>2
  <2> QED
    BY <1>3, <2>1, <2>2 DEF Innermost
<1> QED
  BY <1>1, <1>2, <1>3

-----------------------------------------------------------------------------
(***************************************************************************)
(* Frames, messages, and what Sent and Rounds change.                      *)
(***************************************************************************)
\* The fields of frames and messages.
LEMMA Frames ==
  /\ \A c \in Number : /\ Wait(c) \in Frame /\ Wait(c).at = "wait" /\ Wait(c).call = c
                       /\ Serve(c) \in Frame /\ Serve(c).at = "serve" /\ Serve(c).call = c
                       /\ Ask(c) \in Message /\ Ask(c).kind = "ask" /\ Ask(c).call = c
                       /\ Answer(c) \in Message /\ Answer(c).kind = "answer"
                       /\ Answer(c).call = c
  /\ \A i \in Number, n \in 1 .. UpdateLimit + 1 :
       /\ Update(i, n) \in Frame /\ Update(i, n).at = "update"
       /\ Update(i, n).slot = i /\ Update(i, n).count = n
  /\ \A f \in Frame :
       /\ f.at \in {"wait", "serve", "update"}
       /\ f.at = "wait" => f.call \in Number /\ f = Wait(f.call)
       /\ f.at = "serve" => f.call \in Number /\ f = Serve(f.call)
       /\ f.at = "update" => f.slot \in Number /\ f.count \in 1 .. UpdateLimit + 1
  /\ \A m \in Message :
       /\ m.call \in Number
       /\ m = Ask(m.call) \/ m = Answer(m.call)
       /\ m.kind \in {"ask", "answer"}
BY DEF Frame, Message, Wait, Serve, Update, Ask, Answer

\* The innermost function of a peer, and what is below it.
LEMMA Tops ==
  ASSUME Types, NEW p \in Peers, stack[p] # <<>>
  PROVE  /\ Top(p) \in Frame /\ Top(p) = Last(stack[p]) /\ Below(p) = Front(stack[p])
         /\ Below(p) \in Seq(Frame)
         /\ Members(stack[p]) = Members(Below(p)) \cup {Top(p)}
         /\ Top(p) \in Members(stack[p])
<1>1. stack[p] \in Seq(Frame)
  BY DEF Types
<1> QED
  BY <1>1, Shortened DEF Top, Below, Last, Front

\* A message is sent, or lost; nothing else changes.
LEMMA Sends ==
  ASSUME Types, NEW p \in Peers, NEW q \in Peers, NEW m \in Message
  PROVE  /\ Sent(p, q, m) \in [Peers -> [Peers -> Seq(Message)]]
         /\ \/ Sent(p, q, m)[p][q] = chan[p][q] /\ closed # {}
            \/ /\ Sent(p, q, m)[p][q] = Append(chan[p][q], m)
               /\ <<p, q>> \notin closed
<1> DEFINE new == Append(chan[p][q], m)
<1>1. /\ chan \in [Peers -> [Peers -> Seq(Message)]]
      /\ chan[p][q] \in Seq(Message)
  BY DEF Types
<1>2. new \in Seq(Message)
  BY <1>1, Appended
<1>3. CASE <<p, q>> \in closed \/ <<q, p>> \in closed
  BY <1>1, <1>3 DEF Sent
<1>4. CASE ~(<<p, q>> \in closed \/ <<q, p>> \in closed)
  <2>1. Sent(p, q, m) = [chan EXCEPT ![p] = [chan[p] EXCEPT ![q] = new]]
    BY <1>1, <1>4 DEF Sent
  <2> HIDE DEF new
  <2>2. Sent(p, q, m)[p][q] = new /\ Sent(p, q, m) \in [Peers -> [Peers -> Seq(Message)]]
    BY <1>1, <1>2, <2>1
  <2> QED
    BY <1>4, <2>2 DEF new
<1> QED
  BY <1>3, <1>4

\* The other channels.
LEMMA SendsNoOther ==
  ASSUME Types, NEW p \in Peers, NEW q \in Peers, NEW m \in Message,
         NEW a \in Peers, NEW b \in Peers, a # p \/ b # q
  PROVE  Sent(p, q, m)[a][b] = chan[a][b]
<1>1. chan \in [Peers -> [Peers -> Seq(Message)]]
  BY DEF Types
<1>2. CASE <<p, q>> \in closed \/ <<q, p>> \in closed
  BY <1>2 DEF Sent
<1>3. CASE ~(<<p, q>> \in closed \/ <<q, p>> \in closed)
  BY <1>1, <1>3 DEF Sent
<1> QED
  BY <1>2, <1>3

\* Each channel, and what is in it.
LEMMA SendsTo ==
  ASSUME Types, NEW p \in Peers, NEW q \in Peers, NEW m \in Message,
         chan' = Sent(p, q, m), NEW a \in Peers, NEW b \in Peers
  PROVE  /\ Members(chan[a][b]) \subseteq Members(chan'[a][b])
         /\ \A x \in Members(chan'[a][b]) : x \in Members(chan[a][b])
                                           \/ (x = m /\ a = p /\ b = q)
         /\ closed = {} /\ a = p /\ b = q => m \in Members(chan'[a][b])
<1>1. CASE a # p \/ b # q
  BY <1>1, SendsNoOther
<1>2. CASE a = p /\ b = q
  <2>1. chan[p][q] \in Seq(Message)
    BY DEF Types
  <2>2. Members(Append(chan[p][q], m)) = Members(chan[p][q]) \cup {m}
    BY <2>1, Appended
  <2>3. \/ chan'[p][q] = chan[p][q] /\ closed # {}
        \/ chan'[p][q] = Append(chan[p][q], m) /\ <<p, q>> \notin closed
    BY Sends
  <2> QED
    BY <1>2, <2>2, <2>3
<1> QED
  BY <1>1, <1>2

\* Sending takes nothing away.
LEMMA SendsKeep ==
  ASSUME Types, NEW p \in Peers, NEW q \in Peers, NEW m \in Message, chan' = Sent(p, q, m)
  PROVE  \A a, b \in Peers : chan[a][b] # <<>> => chan'[a][b] # <<>>
<1> SUFFICES ASSUME NEW a \in Peers, NEW b \in Peers
             PROVE  chan[a][b] # <<>> => chan'[a][b] # <<>>
  OBVIOUS
<1>1. CASE a # p \/ b # q
  BY <1>1, SendsNoOther
<1>2. CASE a = p /\ b = q
  <2>1. chan[p][q] \in Seq(Message)
    BY DEF Types
  <2>2. Append(chan[p][q], m) # <<>>
    BY <2>1, Appended
  <2>3. chan'[p][q] = chan[p][q] \/ chan'[p][q] = Append(chan[p][q], m)
    BY Sends
  <2> QED
    BY <1>2, <2>2, <2>3
<1> QED
  BY <1>1, <1>2

\* A round selects what can be read, accepts at most one connection, and goes on or ends.
LEMMA RoundsDo ==
  ASSUME NEW p, NEW below, NEW n, Rounds(p, below, n)
  PROVE  /\ \E r \in SUBSET Readable(p) : ready' = [ready EXCEPT ![p] = r]
         /\ \/ stack' = [stack EXCEPT ![p] = below]
            \/ stack' = [stack EXCEPT ![p] = Append(below, Update(1, n))]
         /\ \/ UNCHANGED <<conns, backlog>>
            \/ /\ backlog[p] # <<>> /\ ~Full(p)
               /\ conns'   = [conns EXCEPT ![p] = Append(@, Head(backlog[p]))]
               /\ backlog' = [backlog EXCEPT ![p] = Tail(@)]
         /\ UNCHANGED <<slots, chan, closed, calls, answered>>
BY DEF Rounds, Round

-----------------------------------------------------------------------------
(***************************************************************************)
(* Types.                                                                  *)
(***************************************************************************)
\* What a round leaves below and above it are stacks.
LEMMA RoundsTypes ==
  ASSUME Types, NEW p \in Peers, NEW below \in Seq(Frame), NEW n \in 1 .. UpdateLimit + 1,
         Rounds(p, below, n), UNCHANGED overrun
  PROVE  Types'
<1>1. Append(below, Update(1, n)) \in Seq(Frame)
  BY Frames, Appended DEF Number
<1>2. stack' \in [Peers -> Seq(Frame)]
  <2>1. \/ stack' = [stack EXCEPT ![p] = below]
        \/ stack' = [stack EXCEPT ![p] = Append(below, Update(1, n))]
    BY RoundsDo
  <2> QED
    BY <1>1, <2>1 DEF Types
<1>3. ready' \in [Peers -> SUBSET Peers]
  <2>1. Readable(p) \subseteq Peers
    BY DEF Types, Readable, Members
  <2>2. PICK r \in SUBSET Readable(p) : ready' = [ready EXCEPT ![p] = r]
    BY RoundsDo, Zenon
  <2> QED
    BY <2>1, <2>2 DEF Types
<1>4. conns' \in [Peers -> Seq(Peers)] /\ backlog' \in [Peers -> Seq(Peers)]
  <2>1. CASE UNCHANGED <<conns, backlog>>
    BY <2>1 DEF Types
  <2>2. CASE /\ backlog[p] # <<>>
             /\ conns'   = [conns EXCEPT ![p] = Append(@, Head(backlog[p]))]
             /\ backlog' = [backlog EXCEPT ![p] = Tail(@)]
    <3>1. /\ conns \in [Peers -> Seq(Peers)] /\ backlog \in [Peers -> Seq(Peers)]
          /\ conns[p] \in Seq(Peers) /\ backlog[p] \in Seq(Peers)
      BY DEF Types
    <3>2. Head(backlog[p]) \in Peers /\ Tail(backlog[p]) \in Seq(Peers)
      BY <2>2, <3>1, HeadTaken
    <3>3. Append(conns[p], Head(backlog[p])) \in Seq(Peers)
      BY <3>1, <3>2, Appended
    <3> QED
      BY <2>2, <3>1, <3>2, <3>3
  <2> QED
    BY <2>1, <2>2, RoundsDo
<1>5. UNCHANGED <<slots, chan, closed, calls, answered>>
  BY RoundsDo, Zenon
<1> QED
  BY <1>2, <1>3, <1>4, <1>5 DEF Types

\* A connection is made of peers.
LEMMA ConnectTypes ==
  ASSUME Types, NEW p \in Peers, NEW q \in Peers, Connect(p, q)
  PROVE  Types'
<1>1. Append(backlog[q], p) \in Seq(Peers) /\ Append(conns[p], q) \in Seq(Peers)
  BY Appended DEF Types
<1>2. backlog' \in [Peers -> Seq(Peers)] /\ conns' \in [Peers -> Seq(Peers)]
  BY <1>1 DEF Types, Connect
<1> QED
  BY <1>2 DEF Types, Connect

\* A call is a number, and goes to a peer.
LEMMA CallTypes ==
  ASSUME Types, NEW p \in Peers, NEW q \in Peers, Call(p, q)
  PROVE  Types'
<1> DEFINE c == Len(calls) + 1
<1>1. c \in Number
  BY DEF Types, Number
<1>2. chan' \in [Peers -> [Peers -> Seq(Message)]]
  BY <1>1, Frames, Sends DEF Call
<1>3. Append(stack[p], Wait(c)) \in Seq(Frame)
  BY <1>1, Frames, Appended DEF Types
<1>4. stack' \in [Peers -> Seq(Frame)]
  BY <1>3 DEF Types, Call
<1>5. calls' \in Seq([from : Peers, to : Peers])
  BY Appended DEF Types, Call
<1> QED
  BY <1>2, <1>4, <1>5 DEF Types, Call

\* Closing leaves an empty channel.
LEMMA CloseTypes ==
  ASSUME Types, NEW p \in Peers, NEW q \in Peers, Close(p, q)
  PROVE  Types'
<1>1. <<>> \in Seq(Message)
  BY EmptySeq
<1>2. chan' \in [Peers -> [Peers -> Seq(Message)]]
  BY <1>1 DEF Types, Close
<1>3. closed' \subseteq Peers \X Peers
  <2>1. closed \subseteq Peers \X Peers /\ closed' = closed \cup {<<p, q>>}
    BY DEF Types, Close
  <2>2. <<p, q>> \in Peers \X Peers
    OBVIOUS
  <2> QED
    BY <2>1, <2>2, Zenon
<1>4. UNCHANGED <<slots, stack, conns, backlog, ready, calls, answered, overrun>>
  BY DEF Close
<1> QED
  BY <1>2, <1>3, <1>4 DEF Types

\* The ends of a call are peers.
LEMMA CallEnds ==
  ASSUME Types
  PROVE  /\ Len(calls) \in Nat /\ DOMAIN calls = 1 .. Len(calls)
         /\ \A c \in DOMAIN calls : calls[c].from \in Peers /\ calls[c].to \in Peers
<1> DEFINE R == [from : Peers, to : Peers]
<1>1. calls \in Seq(R)
  BY DEF Types
<1>2. \A r \in R : r.from \in Peers /\ r.to \in Peers
  OBVIOUS
<1> HIDE DEF R
<1>3. /\ Len(calls) \in Nat /\ DOMAIN calls = 1 .. Len(calls)
      /\ \A c \in DOMAIN calls : calls[c] \in R
  BY <1>1
<1> QED
  BY <1>2, <1>3

\* An answer goes to a peer, since the call it answers has one.
LEMMA FinishTypes ==
  ASSUME Types, OwnersInv, NEW p \in Peers, Finish(p)
  PROVE  Types'
<1>1. stack[p] # <<>> /\ Top(p).at = "serve"
  BY DEF Finish, In, Idle
<1>2. Below(p) \in Seq(Frame) /\ Top(p).call \in Number /\ Top(p).call \in DOMAIN calls
  <2>1. Top(p) \in Work(stack[p])
    BY <1>1, Tops DEF Work
  <2> QED
    BY <1>1, <2>1, Tops, Frames DEF OwnersInv, FrameOwned
<1>3. calls[Top(p).call].from \in Peers
  BY <1>2, CallEnds
<1>4. chan' \in [Peers -> [Peers -> Seq(Message)]]
  BY <1>2, <1>3, Frames, Sends DEF Finish
<1> QED
  BY <1>2, <1>4 DEF Types, Finish

\* Returning leaves a shorter stack.
LEMMA ReturnTypes ==
  ASSUME Types, NEW p \in Peers, Return(p)
  PROVE  Types'
BY Tops DEF Types, Return, In, Idle

\* What the loop of data reads from.
LEMMA Reads ==
  ASSUME Types, NEW p \in Peers, In(p, "update"), Slots(p) # {}
  PROVE  /\ NextSlot(p) \in Slots(p) /\ \A j \in Slots(p) : NextSlot(p) <= j
         /\ NextSlot(p) \in DOMAIN conns[p] /\ NextSlot(p) \in Number
         /\ conns[p][NextSlot(p)] \in Peers
         /\ conns[p][NextSlot(p)] \in Members(conns[p])
<1>1. DOMAIN conns[p] = 1 .. Len(conns[p]) /\ Len(conns[p]) \in Nat
  BY DEF Types
<1>2. Slots(p) \subseteq Nat
  BY <1>1 DEF Slots
<1>3. PICK x \in Slots(p) : \A y \in Slots(p) : x <= y
  BY <1>2, Least
<1>4. NextSlot(p) \in Slots(p) /\ \A j \in Slots(p) : NextSlot(p) <= j
  BY <1>3 DEF NextSlot
<1>5. NextSlot(p) \in DOMAIN conns[p]
  BY <1>4 DEF Slots
<1>6. NextSlot(p) \in Number
  BY <1>1, <1>5 DEF Number
<1>7. conns[p][NextSlot(p)] \in Members(conns[p])
  BY <1>5 DEF Members
<1>8. \A i \in DOMAIN conns[p] : conns[p][i] \in Peers
  BY DEF Types
<1> QED
  BY <1>4, <1>5, <1>6, <1>7, <1>8

\* The three outcomes of data, with the loop it goes on with.
Loops(p) == Append(Below(p), Update(NextSlot(p) + 1, Top(p).count))
LEMMA DataDoes ==
  ASSUME Types, NEW p \in Peers, Data(p), NEW q, q = conns[p][NextSlot(p)]
  PROVE  /\ q \in Peers /\ Loops(p) \in Seq(Frame)
         /\ UNCHANGED <<slots, conns, backlog, ready, closed, calls, overrun>>
         /\ \/ stack' = [stack EXCEPT ![p] = Loops(p)] /\ UNCHANGED <<chan, answered>>
            \/ /\ chan[q][p] # <<>> /\ Head(chan[q][p]) \in Message
               /\ chan[q][p] \in Seq(Message) /\ Tail(chan[q][p]) \in Seq(Message)
               /\ chan' = [chan EXCEPT ![q][p] = Tail(@)]
               /\ \/ /\ Head(chan[q][p]).kind = "ask" /\ UNCHANGED answered
                     /\ stack' =
                          [stack EXCEPT ![p] = Append(Loops(p), Serve(Head(chan[q][p]).call))]
                  \/ /\ Head(chan[q][p]).kind = "answer"
                     /\ stack' = [stack EXCEPT ![p] = Loops(p)]
                     /\ answered' = answered \cup {Head(chan[q][p]).call}
<1>1. q \in Peers /\ NextSlot(p) \in Number
  BY Reads DEF Data
<1>2. Loops(p) \in Seq(Frame)
  <2>1. stack[p] # <<>> /\ Top(p).at = "update"
    BY DEF Data, In, Idle
  <2>2. Below(p) \in Seq(Frame) /\ Top(p).count \in 1 .. UpdateLimit + 1
    BY <2>1, Tops, Frames
  <2>3. NextSlot(p) + 1 \in Number
    BY <1>1 DEF Number
  <2> QED
    BY <2>2, <2>3, Frames, Appended DEF Loops
<1>3. chan[q][p] \in Seq(Message)
  BY <1>1 DEF Types
<1>4. chan[q][p] # <<>> => Head(chan[q][p]) \in Message /\ Tail(chan[q][p]) \in Seq(Message)
  BY <1>3, HeadTaken
<1> QED
  BY <1>1, <1>2, <1>3, <1>4 DEF Data, Loops

\* What is read is a message of a call.
LEMMA DataTypes ==
  ASSUME Types, NEW p \in Peers, Data(p)
  PROVE  Types'
<1> DEFINE q == conns[p][NextSlot(p)]
           m == Head(chan[q][p])
<1>1. /\ q \in Peers /\ Loops(p) \in Seq(Frame)
      /\ UNCHANGED <<slots, conns, backlog, ready, closed, calls, overrun>>
  BY DataDoes
<1>2. CASE stack' = [stack EXCEPT ![p] = Loops(p)] /\ UNCHANGED <<chan, answered>>
  BY <1>1, <1>2 DEF Types
<1>3. CASE /\ m \in Message /\ Tail(chan[q][p]) \in Seq(Message)
           /\ chan' = [chan EXCEPT ![q][p] = Tail(@)]
           /\ \/ /\ m.kind = "ask" /\ UNCHANGED answered
                 /\ stack' = [stack EXCEPT ![p] = Append(Loops(p), Serve(m.call))]
              \/ /\ m.kind = "answer"
                 /\ stack' = [stack EXCEPT ![p] = Loops(p)]
                 /\ answered' = answered \cup {m.call}
  <2> HIDE DEF q, m
  <2>1. chan' \in [Peers -> [Peers -> Seq(Message)]]
    BY <1>1, <1>3 DEF Types
  <2>2. m.call \in Number /\ Serve(m.call) \in Frame
    BY <1>3, Frames
  <2>3. Append(Loops(p), Serve(m.call)) \in Seq(Frame)
    BY <1>1, <2>2, Appended
  <2>4. stack' \in [Peers -> Seq(Frame)] /\ answered' \subseteq Number
    BY <1>1, <1>3, <2>2, <2>3 DEF Types
  <2> QED
    BY <1>1, <2>1, <2>4 DEF Types
<1> QED
  BY <1>2, <1>3, DataDoes

\* A round that is not the last has a number within the limit.
LEMMA LoopTypes ==
  ASSUME Types, NEW p \in Peers, Loop(p)
  PROVE  Types'
<1>1. stack[p] # <<>> /\ Top(p).at = "update"
  BY DEF Loop, In, Idle
<1>2. Below(p) \in Seq(Frame) /\ Top(p).count \in 1 .. UpdateLimit + 1
  BY <1>1, Tops, Frames
<1>3. CASE Top(p).count <= UpdateLimit /\ Rounds(p, Below(p), Top(p).count + 1)
                                       /\ UNCHANGED overrun
  <2>1. Top(p).count + 1 \in 1 .. UpdateLimit + 1
    BY <1>2, <1>3, NumbersAssumption
  <2> QED
    BY <1>2, <1>3, <2>1, RoundsTypes
<1>4. CASE /\ stack'   = [stack EXCEPT ![p] = Below(p)]
           /\ overrun' = (overrun \/ \E f \in Members(Below(p)) : f.at = "update")
           /\ UNCHANGED <<slots, chan, conns, backlog, ready, closed, calls, answered>>
  BY <1>2, <1>4 DEF Types
<1> QED
  BY <1>3, <1>4 DEF Loop

\* The first round has one, too.
LEMMA PollTypes ==
  ASSUME Types, NEW p \in Peers, Poll(p)
  PROVE  Types'
<1>1. stack[p] \in Seq(Frame) /\ 1 \in 1 .. UpdateLimit + 1
  BY NumbersAssumption DEF Types
<1> QED
  BY <1>1, RoundsTypes DEF Poll

\* Every step keeps the types.
LEMMA NextTypes == Types /\ OwnersInv /\ [Next]_vars => Types'
<1> SUFFICES ASSUME Types, OwnersInv, [Next]_vars PROVE Types'
  OBVIOUS
<1>1. CASE UNCHANGED vars
  BY <1>1 DEF vars, Types
<1>2. CASE Next
  BY <1>2, ConnectTypes, CallTypes, CloseTypes, FinishTypes, ReturnTypes, PollTypes,
     DataTypes, LoopTypes DEF Next, Step
<1> QED
  BY <1>1, <1>2

-----------------------------------------------------------------------------
(***************************************************************************)
(* Connections have one slot.                                              *)
(***************************************************************************)
\* The connection that connect makes is new at both ends.
LEMMA ConnectConns ==
  ASSUME Types, ConnsInv, NEW p \in Peers, NEW q \in Peers, Connect(p, q)
  PROVE  ConnsInv'
<1>1. /\ conns \in [Peers -> Seq(Peers)] /\ backlog \in [Peers -> Seq(Peers)]
      /\ conns[p] \in Seq(Peers) /\ backlog[q] \in Seq(Peers) /\ slots[p] \in Nat
  BY DEF Types
<1>2. /\ <<p, q>> \in Links /\ <<q, p>> \notin Links /\ p # q
      /\ p \notin Members(backlog[q]) /\ p \notin Members(conns[q])
      /\ slots' = slots
  BY LinksAssumption DEF Connect
<1>3. q \notin Members(conns[p]) /\ q \notin Members(backlog[p])
  BY <1>2 DEF ConnsInv
<1>4. /\ backlog'[q] = Append(backlog[q], p)
      /\ \A r \in Peers : r # q => backlog'[r] = backlog[r]
  BY <1>1 DEF Connect
<1>5. /\ \A r \in Peers : r # p => conns'[r] = conns[r]
      /\ \/ conns'[p] = conns[p]
         \/ conns'[p] = Append(conns[p], q) /\ Len(conns[p]) < slots[p]
  BY <1>1 DEF Connect
<1>6. /\ Members(backlog'[q]) = Members(backlog[q]) \cup {p}
      /\ Once(backlog'[q])
  BY <1>1, <1>2, <1>4, Appended, AppendedOnce DEF ConnsInv
<1>7. /\ Members(conns[p]) \subseteq Members(conns'[p])
      /\ Members(conns'[p]) \subseteq Members(conns[p]) \cup {q}
      /\ Once(conns'[p]) /\ Len(conns'[p]) <= slots[p]
  <2>1. CASE conns'[p] = conns[p]
    BY <2>1 DEF ConnsInv
  <2>2. CASE conns'[p] = Append(conns[p], q) /\ Len(conns[p]) < slots[p]
    <3>1. /\ Members(conns'[p]) = Members(conns[p]) \cup {q}
          /\ Len(conns'[p]) = Len(conns[p]) + 1 /\ Len(conns[p]) \in Nat
      BY <1>1, <2>2, Appended
    <3>2. Once(conns'[p])
      BY <1>1, <1>3, <2>2, AppendedOnce DEF ConnsInv
    <3> QED
      BY <1>1, <2>2, <3>1, <3>2
  <2> QED
    BY <1>5, <2>1, <2>2
<1>8. ASSUME NEW r \in Peers
      PROVE  /\ Len(conns'[r]) <= slots'[r]
             /\ Once(conns'[r]) /\ Once(backlog'[r])
             /\ Members(conns'[r]) \cap Members(backlog'[r]) = {}
             /\ \A t \in Members(backlog'[r]) : <<t, r>> \in Links
  <2>1. CASE r = p
    BY <2>1, <1>2, <1>3, <1>4, <1>7 DEF ConnsInv
  <2>2. CASE r = q
    BY <2>2, <1>2, <1>5, <1>6 DEF ConnsInv
  <2>3. CASE r # p /\ r # q
    BY <2>3, <1>2, <1>4, <1>5 DEF ConnsInv
  <2> QED
    BY <2>1, <2>2, <2>3
<1>9. ASSUME NEW r \in Peers, NEW t \in Members(conns'[r]), <<r, t>> \in Links
      PROVE  r \in Members(backlog'[t]) \cup Members(conns'[t])
  <2>1. t \in Peers
    BY <1>9, LinksAssumption
  <2>2. CASE r = p /\ t = q
    BY <2>2, <1>6
  <2>3. CASE ~(r = p /\ t = q)
    <3>1. t \in Members(conns[r])
      BY <1>5, <1>7, <2>3, <1>9
    <3>2. r \in Members(backlog[t]) \cup Members(conns[t])
      BY <1>9, <3>1 DEF ConnsInv
    <3> QED
      BY <2>1, <3>2, <1>4, <1>5, <1>6, <1>7
  <2> QED
    BY <2>2, <2>3
<1> QED
  BY <1>8, <1>9 DEF ConnsInv

\* A connection that is accepted moves from the backlog to the table.
LEMMA AcceptConns ==
  ASSUME Types, ConnsInv, NEW p \in Peers, backlog[p] # <<>>, ~Full(p), UNCHANGED slots,
         conns'   = [conns EXCEPT ![p] = Append(@, Head(backlog[p]))],
         backlog' = [backlog EXCEPT ![p] = Tail(@)]
  PROVE  ConnsInv'
<1> DEFINE h == Head(backlog[p])
<1>1. /\ conns \in [Peers -> Seq(Peers)] /\ backlog \in [Peers -> Seq(Peers)]
      /\ conns[p] \in Seq(Peers) /\ backlog[p] \in Seq(Peers) /\ slots[p] \in Nat
  BY DEF Types
<1>2. /\ h \in Peers /\ Tail(backlog[p]) \in Seq(Peers)
      /\ Members(backlog[p]) = Members(Tail(backlog[p])) \cup {h}
      /\ Once(Tail(backlog[p])) /\ h \notin Members(Tail(backlog[p]))
  BY <1>1, HeadTaken DEF ConnsInv
<1>3. /\ <<h, p>> \in Links /\ <<p, h>> \notin Links /\ h \notin Members(conns[p])
  BY <1>2, LinksAssumption DEF ConnsInv
<1> HIDE DEF h
<1>4. /\ conns'[p] = Append(conns[p], h) /\ backlog'[p] = Tail(backlog[p])
      /\ \A r \in Peers : r # p => conns'[r] = conns[r] /\ backlog'[r] = backlog[r]
  BY <1>1 DEF h
<1>5. /\ Members(conns'[p]) = Members(conns[p]) \cup {h}
      /\ Len(conns'[p]) = Len(conns[p]) + 1 /\ Len(conns[p]) \in Nat
  BY <1>1, <1>2, <1>4, Appended
<1>6. Once(conns'[p])
  BY <1>1, <1>2, <1>3, <1>4, AppendedOnce DEF ConnsInv
<1>7. Len(conns'[p]) <= slots[p]
  BY <1>1, <1>5 DEF Full
<1>8. ASSUME NEW r \in Peers
      PROVE  /\ Len(conns'[r]) <= slots'[r]
             /\ Once(conns'[r]) /\ Once(backlog'[r])
             /\ Members(conns'[r]) \cap Members(backlog'[r]) = {}
             /\ \A t \in Members(backlog'[r]) : <<t, r>> \in Links
  <2>1. CASE r = p
    <3>1. Members(conns'[p]) \cap Members(backlog'[p]) = {}
      BY <1>2, <1>4, <1>5 DEF ConnsInv
    <3>2. \A t \in Members(backlog'[p]) : <<t, p>> \in Links
      BY <1>2, <1>4 DEF ConnsInv
    <3>3. Once(backlog'[p]) /\ slots'[p] = slots[p]
      BY <1>2, <1>4
    <3> QED
      BY <2>1, <3>1, <3>2, <3>3, <1>6, <1>7
  <2>2. CASE r # p
    BY <2>2, <1>4 DEF ConnsInv
  <2> QED
    BY <2>1, <2>2
<1>9. ASSUME NEW r \in Peers, NEW t \in Members(conns'[r]), <<r, t>> \in Links
      PROVE  r \in Members(backlog'[t]) \cup Members(conns'[t])
  <2>1. t \in Peers
    BY <1>9, LinksAssumption
  <2>2. t \in Members(conns[r])
    BY <1>3, <1>4, <1>5, <1>9
  <2>3. r \in Members(backlog[t]) \cup Members(conns[t])
    BY <1>9, <2>2 DEF ConnsInv
  <2> QED
    BY <2>1, <2>3, <1>2, <1>4, <1>5
<1> QED
  BY <1>8, <1>9 DEF ConnsInv

\* A round accepts a connection or leaves the tables alone.
LEMMA RoundsConns ==
  ASSUME Types, ConnsInv, NEW p \in Peers, NEW below, NEW n, Rounds(p, below, n)
  PROVE  ConnsInv'
<1>1. UNCHANGED slots
  BY RoundsDo, Zenon
<1>2. CASE UNCHANGED <<conns, backlog>>
  BY <1>1, <1>2 DEF ConnsInv
<1>3. CASE /\ backlog[p] # <<>> /\ ~Full(p)
           /\ conns'   = [conns EXCEPT ![p] = Append(@, Head(backlog[p]))]
           /\ backlog' = [backlog EXCEPT ![p] = Tail(@)]
  BY <1>1, <1>3, AcceptConns
<1> QED
  BY <1>2, <1>3, RoundsDo

\* Every step keeps one slot for each connection.
LEMMA NextConns == Types /\ ConnsInv /\ [Next]_vars => ConnsInv'
<1> SUFFICES ASSUME Types, ConnsInv, [Next]_vars PROVE ConnsInv'
  OBVIOUS
<1>1. ASSUME UNCHANGED <<conns, backlog, slots>> PROVE ConnsInv'
  BY <1>1 DEF ConnsInv
<1>2. ASSUME NEW p \in Peers, Step(p) PROVE ConnsInv'
  <2>1. ASSUME Finish(p) \/ Return(p) \/ Data(p) PROVE ConnsInv'
    BY <1>1, <2>1 DEF Finish, Return, Data
  <2>2. ASSUME Poll(p) PROVE ConnsInv'
    BY <2>2, RoundsConns DEF Poll
  <2>3. ASSUME Loop(p) PROVE ConnsInv'
    BY <1>1, <2>3, RoundsConns DEF Loop
  <2> QED
    BY <1>2, <2>1, <2>2, <2>3 DEF Step
<1>3. ASSUME NEW p \in Peers, NEW q \in Peers, Connect(p, q) \/ Call(p, q) \/ Close(p, q)
      PROVE  ConnsInv'
  <2>1. ASSUME Call(p, q) \/ Close(p, q) PROVE ConnsInv'
    BY <1>1, <2>1 DEF Call, Close
  <2> QED
    BY <1>3, <2>1, ConnectConns
<1> QED
  BY <1>1, <1>2, <1>3 DEF Next, vars

-----------------------------------------------------------------------------
(***************************************************************************)
(* The work on a stack, and what grows.                                    *)
(***************************************************************************)
LEMMA WorkSteps ==
  ASSUME NEW s \in Seq(Frame)
  PROVE  /\ \A f \in Frame : f.at = "update" => Work(Append(s, f)) = Work(s)
         /\ \A f \in Frame : f.at # "update" => Work(Append(s, f)) = Work(s) \cup {f}
         /\ s # <<>> /\ Last(s).at = "update" => Work(Front(s)) = Work(s)
         /\ s # <<>> /\ Last(s).at # "update" => Work(s) = Work(Front(s)) \cup {Last(s)}
<1>1. ASSUME NEW f \in Frame
      PROVE  /\ f.at = "update" => Work(Append(s, f)) = Work(s)
             /\ f.at # "update" => Work(Append(s, f)) = Work(s) \cup {f}
  <2>1. Members(Append(s, f)) = Members(s) \cup {f}
    BY Appended
  <2> QED
    BY <2>1 DEF Work
<1>2. ASSUME s # <<>>
      PROVE  /\ Last(s).at = "update" => Work(Front(s)) = Work(s)
             /\ Last(s).at # "update" => Work(s) = Work(Front(s)) \cup {Last(s)}
  <2>1. Members(s) = Members(Front(s)) \cup {Last(s)}
    BY <1>2, Shortened
  <2> QED
    BY <2>1 DEF Work
<1> QED
  BY <1>1, <1>2

\* Polling leaves the work as it is.
LEMMA RoundsWork ==
  ASSUME Types, NEW p \in Peers, NEW below \in Seq(Frame), NEW n \in 1 .. UpdateLimit + 1,
         Rounds(p, below, n), Work(below) = Work(stack[p])
  PROVE  \A q \in Peers : Work(stack'[q]) = Work(stack[q])
<1>1. Work(Append(below, Update(1, n))) = Work(below)
  BY Frames, WorkSteps DEF Number
<1>2. \/ stack' = [stack EXCEPT ![p] = below]
      \/ stack' = [stack EXCEPT ![p] = Append(below, Update(1, n))]
  BY RoundsDo
<1> QED
  BY <1>1, <1>2 DEF Types

\* So do a poll and the rounds that follow it.
LEMMA PollWork ==
  ASSUME Types, NEW p \in Peers, Poll(p) \/ Loop(p)
  PROVE  \A q \in Peers : Work(stack'[q]) = Work(stack[q])
<1>1. CASE Poll(p)
  <2>1. stack[p] \in Seq(Frame) /\ 1 \in 1 .. UpdateLimit + 1
    BY NumbersAssumption DEF Types
  <2> QED
    BY <1>1, <2>1, RoundsWork DEF Poll
<1>2. CASE Loop(p)
  <2>1. stack[p] # <<>> /\ Top(p).at = "update"
    BY <1>2 DEF Loop, In, Idle
  <2>2. Below(p) \in Seq(Frame) /\ Top(p).count \in 1 .. UpdateLimit + 1
    BY <2>1, Tops, Frames
  <2>3. Work(Below(p)) = Work(stack[p])
    BY <2>1, Tops, WorkSteps DEF Types
  <2>4. CASE Top(p).count <= UpdateLimit /\ Rounds(p, Below(p), Top(p).count + 1)
    <3>1. Top(p).count + 1 \in 1 .. UpdateLimit + 1
      BY <2>2, <2>4, NumbersAssumption
    <3> QED
      BY <2>2, <2>3, <2>4, <3>1, RoundsWork
  <2>5. CASE stack' = [stack EXCEPT ![p] = Below(p)]
    BY <2>3, <2>5 DEF Types
  <2> QED
    BY <1>2, <2>4, <2>5 DEF Loop
<1> QED
  BY <1>1, <1>2

\* A function that ends takes its own work along.
LEMMA EndWork ==
  ASSUME Types, NEW p \in Peers, Finish(p) \/ Return(p)
  PROVE  /\ Top(p) \in Work(stack[p]) /\ Top(p) \in Frame
         /\ Work(stack[p]) = Work(stack'[p]) \cup {Top(p)}
         /\ \A q \in Peers : q # p => stack'[q] = stack[q]
<1>1. /\ stack[p] # <<>> /\ Top(p).at # "update"
      /\ stack' = [stack EXCEPT ![p] = Below(p)]
  BY DEF Finish, Return, In, Idle
<1>2. Work(stack[p]) = Work(Below(p)) \cup {Top(p)} /\ Top(p) \in Frame
  BY <1>1, Tops, WorkSteps DEF Types
<1> QED
  BY <1>1, <1>2 DEF Types

\* The loop of data has the same work below it.
LEMMA LoopsWork ==
  ASSUME Types, NEW p \in Peers, Data(p)
  PROVE  /\ Work(Loops(p)) = Work(stack[p]) /\ Loops(p) \in Seq(Frame)
         /\ \A c \in Number : Work(Append(Loops(p), Serve(c))) = Work(stack[p]) \cup {Serve(c)}
<1>1. stack[p] # <<>> /\ Top(p).at = "update"
  BY DEF Data, In, Idle
<1>2. Below(p) \in Seq(Frame) /\ Top(p).count \in 1 .. UpdateLimit + 1
  BY <1>1, Tops, Frames
<1>3. Work(Below(p)) = Work(stack[p])
  BY <1>1, Tops, WorkSteps DEF Types
<1>4. NextSlot(p) + 1 \in Number
  BY Reads DEF Data, Number
<1>5. Work(Loops(p)) = Work(stack[p])
  BY <1>2, <1>3, <1>4, Frames, WorkSteps DEF Loops
<1>6. Loops(p) \in Seq(Frame)
  BY DataDoes
<1> QED
  BY <1>5, <1>6, Frames, WorkSteps

\* Connections are not removed from the table and calls are not forgotten.
LEMMA Grows ==
  ASSUME Types, Next
  PROVE  /\ \A p \in Peers : Members(conns[p]) \subseteq Members(conns'[p])
         /\ \A c \in DOMAIN calls : c \in DOMAIN calls' /\ calls'[c] = calls[c]
<1>1. conns \in [Peers -> Seq(Peers)] /\ backlog \in [Peers -> Seq(Peers)]
  BY DEF Types
<1>2. ASSUME NEW p \in Peers, NEW q \in Peers, conns' = [conns EXCEPT ![p] = Append(@, q)]
      PROVE  \A r \in Peers : Members(conns[r]) \subseteq Members(conns'[r])
  <2>1. Members(Append(conns[p], q)) = Members(conns[p]) \cup {q}
    BY <1>1, Appended
  <2> QED
    BY <1>1, <1>2, <2>1
<1>3. ASSUME NEW p \in Peers, NEW below, NEW n, Rounds(p, below, n)
      PROVE  \A r \in Peers : Members(conns[r]) \subseteq Members(conns'[r])
  <2>1. CASE UNCHANGED <<conns, backlog>>
    BY <2>1
  <2>2. CASE /\ backlog[p] # <<>>
             /\ conns' = [conns EXCEPT ![p] = Append(@, Head(backlog[p]))]
    <3>1. Head(backlog[p]) \in Peers
      BY <1>1, <2>2, HeadTaken
    <3> QED
      BY <1>2, <2>2, <3>1
  <2> QED
    BY <1>3, <2>1, <2>2, RoundsDo
<1>4. \A p \in Peers : Members(conns[p]) \subseteq Members(conns'[p])
  <2>1. ASSUME NEW p \in Peers, Step(p)
        PROVE  \A r \in Peers : Members(conns[r]) \subseteq Members(conns'[r])
    BY <1>3, <2>1 DEF Step, Finish, Return, Data, Poll, Loop
  <2>2. ASSUME NEW p \in Peers, NEW q \in Peers, Connect(p, q) \/ Call(p, q) \/ Close(p, q)
        PROVE  \A r \in Peers : Members(conns[r]) \subseteq Members(conns'[r])
    BY <1>2, <2>2 DEF Connect, Call, Close
  <2> QED
    BY <2>1, <2>2 DEF Next
<1>5. ASSUME NEW p \in Peers, NEW q \in Peers, Call(p, q)
      PROVE  \A c \in DOMAIN calls : c \in DOMAIN calls' /\ calls'[c] = calls[c]
  <2> DEFINE R == [from : Peers, to : Peers]
             r == [from |-> p, to |-> q]
  <2>1. calls \in Seq(R) /\ r \in R /\ calls' = Append(calls, r)
    BY <1>5 DEF Types, Call
  <2> HIDE DEF R, r
  <2> QED
    BY <2>1, Appended
<1>6. ASSUME NEW p \in Peers, NEW below, NEW n, Rounds(p, below, n)
      PROVE  calls' = calls
  BY <1>6, RoundsDo, Zenon
<1>7. \A c \in DOMAIN calls : c \in DOMAIN calls' /\ calls'[c] = calls[c]
  <2>1. ASSUME NEW p \in Peers, Step(p)
        PROVE  calls' = calls
    BY <1>6, <2>1 DEF Step, Finish, Return, Data, Poll, Loop
  <2>2. ASSUME NEW p \in Peers, NEW q \in Peers, Connect(p, q) \/ Close(p, q)
        PROVE  calls' = calls
    BY <2>2 DEF Connect, Close
  <2> QED
    BY <1>5, <2>1, <2>2 DEF Next
<1> QED
  BY <1>4, <1>7

-----------------------------------------------------------------------------
(***************************************************************************)
(* Calls have owners.                                                      *)
(***************************************************************************)
\* What is owned stays owned.
LEMMA OwnedStays ==
  ASSUME Types, Next, NEW p \in Peers
  PROVE  /\ \A f : FrameOwned(p, f) => FrameOwned(p, f)'
         /\ \A q, m : MessageOwned(p, q, m) => MessageOwned(p, q, m)'
<1>1. ASSUME NEW f, FrameOwned(p, f) PROVE FrameOwned(p, f)'
  BY <1>1, Grows DEF FrameOwned
<1>2. ASSUME NEW q, NEW m, MessageOwned(p, q, m) PROVE MessageOwned(p, q, m)'
  BY <1>2, Grows DEF MessageOwned
<1> QED
  BY <1>1, <1>2

\* So only what is new has to be looked at.
LEMMA OwnersByNew ==
  ASSUME Types, Next, OwnersInv,
         \A p \in Peers : \A f \in Work(stack'[p]) : f \in Work(stack[p]) \/ FrameOwned(p, f)',
         \A p, q \in Peers : \A m \in Members(chan'[p][q]) :
           m \in Members(chan[p][q]) \/ MessageOwned(p, q, m)'
  PROVE  OwnersInv'
<1>1. ASSUME NEW p \in Peers, NEW f \in Work(stack'[p])
      PROVE  FrameOwned(p, f)'
  BY OwnedStays DEF OwnersInv
<1>2. ASSUME NEW p \in Peers, NEW q \in Peers, NEW m \in Members(chan'[p][q])
      PROVE  MessageOwned(p, q, m)'
  BY OwnedStays DEF OwnersInv
<1>3. \A p \in Peers : \A f \in Work(stack[p])' : FrameOwned(p, f)'
  BY <1>1 DEF Work
<1>4. \A p, q \in Peers : \A m \in Members(chan[p][q])' : MessageOwned(p, q, m)'
  BY <1>2 DEF Members
<1> QED
  BY <1>3, <1>4 DEF OwnersInv

\* Who calls owns the wait, and who is called will own the event.
LEMMA CallOwners ==
  ASSUME Types, OwnersInv, Next, NEW p \in Peers, NEW q \in Peers, Call(p, q)
  PROVE  OwnersInv'
<1>0. PICK c \in Number : c = Len(calls) + 1
  BY CallEnds DEF Number
<1>1. /\ c \in Number /\ c \in DOMAIN calls'
      /\ calls'[c].from = p /\ calls'[c].to = q
  <2> DEFINE R == [from : Peers, to : Peers]
             r == [from |-> p, to |-> q]
  <2>1. calls \in Seq(R) /\ r \in R /\ calls' = Append(calls, r) /\ r.from = p /\ r.to = q
    BY DEF Types, Call
  <2> HIDE DEF R, r
  <2>2. calls'[c] = r /\ c \in DOMAIN calls' /\ Len(calls) \in Nat
    BY <1>0, <2>1, Appended
  <2> QED
    BY <1>0, <2>1, <2>2
<1>2. /\ Wait(c) \in Frame /\ Wait(c).at = "wait" /\ Wait(c).call = c
      /\ Ask(c) \in Message /\ Ask(c).kind = "ask" /\ Ask(c).call = c
  BY <1>1, Frames
<1>3. q \in Members(conns[p]) /\ conns' = conns
  BY DEF Call
<1>4. \A f, m : /\ f = Wait(c) => FrameOwned(p, f)'
                /\ m = Ask(c) => MessageOwned(p, q, m)'
  BY <1>1, <1>2, <1>3 DEF FrameOwned, MessageOwned
<1>5. \A a \in Peers : \A f \in Work(stack'[a]) : f \in Work(stack[a]) \/ FrameOwned(a, f)'
  <2>1. Work(Append(stack[p], Wait(c))) = Work(stack[p]) \cup {Wait(c)}
    BY <1>2, WorkSteps DEF Types
  <2>2. /\ stack'[p] = Append(stack[p], Wait(c))
        /\ \A a \in Peers : a # p => stack'[a] = stack[a]
    BY <1>0 DEF Types, Call
  <2> QED
    BY <1>4, <2>1, <2>2
<1>6. \A a, b \in Peers : \A m \in Members(chan'[a][b]) :
        m \in Members(chan[a][b]) \/ MessageOwned(a, b, m)'
  <2>1. chan' = Sent(p, q, Ask(c))
    BY <1>0 DEF Call
  <2>2. \A a, b \in Peers : \A m \in Members(chan'[a][b]) :
          m \in Members(chan[a][b]) \/ (m = Ask(c) /\ a = p /\ b = q)
    BY <1>2, <2>1, SendsTo
  <2> QED
    BY <1>4, <2>2
<1> QED
  BY <1>5, <1>6, OwnersByNew

\* Who was called sends the answer, to the caller.
LEMMA FinishOwners ==
  ASSUME Types, OwnersInv, Next, NEW p \in Peers, Finish(p)
  PROVE  OwnersInv'
<1>1. /\ Top(p) \in Work(stack[p]) /\ Top(p) \in Frame /\ Top(p).at = "serve"
      /\ \A a \in Peers : Work(stack'[a]) \subseteq Work(stack[a])
  BY EndWork DEF Finish, In
<1>2. PICK c \in Number : c = Top(p).call /\ c \in DOMAIN calls /\ calls[c].to = p
  BY <1>1, Frames DEF OwnersInv, FrameOwned
<1>3. PICK q \in Peers : q = calls[c].from
  BY <1>2, CallEnds
<1>4. chan' = Sent(p, q, Answer(c)) /\ calls' = calls
  BY <1>2, <1>3 DEF Finish
<1>5. /\ Answer(c) \in Message /\ Answer(c).kind = "answer" /\ Answer(c).call = c
  BY <1>2, Frames
<1>6. \A m : m = Answer(c) => MessageOwned(p, q, m)'
  BY <1>2, <1>3, <1>4, <1>5 DEF MessageOwned
<1>7. \A a, b \in Peers : \A m \in Members(chan'[a][b]) :
        m \in Members(chan[a][b]) \/ MessageOwned(a, b, m)'
  <2>1. \A a, b \in Peers : \A m \in Members(chan'[a][b]) :
          m \in Members(chan[a][b]) \/ (m = Answer(c) /\ a = p /\ b = q)
    BY <1>5, <1>4, SendsTo
  <2> QED
    BY <1>6, <2>1
<1>8. \A a \in Peers : \A f \in Work(stack'[a]) : f \in Work(stack[a]) \/ FrameOwned(a, f)'
  BY <1>1
<1> QED
  BY <1>7, <1>8, OwnersByNew

\* Who reads an event was called.
LEMMA DataOwners ==
  ASSUME Types, OwnersInv, Next, NEW p \in Peers, Data(p)
  PROVE  OwnersInv'
<1> DEFINE q == conns[p][NextSlot(p)]
           m == Head(chan[q][p])
<1>1. q \in Peers /\ UNCHANGED calls
  BY DataDoes
<1>2. \A r : \A f \in Work(stack'[r]) : r # p /\ r \in Peers => f \in Work(stack[r])
  BY DEF Data, Types
<1>3. CASE stack' = [stack EXCEPT ![p] = Loops(p)] /\ UNCHANGED <<chan, answered>>
  <2>1. \A r \in Peers : Work(stack'[r]) = Work(stack[r])
    BY <1>3, LoopsWork DEF Types
  <2> QED
    BY <1>3, <2>1, OwnersByNew
<1>4. CASE /\ chan[q][p] # <<>> /\ m \in Message /\ chan[q][p] \in Seq(Message)
           /\ chan' = [chan EXCEPT ![q][p] = Tail(@)]
           /\ \/ /\ m.kind = "ask"
                 /\ stack' = [stack EXCEPT ![p] = Append(Loops(p), Serve(m.call))]
              \/ stack' = [stack EXCEPT ![p] = Loops(p)]
  <2>1. /\ Members(chan[q][p]) = Members(Tail(chan[q][p])) \cup {m}
        /\ Tail(chan[q][p]) \in Seq(Message)
    BY <1>4, HeadTaken
  <2>2. MessageOwned(q, p, m)
    BY <1>1, <2>1 DEF OwnersInv
  <2> HIDE DEF q, m
  <2>3. \A a, b \in Peers : Members(chan'[a][b]) \subseteq Members(chan[a][b])
    <3>1. chan \in [Peers -> [Peers -> Seq(Message)]]
      BY DEF Types
    <3>2. chan'[q][p] = Tail(chan[q][p])
      BY <3>1, <1>1, <1>4
    <3>3. \A a, b \in Peers : a # q \/ b # p => chan'[a][b] = chan[a][b]
      BY <3>1, <1>1, <1>4
    <3> QED
      BY <2>1, <3>2, <3>3
  <2>4. \A f : m.kind = "ask" /\ f = Serve(m.call) => FrameOwned(p, f)'
    <3>1. Serve(m.call).at = "serve" /\ Serve(m.call).call = m.call
      BY DEF Serve
    <3>2. calls' = calls
      BY <1>1
    <3> QED
      BY <2>2, <3>1, <3>2 DEF FrameOwned, MessageOwned
  <2>5. \/ \A r \in Peers : Work(stack'[r]) = Work(stack[r])
        \/ /\ m.kind = "ask" /\ Work(stack'[p]) = Work(stack[p]) \cup {Serve(m.call)}
           /\ \A r \in Peers : r # p => stack'[r] = stack[r]
    <3>1. m.call \in Number
      BY <1>4, Frames
    <3> QED
      BY <1>4, <3>1, LoopsWork DEF Types
  <2>6. \A r \in Peers : \A f \in Work(stack'[r]) : f \in Work(stack[r]) \/ FrameOwned(r, f)'
    BY <2>4, <2>5
  <2> QED
    BY <2>3, <2>6, OwnersByNew
<1> QED
  BY <1>3, <1>4, DataDoes

\* Closing takes messages away only.
LEMMA CloseOwners ==
  ASSUME Types, OwnersInv, Next, NEW p \in Peers, NEW q \in Peers, Close(p, q)
  PROVE  OwnersInv'
<1>1. \A a, b \in Peers : Members(chan'[a][b]) \subseteq Members(chan[a][b])
  <2>1. chan \in [Peers -> [Peers -> Seq(Message)]] /\ Members(<<>>) = {}
    BY DEF Types, Members
  <2>2. chan' = [chan EXCEPT ![q][p] = <<>>]
    BY DEF Close
  <2>3. chan'[q][p] = <<>>
    BY <2>1, <2>2
  <2>4. \A a, b \in Peers : a # q \/ b # p => chan'[a][b] = chan[a][b]
    BY <2>1, <2>2
  <2> QED
    BY <2>1, <2>3, <2>4
<1>2. stack' = stack
  BY DEF Close
<1> QED
  BY <1>1, <1>2, OwnersByNew

\* Every step keeps the owners.
LEMMA NextOwners == Types /\ OwnersInv /\ [Next]_vars => OwnersInv'
<1> SUFFICES ASSUME Types, OwnersInv, [Next]_vars PROVE OwnersInv'
  OBVIOUS
<1>1. CASE UNCHANGED vars
  BY <1>1 DEF vars, OwnersInv, FrameOwned, MessageOwned
<1>2. CASE Next
  <2>1. ASSUME NEW p \in Peers, Poll(p) \/ Loop(p) PROVE OwnersInv'
    <3>1. chan' = chan
      BY <2>1, RoundsDo DEF Poll, Loop
    <3> QED
      BY <1>2, <2>1, <3>1, PollWork, OwnersByNew
  <2>2. ASSUME NEW p \in Peers, Return(p) PROVE OwnersInv'
    <3>1. chan' = chan /\ \A a \in Peers : Work(stack'[a]) \subseteq Work(stack[a])
      BY <2>2, EndWork DEF Return
    <3> QED
      BY <1>2, <3>1, OwnersByNew
  <2>3. ASSUME NEW p \in Peers, NEW q \in Peers, Connect(p, q) PROVE OwnersInv'
    <3>1. chan' = chan /\ stack' = stack
      BY <2>3 DEF Connect
    <3> QED
      BY <1>2, <3>1, OwnersByNew
  <2> QED
    BY <1>2, <2>1, <2>2, <2>3, CallOwners, FinishOwners, DataOwners, CloseOwners
    DEF Next, Step
<1> QED
  BY <1>1, <1>2

-----------------------------------------------------------------------------
(***************************************************************************)
(* Handlers wait for later calls.                                          *)
(***************************************************************************)
LEMMA OrderByTop ==
  ASSUME Types, OrderInv, NEW p \in Peers, NEW s, Ordered(s), stack' = [stack EXCEPT ![p] = s]
  PROVE  OrderInv'
BY DEF Types, OrderInv

\* A call that is made is later than all calls there are.
LEMMA CallOrder ==
  ASSUME Types, OrderInv, OwnersInv, NEW p \in Peers, NEW q \in Peers, Call(p, q)
  PROVE  OrderInv'
<1>1. PICK c \in Number : c = Len(calls) + 1
  BY CallEnds DEF Number
<1>2. stack' = [stack EXCEPT ![p] = Append(stack[p], Wait(c))]
  BY <1>1 DEF Call
<1>3. \A f \in Members(stack[p]) : f.at = "serve" => f.call < c
  <2>1. ASSUME NEW f \in Members(stack[p]), f.at = "serve"
        PROVE  f.call < c
    <3>1. f \in Work(stack[p])
      BY <2>1 DEF Work
    <3>2. f.call \in DOMAIN calls
      BY <2>1, <3>1 DEF OwnersInv, FrameOwned
    <3> QED
      BY <1>1, <3>2, CallEnds
  <2> QED
    BY <2>1
<1>4. Ordered(Append(stack[p], Wait(c)))
  BY <1>3, OrderedSteps DEF Types, OrderInv
<1> QED
  BY <1>2, <1>4, OrderByTop

\* A poll puts nothing but updates on the stack.
LEMMA RoundsOrder ==
  ASSUME Types, OrderInv, NEW p \in Peers, NEW below \in Seq(Frame), Ordered(below),
         NEW n \in 1 .. UpdateLimit + 1, Rounds(p, below, n)
  PROVE  OrderInv'
<1>1. Ordered(Append(below, Update(1, n)))
  BY Frames, OrderedSteps DEF Number
<1>2. \/ stack' = [stack EXCEPT ![p] = below]
      \/ stack' = [stack EXCEPT ![p] = Append(below, Update(1, n))]
  BY RoundsDo
<1> QED
  BY <1>1, <1>2, OrderByTop

\* Leaving the innermost function leaves the order.
LEMMA BelowOrder ==
  ASSUME Types, OrderInv, NEW p \in Peers, stack[p] # <<>>
  PROVE  Ordered(Below(p)) /\ Below(p) \in Seq(Frame)
BY Tops, OrderedSteps DEF Types, OrderInv

\* Data puts handlers on top, below no wait.
LEMMA DataOrder ==
  ASSUME Types, OrderInv, NEW p \in Peers, Data(p)
  PROVE  OrderInv'
<1>1. stack[p] # <<>> /\ Top(p).at = "update"
  BY DEF Data, In, Idle
<1>2. NextSlot(p) + 1 \in Number /\ Top(p).count \in 1 .. UpdateLimit + 1
  BY <1>1, Reads, Tops, Frames DEF Data, Number
<1>3. Ordered(Loops(p)) /\ Loops(p) \in Seq(Frame)
  BY <1>1, <1>2, BelowOrder, Frames, OrderedSteps, DataDoes DEF Loops
<1>4. \A c \in Number : Ordered(Append(Loops(p), Serve(c)))
  BY <1>3, Frames, OrderedSteps
<1>5. \A m \in Message : m.call \in Number
  BY Frames
<1>6. \/ stack' = [stack EXCEPT ![p] = Loops(p)]
      \/ \E c \in Number : stack' = [stack EXCEPT ![p] = Append(Loops(p), Serve(c))]
  BY <1>5, DataDoes
<1> QED
  BY <1>3, <1>4, <1>6, OrderByTop

\* Every step keeps the order.
LEMMA NextOrder == Types /\ OwnersInv /\ OrderInv /\ [Next]_vars => OrderInv'
<1> SUFFICES ASSUME Types, OwnersInv, OrderInv, [Next]_vars PROVE OrderInv'
  OBVIOUS
<1>1. CASE UNCHANGED stack
  BY <1>1 DEF OrderInv
<1>2. ASSUME NEW p \in Peers, Finish(p) \/ Return(p) PROVE OrderInv'
  <2>1. stack[p] # <<>> /\ stack' = [stack EXCEPT ![p] = Below(p)]
    BY <1>2 DEF Finish, Return, In, Idle
  <2> QED
    BY <2>1, BelowOrder, OrderByTop
<1>3. ASSUME NEW p \in Peers, Poll(p) PROVE OrderInv'
  <2>1. stack[p] \in Seq(Frame) /\ 1 \in 1 .. UpdateLimit + 1 /\ Ordered(stack[p])
    BY NumbersAssumption DEF Types, OrderInv
  <2> QED
    BY <1>3, <2>1, RoundsOrder DEF Poll
<1>4. ASSUME NEW p \in Peers, Loop(p) PROVE OrderInv'
  <2>1. stack[p] # <<>> /\ Top(p).at = "update"
    BY <1>4 DEF Loop, In, Idle
  <2>2. Top(p).count \in 1 .. UpdateLimit + 1
    BY <2>1, Tops, Frames
  <2>3. CASE Top(p).count <= UpdateLimit /\ Rounds(p, Below(p), Top(p).count + 1)
    <3>1. Top(p).count + 1 \in 1 .. UpdateLimit + 1
      BY <2>2, <2>3, NumbersAssumption
    <3> QED
      BY <2>1, <2>3, <3>1, BelowOrder, RoundsOrder
  <2>4. CASE stack' = [stack EXCEPT ![p] = Below(p)]
    BY <2>1, <2>4, BelowOrder, OrderByTop
  <2> QED
    BY <1>4, <2>3, <2>4 DEF Loop
<1>5. ASSUME NEW p \in Peers, NEW q \in Peers, Connect(p, q) \/ Close(p, q) PROVE OrderInv'
  BY <1>1, <1>5 DEF Connect, Close
<1> QED
  BY <1>1, <1>2, <1>3, <1>4, <1>5, CallOrder, DataOrder DEF Next, Step, vars

-----------------------------------------------------------------------------
(***************************************************************************)
(* No call is lost while nothing is closed.                                *)
(***************************************************************************)
\* A call stays carried unless its event, its handler or its answer is taken away.
LEMMA StaysCarried ==
  ASSUME Types, Next, NEW c \in DOMAIN calls, Carried(c),
         NEW p \in Peers, p = calls[c].from, NEW q \in Peers, q = calls[c].to,
         Ask(c) \in Members(chan[p][q]) => Ask(c) \in Members(chan'[p][q])
                                           \/ Serve(c) \in Work(stack'[q]),
         Serve(c) \in Work(stack[q]) => Serve(c) \in Work(stack'[q])
                                        \/ Answer(c) \in Members(chan'[q][p]),
         Answer(c) \in Members(chan[q][p]) => Answer(c) \in Members(chan'[q][p])
  PROVE  Carried(c)'
<1>1. calls'[c] = calls[c]
  BY Grows
<1>2. /\ Ask(c)' = Ask(c) /\ Serve(c)' = Serve(c) /\ Answer(c)' = Answer(c)
  BY DEF Ask, Serve, Answer
<1>3. calls[c]'.from = p /\ calls[c]'.to = q
  BY <1>1
<1>4. \/ Ask(c) \in Members(chan'[p][q])
      \/ Serve(c) \in Work(stack'[q])
      \/ Answer(c) \in Members(chan'[q][p])
  BY DEF Carried
<1> QED
  BY <1>3, <1>4 DEF Carried, Members, Work

\* The end of a handler sends its answer; the end of a wait takes nothing away.
LEMMA EndLive ==
  ASSUME Types, OwnersInv, Next, NEW p \in Peers, Finish(p) \/ Return(p), closed = {},
         NEW c \in DOMAIN calls, Carried(c)
  PROVE  Carried(c)'
<1> DEFINE a == calls[c].from
           b == calls[c].to
<1>1. a \in Peers /\ b \in Peers
  BY CallEnds
<1>2. /\ Top(p) \in Work(stack[p]) /\ Top(p) \in Frame
      /\ Work(stack[p]) = Work(stack'[p]) \cup {Top(p)}
      /\ \A r \in Peers : r # p => stack'[r] = stack[r]
  BY EndWork
<1>3. CASE Return(p)
  <2>1. Top(p).at = "wait" /\ chan' = chan
    BY <1>3 DEF Return, In
  <2>2. Serve(c) # Top(p)
    BY <2>1 DEF Serve
  <2>3. Serve(c) \in Work(stack[b]) => Serve(c) \in Work(stack'[b])
    BY <1>1, <1>2, <2>2
  <2> HIDE DEF a, b
  <2> QED
    BY <1>1, <2>1, <2>3, StaysCarried DEF a, b
<1>4. CASE Finish(p)
  <2>1. Top(p).at = "serve"
    BY <1>4 DEF Finish, In
  <2>2. PICK d \in Number : d = Top(p).call /\ Top(p) = Serve(d) /\ d \in DOMAIN calls
                            /\ calls[d].to = p
    BY <1>2, <2>1, Frames DEF OwnersInv, FrameOwned
  <2>3. PICK q \in Peers : q = calls[d].from
    BY <2>2, CallEnds
  <2>4. chan' = Sent(p, q, Answer(d)) /\ Answer(d) \in Message
    BY <1>4, <2>2, <2>3, Frames DEF Finish
  <2>5. \A r, s \in Peers : Members(chan[r][s]) \subseteq Members(chan'[r][s])
    BY <2>4, SendsTo
  <2>6. Answer(d) \in Members(chan'[p][q])
    BY <2>4, SendsTo
  <2>7. Serve(c) \in Work(stack[b]) => Serve(c) \in Work(stack'[b])
                                       \/ Answer(c) \in Members(chan'[b][a])
    <3>1. CASE c = d
      BY <3>1, <2>2, <2>3, <2>6
    <3>2. CASE c # d
      <4>1. Serve(c) # Top(p)
        BY <2>2, <3>2 DEF Serve
      <4> QED
        BY <1>1, <1>2, <4>1
    <3> QED
      BY <3>1, <3>2
  <2>8. /\ Ask(c) \in Members(chan[a][b]) => Ask(c) \in Members(chan'[a][b])
        /\ Answer(c) \in Members(chan[b][a]) => Answer(c) \in Members(chan'[b][a])
    BY <1>1, <2>5
  <2> HIDE DEF a, b
  <2> QED
    BY <1>1, <2>7, <2>8, StaysCarried DEF a, b
<1> QED
  BY <1>3, <1>4

\* A call that is made is on its way, and takes nothing away.
LEMMA CallLive ==
  ASSUME Types, OwnersInv, Next, NEW p \in Peers, NEW q \in Peers, Call(p, q), closed = {},
         NEW c \in DOMAIN calls', c \in DOMAIN calls => Carried(c)
  PROVE  Carried(c)'
<1>1. PICK d \in Number : d = Len(calls) + 1
  BY CallEnds DEF Number
<1>2. /\ chan' = Sent(p, q, Ask(d)) /\ calls' = Append(calls, [from |-> p, to |-> q])
      /\ stack' = [stack EXCEPT ![p] = Append(@, Wait(d))]
  BY <1>1 DEF Call
<1>3. \A r, s \in Peers : Members(chan[r][s]) \subseteq Members(chan'[r][s])
  BY <1>2, Frames, SendsTo
<1>4. Ask(d) \in Members(chan'[p][q])
  BY <1>2, Frames, SendsTo
<1>5. \A r \in Peers : Work(stack[r]) \subseteq Work(stack'[r])
  <2>1. Work(Append(stack[p], Wait(d))) = Work(stack[p]) \cup {Wait(d)}
    <3>1. Wait(d) \in Frame /\ Wait(d).at # "update"
      BY Frames
    <3> QED
      BY <3>1, WorkSteps DEF Types
  <2> QED
    BY <1>2, <2>1 DEF Types
<1>6. /\ DOMAIN calls' = DOMAIN calls \cup {d}
      /\ calls'[d].from = p /\ calls'[d].to = q
  <2> DEFINE R == [from : Peers, to : Peers]
             r == [from |-> p, to |-> q]
  <2>1. calls \in Seq(R) /\ r \in R /\ calls' = Append(calls, r) /\ r.from = p /\ r.to = q
    BY <1>2 DEF Types
  <2> HIDE DEF R, r
  <2>2. calls'[d] = r /\ DOMAIN calls' = 1 .. Len(calls) + 1 /\ DOMAIN calls = 1 .. Len(calls)
        /\ Len(calls) \in Nat
    BY <1>1, <2>1, Appended
  <2> QED
    BY <1>1, <2>1, <2>2
<1>7. CASE c \in DOMAIN calls
  <2> DEFINE a == calls[c].from
             b == calls[c].to
  <2>1. a \in Peers /\ b \in Peers
    BY <1>7, CallEnds
  <2>2. /\ Ask(c) \in Members(chan[a][b]) => Ask(c) \in Members(chan'[a][b])
        /\ Answer(c) \in Members(chan[b][a]) => Answer(c) \in Members(chan'[b][a])
        /\ Serve(c) \in Work(stack[b]) => Serve(c) \in Work(stack'[b])
    BY <1>3, <1>5, <2>1
  <2> HIDE DEF a, b
  <2> QED
    BY <1>7, <2>1, <2>2, StaysCarried DEF a, b
<1>8. CASE c = d
  <2>1. Ask(c)' = Ask(c)
    BY DEF Ask
  <2> QED
    BY <1>4, <1>6, <1>8, <2>1 DEF Carried, Members
<1> QED
  BY <1>6, <1>7, <1>8

\* What is read is served, or answers its call.
LEMMA DataLive ==
  ASSUME Types, OwnersInv, Next, NEW p \in Peers, Data(p), closed = {},
         NEW c \in DOMAIN calls, Carried(c), c \notin answered'
  PROVE  Carried(c)'
<1> DEFINE a == calls[c].from
           b == calls[c].to
<1>0. a \in Peers /\ b \in Peers
  BY CallEnds
<1>1. PICK q \in Peers : q = conns[p][NextSlot(p)]
  BY DataDoes
<1>2. CASE stack' = [stack EXCEPT ![p] = Loops(p)] /\ UNCHANGED <<chan, answered>>
  <2>1. \A r \in Peers : Work(stack'[r]) = Work(stack[r])
    BY <1>2, LoopsWork DEF Types
  <2>2. Serve(c) \in Work(stack[b]) => Serve(c) \in Work(stack'[b])
    BY <1>0, <2>1
  <2> HIDE DEF a, b
  <2> QED
    BY <1>0, <1>2, <2>2, StaysCarried DEF a, b
<1>3. CASE /\ chan[q][p] # <<>> /\ chan[q][p] \in Seq(Message)
           /\ chan' = [chan EXCEPT ![q][p] = Tail(@)]
           /\ Head(chan[q][p]) \in Message
           /\ \/ /\ Head(chan[q][p]).kind = "ask"
                 /\ stack' =
                      [stack EXCEPT ![p] = Append(Loops(p), Serve(Head(chan[q][p]).call))]
              \/ /\ Head(chan[q][p]).kind = "answer"
                 /\ stack' = [stack EXCEPT ![p] = Loops(p)]
                 /\ answered' = answered \cup {Head(chan[q][p]).call}
  <2>1. PICK m \in Message : m = Head(chan[q][p])
    BY <1>3
  <2>2. /\ Members(chan[q][p]) = Members(Tail(chan[q][p])) \cup {m}
        /\ Tail(chan[q][p]) \in Seq(Message)
    BY <1>3, <2>1, HeadTaken
  <2>3. /\ m.call \in Number /\ (m = Ask(m.call) \/ m = Answer(m.call))
    BY Frames
  <2>4. MessageOwned(q, p, m)
    BY <2>2 DEF OwnersInv
  <2>5. /\ \A r, s \in Peers : \A x \in Members(chan[r][s]) :
             x \in Members(chan'[r][s]) \/ (x = m /\ r = q /\ s = p)
    <3>1. chan \in [Peers -> [Peers -> Seq(Message)]]
      BY DEF Types
    <3>2. chan'[q][p] = Tail(chan[q][p])
      BY <3>1, <1>3
    <3>3. \A r, s \in Peers : r # q \/ s # p => chan'[r][s] = chan[r][s]
      BY <3>1, <1>3
    <3> QED
      BY <2>2, <3>2, <3>3
  <2>6. /\ \A r \in Peers : Work(stack[r]) \subseteq Work(stack'[r])
        /\ m.kind = "ask" => Serve(m.call) \in Work(stack'[p])
    <3>1. /\ Work(Loops(p)) = Work(stack[p])
          /\ Work(Append(Loops(p), Serve(m.call))) = Work(stack[p]) \cup {Serve(m.call)}
      BY <2>3, LoopsWork
    <3>2. \/ m.kind = "answer" /\ stack' = [stack EXCEPT ![p] = Loops(p)]
          \/ stack' = [stack EXCEPT ![p] = Append(Loops(p), Serve(m.call))]
      BY <1>3, <2>1
    <3> QED
      BY <3>1, <3>2 DEF Types
  <2>7. m.kind = "answer" => m.call # c
    BY <1>3, <2>1
  <2>8. Ask(c) \in Members(chan[a][b]) => Ask(c) \in Members(chan'[a][b])
                                          \/ Serve(c) \in Work(stack'[b])
    <3>1. ASSUME Ask(c) = m, a = q, b = p
          PROVE  Serve(c) \in Work(stack'[b])
      <4>1. m.kind = "ask" /\ m.call = c
        BY <3>1 DEF Ask
      <4> QED
        BY <2>6, <3>1, <4>1
    <3> QED
      BY <1>0, <2>5, <3>1
  <2>9. Answer(c) \in Members(chan[b][a]) => Answer(c) \in Members(chan'[b][a])
    <3>1. Answer(c) # m
      BY <2>7 DEF Answer
    <3> QED
      BY <1>0, <2>5, <3>1
  <2>10. Serve(c) \in Work(stack[b]) => Serve(c) \in Work(stack'[b])
    BY <1>0, <2>6
  <2> HIDE DEF a, b
  <2> QED
    BY <1>0, <2>8, <2>9, <2>10, StaysCarried DEF a, b
<1> QED
  BY <1>1, <1>2, <1>3, DataDoes

\* Steps that change neither channels nor work take nothing away.
LEMMA SameLive ==
  ASSUME Types, Next, chan' = chan, \A r \in Peers : Work(stack'[r]) = Work(stack[r]),
         NEW c \in DOMAIN calls, Carried(c)
  PROVE  Carried(c)'
<1> DEFINE a == calls[c].from
           b == calls[c].to
<1>1. a \in Peers /\ b \in Peers
  BY CallEnds
<1>2. Serve(c) \in Work(stack[b]) => Serve(c) \in Work(stack'[b])
  BY <1>1
<1> HIDE DEF a, b
<1> QED
  BY <1>1, <1>2, StaysCarried DEF a, b

\* Every step keeps the calls.
LEMMA NextLive == Types /\ OwnersInv /\ LiveInv /\ [Next]_vars => LiveInv'
<1> SUFFICES ASSUME Types, OwnersInv, LiveInv, [Next]_vars, closed' = {},
                    NEW c \in DOMAIN calls', c \notin answered'
             PROVE  Carried(c)'
  BY DEF LiveInv
<1>1. CASE UNCHANGED vars
  <2>1. Ask(c)' = Ask(c) /\ Serve(c)' = Serve(c) /\ Answer(c)' = Answer(c)
    BY DEF Ask, Serve, Answer
  <2>2. /\ chan' = chan /\ stack' = stack /\ calls' = calls /\ answered' = answered
        /\ closed' = closed
    BY <1>1 DEF vars
  <2> QED
    BY <2>1, <2>2 DEF LiveInv, Carried, Members, Work
<1>2. CASE Next
  <2>1. ASSUME NEW p \in Peers, Poll(p) \/ Loop(p) PROVE Carried(c)'
    <3>1. /\ chan' = chan /\ calls' = calls /\ answered' = answered /\ closed' = closed
      BY <2>1, RoundsDo DEF Poll, Loop
    <3> QED
      BY <1>2, <2>1, <3>1, PollWork, SameLive DEF LiveInv
  <2>2. ASSUME NEW p \in Peers, Finish(p) \/ Return(p) PROVE Carried(c)'
    <3>1. calls' = calls /\ answered' = answered /\ closed' = closed
      BY <2>2 DEF Finish, Return
    <3> QED
      BY <1>2, <2>2, <3>1, EndLive DEF LiveInv
  <2>3. ASSUME NEW p \in Peers, Data(p) PROVE Carried(c)'
    <3>1. calls' = calls /\ answered \subseteq answered' /\ closed' = closed
      BY <2>3 DEF Data
    <3> QED
      BY <1>2, <2>3, <3>1, DataLive DEF LiveInv
  <2>4. ASSUME NEW p \in Peers, NEW q \in Peers, Connect(p, q) PROVE Carried(c)'
    <3>1. /\ chan' = chan /\ stack' = stack /\ calls' = calls /\ answered' = answered
          /\ closed' = closed
      BY <2>4 DEF Connect
    <3> QED
      BY <1>2, <3>1, SameLive DEF LiveInv
  <2>5. ASSUME NEW p \in Peers, NEW q \in Peers, Call(p, q) PROVE Carried(c)'
    <3>1. answered' = answered /\ closed' = closed
      BY <2>5 DEF Call
    <3> QED
      BY <1>2, <2>5, <3>1, CallLive DEF LiveInv
  <2>6. ASSUME NEW p \in Peers, NEW q \in Peers, Close(p, q) PROVE FALSE
    BY <2>6 DEF Close
  <2> QED
    BY <1>2, <2>1, <2>2, <2>3, <2>4, <2>5, <2>6 DEF Next, Step
<1> QED
  BY <1>1, <1>2

-----------------------------------------------------------------------------
(***************************************************************************)
(* What update has selected is there when it is read.                      *)
(***************************************************************************)
\* Only reading and closing take away what can be read.
LEMMA ReadableStays ==
  ASSUME Types, Next, NEW p \in Peers, NEW q \in Readable(p), closed \subseteq closed',
         <<p, q>> \notin closed', chan[q][p] # <<>> => chan'[q][p] # <<>>
  PROVE  q \in Readable(p)'
<1>1. q \in Members(conns'[p])
  BY Grows DEF Readable
<1>2. chan'[q][p] # <<>> \/ AtEnd(p, q)'
  BY DEF Readable, AtEnd
<1> QED
  BY <1>1, <1>2 DEF Readable, Members

\* A step leaves what a peer has selected alone if its innermost update stays.
LEMMA ReadyStays ==
  ASSUME Types, Next, NEW p \in Peers, ReadyAt(p), ready'[p] = ready[p], conns'[p] = conns[p],
         \A k : Innermost(stack'[p], k) => Innermost(stack[p], k) /\ stack'[p][k] = stack[p][k],
         closed \subseteq closed',
         \A q \in Peers : chan[q][p] # <<>> => chan'[q][p] # <<>> \/ <<p, q>> \in closed'
  PROVE  ReadyAt(p)'
<1>1. ASSUME NEW k, Innermost(stack'[p], k),
             NEW i \in DOMAIN conns'[p], stack'[p][k].slot <= i,
             conns'[p][i] \in ready'[p], <<p, conns'[p][i]>> \notin closed'
      PROVE  conns[p][i] \in Readable(p)'
  <2>1. Innermost(stack[p], k) /\ stack'[p][k] = stack[p][k] /\ k \in DOMAIN stack[p]
    BY <1>1 DEF Innermost
  <2>2. conns[p][i] \in Readable(p)
    BY <1>1, <2>1 DEF ReadyAt
  <2>3. conns[p][i] \in Peers
    BY <1>1 DEF Types
  <2>4. chan[conns[p][i]][p] # <<>> => chan'[conns[p][i]][p] # <<>>
    BY <1>1, <2>3
  <2>5. PICK q \in Peers : q = conns[p][i]
    BY <2>3
  <2>6. q \in Readable(p)'
    BY <1>1, <2>2, <2>4, <2>5, ReadableStays
  <2> QED
    BY <2>5, <2>6
<1>2. ASSUME NEW k, Innermost(stack[p], k)'
      PROVE  Innermost(stack'[p], k)
  BY <1>2 DEF Innermost
<1>3. ASSUME NEW k \in DOMAIN stack'[p], Innermost(stack[p], k)',
             NEW i \in DOMAIN conns'[p], stack'[p][k].slot <= i,
             conns'[p][i] \in ready'[p], <<p, conns'[p][i]>> \notin closed'
      PROVE  conns'[p][i] \in Readable(p)'
  BY <1>1, <1>2, <1>3
<1> QED
  BY <1>3 DEF ReadyAt

\* A round selects only what can be read.
LEMMA RoundsReady ==
  ASSUME Types, Next, NEW p \in Peers, NEW below \in Seq(Frame), NEW n \in 1 .. UpdateLimit + 1,
         Rounds(p, below, n), \A q \in Peers : ReadyAt(q)
  PROVE  \A q \in Peers : ReadyAt(q)'
<1>1. UNCHANGED <<chan, closed>>
  BY RoundsDo, Zenon
<1>2. ReadyAt(p)'
  <2>1. ready'[p] \subseteq Readable(p)
    <3>1. PICK r \in SUBSET Readable(p) : ready' = [ready EXCEPT ![p] = r]
      BY RoundsDo, Zenon
    <3> QED
      BY <3>1 DEF Types
  <2>2. ASSUME NEW i \in DOMAIN conns'[p], conns'[p][i] \in ready'[p]
        PROVE  conns'[p][i] \in Readable(p)'
    <3>1. PICK q \in Readable(p) : q = conns'[p][i]
      BY <2>1, <2>2
    <3>2. q \in Readable(p)'
      BY <1>1, ReadableStays DEF Readable
    <3> QED
      BY <3>1, <3>2
  <2> QED
    BY <2>2 DEF ReadyAt
<1>3. ASSUME NEW q \in Peers, q # p PROVE ReadyAt(q)'
  <2>1. stack'[q] = stack[q]
    <3>1. \/ stack' = [stack EXCEPT ![p] = below]
          \/ stack' = [stack EXCEPT ![p] = Append(below, Update(1, n))]
      BY RoundsDo
    <3> QED
      BY <1>3, <3>1 DEF Types
  <2>2. ready'[q] = ready[q]
    <3>1. PICK r \in SUBSET Readable(p) : ready' = [ready EXCEPT ![p] = r]
      BY RoundsDo, Zenon
    <3> QED
      BY <1>3, <3>1 DEF Types
  <2>3. conns'[q] = conns[q]
    <3>1. \/ conns' = conns
          \/ conns' = [conns EXCEPT ![p] = Append(@, Head(backlog[p]))]
      BY RoundsDo
    <3> QED
      BY <1>3, <3>1 DEF Types
  <2> QED
    BY <1>1, <2>1, <2>2, <2>3, ReadyStays
<1> QED
  BY <1>2, <1>3

\* A function that is not update ends or begins.
LEMMA TopReady ==
  ASSUME Types, Next, NEW p \in Peers, \A q \in Peers : ReadyAt(q),
         ready' = ready, conns' = conns, closed \subseteq closed',
         \A q, r \in Peers : chan[q][r] # <<>> => chan'[q][r] # <<>> \/ <<r, q>> \in closed',
         \/ stack' = stack
         \/ \E f \in Frame : f.at # "update" /\ stack' = [stack EXCEPT ![p] = Append(@, f)]
         \/ /\ stack[p] # <<>> /\ Top(p).at # "update"
            /\ stack' = [stack EXCEPT ![p] = Below(p)]
  PROVE  \A q \in Peers : ReadyAt(q)'
<1>1. ASSUME NEW q \in Peers, NEW k, Innermost(stack'[q], k)
      PROVE  Innermost(stack[q], k) /\ stack'[q][k] = stack[q][k]
  <2>1. CASE stack'[q] = stack[q]
    BY <1>1, <2>1
  <2>2. CASE stack'[q] # stack[q]
    <3>1. stack[p] \in Seq(Frame) /\ p = q
      BY <2>2 DEF Types
    <3>2. CASE \E f \in Frame : f.at # "update" /\ stack' = [stack EXCEPT ![p] = Append(@, f)]
      <4>1. PICK f \in Frame : f.at # "update" /\ stack' = [stack EXCEPT ![p] = Append(@, f)]
        BY <3>2
      <4>2. stack'[q] = Append(stack[q], f)
        BY <3>1, <4>1 DEF Types
      <4>3. Innermost(Append(stack[q], f), k) /\ stack[q] \in Seq(Frame)
        BY <1>1, <3>1, <4>2
      <4>4. Innermost(stack[q], k) /\ Append(stack[q], f)[k] = stack[q][k]
        BY <4>1, <4>3, InnermostSteps
      <4> QED
        BY <4>2, <4>4
    <3>3. CASE /\ stack[p] # <<>> /\ Top(p).at # "update"
               /\ stack' = [stack EXCEPT ![p] = Below(p)]
      <4>1. stack'[q] = Front(stack[q]) /\ Last(stack[q]).at # "update"
        BY <3>1, <3>3, Tops DEF Types
      <4> QED
        BY <1>1, <3>1, <3>3, <4>1, InnermostSteps
    <3> QED
      BY <2>2, <3>2, <3>3
  <2> QED
    BY <2>1, <2>2
<1> QED
  BY <1>1, ReadyStays

\* Data reads one connection, and the loop goes on with the others.
LEMMA DataReady ==
  ASSUME Types, ConnsInv, Next, NEW p \in Peers, Data(p), \A q \in Peers : ReadyAt(q)
  PROVE  \A q \in Peers : ReadyAt(q)'
<1> DEFINE i == NextSlot(p)
           top == Len(stack[p])
<1>1. PICK q \in Peers : q = conns[p][NextSlot(p)]
  BY DataDoes
<1>2. UNCHANGED <<slots, conns, backlog, ready, closed, calls, overrun>>
  BY DataDoes
<1>3. /\ stack[p] # <<>> /\ stack[p] \in Seq(Frame) /\ Top(p).at = "update"
      /\ Top(p) \in Frame /\ Top(p) = stack[p][Len(stack[p])]
      /\ Top(p).slot \in Number /\ Top(p).count \in 1 .. UpdateLimit + 1
  BY Tops, Frames DEF Data, In, Idle, Types, Last
<1>4. /\ i \in DOMAIN conns[p] /\ i \in Number /\ Top(p).slot <= i
  BY Reads DEF Data, Slots
<1>5. \A a, b \in Peers : a # q \/ b # p => chan'[a][b] = chan[a][b]
  <2>1. \/ chan' = chan
        \/ chan' = [chan EXCEPT ![q][p] = Tail(@)]
    BY <1>1, DataDoes
  <2>2. chan \in [Peers -> [Peers -> Seq(Message)]]
    BY DEF Types
  <2> QED
    BY <2>1, <2>2
<1>6. \A r \in Peers : r # p => stack'[r] = stack[r]
  BY DEF Data, Types
<1>7. ASSUME NEW r \in Peers, r # p PROVE ReadyAt(r)'
  BY <1>2, <1>5, <1>6, <1>7, ReadyStays
<1>8. Innermost(stack[p], top)
  BY <1>3, EmptySeq DEF Innermost
<1>9. \A k : Innermost(stack'[p], k) => stack'[p][k] = Update(i + 1, Top(p).count)
  <2>1. /\ Update(i + 1, Top(p).count) \in Frame
        /\ Update(i + 1, Top(p).count).at = "update"
    BY <1>3, <1>4, Frames DEF Number
  <2>2. Below(p) \in Seq(Frame) /\ Loops(p) \in Seq(Frame)
    BY <1>3, Tops, DataDoes
  <2>3. \A k : Innermost(Loops(p), k) => Loops(p)[k] = Update(i + 1, Top(p).count)
    BY <2>1, <2>2, InnermostSteps DEF Loops
  <2>4. ASSUME NEW c \in Number, NEW k, Innermost(Append(Loops(p), Serve(c)), k)
        PROVE  Append(Loops(p), Serve(c))[k] = Update(i + 1, Top(p).count)
    <3>1. Serve(c) \in Frame /\ Serve(c).at # "update"
      BY Frames
    <3>2. Innermost(Loops(p), k) /\ Append(Loops(p), Serve(c))[k] = Loops(p)[k]
      BY <2>2, <2>4, <3>1, InnermostSteps
    <3> QED
      BY <2>3, <3>2
  <2>5. \/ stack'[p] = Loops(p)
        \/ \E c \in Number : stack'[p] = Append(Loops(p), Serve(c))
    <3>1. \A m \in Message : m.call \in Number
      BY Frames
    <3>2. \/ stack' = [stack EXCEPT ![p] = Loops(p)]
          \/ \E c \in Number : stack' = [stack EXCEPT ![p] = Append(Loops(p), Serve(c))]
      BY <3>1, DataDoes
    <3> QED
      BY <3>2 DEF Types
  <2> QED
    BY <2>3, <2>4, <2>5
<1>10. ASSUME NEW j \in DOMAIN conns[p], i + 1 <= j, conns[p][j] \in ready[p],
              <<p, conns[p][j]>> \notin closed
       PROVE  conns[p][j] \in Readable(p)'
  <2>1. DOMAIN conns[p] = 1 .. Len(conns[p]) /\ Len(conns[p]) \in Nat /\ conns[p][j] \in Peers
    BY DEF Types
  <2>2. Top(p).slot <= j /\ i # j
    BY <1>3, <1>4, <1>10, <2>1 DEF Number
  <2>3. conns[p][j] # q
    BY <1>1, <1>4, <2>2 DEF ConnsInv, Once
  <2>4. top \in DOMAIN stack[p]
    BY <1>8 DEF Innermost
  <2>5. conns[p][j] \in Readable(p)
    BY <1>3, <1>8, <1>10, <2>2, <2>4 DEF ReadyAt
  <2>6. PICK s \in Peers : s = conns[p][j]
    BY <2>1
  <2>7. chan'[s][p] = chan[s][p]
    BY <1>5, <2>3, <2>6
  <2>8. s \in Readable(p)'
    BY <1>2, <1>10, <2>5, <2>6, <2>7, ReadableStays
  <2> QED
    BY <2>6, <2>8
<1>11. ReadyAt(p)'
  <2>1. Update(i + 1, Top(p).count).slot = i + 1
    BY DEF Update
  <2>2. conns' = conns /\ ready' = ready /\ closed' = closed
    BY <1>2
  <2>3. ASSUME NEW k \in DOMAIN stack'[p], Innermost(stack[p], k)'
        PROVE  stack'[p][k].slot = i + 1
    <3>1. Innermost(stack'[p], k)
      BY <2>3 DEF Innermost
    <3> QED
      BY <1>9, <2>1, <3>1
  <2> HIDE DEF i
  <2>4. ASSUME NEW k \in DOMAIN stack'[p], Innermost(stack[p], k)',
               NEW j \in DOMAIN conns'[p], stack'[p][k].slot <= j,
               conns'[p][j] \in ready'[p], <<p, conns'[p][j]>> \notin closed'
        PROVE  conns'[p][j] \in Readable(p)'
    BY <1>10, <2>2, <2>3, <2>4
  <2> QED
    BY <2>4 DEF ReadyAt
<1> QED
  BY <1>7, <1>11

\* Every step keeps what has been selected, until a nested update gives up.
LEMMA NextReady == Types /\ ConnsInv /\ OwnersInv /\ ReadyInv /\ [Next]_vars => ReadyInv'
<1> SUFFICES ASSUME Types, ConnsInv, OwnersInv, ReadyInv, [Next]_vars PROVE ReadyInv'
  OBVIOUS
<1>1. CASE UNCHANGED vars
  <2>1. /\ stack' = stack /\ chan' = chan /\ conns' = conns /\ ready' = ready
        /\ closed' = closed /\ overrun' = overrun
    BY <1>1 DEF vars
  <2>2. ASSUME NEW p \in Peers PROVE Readable(p)' = Readable(p)
    BY <2>1 DEF Readable, AtEnd, Members
  <2>3. ASSUME NEW p \in Peers, NEW k PROVE Innermost(stack[p], k)' = Innermost(stack[p], k)
    BY <2>1 DEF Innermost
  <2>4. ASSUME NEW p \in Peers, ReadyAt(p) PROVE ReadyAt(p)'
    BY <2>1, <2>2, <2>3, <2>4 DEF ReadyAt
  <2> QED
    BY <2>1, <2>4 DEF ReadyInv
<1>2. CASE Next /\ overrun
  <2>1. overrun'
    BY <1>2 DEF Next, Step, Connect, Call, Close, Finish, Return, Poll, Data, Loop
  <2> QED
    BY <2>1 DEF ReadyInv
<1>3. CASE Next /\ ~overrun
  <2>0. \A r \in Peers : ReadyAt(r)
    BY <1>3 DEF ReadyInv
  <2>1. ASSUME NEW p \in Peers, Finish(p) PROVE \A r \in Peers : ReadyAt(r)'
    <3>1. /\ stack[p] # <<>> /\ Top(p).at # "update"
          /\ stack' = [stack EXCEPT ![p] = Below(p)]
          /\ ready' = ready /\ conns' = conns /\ closed' = closed
      BY <2>1 DEF Finish, In, Idle
    <3>2. PICK c \in Number : c = Top(p).call /\ c \in DOMAIN calls
      <4>1. Top(p) \in Work(stack[p]) /\ Top(p) \in Frame /\ Top(p).at = "serve"
        BY <2>1, EndWork DEF Finish, In
      <4> QED
        BY <4>1, Frames DEF OwnersInv, FrameOwned
    <3>3. PICK q \in Peers : q = calls[c].from
      BY <3>2, CallEnds
    <3>4. chan' = Sent(p, q, Answer(c)) /\ Answer(c) \in Message
      BY <2>1, <3>2, <3>3, Frames DEF Finish
    <3>5. \A a, b \in Peers : chan[a][b] # <<>> => chan'[a][b] # <<>>
      BY <3>4, SendsKeep
    <3> QED
      BY <1>3, <2>0, <3>1, <3>5, TopReady
  <2>2. ASSUME NEW p \in Peers, Return(p) PROVE \A r \in Peers : ReadyAt(r)'
    <3>1. /\ stack[p] # <<>> /\ Top(p).at # "update"
          /\ stack' = [stack EXCEPT ![p] = Below(p)]
          /\ ready' = ready /\ conns' = conns /\ closed' = closed /\ chan' = chan
      BY <2>2 DEF Return, In, Idle
    <3> QED
      BY <1>3, <2>0, <3>1, TopReady
  <2>3. ASSUME NEW p \in Peers, Poll(p) PROVE \A r \in Peers : ReadyAt(r)'
    <3>1. stack[p] \in Seq(Frame) /\ 1 \in 1 .. UpdateLimit + 1
      BY NumbersAssumption DEF Types
    <3> QED
      BY <1>3, <2>0, <2>3, <3>1, RoundsReady DEF Poll
  <2>4. ASSUME NEW p \in Peers, Loop(p), ~overrun' PROVE \A r \in Peers : ReadyAt(r)'
    <3>1. stack[p] # <<>> /\ Top(p).at = "update"
      BY <2>4 DEF Loop, In, Idle
    <3>2. Below(p) \in Seq(Frame) /\ Top(p).count \in 1 .. UpdateLimit + 1
      BY <3>1, Tops, Frames
    <3>3. CASE Top(p).count <= UpdateLimit /\ Rounds(p, Below(p), Top(p).count + 1)
      <4>1. Top(p).count + 1 \in 1 .. UpdateLimit + 1
        BY <3>2, <3>3, NumbersAssumption
      <4> QED
        BY <1>3, <2>0, <3>2, <3>3, <4>1, RoundsReady
    <3>4. CASE /\ stack'   = [stack EXCEPT ![p] = Below(p)]
               /\ overrun' = (overrun \/ \E f \in Members(Below(p)) : f.at = "update")
               /\ UNCHANGED <<slots, chan, conns, backlog, ready, closed, calls, answered>>
      <4>1. stack'[p] = Below(p) /\ \A r \in Peers : r # p => stack'[r] = stack[r]
        BY <3>4 DEF Types
      <4>2. \A k : ~Innermost(stack'[p], k)
        BY <2>4, <3>4, <4>1 DEF Innermost, Members
      <4>3. \A r \in Peers : \A k : Innermost(stack'[r], k) => Innermost(stack[r], k)
                                                       /\ stack'[r][k] = stack[r][k]
        BY <4>1, <4>2
      <4> QED
        BY <1>3, <2>0, <3>4, <4>3, ReadyStays
    <3> QED
      BY <2>4, <3>3, <3>4 DEF Loop
  <2>5. ASSUME NEW p \in Peers, NEW q \in Peers, Call(p, q)
        PROVE  \A r \in Peers : ReadyAt(r)'
    <3>1. PICK c \in Number : c = Len(calls) + 1
      BY CallEnds DEF Number
    <3>2. /\ stack' = [stack EXCEPT ![p] = Append(@, Wait(c))]
          /\ chan' = Sent(p, q, Ask(c))
          /\ ready' = ready /\ conns' = conns /\ closed' = closed
      BY <2>5, <3>1 DEF Call
    <3>3. Wait(c) \in Frame /\ Wait(c).at # "update" /\ Ask(c) \in Message
      BY Frames
    <3>4. \A a, b \in Peers : chan[a][b] # <<>> => chan'[a][b] # <<>>
      BY <3>2, <3>3, SendsKeep
    <3> QED
      BY <1>3, <2>0, <3>2, <3>3, <3>4, TopReady
  <2>6. ASSUME NEW p \in Peers, NEW q \in Peers, Close(p, q)
        PROVE  \A r \in Peers : ReadyAt(r)'
    <3>1. /\ stack' = stack /\ ready' = ready /\ conns' = conns
          /\ closed' = closed \cup {<<p, q>>} /\ chan' = [chan EXCEPT ![q][p] = <<>>]
      BY <2>6 DEF Close
    <3>2. chan \in [Peers -> [Peers -> Seq(Message)]]
      BY DEF Types
    <3>3. \A a, b \in Peers : a # q \/ b # p => chan'[a][b] = chan[a][b]
      BY <3>1, <3>2
    <3>4. \A a, b \in Peers : chan[a][b] # <<>> => chan'[a][b] # <<>> \/ <<b, a>> \in closed'
      BY <3>1, <3>3
    <3> QED
      BY <1>3, <2>0, <3>1, <3>4, TopReady
  <2>7. ASSUME NEW p \in Peers, NEW q \in Peers, Connect(p, q)
        PROVE  \A r \in Peers : ReadyAt(r)'
    <3>1. /\ stack' = stack /\ ready' = ready /\ closed' = closed /\ chan' = chan
          /\ stack[p] = <<>>
          /\ \A r \in Peers : r # p => conns'[r] = conns[r]
      BY <2>7 DEF Connect, Idle, Types
    <3>2. ASSUME NEW r \in Peers, r # p PROVE ReadyAt(r)'
      BY <1>3, <2>0, <3>1, <3>2, ReadyStays
    <3>3. ReadyAt(p)'
      BY <3>1 DEF ReadyAt
    <3> QED
      BY <3>2, <3>3
  <2>8. ASSUME NEW p \in Peers, Data(p) PROVE \A r \in Peers : ReadyAt(r)'
    BY <1>3, <2>0, <2>8, DataReady
  <2> QED
    BY <1>3, <2>1, <2>2, <2>3, <2>4, <2>5, <2>6, <2>7, <2>8 DEF Next, Step, ReadyInv
<1> QED
  BY <1>1, <1>2, <1>3

-----------------------------------------------------------------------------
(***************************************************************************)
(* The invariant, and what follows from it.                                *)
(***************************************************************************)
\* Every step keeps to the bound on calls, and answers are of calls.
LEMMA NextCalls == Types /\ OwnersInv /\ CallsInv /\ [Next]_vars => CallsInv'
<1> SUFFICES ASSUME Types, OwnersInv, CallsInv, [Next]_vars PROVE CallsInv'
  OBVIOUS
<1>1. CASE calls' = calls /\ answered' = answered
  BY <1>1 DEF CallsInv
<1>2. ASSUME NEW p \in Peers, NEW q \in Peers, Call(p, q) PROVE CallsInv'
  <2> DEFINE R == [from : Peers, to : Peers]
             r == [from |-> p, to |-> q]
  <2>1. calls \in Seq(R) /\ r \in R /\ calls' = Append(calls, r)
    BY <1>2 DEF Types, Call
  <2> HIDE DEF R, r
  <2>2. /\ Len(calls') = Len(calls) + 1 /\ DOMAIN calls' = 1 .. Len(calls) + 1
        /\ DOMAIN calls = 1 .. Len(calls) /\ Len(calls) \in Nat
    BY <2>1, Appended
  <2>3. answered' = answered /\ Len(calls) + 1 <= MaxCalls
    BY <1>2 DEF Call
  <2> QED
    BY <2>2, <2>3 DEF CallsInv
<1>3. ASSUME NEW p \in Peers, Data(p) PROVE CallsInv'
  <2>1. PICK q \in Peers : q = conns[p][NextSlot(p)]
    BY <1>3, DataDoes
  <2>2. \/ answered' = answered
        \/ /\ chan[q][p] \in Seq(Message) /\ chan[q][p] # <<>>
           /\ answered' = answered \cup {Head(chan[q][p]).call}
    BY <1>3, <2>1, DataDoes
  <2>3. chan[q][p] \in Seq(Message) /\ chan[q][p] # <<>>
        => Head(chan[q][p]).call \in DOMAIN calls
    BY HeadTaken DEF OwnersInv, MessageOwned
  <2>4. calls' = calls
    BY <1>3 DEF Data
  <2> QED
    BY <2>2, <2>3, <2>4 DEF CallsInv
<1>4. ASSUME NEW p \in Peers, Poll(p) \/ Loop(p) PROVE CallsInv'
  BY <1>1, <1>4, RoundsDo DEF Poll, Loop
<1>5. ASSUME NEW p \in Peers, Finish(p) \/ Return(p) PROVE CallsInv'
  BY <1>1, <1>5 DEF Finish, Return
<1>6. ASSUME NEW p \in Peers, NEW q \in Peers, Connect(p, q) \/ Close(p, q) PROVE CallsInv'
  BY <1>1, <1>6 DEF Connect, Close
<1> QED
  BY <1>1, <1>2, <1>3, <1>4, <1>5, <1>6 DEF Next, Step, vars

\* At the start nothing is connected and nothing is called.
LEMMA InitIInv == Init => IInv
<1> SUFFICES ASSUME Init PROVE IInv
  OBVIOUS
<1>1. Types
  <2>1. slots \in [Peers -> Nat]
    BY TablesAssumption DEF Init
  <2>2. \A S : <<>> \in Seq(S)
    BY EmptySeq
  <2> QED
    BY <2>1, <2>2 DEF Init, Types
<1>2. Members(<<>>) = {} /\ Work(<<>>) = {} /\ Len(<<>>) = 0 /\ DOMAIN <<>> = {} /\ Once(<<>>)
  BY DEF Members, Work, Once
<1>3. ConnsInv
  BY <1>1, <1>2 DEF Init, Types, ConnsInv
<1>4. ReadyInv
  BY <1>2 DEF Init, ReadyInv, ReadyAt
<1>5. OrderInv
  BY <1>2 DEF Init, OrderInv, Ordered
<1>6. OwnersInv
  BY <1>2 DEF Init, OwnersInv
<1>7. LiveInv
  BY <1>2 DEF Init, LiveInv
<1>8. CallsInv
  BY <1>2, NumbersAssumption DEF Init, CallsInv
<1> QED
  BY <1>1, <1>3, <1>4, <1>5, <1>6, <1>7, <1>8 DEF IInv

\* IInv is an invariant.
THEOREM Inductive == Spec => []IInv
<1>1. IInv /\ [Next]_vars => IInv'
  BY NextTypes, NextConns, NextReady, NextOrder, NextOwners, NextLive, NextCalls DEF IInv
<1> QED
  BY <1>1, InitIInv, PTL DEF Spec

\* The tables of connections do not overflow, update counts its rounds to the limit, and
\* calls in progress, messages and answers are of events that have been sent.
THEOREM TypeCorrect == Spec => []TypeOK
<1>1. ASSUME IInv PROVE TypeOK
  <2>1. ASSUME NEW p \in Peers
        PROVE  /\ Len(conns[p]) <= slots[p]
               /\ Members(conns[p]) \cup Members(backlog[p]) \cup ready[p] \subseteq Peers
    <3>1. conns[p] \in Seq(Peers) /\ backlog[p] \in Seq(Peers) /\ ready[p] \subseteq Peers
      BY <1>1 DEF IInv, Types
    <3>2. Members(conns[p]) \subseteq Peers /\ Members(backlog[p]) \subseteq Peers
      BY <3>1 DEF Members
    <3> QED
      BY <1>1, <3>1, <3>2 DEF IInv, ConnsInv
  <2>2. ASSUME NEW p \in Peers, NEW f \in Members(stack[p])
        PROVE  IF f.at = "update" THEN f.count \in 1 .. UpdateLimit + 1
                                  ELSE f.call \in DOMAIN calls
    <3>1. f \in Frame
      BY <1>1 DEF IInv, Types, Members
    <3>2. f.at # "update" => f \in Work(stack[p])
      BY DEF Work
    <3> QED
      BY <1>1, <3>1, <3>2, Frames DEF IInv, OwnersInv, FrameOwned
  <2>3. ASSUME NEW p \in Peers, NEW q \in Peers, NEW m \in Members(chan[p][q])
        PROVE  m.kind \in {"ask", "answer"} /\ m.call \in DOMAIN calls
    <3>1. m \in Message
      BY <1>1 DEF IInv, Types, Members
    <3> QED
      BY <1>1, <3>1, Frames DEF IInv, OwnersInv, MessageOwned
  <2> QED
    BY <1>1, <2>1, <2>2, <2>3 DEF TypeOK, IInv, CallsInv
<1> QED
  BY <1>1, Inductive, PTL

\* The update that is running is the innermost.
LEMMA TopIsInnermost ==
  ASSUME Types, NEW p \in Peers, In(p, "update")
  PROVE  Innermost(stack[p], Len(stack[p])) /\ Top(p) = stack[p][Len(stack[p])]
<1>1. stack[p] # <<>> /\ stack[p] \in Seq(Frame) /\ Top(p).at = "update"
  BY DEF Types, In, Idle
<1> QED
  BY <1>1, EmptySeq DEF Innermost, Top

\* recv does not wait for a message, unless a nested update gave up.
LEMMA ReadsReady == IInv => ReadsDoNotWait
<1> SUFFICES ASSUME IInv, ~overrun, NEW p \in Peers, In(p, "update"), Slots(p) # {}
             PROVE  conns[p][NextSlot(p)] \in Readable(p)
  BY DEF ReadsDoNotWait
<1>1. Types /\ ReadyAt(p)
  BY DEF IInv, ReadyInv
<1>2. /\ Innermost(stack[p], Len(stack[p])) /\ Top(p) = stack[p][Len(stack[p])]
      /\ Len(stack[p]) \in DOMAIN stack[p]
  BY <1>1, TopIsInnermost DEF Innermost
<1>3. NextSlot(p) \in Slots(p)
  BY <1>1, Reads
<1>4. /\ NextSlot(p) \in DOMAIN conns[p] /\ Top(p).slot <= NextSlot(p)
      /\ conns[p][NextSlot(p)] \in ready[p] /\ <<p, conns[p][NextSlot(p)]>> \notin closed
  BY <1>3 DEF Slots
<1> QED
  BY <1>1, <1>2, <1>4 DEF ReadyAt

\* What update reads is there, unless an update that was nested in it gave up.
THEOREM ReadsCorrect == Spec => []ReadsDoNotWait
BY ReadsReady, Inductive, PTL

\* If nobody can move, the greatest of the calls that the peers wait for is on nobody's way:
\* who serves it waits for a later one, and what is on its way could be read.
LEMMA NoCircle == IInv => NoCircularWait
<1> SUFFICES ASSUME IInv, NEW d, Waiting(d), ~Trouble, \A p \in Peers : ~CanMove(p)
             PROVE  FALSE
  BY DEF NoCircularWait
<1> DEFINE W == {c \in DOMAIN calls : \E p \in Peers : ~Idle(p) /\ Top(p) = Wait(c)}
<1>1. /\ Types /\ OrderInv /\ OwnersInv /\ LiveInv /\ ReadsDoNotWait
      /\ ~overrun /\ closed = {}
  BY ReadsReady DEF IInv, Trouble
<1>2. ASSUME NEW p \in Peers
      PROVE  Idle(p) \/ (In(p, "wait") /\ Top(p).call \notin answered)
  <2>1. ~In(p, "serve") /\ ~(In(p, "wait") /\ Top(p).call \in answered)
    BY DEF CanMove
  <2>2. ~In(p, "update")
    BY <1>1 DEF CanMove, ReadsDoNotWait
  <2>3. ~Idle(p) => Top(p).at \in {"wait", "serve", "update"}
    BY <1>1, Tops, Frames DEF Idle
  <2> QED
    BY <2>1, <2>2, <2>3 DEF In
<1>3. \A p \in Peers : Readable(p) = {} /\ backlog[p] = <<>>
  BY <1>2 DEF CanMove, Polls
<1>4. ASSUME NEW p \in Peers, ~Idle(p)
      PROVE  \E c \in W : Top(p) = Wait(c) /\ c \notin answered /\ FrameOwned(p, Top(p))
                          /\ c \in Number
  <2>1. /\ Top(p).at = "wait" /\ Top(p).call \notin answered /\ Top(p) \in Frame
        /\ Top(p) \in Members(stack[p])
    BY <1>1, <1>2, <1>4, Tops DEF Idle, In
  <2>2. FrameOwned(p, Top(p))
    BY <1>1, <2>1 DEF OwnersInv, Work
  <2>3. Top(p) = Wait(Top(p).call) /\ Top(p).call \in DOMAIN calls /\ Top(p).call \in Number
    BY <2>1, <2>2, Frames DEF FrameOwned
  <2> QED
    BY <1>4, <2>1, <2>2, <2>3
<1>5. W # {}
  <2>1. PICK p \in Peers : Wait(d) \in Members(stack[p])
    BY DEF Waiting
  <2>2. ~Idle(p)
    BY <2>1 DEF Members, Idle
  <2> QED
    BY <1>4, <2>2
<1>6. W \subseteq 1 .. Len(calls) /\ Len(calls) \in Nat
  BY <1>1, CallEnds
<1>7. PICK c \in W : \A x \in W : x <= c
  <2> HIDE DEF W
  <2> QED
    BY <1>5, <1>6, Greatest
<1>8. PICK p \in Peers : ~Idle(p) /\ Top(p) = Wait(c)
  OBVIOUS
<1>9. /\ c \notin answered /\ c \in Number /\ c \in DOMAIN calls /\ calls[c].from = p
      /\ calls[c].to \in Members(conns[p])
  <2>1. PICK e \in W : Top(p) = Wait(e) /\ e \notin answered /\ FrameOwned(p, Top(p))
                       /\ e \in Number
    BY <1>4, <1>8
  <2>2. e = c
    BY <1>8, <2>1 DEF Wait
  <2>3. Top(p).at = "wait" /\ Top(p).call = c
    BY <1>8 DEF Wait
  <2> QED
    BY <2>1, <2>2, <2>3 DEF FrameOwned
<1> HIDE DEF W
<1>10. PICK q \in Peers : q = calls[c].to
  BY <1>1, <1>9, CallEnds
<1>11. CASE Ask(c) \in Members(chan[p][q])
  <2>1. p \in Members(conns[q]) \cup Members(backlog[q])
    BY <1>9, <1>10 DEF Trouble
  <2>2. backlog[q] = <<>> /\ Readable(q) = {}
    BY <1>3
  <2>3. p \in Members(conns[q])
    BY <2>1, <2>2 DEF Members
  <2>4. chan[p][q] # <<>>
    BY <1>11 DEF Members
  <2> QED
    BY <1>1, <2>2, <2>3, <2>4 DEF Readable
<1>12. CASE Answer(c) \in Members(chan[q][p])
  <2>1. chan[q][p] # <<>>
    BY <1>12 DEF Members
  <2> QED
    BY <1>1, <1>3, <1>9, <1>10, <2>1 DEF Readable
<1>13. CASE Serve(c) \in Work(stack[q])
  <2>1. PICK i \in DOMAIN stack[q] : stack[q][i] = Serve(c)
    BY <1>13 DEF Work, Members
  <2>2. ~Idle(q) /\ stack[q] # <<>> /\ stack[q] \in Seq(Frame)
    BY <1>1, <2>1 DEF Idle, Types
  <2>3. PICK e \in W : Top(q) = Wait(e)
    BY <1>4, <2>2
  <2>4. /\ Len(stack[q]) \in Nat \ {0} /\ DOMAIN stack[q] = 1 .. Len(stack[q])
        /\ stack[q][Len(stack[q])] = Wait(e)
    BY <2>2, <2>3, Shortened DEF Top
  <2>5. i # Len(stack[q])
    BY <2>1, <2>4 DEF Wait, Serve
  <2>6. i < Len(stack[q]) /\ Len(stack[q]) \in DOMAIN stack[q]
    BY <2>1, <2>4, <2>5
  <2>7. /\ Serve(c).at = "serve" /\ Serve(c).call = c
        /\ Wait(e).at = "wait" /\ Wait(e).call = e
    BY DEF Wait, Serve
  <2>8. c < e
    BY <1>1, <2>1, <2>4, <2>6, <2>7 DEF OrderInv, Ordered
  <2>9. e <= c /\ e \in Nat /\ c \in Nat
    BY <1>6, <1>7
  <2> QED
    BY <2>8, <2>9
<1>14. Carried(c)
  BY <1>1, <1>9 DEF LiveInv
<1> QED
  BY <1>9, <1>10, <1>11, <1>12, <1>13, <1>14 DEF Carried

\* Peers whose handlers call each other do not all wait for each other, however deep, as
\* long as no connection is closed, no table is full and no nested update gave up.
THEOREM NoDeadlock == Spec => []NoCircularWait
BY NoCircle, Inductive, PTL
==============================================================================
