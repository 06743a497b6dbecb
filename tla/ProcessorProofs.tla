--------------------------- MODULE ProcessorProofs ---------------------------
(***************************************************************************)
(* Proofs about Processor, for every size of the rings and every bound.    *)
(*                                                                         *)
(* The inductive invariant IInv strengthens the checked invariants by what *)
(* the calls in progress say about the queues (PhaseInv) and about the set *)
(* a synchronous caller waits for (WaitInv).                               *)
(***************************************************************************)
EXTENDS Processor, SequenceTheorems, TLAPS

\* While a loop drains the dependencies no notification is queued; while one
\* drains the sets no dependency is, if the main program sends none.
PhaseInv ==
  \A i \in 1 .. Len(stack) :
    /\ IsLoop(stack[i]) /\ stack[i].q = 2 => Pending(1) = 0
    /\ 2 \notin MainEmits /\ IsLoop(stack[i]) /\ stack[i].q = 0 => Pending(2) = 0

\* A synchronous set waits for an event that was sent; one called in the notify
\* phase whose event is still queued has its nested drain above it.
WaitInv ==
  \A i \in 1 .. Len(stack) :
    stack[i].at \in {"sync", "wait"} =>
      /\ stack[i].n <= sent[0]
      /\ stack[i].at = "wait" /\ stack[i].q = 1 =>
           \/ routed[0] >= stack[i].n
           \/ i < Len(stack) /\ stack[i + 1].at = "remaining"

IInv ==
  /\ TypeOK
  /\ NoEventLost
  /\ NestingInv
  /\ OnlySetsLeft
  /\ PhaseInv
  /\ WaitInv

-----------------------------------------------------------------------------
(***************************************************************************)
(* The stack: what pushing, popping and replacing the innermost call do.   *)
(***************************************************************************)
\* Pushing a frame leaves the frames below where they are.
LEMMA PushFrame ==
  ASSUME NEW s \in Seq(Frame), NEW f \in Frame
  PROVE  /\ Append(s, f) \in Seq(Frame)
         /\ Len(Append(s, f)) = Len(s) + 1
         /\ \A i \in 1 .. Len(s) : Append(s, f)[i] = s[i]
         /\ Append(s, f)[Len(s) + 1] = f
  OBVIOUS

\* Popping the innermost frame leaves the others where they are.
LEMMA PopFrame ==
  ASSUME NEW s \in Seq(Frame), s # <<>>
  PROVE  /\ Front(s) \in Seq(Frame)
         /\ Len(Front(s)) = Len(s) - 1
         /\ Len(s) \in Nat \ {0}
         /\ \A i \in 1 .. Len(s) - 1 : Front(s)[i] = s[i]
         /\ Last(s) = s[Len(s)]
         /\ Last(s) \in Frame
  <1>1. Len(s) \in Nat \ {0}
    OBVIOUS
  <1>2. \A i \in 1 .. Len(s) : s[i] \in Frame
    OBVIOUS
  <1> DEFINE m == Len(s) - 1
  <1>3. /\ SubSeq(s, 1, m) \in Seq(Frame)
        /\ Len(SubSeq(s, 1, m)) = m
        /\ \A i \in 1 .. m : SubSeq(s, 1, m)[i] = s[i]
    <2>1. m \in Nat /\ m <= Len(s)
      BY <1>1
    <2> HIDE DEF m
    <2>2. /\ SubSeq(s, 1, m) \in Seq(Frame)
          /\ Len(SubSeq(s, 1, m)) = IF 1 <= m THEN m - 1 + 1 ELSE 0
          /\ \A i \in 1 .. m - 1 + 1 : SubSeq(s, 1, m)[i] = s[1 + i - 1]
      BY <1>2, <2>1, SubSeqProperties
    <2>3. Len(SubSeq(s, 1, m)) = m
      BY <2>1, <2>2
    <2>4. \A i \in 1 .. m : SubSeq(s, 1, m)[i] = s[i]
      BY <2>1, <2>2
    <2>5. QED
      BY <2>2, <2>3, <2>4
  <1>4. /\ Front(s) \in Seq(Frame)
        /\ Len(Front(s)) = Len(s) - 1
        /\ \A i \in 1 .. Len(s) - 1 : Front(s)[i] = s[i]
    BY <1>3 DEF Front
  <1>6. Last(s) = s[Len(s)] /\ Last(s) \in Frame
    BY <1>1, <1>2 DEF Last
  <1>7. QED
    BY <1>1, <1>4, <1>6

-----------------------------------------------------------------------------
(***************************************************************************)
(* The rings.                                                              *)
(***************************************************************************)
\* The two ways the code advances an index agree.
LEMMA PutNextIsGetNext ==
  ASSUME NEW i \in 0 .. QueueSize - 1
  PROVE  PutNext(i) = GetNext(i) /\ PutNext(i) \in 0 .. QueueSize - 1
  <1>1. CASE i + 1 = QueueSize
    BY <1>1, QueueSizeAssumption DEF PutNext, GetNext
  <1>2. CASE i + 1 # QueueSize
    <2>1. i + 1 \in 0 .. QueueSize - 1
      BY <1>2, QueueSizeAssumption
    <2>2. (i + 1) % QueueSize = i + 1
      BY <2>1, QueueSizeAssumption
    <2>3. QED
      BY <1>2, <2>1, <2>2 DEF PutNext, GetNext
  <1>3. QED
    BY <1>1, <1>2

\* The three queues.
LEMMA Ids == 0 \in QueueId /\ 1 \in QueueId /\ 2 \in QueueId
  BY DEF QueueId

\* The queues each kind of handler sends to.
LEMMA EmitsAre == Emits[0] = {0, 1} /\ Emits[1] = {0, 1, 2} /\ Emits[2] = {0}
  BY Ids DEF Emits

\* A distance is a number of slots, zero exactly when the indices meet.
LEMMA DistanceIs ==
  ASSUME NEW g \in 0 .. QueueSize - 1, NEW p \in 0 .. QueueSize - 1
  PROVE  /\ Distance(g, p) \in 0 .. QueueSize - 1
         /\ g = p <=> Distance(g, p) = 0
  BY QueueSizeAssumption DEF Distance

\* Advancing the put index of a ring with a spare slot adds the slot it was at.
LEMMA DistancePut ==
  ASSUME NEW g \in 0 .. QueueSize - 1, NEW p \in 0 .. QueueSize - 1,
         Distance(g, p) < QueueSize - 1
  PROVE  /\ Distance(g, GetNext(p)) = Distance(g, p) + 1
         /\ Wrap(g + Distance(g, p)) = p
         /\ \A j \in 0 .. Distance(g, p) - 1 :
              Wrap(g + j) # p /\ Wrap(g + j) \in 0 .. QueueSize - 1
  BY QueueSizeAssumption DEF Distance, GetNext, Wrap

\* Advancing the get index of a ring that is not empty drops its first slot.
LEMMA DistanceGet ==
  ASSUME NEW g \in 0 .. QueueSize - 1, NEW p \in 0 .. QueueSize - 1, g # p
  PROVE  /\ Distance(GetNext(g), p) = Distance(g, p) - 1
         /\ Wrap(g + 0) = g
         /\ \A j \in 0 .. Distance(g, p) - 2 : Wrap(GetNext(g) + j) = Wrap(g + (j + 1))
  BY QueueSizeAssumption DEF Distance, GetNext, Wrap

\* What the type invariant says of ring k.
LEMMA RingTypes ==
  ASSUME TypeOK, NEW k \in QueueId
  PROVE  /\ get[k] \in 0 .. QueueSize - 1 /\ put[k] \in 0 .. QueueSize - 1
         /\ slots[k] \in [0 .. QueueSize - 1 -> 0 .. MaxSends]
         /\ sent[k] \in 0 .. MaxSends /\ routed[k] \in 0 .. MaxSends
         /\ sent[k] \in Nat /\ routed[k] \in Nat /\ Pending(k) \in Int
         /\ Queued(k) \in 0 .. QueueSize - 1
         /\ Empty(k) <=> Queued(k) = 0
  <1>1. /\ get[k] \in 0 .. QueueSize - 1 /\ put[k] \in 0 .. QueueSize - 1
        /\ slots[k] \in [0 .. QueueSize - 1 -> 0 .. MaxSends]
        /\ sent[k] \in 0 .. MaxSends /\ routed[k] \in 0 .. MaxSends
    BY DEF TypeOK
  <1>2. sent[k] \in Nat /\ routed[k] \in Nat /\ Pending(k) \in Int
    BY <1>1, MaxSendsAssumption DEF Pending
  <1>3. Queued(k) \in 0 .. QueueSize - 1 /\ (Empty(k) <=> Queued(k) = 0)
    BY <1>1, DistanceIs DEF Queued, Empty
  <1>4. QED
    BY <1>1, <1>2, <1>3

\* Queueing an event of queue k into a ring with a spare slot puts it behind
\* the events the ring holds and touches no other ring.
LEMMA EnqueueRing ==
  ASSUME TypeOK, NoEventLost, NEW k \in QueueId, Enqueue(k),
         sent[k] < MaxSends, Pending(k) < QueueSize - 1
  PROVE  /\ slots' \in [QueueId -> [0 .. QueueSize - 1 -> 0 .. MaxSends]]
         /\ get' \in [QueueId -> 0 .. QueueSize - 1]
         /\ put' \in [QueueId -> 0 .. QueueSize - 1]
         /\ sent' \in [QueueId -> 0 .. MaxSends]
         /\ routed' \in [QueueId -> 0 .. MaxSends]
         /\ sent' = [sent EXCEPT ![k] = @ + 1]
         /\ routed' = routed
         /\ NoEventLost'
  <1>1. PutNext(put[k]) = GetNext(put[k]) /\ PutNext(put[k]) \in 0 .. QueueSize - 1
    BY PutNextIsGetNext DEF TypeOK
  <1>2. /\ slots' \in [QueueId -> [0 .. QueueSize - 1 -> 0 .. MaxSends]]
        /\ get' \in [QueueId -> 0 .. QueueSize - 1]
        /\ put' \in [QueueId -> 0 .. QueueSize - 1]
        /\ sent' \in [QueueId -> 0 .. MaxSends]
        /\ routed' \in [QueueId -> 0 .. MaxSends]
        /\ sent' = [sent EXCEPT ![k] = @ + 1]
        /\ routed' = routed
    BY <1>1, MaxSendsAssumption DEF TypeOK, Enqueue
  <1>3. ASSUME NEW l \in QueueId
        PROVE  /\ Queued(l)' = Pending(l)'
               /\ \A j \in 0 .. Queued(l)' - 1 : slots'[l][Wrap(get'[l] + j)] = routed'[l] + 1 + j
    <2>1. CASE l # k
      <3>1. /\ get'[l] = get[l] /\ put'[l] = put[l] /\ slots'[l] = slots[l]
            /\ sent'[l] = sent[l] /\ routed'[l] = routed[l]
        BY <2>1 DEF Enqueue, TypeOK
      <3>2. Queued(l)' = Queued(l) /\ Pending(l)' = Pending(l)
        BY <3>1 DEF Queued, Pending
      <3>3. QED
        BY <3>1, <3>2 DEF NoEventLost
    <2>2. CASE l = k
      <3>1. /\ get'[k] = get[k] /\ put'[k] = GetNext(put[k])
            /\ slots'[k] = [slots[k] EXCEPT ![put[k]] = sent[k] + 1]
            /\ sent'[k] = sent[k] + 1 /\ routed'[k] = routed[k]
        BY <1>1 DEF Enqueue, TypeOK
      <3> DEFINE D == Distance(get[k], put[k])
      <3>2. /\ D \in Nat /\ D < QueueSize - 1
            /\ D = sent[k] - routed[k]
        BY RingTypes, QueueSizeAssumption DEF NoEventLost, Pending, Queued
      <3>3. /\ Distance(get[k], GetNext(put[k])) = D + 1
            /\ Wrap(get[k] + D) = put[k]
            /\ \A j \in 0 .. D - 1 :
                 Wrap(get[k] + j) # put[k] /\ Wrap(get[k] + j) \in 0 .. QueueSize - 1
        BY <3>2, RingTypes, DistancePut
      <3>4. \A j \in 0 .. D - 1 : slots[k][Wrap(get[k] + j)] = routed[k] + 1 + j
        BY DEF NoEventLost, Queued
      <3>5. Queued(k)' = D + 1
        BY <3>1, <3>3 DEF Queued
      <3> HIDE DEF D
      <3>6. ASSUME NEW j \in 0 .. D
            PROVE  slots'[k][Wrap(get'[k] + j)] = routed'[k] + 1 + j
        <4>1. CASE j = D
          <5>1. slots'[k][put[k]] = sent[k] + 1
            BY <3>1, RingTypes
          <5>2. sent[k] + 1 = routed[k] + 1 + D
            BY <3>2, RingTypes
          <5>3. QED
            BY <4>1, <5>1, <5>2, <3>1, <3>3
        <4>2. CASE j # D
          <5>1. j \in 0 .. D - 1
            BY <3>2, <4>2
          <5>2. slots'[k][Wrap(get[k] + j)] = slots[k][Wrap(get[k] + j)]
            BY <5>1, <3>1, <3>3, RingTypes
          <5>3. QED
            BY <5>1, <5>2, <3>1, <3>4
        <4>3. QED
          BY <4>1, <4>2
      <3>7. Queued(k)' = Pending(k)'
        BY <3>1, <3>2, <3>5, RingTypes DEF Pending
      <3>8. Queued(k)' - 1 = D
        BY <3>2, <3>5
      <3>9. QED
        BY <2>2, <3>6, <3>7, <3>8
    <2>3. QED
      BY <2>1, <2>2
  <1>4. NoEventLost'
    BY <1>3 DEF NoEventLost
  <1>5. QED
    BY <1>2, <1>4

\* Taking the oldest event of a ring that is not empty leaves the others in
\* place; the event taken is the oldest that was sent.
LEMMA RouteRing ==
  ASSUME TypeOK, NoEventLost, NEW k \in QueueId, ~Empty(k),
         get' = [get EXCEPT ![k] = GetNext(@)],
         routed' = [routed EXCEPT ![k] = @ + 1],
         UNCHANGED <<slots, put, sent>>
  PROVE  /\ get' \in [QueueId -> 0 .. QueueSize - 1]
         /\ routed' \in [QueueId -> 0 .. MaxSends]
         /\ slots[k][get[k]] = routed[k] + 1
         /\ routed[k] < sent[k]
         /\ NoEventLost'
  <1> DEFINE D == Distance(get[k], put[k])
  <1>1. get[k] # put[k]
    BY DEF Empty
  <1>2. /\ D = sent[k] - routed[k]
        /\ D \in Nat /\ D # 0 /\ D < QueueSize
    BY <1>1, RingTypes, QueueSizeAssumption DEF NoEventLost, Pending, Queued, Empty
  <1>3. /\ Distance(GetNext(get[k]), put[k]) = D - 1
        /\ Wrap(get[k] + 0) = get[k]
        /\ \A j \in 0 .. D - 2 : Wrap(GetNext(get[k]) + j) = Wrap(get[k] + (j + 1))
    BY <1>1, RingTypes, DistanceGet
  <1>4. \A j \in 0 .. D - 1 : slots[k][Wrap(get[k] + j)] = routed[k] + 1 + j
    BY DEF NoEventLost, Queued
  <1> HIDE DEF D
  <1>5. routed[k] < sent[k]
    BY <1>2, RingTypes
  <1>6. GetNext(get[k]) \in 0 .. QueueSize - 1
    BY RingTypes, QueueSizeAssumption DEF GetNext
  <1>7. routed[k] + 1 \in 0 .. MaxSends
    BY <1>5, RingTypes, MaxSendsAssumption
  <1>8. /\ get' \in [QueueId -> 0 .. QueueSize - 1]
        /\ routed' \in [QueueId -> 0 .. MaxSends]
    BY <1>6, <1>7 DEF TypeOK
  <1>9. slots[k][get[k]] = routed[k] + 1
    <2>1. 0 \in 0 .. D - 1
      BY <1>2
    <2>2. slots[k][Wrap(get[k] + 0)] = routed[k] + 1 + 0
      BY <1>4, <2>1
    <2>3. routed[k] + 1 + 0 = routed[k] + 1
      BY RingTypes
    <2>4. QED
      BY <1>3, <2>2, <2>3
  <1>10. ASSUME NEW l \in QueueId
         PROVE  /\ Queued(l)' = Pending(l)'
                /\ \A j \in 0 .. Queued(l)' - 1 : slots'[l][Wrap(get'[l] + j)] = routed'[l] + 1 + j
    <2>1. CASE l # k
      <3>1. /\ get'[l] = get[l] /\ put'[l] = put[l] /\ slots'[l] = slots[l]
            /\ sent'[l] = sent[l] /\ routed'[l] = routed[l]
        BY <2>1 DEF TypeOK
      <3>2. Queued(l)' = Queued(l) /\ Pending(l)' = Pending(l)
        BY <3>1 DEF Queued, Pending
      <3>3. QED
        BY <3>1, <3>2 DEF NoEventLost
    <2>2. CASE l = k
      <3>1. /\ get'[k] = GetNext(get[k]) /\ put'[k] = put[k] /\ slots'[k] = slots[k]
            /\ sent'[k] = sent[k] /\ routed'[k] = routed[k] + 1
        BY DEF TypeOK
      <3>2. Queued(k)' = D - 1
        BY <3>1, <1>3 DEF Queued
      <3>3. Queued(k)' = Pending(k)'
        BY <3>1, <3>2, <1>2, RingTypes DEF Pending
      <3>4. ASSUME NEW j \in 0 .. D - 2
            PROVE  slots'[k][Wrap(get'[k] + j)] = routed'[k] + 1 + j
        <4>1. j + 1 \in 0 .. D - 1
          BY <1>2
        <4>2. slots[k][Wrap(get[k] + (j + 1))] = routed[k] + 1 + (j + 1)
          BY <4>1, <1>4
        <4>3. routed[k] + 1 + (j + 1) = (routed[k] + 1) + 1 + j
          BY RingTypes
        <4>4. QED
          BY <4>2, <4>3, <3>1, <1>3
      <3>5. Queued(k)' - 1 = D - 2
        BY <3>2, <1>2
      <3>6. QED
        BY <2>2, <3>3, <3>4, <3>5
    <2>3. QED
      BY <2>1, <2>2
  <1>11. NoEventLost'
    BY <1>10 DEF NoEventLost
  <1>12. QED
    BY <1>5, <1>8, <1>9, <1>11

\* The number of events pending in a ring is between 0 and its spare capacity.
LEMMA PendingIs ==
  ASSUME TypeOK, NoEventLost, NEW k \in QueueId
  PROVE  /\ Pending(k) \in Nat /\ Pending(k) = sent[k] - routed[k]
         /\ Empty(k) <=> Pending(k) = 0
  BY RingTypes, QueueSizeAssumption DEF NoEventLost, Pending

\* Sending to queue k makes one more event pending there.
LEMMA EnqueuePending ==
  ASSUME TypeOK, NoEventLost, NEW k \in QueueId, Enqueue(k), MaySend(k),
         LiveEvents < QueueSize
  PROVE  /\ sent[k] < MaxSends /\ Pending(k) < QueueSize - 1
         /\ Pending(k)' = Pending(k) + 1
         /\ \A l \in QueueId \ {k} : Pending(l)' = Pending(l)
         /\ \A l \in QueueId : sent'[l] >= sent[l]
         /\ routed' = routed
         /\ sent'[k] = sent[k] + 1
  <1>1. /\ Pending(0) \in Nat /\ Pending(1) \in Nat /\ Pending(2) \in Nat
    BY PendingIs DEF QueueId
  <1>2. Pending(0) + Pending(1) + Pending(2) < LiveEvents /\ sent[k] < MaxSends
    BY DEF MaySend
  <1>3. Pending(k) < QueueSize - 1
    BY <1>1, <1>2, QueueSizeAssumption, LiveEventsAssumption DEF QueueId
  <1>4. /\ sent'[k] = sent[k] + 1 /\ routed' = routed
        /\ \A l \in QueueId \ {k} : sent'[l] = sent[l]
    BY DEF Enqueue, TypeOK
  <1>5. /\ Pending(k)' = Pending(k) + 1
        /\ \A l \in QueueId \ {k} : Pending(l)' = Pending(l)
    BY <1>4, RingTypes DEF Pending
  <1>6. \A l \in QueueId : sent'[l] >= sent[l]
    BY <1>4, RingTypes
  <1>7. QED
    BY <1>2, <1>3, <1>4, <1>5, <1>6

\* When nothing is queued for notification or registration, the sum of the
\* index differences that processRemaining tests is zero only for empty rings.
LEMMA QueueSumIs ==
  ASSUME TypeOK, NoEventLost, Pending(1) = 0, Pending(2) = 0, QueueSum = 0
  PROVE  Pending(0) = 0
  <1>1. get[1] = put[1] /\ get[2] = put[2]
    BY PendingIs DEF Empty, QueueId
  <1>2. get[0] = put[0]
    <2>1. \A k \in QueueId : get[k] \in Int /\ put[k] \in Int
      BY RingTypes, QueueSizeAssumption
    <2>2. /\ get[0] \in Int /\ put[0] \in Int
          /\ get[1] \in Int /\ get[2] \in Int
      BY <2>1, Ids
    <2>3. (put[0] - get[0]) + (get[1] - get[1]) + (get[2] - get[2]) = 0
      BY <1>1 DEF QueueSum
    <2>4. ASSUME NEW a \in Int, NEW b \in Int, NEW c \in Int, NEW d \in Int,
                 (a - b) + (c - c) + (d - d) = 0
          PROVE  b = a
      BY <2>4
    <2>5. QED
      BY <2>2, <2>3, <2>4
  <1>3. QED
    BY <1>2, PendingIs DEF Empty, QueueId

-----------------------------------------------------------------------------
(***************************************************************************)
(* The steps.                                                              *)
(***************************************************************************)
\* The initial state satisfies the inductive invariant.
LEMMA InitIInv == Init => IInv
  <1> SUFFICES ASSUME Init PROVE IInv
    OBVIOUS
  <1>1. TypeOK
    BY QueueSizeAssumption, MaxSendsAssumption DEF Init, TypeOK
  <1>2. NoEventLost
    <2> SUFFICES ASSUME NEW k \in QueueId
                 PROVE  /\ Queued(k) = Pending(k)
                        /\ \A j \in 0 .. Queued(k) - 1 : slots[k][Wrap(get[k] + j)] = routed[k] + 1 + j
      BY DEF NoEventLost
    <2>1. get[k] = 0 /\ put[k] = 0 /\ sent[k] = 0 /\ routed[k] = 0
      BY DEF Init
    <2>2. Queued(k) = 0 /\ Pending(k) = 0
      BY <2>1 DEF Queued, Pending, Distance
    <2>3. QED
      BY <2>2
  <1>3. stack = <<>> /\ Len(stack) = 0 /\ curq = -1
    BY DEF Init
  <1>4. NestingInv /\ PhaseInv /\ WaitInv
    BY <1>3 DEF NestingInv, PhaseInv, WaitInv
  <1>5. OnlySetsLeft
    BY DEF Init, OnlySetsLeft, Pending, QueueId
  <1>6. QED
    BY <1>1, <1>2, <1>4, <1>5 DEF IInv

\* A handler, or the main program, sends an event.
LEMMA SendIInv ==
  ASSUME IInv, LiveEvents < QueueSize, NEW k \in QueueId, Send(k)
  PROVE  IInv'
  <1> USE DEF IInv, Send
  <1>1. /\ NoEventLost'
        /\ slots' \in [QueueId -> [0 .. QueueSize - 1 -> 0 .. MaxSends]]
        /\ get' \in [QueueId -> 0 .. QueueSize - 1]
        /\ put' \in [QueueId -> 0 .. QueueSize - 1]
        /\ sent' \in [QueueId -> 0 .. MaxSends]
        /\ routed' \in [QueueId -> 0 .. MaxSends]
    BY EnqueuePending, EnqueueRing
  <1>2. /\ Pending(k)' = Pending(k) + 1
        /\ \A l \in QueueId \ {k} : Pending(l)' = Pending(l)
        /\ sent'[0] >= sent[0] /\ routed' = routed
    BY EnqueuePending DEF QueueId
  <1>3. stack \in Seq(Frame) /\ \A i \in 1 .. Len(stack) : stack[i] \in Frame
    BY DEF TypeOK
  <1>4. sent[0] \in Nat /\ sent'[0] \in Nat /\ routed[0] \in Nat
    BY <1>1, MaxSendsAssumption DEF TypeOK, QueueId
  <1>5. CASE idle
    <2>1. stack = <<>> /\ k \in MainEmits
      BY <1>5, <1>3 DEF MaySend, NestingInv, Running, Top, Last
    <2>2. /\ idle' = FALSE /\ curq' = 0 /\ stack' = <<Call("instant", 0, 0)>>
      BY <1>5, <2>1 DEF EnterInstant
    <2>3. /\ stack' \in Seq(Frame) /\ Len(stack') = 1
          /\ stack'[1] = [at |-> "instant", q |-> 0, n |-> 0]
          /\ Call("instant", 0, 0) \in Frame
      BY <2>2, MaxSendsAssumption DEF Call, Frame, FrameKind
    <2>4. TypeOK'
      <3>1. idle' \in BOOLEAN
        BY <2>2
      <3>2. curq' \in -1 .. 2
        BY <2>2
      <3>3. QED
        BY <1>1, <2>3, <3>1, <3>2 DEF TypeOK
    <2>5. NestingInv'
      BY <2>2, <2>3 DEF NestingInv, IsLoop, QueueId
    <2>6. PhaseInv'
      <3>1. 2 \notin MainEmits => Pending(2)' = 0
        BY <1>2, <1>5, <2>1 DEF OnlySetsLeft, QueueId
      <3>2. QED
        BY <2>3, <3>1 DEF PhaseInv, IsLoop
    <2>7. WaitInv' /\ OnlySetsLeft'
      BY <2>2, <2>3 DEF WaitInv, OnlySetsLeft
    <2>8. QED
      BY <1>1, <2>4, <2>5, <2>6, <2>7
  <1>6. CASE ~idle
    <2>1. UNCHANGED <<idle, curq, stack>>
      BY <1>6 DEF EnterInstant
    <2>2. TypeOK'
      BY <1>1, <2>1 DEF TypeOK
    <2>3. NestingInv'
      BY <2>1 DEF NestingInv
    <2>4. ASSUME NEW i \in 1 .. Len(stack), IsLoop(stack[i]), stack[i].q # 1
          PROVE  k \in Emits[stack[i].q]
      <3>1. /\ stack # <<>> /\ Len(stack) \in Nat /\ Len(stack) >= 1
        BY <1>3, <2>4
      <3>2. Top = stack[Len(stack)] /\ Top.at = "handler" /\ k \in Emits[Top.q]
        BY <3>1 DEF MaySend, Running, Top, Last
      <3>3. i # Len(stack)
        BY <2>4, <3>2 DEF IsLoop
      <3>4. Len(stack) \in i + 1 .. Len(stack)
        BY <3>1, <3>3, <1>3
      <3>5. Top.q = stack[i].q
        BY <2>4, <3>2, <3>4 DEF NestingInv
      <3>6. QED
        BY <3>2, <3>5
    <2>5. PhaseInv'
      <3>1. ASSUME NEW i \in 1 .. Len(stack), IsLoop(stack[i]), stack[i].q = 2
            PROVE  Pending(1)' = 0
        <4>1. Pending(1) = 0 /\ k # 1
          BY <2>4, <3>1, EmitsAre DEF PhaseInv
        <4>2. QED
          BY <1>2, <4>1, Ids
      <3>2. ASSUME NEW i \in 1 .. Len(stack), IsLoop(stack[i]), stack[i].q = 0,
                   2 \notin MainEmits
            PROVE  Pending(2)' = 0
        <4>1. Pending(2) = 0 /\ k # 2
          BY <2>4, <3>2, EmitsAre DEF PhaseInv
        <4>2. QED
          BY <1>2, <4>1, Ids
      <3>3. QED
        BY <2>1, <3>1, <3>2 DEF PhaseInv
    <2>6. WaitInv'
      BY <1>2, <1>3, <1>4, <2>1 DEF WaitInv, Frame
    <2>7. OnlySetsLeft'
      BY <1>6, <2>1 DEF OnlySetsLeft
    <2>8. QED
      BY <1>1, <2>2, <2>3, <2>5, <2>6, <2>7
  <1>7. QED
    BY <1>5, <1>6

\* What the type invariant and the nesting say of the innermost call.
LEMMA TopIs ==
  ASSUME TypeOK, stack # <<>>
  PROVE  /\ Len(stack) \in Nat \ {0}
         /\ Top = stack[Len(stack)] /\ Top \in Frame
         /\ Len(stack) \in 1 .. Len(stack)
         /\ \A i \in 1 .. Len(stack) : stack[i] \in Frame
         /\ Front(stack) \in Seq(Frame)
         /\ Len(Front(stack)) = Len(stack) - 1
         /\ \A i \in 1 .. Len(stack) - 1 : Front(stack)[i] = stack[i]
  BY PopFrame DEF TypeOK, Top

\* Returning from a call that is neither a loop nor a set waiting above its
\* nested drain keeps the invariant.
LEMMA ReturnIInv ==
  ASSUME IInv, stack # <<>>, Top.at \in {"handler", "wait", "all"}, Return,
         UNCHANGED <<slots, get, put, idle, curq, sent, routed>>
  PROVE  IInv'
  <1> USE DEF IInv
  <1>1. /\ Len(stack) \in Nat \ {0} /\ Len(stack') = Len(stack) - 1
        /\ stack' \in Seq(Frame)
        /\ \A i \in 1 .. Len(stack) - 1 : stack'[i] = stack[i]
        /\ stack[Len(stack)].at \in {"handler", "wait", "all"}
    BY TopIs DEF Return
  <1>2. \A k : Pending(k)' = Pending(k)
    BY DEF Pending
  <1>3. TypeOK' /\ NoEventLost' /\ OnlySetsLeft'
    BY <1>1, <1>2 DEF TypeOK, NoEventLost, OnlySetsLeft, Queued
  <1>4. NestingInv'
    <2>1. Len(stack') < Len(stack) /\ Len(stack') \in Nat
      BY <1>1
    <2>2. \A i \in 1 .. Len(stack') : i \in 1 .. Len(stack) /\ stack'[i] = stack[i]
      BY <1>1
    <2>3. \A i \in 1 .. Len(stack') : \A j \in i + 1 .. Len(stack') :
            j \in i + 1 .. Len(stack) /\ j \in 1 .. Len(stack')
      BY <1>1
    <2>4. idle' => /\ curq' = -1
                   /\ Len(stack') <= 1
                   /\ \A i \in 1 .. Len(stack') : stack'[i].at \in {"sync", "wait", "all"}
      BY <1>1, <2>1, <2>2 DEF NestingInv
    <2>5. ASSUME NEW i \in 1 .. Len(stack')
          PROVE  /\ IsLoop(stack'[i]) \/ stack'[i].at = "handler" => stack'[i].q \in QueueId
                 /\ stack'[i].at = "instant" =>
                      /\ i <= 2
                      /\ i = 2 => stack'[1].at \in {"sync", "wait", "all"}
      <3>1. i = 2 => 1 \in 1 .. Len(stack')
        BY <1>1
      <3>2. QED
        BY <2>2, <3>1 DEF NestingInv
    <2>6. ASSUME NEW i \in 1 .. Len(stack'), IsLoop(stack'[i]), stack'[i].q # 1
          PROVE  /\ curq' = stack'[i].q
                 /\ \A j \in i + 1 .. Len(stack') :
                      /\ stack'[j].at \in {"handler", "sync", "wait"}
                      /\ stack'[j].q = stack'[i].q
      BY <2>2, <2>3, <2>6 DEF NestingInv
    <2>7. QED
      BY <2>4, <2>5, <2>6 DEF NestingInv
  <1>5. PhaseInv'
    BY <1>1, <1>2 DEF PhaseInv
  <1>6. WaitInv'
    <2>1. ASSUME NEW i \in 1 .. Len(stack'), stack'[i].at \in {"sync", "wait"}
          PROVE  /\ stack'[i].n <= sent'[0]
                 /\ stack'[i].at = "wait" /\ stack'[i].q = 1 =>
                      \/ routed'[0] >= stack'[i].n
                      \/ i < Len(stack') /\ stack'[i + 1].at = "remaining"
      <3>1. /\ i \in 1 .. Len(stack) /\ stack'[i] = stack[i]
            /\ i + 1 \in 1 .. Len(stack)
            /\ i + 1 # Len(stack) => i < Len(stack') /\ stack'[i + 1] = stack[i + 1]
        BY <1>1
      <3>2. stack[i + 1].at = "remaining" => i + 1 # Len(stack)
        BY <1>1
      <3>3. QED
        BY <2>1, <3>1, <3>2 DEF WaitInv
    <2>2. QED
      BY <2>1 DEF WaitInv
  <1>7. QED
    BY <1>3, <1>4, <1>5, <1>6

\* Starting an instant above at most one call of the main program.
LEMMA EnterIdle ==
  ASSUME NEW c \in Seq(Frame), idle, EnterInstant(c), Len(c) <= 1,
         \A i \in 1 .. Len(c) : c[i].at \in {"sync", "wait", "all"},
         2 \notin MainEmits => Pending(2)' = 0
  PROVE  /\ idle' = FALSE /\ curq' = 0 /\ curq' \in -1 .. 2
         /\ stack' \in Seq(Frame) /\ Len(stack') = Len(c) + 1
         /\ \A i \in 1 .. Len(c) : stack'[i] = c[i]
         /\ stack'[Len(c) + 1] = Call("instant", 0, 0)
         /\ NestingInv' /\ PhaseInv' /\ OnlySetsLeft'
  <1> DEFINE f == Call("instant", 0, 0)
  <1>1. f \in Frame /\ f.at = "instant" /\ f.q = 0
    BY MaxSendsAssumption DEF Call, Frame, FrameKind
  <1>2. idle' = FALSE /\ curq' = 0 /\ stack' = Append(c, f)
    BY DEF EnterInstant
  <1>3. curq' \in -1 .. 2
    BY <1>2
  <1> HIDE DEF f
  <1>4. /\ stack' \in Seq(Frame) /\ Len(stack') = Len(c) + 1 /\ Len(c) \in Nat
        /\ \A i \in 1 .. Len(c) : stack'[i] = c[i]
        /\ stack'[Len(c) + 1] = f
    BY <1>1, <1>2, PushFrame
  <1>5. \A i \in 1 .. Len(stack') : (i \in 1 .. Len(c) /\ i = 1) \/ i = Len(c) + 1
    BY <1>4
  <1>6. NestingInv'
    <2>1. ASSUME NEW i \in 1 .. Len(stack')
          PROVE  /\ IsLoop(stack'[i]) \/ stack'[i].at = "handler" => stack'[i].q \in QueueId
                 /\ stack'[i].at = "instant" =>
                      /\ i <= 2
                      /\ i = 2 => stack'[1].at \in {"sync", "wait", "all"}
                 /\ IsLoop(stack'[i]) /\ stack'[i].q # 1 =>
                      /\ curq' = stack'[i].q
                      /\ \A j \in i + 1 .. Len(stack') :
                           /\ stack'[j].at \in {"handler", "sync", "wait"}
                           /\ stack'[j].q = stack'[i].q
      <3>1. CASE i \in 1 .. Len(c)
        BY <3>1, <1>4 DEF IsLoop
      <3>2. CASE i = Len(c) + 1
        <4>1. i <= 2 /\ (i = 2 => 1 \in 1 .. Len(c)) /\ i + 1 .. Len(stack') = {}
          BY <3>2, <1>4
        <4>2. QED
          BY <3>2, <4>1, <1>1, <1>2, <1>4, Ids
      <3>3. QED
        BY <1>5, <3>1, <3>2
    <2>2. QED
      BY <2>1, <1>2 DEF NestingInv
  <1>7. PhaseInv'
    BY <1>1, <1>4, <1>5 DEF PhaseInv, IsLoop
  <1>8. OnlySetsLeft'
    BY <1>2 DEF OnlySetsLeft
  <1>9. QED
    BY <1>2, <1>3, <1>4, <1>6, <1>7, <1>8 DEF f

\* A synchronous set is sent.
LEMMA SyncSetIInv ==
  ASSUME IInv, LiveEvents < QueueSize, SyncSet
  PROVE  IInv'
  <1> USE DEF IInv
  <1> DEFINE f == Call("sync", curq, sent[0] + 1)
  <1>1. MaySend(0) /\ Enqueue(0) /\ EnterInstant(Append(stack, f))
    BY DEF SyncSet
  <1>2. /\ NoEventLost'
        /\ slots' \in [QueueId -> [0 .. QueueSize - 1 -> 0 .. MaxSends]]
        /\ get' \in [QueueId -> 0 .. QueueSize - 1]
        /\ put' \in [QueueId -> 0 .. QueueSize - 1]
        /\ sent' \in [QueueId -> 0 .. MaxSends]
        /\ routed' \in [QueueId -> 0 .. MaxSends]
    BY <1>1, EnqueuePending, EnqueueRing, Ids
  <1>3. /\ Pending(1)' = Pending(1) /\ Pending(2)' = Pending(2)
        /\ sent'[0] = sent[0] + 1 /\ routed' = routed
    BY <1>1, EnqueuePending, Ids
  <1>4. sent[0] \in Nat /\ sent'[0] \in 0 .. MaxSends /\ routed[0] \in Nat
    BY <1>2, RingTypes, Ids
  <1>5. f \in Frame /\ f.at = "sync" /\ f.q = curq /\ f.n = sent[0] + 1
    BY <1>3, <1>4 DEF Call, Frame, FrameKind, TypeOK
  <1> HIDE DEF f
  <1>6. /\ stack \in Seq(Frame) /\ Len(stack) \in Nat
        /\ \A i \in 1 .. Len(stack) : stack[i] \in Frame
    BY DEF TypeOK
  <1>7. /\ Append(stack, f) \in Seq(Frame) /\ Len(Append(stack, f)) = Len(stack) + 1
        /\ \A i \in 1 .. Len(stack) : Append(stack, f)[i] = stack[i]
        /\ Append(stack, f)[Len(stack) + 1] = f
    BY <1>5, <1>6, PushFrame
  <1>8. CASE idle
    <2>1. stack = <<>> /\ Len(stack) = 0
      BY <1>1, <1>6, <1>8 DEF MaySend, NestingInv, Running, Top, Last
    <2>2. /\ idle' = FALSE /\ curq' \in -1 .. 2
          /\ stack' \in Seq(Frame) /\ Len(stack') = 2
          /\ stack'[1] = f /\ stack'[2] = Call("instant", 0, 0)
          /\ NestingInv' /\ PhaseInv' /\ OnlySetsLeft'
      <3>1. Len(Append(stack, f)) = 1 /\ Append(stack, f)[1] = f
        BY <2>1, <1>7
      <3>2. \A i \in 1 .. Len(Append(stack, f)) : Append(stack, f)[i].at \in {"sync", "wait", "all"}
        BY <3>1, <1>5
      <3>3. Pending(2)' = 0
        BY <1>3, <1>8 DEF OnlySetsLeft
      <3> DEFINE c == Append(stack, f)
      <3>4. c \in Seq(Frame) /\ Len(c) = 1 /\ c[1] = f /\ EnterInstant(c)
        BY <1>1, <1>7, <3>1
      <3>5. \A i \in 1 .. Len(c) : c[i].at \in {"sync", "wait", "all"}
        BY <3>2
      <3> HIDE DEF c
      <3>6. Len(c) <= 1 /\ (2 \notin MainEmits => Pending(2)' = 0)
        BY <3>3, <3>4
      <3>7. /\ idle' = FALSE /\ curq' \in -1 .. 2
            /\ stack' \in Seq(Frame) /\ Len(stack') = Len(c) + 1
            /\ \A i \in 1 .. Len(c) : stack'[i] = c[i]
            /\ stack'[Len(c) + 1] = Call("instant", 0, 0)
            /\ NestingInv' /\ PhaseInv' /\ OnlySetsLeft'
        BY <1>8, <3>4, <3>5, <3>6, EnterIdle
      <3>8. QED
        BY <3>4, <3>7
    <2>3. idle' \in BOOLEAN
      BY <2>2
    <2>4. TypeOK'
      BY <1>2, <2>2, <2>3 DEF TypeOK
    <2>5. WaitInv'
      <3>1. \A i \in 1 .. Len(stack') : i = 1 \/ i = 2
        BY <2>2
      <3>2. stack'[2].at = "instant" /\ stack'[1].at = "sync" /\ stack'[1].n = sent'[0]
        BY <1>3, <1>5, <2>2 DEF Call
      <3>3. sent'[0] <= sent'[0]
        BY <1>4
      <3>4. QED
        BY <3>1, <3>2, <3>3 DEF WaitInv
    <2>6. QED
      BY <1>2, <2>2, <2>4, <2>5
  <1>9. CASE ~idle
    <2>1. stack' = Append(stack, f) /\ UNCHANGED <<idle, curq>>
      BY <1>1, <1>9 DEF EnterInstant
    <2>2. TypeOK'
      BY <1>2, <1>7, <2>1 DEF TypeOK
    <2>3. \A i \in 1 .. Len(stack') : i \in 1 .. Len(stack) \/ i = Len(stack) + 1
      BY <1>6, <1>7, <2>1
    <2>4. NestingInv'
      <3>1. ASSUME NEW i \in 1 .. Len(stack')
            PROVE  /\ IsLoop(stack'[i]) \/ stack'[i].at = "handler" => stack'[i].q \in QueueId
                   /\ stack'[i].at = "instant" =>
                        /\ i <= 2
                        /\ i = 2 => stack'[1].at \in {"sync", "wait", "all"}
        <4>1. CASE i \in 1 .. Len(stack)
          <5>1. 1 \in 1 .. Len(stack)
            BY <4>1
          <5>2. QED
            BY <4>1, <5>1, <1>7, <2>1 DEF NestingInv
        <4>2. CASE i = Len(stack) + 1
          BY <4>2, <1>5, <1>7, <2>1 DEF IsLoop
        <4>3. QED
          BY <2>3, <4>1, <4>2
      <3>2. ASSUME NEW i \in 1 .. Len(stack'), IsLoop(stack'[i]), stack'[i].q # 1
            PROVE  /\ curq' = stack'[i].q
                   /\ \A j \in i + 1 .. Len(stack') :
                        /\ stack'[j].at \in {"handler", "sync", "wait"}
                        /\ stack'[j].q = stack'[i].q
        <4>1. i \in 1 .. Len(stack) /\ stack'[i] = stack[i]
          BY <2>3, <3>2, <1>5, <1>7, <2>1 DEF IsLoop
        <4>2. curq = stack[i].q
          BY <3>2, <4>1 DEF NestingInv
        <4>3. ASSUME NEW j \in i + 1 .. Len(stack')
              PROVE  /\ stack'[j].at \in {"handler", "sync", "wait"}
                     /\ stack'[j].q = stack'[i].q
          <5>1. CASE j = Len(stack) + 1
            BY <5>1, <4>1, <4>2, <1>5, <1>7, <2>1
          <5>2. CASE j \in i + 1 .. Len(stack)
            BY <5>2, <3>2, <4>1, <1>7, <2>1 DEF NestingInv
          <5>3. QED
            BY <5>1, <5>2, <1>6, <1>7, <2>1
        <4>4. QED
          BY <2>1, <4>1, <4>2, <4>3
      <3>3. QED
        BY <1>9, <2>1, <3>1, <3>2 DEF NestingInv
    <2>5. PhaseInv'
      BY <1>3, <1>5, <1>7, <2>1, <2>3 DEF PhaseInv, IsLoop
    <2>6. WaitInv'
      <3>1. ASSUME NEW i \in 1 .. Len(stack'), stack'[i].at \in {"sync", "wait"}
            PROVE  /\ stack'[i].n <= sent'[0]
                   /\ stack'[i].at = "wait" /\ stack'[i].q = 1 =>
                        \/ routed'[0] >= stack'[i].n
                        \/ i < Len(stack') /\ stack'[i + 1].at = "remaining"
        <4>1. CASE i \in 1 .. Len(stack)
          <5>1. /\ stack'[i] = stack[i] /\ i < Len(stack')
                /\ i < Len(stack) => stack'[i + 1] = stack[i + 1]
            BY <4>1, <1>6, <1>7, <2>1
          <5>2. stack[i].n <= sent'[0]
            <6>1. stack[i].n \in Nat /\ stack[i].n <= sent[0]
              BY <3>1, <4>1, <5>1, <1>6, MaxSendsAssumption DEF WaitInv, Frame
            <6>2. QED
              BY <6>1, <1>3, <1>4
          <5>3. QED
            BY <3>1, <4>1, <5>1, <5>2, <1>3 DEF WaitInv
        <4>2. CASE i = Len(stack) + 1
          <5>1. stack'[i].at = "sync" /\ stack'[i].n = sent'[0]
            BY <4>2, <1>3, <1>5, <1>7, <2>1
          <5>2. QED
            BY <5>1, <1>4
        <4>3. QED
          BY <2>3, <4>1, <4>2
      <3>2. QED
        BY <3>1 DEF WaitInv
    <2>7. OnlySetsLeft'
      BY <1>9, <2>1 DEF OnlySetsLeft
    <2>8. QED
      BY <1>2, <2>2, <2>4, <2>5, <2>6, <2>7
  <1>10. QED
    BY <1>8, <1>9

\* Below a loop that is the innermost call every loop drains notifications.
LEMMA OuterLoops ==
  ASSUME IInv, stack # <<>>, IsLoop(Top)
  PROVE  /\ ~idle
         /\ \A i \in 1 .. Len(stack) - 1 : ~(IsLoop(stack[i]) /\ stack[i].q # 1)
  <1> USE DEF IInv
  <1>1. /\ Len(stack) \in Nat \ {0} /\ Top = stack[Len(stack)]
        /\ Len(stack) \in 1 .. Len(stack)
    BY TopIs
  <1>2. ~idle
    BY <1>1 DEF NestingInv, IsLoop
  <1>3. ASSUME NEW i \in 1 .. Len(stack) - 1, IsLoop(stack[i]), stack[i].q # 1
        PROVE  FALSE
    <2>1. i \in 1 .. Len(stack) /\ Len(stack) \in i + 1 .. Len(stack)
      BY <1>1
    <2>2. stack[Len(stack)].at \in {"handler", "sync", "wait"}
      BY <1>3, <2>1 DEF NestingInv
    <2>3. QED
      BY <1>1, <2>2 DEF IsLoop
  <1>4. QED
    BY <1>2, <1>3

\* The innermost loop goes on to another queue.
LEMMA NextPhaseIInv ==
  ASSUME IInv, stack # <<>>, IsLoop(Top), NEW k \in QueueId,
         stack' = Append(Front(stack), Call(Top.at, k, 0)), curq' = k,
         UNCHANGED <<slots, get, put, idle, sent, routed>>,
         k = 2 => Pending(1) = 0,
         k = 0 => Pending(2) = 0
  PROVE  IInv'
  <1> USE DEF IInv
  <1> DEFINE f == Call(Top.at, k, 0)
  <1> DEFINE m == Len(stack) - 1
  <1>1. /\ Len(stack) = m + 1 /\ m \in Nat /\ Top = stack[m + 1] /\ Top \in Frame
        /\ Front(stack) \in Seq(Frame) /\ Len(Front(stack)) = m
        /\ \A i \in 1 .. m : Front(stack)[i] = stack[i]
    BY TopIs
  <1>2. f \in Frame /\ f.at = Top.at /\ f.q = k
    BY <1>1, MaxSendsAssumption DEF Call, Frame, QueueId
  <1> HIDE DEF f, m
  <1>3. stack' = Append(Front(stack), f)
    BY DEF f
  <1>4. /\ stack' \in Seq(Frame) /\ Len(stack') = m + 1
        /\ \A i \in 1 .. m : stack'[i] = stack[i]
        /\ stack'[m + 1] = f
    BY <1>1, <1>2, <1>3, PushFrame
  <1>5. \A i \in 1 .. Len(stack') : i \in 1 .. Len(stack) /\ (i \in 1 .. m \/ i = m + 1)
    BY <1>1, <1>4
  <1>6. ~idle /\ \A i \in 1 .. m : ~(IsLoop(stack[i]) /\ stack[i].q # 1)
    BY OuterLoops DEF m
  <1>7. \A i : Pending(i)' = Pending(i)
    BY DEF Pending
  <1>8. TypeOK'
    <2>1. curq' \in -1 .. 2
      BY DEF QueueId
    <2>2. QED
      BY <1>4, <2>1 DEF TypeOK
  <1>9. NoEventLost' /\ OnlySetsLeft'
    BY <1>6, <1>7 DEF NoEventLost, OnlySetsLeft, Queued
  <1>10. NestingInv'
    <2>1. ASSUME NEW i \in 1 .. Len(stack')
          PROVE  /\ IsLoop(stack'[i]) \/ stack'[i].at = "handler" => stack'[i].q \in QueueId
                 /\ stack'[i].at = "instant" =>
                      /\ i <= 2
                      /\ i = 2 => stack'[1].at \in {"sync", "wait", "all"}
                 /\ IsLoop(stack'[i]) /\ stack'[i].q # 1 =>
                      /\ curq' = stack'[i].q
                      /\ \A j \in i + 1 .. Len(stack') :
                           /\ stack'[j].at \in {"handler", "sync", "wait"}
                           /\ stack'[j].q = stack'[i].q
      <3>1. i = 2 => 1 \in 1 .. m
        BY <1>1, <1>4
      <3>2. CASE i \in 1 .. m
        BY <3>1, <3>2, <1>1, <1>4, <1>5, <1>6 DEF NestingInv
      <3>3. CASE i = m + 1
        <4>1. i + 1 .. Len(stack') = {}
          BY <3>3, <1>1, <1>4
        <4>2. stack[i].at = f.at /\ stack'[i] = f /\ i \in 1 .. Len(stack)
          BY <3>3, <1>1, <1>2, <1>4
        <4>3. f.at = "instant" => i <= 2 /\ (i = 2 => stack[1].at \in {"sync", "wait", "all"})
          BY <4>2 DEF NestingInv
        <4>4. i = 2 => stack'[1] = stack[1]
          BY <3>1, <1>4
        <4>5. QED
          BY <4>1, <4>2, <4>3, <4>4, <1>2
      <3>4. QED
        BY <1>5, <3>2, <3>3
    <2>2. QED
      BY <2>1, <1>6 DEF NestingInv
  <1>11. PhaseInv'
    BY <1>2, <1>4, <1>5, <1>6, <1>7 DEF PhaseInv
  <1>12. WaitInv'
    <2>1. ASSUME NEW i \in 1 .. Len(stack'), stack'[i].at \in {"sync", "wait"}
          PROVE  /\ stack'[i].n <= sent'[0]
                 /\ stack'[i].at = "wait" /\ stack'[i].q = 1 =>
                      \/ routed'[0] >= stack'[i].n
                      \/ i < Len(stack') /\ stack'[i + 1].at = "remaining"
      <3>1. i # m + 1
        BY <2>1, <1>2, <1>4 DEF IsLoop
      <3>2. /\ i \in 1 .. m /\ stack'[i] = stack[i] /\ i \in 1 .. Len(stack)
            /\ i < Len(stack) => i < Len(stack')
        BY <3>1, <1>1, <1>4, <1>5
      <3>3. stack[i + 1].at = "remaining" => stack'[i + 1].at = "remaining"
        <4>1. CASE i = m
          BY <4>1, <1>1, <1>2, <1>4
        <4>2. CASE i # m
          <5>1. i + 1 \in 1 .. m
            BY <4>2, <3>2, <1>1
          <5>2. QED
            BY <5>1, <1>4
        <4>3. QED
          BY <4>1, <4>2
      <3>4. QED
        BY <2>1, <3>2, <3>3 DEF WaitInv
    <2>2. QED
      BY <2>1 DEF WaitInv
  <1>13. QED
    BY <1>8, <1>9, <1>10, <1>11, <1>12

\* A synchronous set that has been sent calls processRemaining.
LEMMA CallRemainingIInv ==
  ASSUME IInv, CallRemaining
  PROVE  IInv'
  <1> USE DEF IInv
  <1> DEFINE w == Call("wait", curq, Top.n)
  <1> DEFINE m == Len(stack) - 1
  <1>1. stack # <<>> /\ Top.at = "sync" /\ UNCHANGED <<slots, get, put, sent, routed>>
    BY DEF CallRemaining, Running
  <1>2. /\ Len(stack) = m + 1 /\ m \in Nat /\ Top = stack[m + 1] /\ Top \in Frame
        /\ Front(stack) \in Seq(Frame) /\ Len(Front(stack)) = m
        /\ \A i \in 1 .. m : Front(stack)[i] = stack[i]
    BY <1>1, TopIs
  <1>3. w \in Frame /\ w.at = "wait" /\ w.q = curq /\ w.n = Top.n
    BY <1>2 DEF Call, Frame, FrameKind, TypeOK
  <1>4. w.n <= sent[0]
    BY <1>1, <1>2, <1>3 DEF WaitInv
  <1> DEFINE c == Append(Front(stack), w)
  <1>5. IF curq = 1
        THEN stack' = Append(c, Call("remaining", 1, 0)) /\ UNCHANGED <<idle, curq>>
        ELSE EnterInstant(c)
    BY DEF CallRemaining
  <1> HIDE DEF w, m
  <1>6. /\ c \in Seq(Frame) /\ Len(c) = m + 1
        /\ \A i \in 1 .. m : c[i] = stack[i]
        /\ c[m + 1] = w
    BY <1>2, <1>3, PushFrame
  <1> HIDE DEF c
  <1>7. \A k : Pending(k)' = Pending(k)
    BY <1>1 DEF Pending
  <1>8. NoEventLost'
    BY <1>1, <1>7 DEF NoEventLost, Queued
  <1>9. \A i \in 1 .. m : i \in 1 .. Len(stack) /\ (stack[i + 1].at = "remaining" => i + 1 \in 1 .. m)
    BY <1>1, <1>2
  <1>10. CASE curq = 1
    <2> DEFINE r == Call("remaining", 1, 0)
    <2>1. r \in Frame /\ r.at = "remaining" /\ r.q = 1
      BY MaxSendsAssumption DEF Call, Frame, FrameKind
    <2>2. stack' = Append(c, r) /\ UNCHANGED <<idle, curq>>
      BY <1>5, <1>10
    <2> HIDE DEF r
    <2>3. /\ stack' \in Seq(Frame) /\ Len(stack') = m + 2
          /\ \A i \in 1 .. m + 1 : stack'[i] = c[i]
          /\ stack'[m + 2] = r
      BY <1>2, <1>6, <2>1, <2>2, PushFrame
    <2>4. /\ \A i \in 1 .. m : stack'[i] = stack[i]
          /\ stack'[m + 1] = w
          /\ \A i \in 1 .. Len(stack') : i \in 1 .. m \/ i = m + 1 \/ i = m + 2
      BY <1>2, <1>6, <2>3
    <2>5. ~idle /\ \A i \in 1 .. m : ~(IsLoop(stack[i]) /\ stack[i].q # 1)
      BY <1>9, <1>10 DEF NestingInv
    <2>6. \A i \in 1 .. Len(stack') : ~(IsLoop(stack'[i]) /\ stack'[i].q # 1)
      BY <1>3, <2>1, <2>3, <2>4, <2>5 DEF IsLoop
    <2>7. ASSUME NEW i \in 1 .. Len(stack')
          PROVE  /\ IsLoop(stack'[i]) \/ stack'[i].at = "handler" => stack'[i].q \in QueueId
                 /\ stack'[i].at = "instant" =>
                      /\ i <= 2
                      /\ i = 2 => stack'[1].at \in {"sync", "wait", "all"}
      <3>1. CASE i \in 1 .. m
        <4>1. 1 \in 1 .. m
          BY <1>2, <3>1
        <4>2. QED
          BY <1>9, <2>4, <3>1, <4>1 DEF NestingInv
      <3>2. CASE i = m + 1
        BY <1>3, <2>4, <3>2 DEF IsLoop
      <3>3. CASE i = m + 2
        BY <2>1, <2>3, <3>3, Ids
      <3>4. QED
        BY <2>4, <3>1, <3>2, <3>3
    <2>8. NestingInv'
      BY <2>2, <2>5, <2>6, <2>7 DEF NestingInv
    <2>9. PhaseInv'
      BY <2>6 DEF PhaseInv
    <2>10. WaitInv'
      <3>1. ASSUME NEW i \in 1 .. Len(stack'), stack'[i].at \in {"sync", "wait"}
            PROVE  /\ stack'[i].n <= sent'[0]
                   /\ stack'[i].at = "wait" /\ stack'[i].q = 1 =>
                        \/ routed'[0] >= stack'[i].n
                        \/ i < Len(stack') /\ stack'[i + 1].at = "remaining"
        <4>1. CASE i \in 1 .. m
          <5>1. i < Len(stack')
            BY <1>2, <2>3, <4>1
          <5>2. QED
            BY <1>1, <1>9, <2>4, <3>1, <4>1, <5>1 DEF WaitInv
        <4>2. CASE i = m + 1
          <5>1. i < Len(stack') /\ i + 1 = m + 2
            BY <1>2, <2>3, <4>2
          <5>2. QED
            BY <1>1, <1>4, <2>1, <2>3, <2>4, <4>2, <5>1
        <4>3. CASE i = m + 2
          BY <2>1, <2>3, <3>1, <4>3
        <4>4. QED
          BY <2>4, <4>1, <4>2, <4>3
      <3>2. QED
        BY <3>1 DEF WaitInv
    <2>11. TypeOK'
      BY <1>1, <2>2, <2>3 DEF TypeOK
    <2>12. OnlySetsLeft'
      BY <2>2, <2>5 DEF OnlySetsLeft
    <2>13. QED
      BY <1>8, <2>8, <2>9, <2>10, <2>11, <2>12
  <1>11. CASE curq # 1 /\ idle
    <2>1. m = 0 /\ curq = -1
      BY <1>2, <1>11 DEF NestingInv
    <2>2. EnterInstant(c) /\ Len(c) = 1 /\ Len(c) <= 1 /\ c[1] = w
      BY <1>5, <1>6, <1>11, <2>1
    <2>3. \A i \in 1 .. Len(c) : c[i].at \in {"sync", "wait", "all"}
      BY <1>3, <2>2
    <2>4. 2 \notin MainEmits => Pending(2)' = 0
      BY <1>7, <1>11 DEF OnlySetsLeft
    <2>5. /\ idle' = FALSE /\ curq' \in -1 .. 2
          /\ stack' \in Seq(Frame) /\ Len(stack') = Len(c) + 1
          /\ \A i \in 1 .. Len(c) : stack'[i] = c[i]
          /\ stack'[Len(c) + 1] = Call("instant", 0, 0)
          /\ NestingInv' /\ PhaseInv' /\ OnlySetsLeft'
      BY <1>6, <1>11, <2>2, <2>3, <2>4, EnterIdle
    <2>6. idle' \in BOOLEAN
      BY <2>5
    <2>7. TypeOK'
      BY <1>1, <2>5, <2>6 DEF TypeOK
    <2>8. WaitInv'
      <3>1. /\ \A i \in 1 .. Len(stack') : i = 1 \/ i = 2
            /\ stack'[1] = w /\ stack'[2] = Call("instant", 0, 0)
        BY <2>2, <2>5
      <3>2. stack'[2].at = "instant" /\ w.q # 1 /\ w.n <= sent'[0]
        BY <1>1, <1>3, <1>4, <1>11, <3>1 DEF Call
      <3>3. QED
        BY <3>1, <3>2 DEF WaitInv
    <2>9. QED
      BY <1>8, <2>5, <2>7, <2>8
  <1>12. CASE curq # 1 /\ ~idle
    <2>1. stack' = c /\ UNCHANGED <<idle, curq>>
      BY <1>5, <1>12 DEF EnterInstant
    <2>2. /\ \A i \in 1 .. m : stack'[i] = stack[i] /\ i < Len(stack')
          /\ stack'[m + 1] = w
          /\ \A i \in 1 .. Len(stack') : i \in 1 .. m \/ i = m + 1
      BY <1>2, <1>6, <2>1
    <2>3. ASSUME NEW i \in 1 .. Len(stack')
          PROVE  /\ IsLoop(stack'[i]) \/ stack'[i].at = "handler" => stack'[i].q \in QueueId
                 /\ stack'[i].at = "instant" =>
                      /\ i <= 2
                      /\ i = 2 => stack'[1].at \in {"sync", "wait", "all"}
      <3>1. CASE i \in 1 .. m
        <4>1. 1 \in 1 .. m
          BY <1>2, <3>1
        <4>2. QED
          BY <1>9, <2>2, <3>1, <4>1 DEF NestingInv
      <3>2. CASE i = m + 1
        BY <1>3, <2>2, <3>2 DEF IsLoop
      <3>3. QED
        BY <2>2, <3>1, <3>2
    <2>4. ASSUME NEW i \in 1 .. Len(stack'), IsLoop(stack'[i]), stack'[i].q # 1
          PROVE  /\ curq' = stack'[i].q
                 /\ \A j \in i + 1 .. Len(stack') :
                      /\ stack'[j].at \in {"handler", "sync", "wait"}
                      /\ stack'[j].q = stack'[i].q
      <3>1. i \in 1 .. m /\ stack'[i] = stack[i]
        BY <1>3, <2>2, <2>4 DEF IsLoop
      <3>2. curq = stack[i].q
        BY <1>9, <2>4, <3>1 DEF NestingInv
      <3>3. ASSUME NEW j \in i + 1 .. Len(stack')
            PROVE  /\ stack'[j].at \in {"handler", "sync", "wait"}
                   /\ stack'[j].q = stack'[i].q
        <4>1. CASE j = m + 1
          BY <1>3, <2>2, <3>1, <3>2, <4>1
        <4>2. CASE j \in 1 .. m
          <5>1. j \in i + 1 .. Len(stack)
            BY <1>2, <4>2
          <5>2. QED
            BY <1>9, <2>2, <2>4, <3>1, <4>2, <5>1 DEF NestingInv
        <4>3. QED
          BY <1>2, <1>6, <2>1, <3>1, <4>1, <4>2
      <3>4. QED
        BY <2>1, <3>1, <3>2, <3>3
    <2>5. NestingInv'
      BY <1>12, <2>1, <2>3, <2>4 DEF NestingInv
    <2>6. PhaseInv'
      BY <1>3, <1>7, <1>9, <2>2 DEF PhaseInv, IsLoop
    <2>7. WaitInv'
      BY <1>1, <1>3, <1>4, <1>9, <1>12, <2>2 DEF WaitInv
    <2>8. TypeOK'
      BY <1>1, <1>6, <2>1 DEF TypeOK
    <2>9. OnlySetsLeft'
      BY <1>12, <2>1 DEF OnlySetsLeft
    <2>10. QED
      BY <1>8, <2>5, <2>6, <2>7, <2>8, <2>9
  <1>13. QED
    BY <1>10, <1>11, <1>12

\* processAll starts an instant.
LEMMA ProcessAllIInv ==
  ASSUME IInv, ProcessAll \/ ProcessAllAgain
  PROVE  IInv'
  <1> USE DEF IInv
  <1>1. UNCHANGED <<slots, get, put, sent, routed>>
    BY DEF ProcessAll, ProcessAllAgain
  <1>2. (\A k : Pending(k)' = Pending(k)) /\ NoEventLost'
    BY <1>1 DEF NoEventLost, Queued, Pending
  <1>3. ASSUME NEW c \in Seq(Frame), Len(c) = 1, c[1].at = "all", EnterInstant(c), idle
        PROVE  IInv'
    <2>1. Len(c) <= 1 /\ \A i \in 1 .. Len(c) : c[i].at \in {"sync", "wait", "all"}
      BY <1>3
    <2>2. 2 \notin MainEmits => Pending(2)' = 0
      BY <1>2, <1>3 DEF OnlySetsLeft
    <2>3. /\ idle' = FALSE /\ curq' \in -1 .. 2
          /\ stack' \in Seq(Frame) /\ Len(stack') = Len(c) + 1
          /\ \A i \in 1 .. Len(c) : stack'[i] = c[i]
          /\ stack'[Len(c) + 1] = Call("instant", 0, 0)
          /\ NestingInv' /\ PhaseInv' /\ OnlySetsLeft'
      BY <1>3, <2>1, <2>2, EnterIdle
    <2>4. idle' \in BOOLEAN
      BY <2>3
    <2>5. TypeOK'
      BY <1>1, <2>3, <2>4 DEF TypeOK
    <2>6. \A i \in 1 .. Len(stack') : i = 1 \/ i = 2
      BY <1>3, <2>3
    <2>7. stack'[1].at = "all" /\ stack'[2].at = "instant"
      BY <1>3, <2>3 DEF Call
    <2>8. WaitInv'
      BY <2>6, <2>7 DEF WaitInv
    <2>9. QED
      BY <1>2, <2>3, <2>5, <2>8
  <1>4. CASE ProcessAll
    <2> DEFINE f == Call("all", -1, 0)
    <2>1. f \in Frame /\ f.at = "all"
      BY MaxSendsAssumption DEF Call, Frame, FrameKind
    <2>2. stack = <<>> /\ EnterInstant(<<f>>)
      BY <1>4 DEF ProcessAll
    <2> HIDE DEF f
    <2>3. <<f>> \in Seq(Frame) /\ Len(<<f>>) = 1 /\ <<f>>[1] = f
      BY <2>1
    <2>4. CASE idle
      BY <1>3, <2>1, <2>2, <2>3, <2>4
    <2>5. CASE ~idle
      <3>1. stack' = <<f>> /\ Len(stack') = 1 /\ stack'[1] = f /\ UNCHANGED <<idle, curq>>
        BY <2>2, <2>3, <2>5 DEF EnterInstant
      <3>2. \A i \in 1 .. Len(stack') : i = 1
        BY <3>1
      <3>3. TypeOK'
        BY <1>1, <2>3, <3>1 DEF TypeOK
      <3>4. NestingInv' /\ PhaseInv' /\ WaitInv' /\ OnlySetsLeft'
        BY <2>1, <2>5, <3>1, <3>2 DEF NestingInv, PhaseInv, WaitInv, OnlySetsLeft, IsLoop
      <3>5. QED
        BY <1>2, <3>3, <3>4
    <2>6. QED
      BY <2>4, <2>5
  <1>5. CASE ProcessAllAgain
    <2>1. stack # <<>> /\ Top.at = "all"
      BY <1>5 DEF ProcessAllAgain, Running
    <2>2. CASE QueueSum # 0 /\ idle
      <3>1. EnterInstant(stack)
        BY <1>5, <2>2 DEF ProcessAllAgain
      <3>2. Len(stack) = 1
        BY <2>1, <2>2, TopIs DEF NestingInv
      <3>3. stack \in Seq(Frame) /\ stack[1].at = "all"
        BY <2>1, <3>2, TopIs DEF TypeOK
      <3>4. QED
        BY <1>3, <2>2, <3>1, <3>2, <3>3
    <2>3. CASE QueueSum # 0 /\ ~idle
      <3>1. UNCHANGED vars
        BY <1>1, <1>5, <2>3 DEF ProcessAllAgain, EnterInstant, vars
      <3>2. QED
        BY <3>1 DEF vars, TypeOK, NoEventLost, NestingInv, OnlySetsLeft, PhaseInv, WaitInv,
                    Pending, Queued
    <2>4. CASE QueueSum = 0
      <3>1. Return /\ UNCHANGED <<idle, curq>>
        BY <1>5, <2>4 DEF ProcessAllAgain
      <3>2. QED
        BY <1>1, <2>1, <3>1, ReturnIInv
    <2>5. QED
      BY <2>2, <2>3, <2>4
  <1>6. QED
    BY <1>4, <1>5

\* The innermost loop routes an event: the handler's call is pushed.
LEMMA RouteIInv ==
  ASSUME IInv, Route
  PROVE  IInv'
  <1> USE DEF IInv
  <1> DEFINE k == Top.q
  <1> DEFINE m == Len(stack)
  <1> DEFINE h == Call("handler", k, slots[k][get[k]])
  <1>1. /\ stack # <<>> /\ IsLoop(Top) /\ ~Empty(k)
        /\ get' = [get EXCEPT ![k] = GetNext(@)]
        /\ routed' = [routed EXCEPT ![k] = @ + 1]
        /\ stack' = Append(stack, h)
        /\ UNCHANGED <<slots, put, sent>> /\ UNCHANGED <<idle, curq>>
    BY DEF Route
  <1>2. /\ m \in Nat /\ m \in 1 .. m /\ Top = stack[m]
        /\ stack \in Seq(Frame) /\ \A i \in 1 .. m : stack[i] \in Frame
    BY <1>1, TopIs DEF TypeOK
  <1>3. k \in QueueId
    BY <1>1, <1>2 DEF NestingInv
  <1>4. ~idle /\ \A i \in 1 .. m - 1 : ~(IsLoop(stack[i]) /\ stack[i].q # 1)
    BY <1>1, OuterLoops
  <1>5. h \in Frame /\ h.at = "handler" /\ h.q = k
    <2>1. slots[k][get[k]] \in 0 .. MaxSends
      BY <1>3, RingTypes
    <2>2. k \in -1 .. 2
      BY <1>3 DEF QueueId
    <2>3. QED
      BY <2>1, <2>2 DEF Call, Frame, FrameKind
  <1> HIDE DEF h, k
  <1>6. /\ stack' \in Seq(Frame) /\ Len(stack') = m + 1
        /\ \A i \in 1 .. m : stack'[i] = stack[i]
        /\ stack'[m + 1] = h
    BY <1>1, <1>2, <1>5, PushFrame
  <1> HIDE DEF m
  <1>7. /\ get' \in [QueueId -> 0 .. QueueSize - 1]
        /\ routed' \in [QueueId -> 0 .. MaxSends]
        /\ routed[k] < sent[k] /\ NoEventLost'
    BY <1>1, <1>3, RouteRing
  <1>8. \A l \in QueueId : Pending(l) = 0 => Pending(l)' = 0
    <2>1. ASSUME NEW l \in QueueId, Pending(l) = 0
          PROVE  Pending(l)' = 0
      <3>1. l # k
        BY <1>3, <1>7, <2>1, RingTypes DEF Pending
      <3>2. routed'[l] = routed[l] /\ sent'[l] = sent[l]
        BY <1>1, <3>1 DEF TypeOK
      <3>3. QED
        BY <2>1, <3>2 DEF Pending
    <2>2. QED
      BY <2>1
  <1>9. \A i \in 1 .. Len(stack') : i \in 1 .. m \/ i = m + 1
    BY <1>2, <1>6
  <1>10. TypeOK'
    BY <1>1, <1>6, <1>7 DEF TypeOK
  <1>11. NestingInv'
    <2>1. ASSUME NEW i \in 1 .. Len(stack')
          PROVE  /\ IsLoop(stack'[i]) \/ stack'[i].at = "handler" => stack'[i].q \in QueueId
                 /\ stack'[i].at = "instant" =>
                      /\ i <= 2
                      /\ i = 2 => stack'[1].at \in {"sync", "wait", "all"}
      <3>1. CASE i \in 1 .. m
        <4>1. 1 \in 1 .. m
          BY <1>2, <3>1
        <4>2. QED
          BY <1>6, <3>1, <4>1 DEF NestingInv, m
      <3>2. CASE i = m + 1
        BY <1>3, <1>5, <1>6, <3>2
      <3>3. QED
        BY <1>9, <3>1, <3>2
    <2>2. ASSUME NEW i \in 1 .. Len(stack'), IsLoop(stack'[i]), stack'[i].q # 1
          PROVE  /\ curq' = stack'[i].q
                 /\ \A j \in i + 1 .. Len(stack') :
                      /\ stack'[j].at \in {"handler", "sync", "wait"}
                      /\ stack'[j].q = stack'[i].q
      <3>1. i \in 1 .. m /\ stack'[i] = stack[i]
        BY <1>5, <1>6, <1>9, <2>2 DEF IsLoop
      <3>2. i = m
        <4>1. i \notin 1 .. m - 1
          BY <1>4, <2>2, <3>1
        <4>2. QED
          BY <1>2, <3>1, <4>1
      <3>3. stack'[i].q = k /\ curq = k
        BY <1>1, <1>2, <2>2, <3>1, <3>2 DEF NestingInv, k, m
      <3>4. \A j \in i + 1 .. Len(stack') : j = m + 1
        BY <1>2, <1>6, <3>2
      <3>5. QED
        BY <1>1, <1>5, <1>6, <3>3, <3>4
    <2>3. QED
      BY <1>1, <1>4, <2>1, <2>2 DEF NestingInv
  <1>12. PhaseInv'
    BY <1>5, <1>6, <1>8, <1>9, Ids DEF PhaseInv, IsLoop, m
  <1>13. WaitInv'
    <2>1. ASSUME NEW i \in 1 .. Len(stack'), stack'[i].at \in {"sync", "wait"}
          PROVE  /\ stack'[i].n <= sent'[0]
                 /\ stack'[i].at = "wait" /\ stack'[i].q = 1 =>
                      \/ routed'[0] >= stack'[i].n
                      \/ i < Len(stack') /\ stack'[i + 1].at = "remaining"
      <3>1. i \in 1 .. m /\ stack'[i] = stack[i] /\ i # m
        BY <1>1, <1>2, <1>5, <1>6, <1>9, <2>1 DEF IsLoop
      <3>2. i + 1 \in 1 .. m /\ i < Len(stack')
        BY <1>2, <1>6, <3>1
      <3>3. routed'[0] >= routed[0] /\ routed[0] \in Nat /\ routed'[0] \in Nat
        <4>1. routed[0] \in Nat
          BY RingTypes, Ids
        <4>2. routed'[0] = routed[0] \/ routed'[0] = routed[0] + 1
          BY <1>1, Ids DEF TypeOK
        <4>3. QED
          BY <4>1, <4>2
      <3>4. stack[i].n \in Nat
        BY <1>2, <3>1, MaxSendsAssumption DEF Frame, m
      <3>5. routed[0] >= stack[i].n => routed'[0] >= stack[i].n
        BY <3>3, <3>4
      <3>6. QED
        BY <1>1, <1>6, <2>1, <3>1, <3>2, <3>5 DEF WaitInv, m
    <2>2. QED
      BY <2>1 DEF WaitInv
  <1>14. OnlySetsLeft'
    BY <1>1, <1>4 DEF OnlySetsLeft
  <1>15. QED
    BY <1>7, <1>10, <1>11, <1>12, <1>13, <1>14

\* The instant goes on to its next queue, or ends.
LEMMA InstantPhaseIInv ==
  ASSUME IInv, InstantPhase
  PROVE  IInv'
  <1> USE DEF IInv
  <1> DEFINE m == Len(stack) - 1
  <1>1. /\ stack # <<>> /\ Top.at = "instant" /\ IsLoop(Top) /\ Empty(Top.q)
        /\ UNCHANGED <<slots, get, put, sent, routed>>
    BY DEF InstantPhase, Running, IsLoop
  <1>2. /\ Len(stack) = m + 1 /\ m \in Nat /\ m + 1 \in 1 .. Len(stack) /\ Top = stack[m + 1]
        /\ Front(stack) \in Seq(Frame) /\ Len(Front(stack)) = m
        /\ \A i \in 1 .. m : Front(stack)[i] = stack[i]
    BY <1>1, TopIs
  <1>3. Top.q \in QueueId
    BY <1>1, <1>2 DEF NestingInv
  <1>4. Pending(Top.q) = 0
    BY <1>1, <1>3, PendingIs
  <1>5. CASE Top.q < 2
    <2>1. /\ stack' = Append(Front(stack), Call(Top.at, Top.q + 1, 0))
          /\ curq' = Top.q + 1 /\ UNCHANGED idle
      BY <1>1, <1>5 DEF InstantPhase
    <2>2. /\ Top.q + 1 \in QueueId
          /\ Top.q + 1 = 2 => Top.q = 1
          /\ Top.q + 1 # 0
      BY <1>3, <1>5 DEF QueueId
    <2>3. Top.q + 1 = 2 => Pending(1) = 0
      BY <1>4, <2>2
    <2>4. QED
      BY <1>1, <2>1, <2>2, <2>3, NextPhaseIInv
  <1>6. CASE ~(Top.q < 2)
    <2>1. stack' = Front(stack) /\ curq' = -1 /\ idle' = TRUE
      BY <1>6 DEF InstantPhase, Return
    <2>2. Top.q = 2
      BY <1>3, <1>6 DEF QueueId
    <2>3. Pending(1) = 0 /\ Pending(2) = 0
      BY <1>1, <1>2, <1>4, <2>2 DEF PhaseInv
    <2>4. \A k : Pending(k)' = Pending(k)
      BY <1>1 DEF Pending
    <2>5. m + 1 <= 2 /\ (m + 1 = 2 => stack[1].at \in {"sync", "wait", "all"})
      BY <1>1, <1>2 DEF NestingInv
    <2>6. /\ Len(stack') = m /\ m <= 1 /\ stack' \in Seq(Frame)
          /\ \A i \in 1 .. Len(stack') : /\ i = 1 /\ i \in 1 .. Len(stack)
                                         /\ i + 1 = m + 1
                                         /\ stack'[i] = stack[i]
                                         /\ stack'[i].at \in {"sync", "wait", "all"}
      <3> HIDE DEF m
      <3>1. Len(stack') = m /\ m <= 1 /\ stack' \in Seq(Frame)
        BY <1>2, <2>1, <2>5
      <3>2. \A i \in 1 .. Len(stack') : i = 1 /\ i \in 1 .. m /\ i + 1 = m + 1 /\ m + 1 = 2
        BY <1>2, <3>1
      <3>3. \A i \in 1 .. m : i \in 1 .. Len(stack) /\ stack'[i] = stack[i]
        BY <1>2, <2>1
      <3>4. QED
        BY <2>5, <3>1, <3>2, <3>3
    <2>7. TypeOK'
      <3>1. idle' \in BOOLEAN
        BY <2>1
      <3>2. curq' \in -1 .. 2
        BY <2>1
      <3>3. QED
        BY <1>1, <2>6, <3>1, <3>2 DEF TypeOK
    <2>8. NoEventLost' /\ OnlySetsLeft'
      BY <1>1, <2>3, <2>4 DEF NoEventLost, OnlySetsLeft, Queued
    <2>9. NestingInv' /\ PhaseInv'
      <3>1. \A i \in 1 .. Len(stack') : ~IsLoop(stack'[i]) /\ stack'[i].at \notin {"instant", "handler"}
        BY <2>6 DEF IsLoop
      <3>2. NestingInv'
        BY <2>1, <2>6, <3>1 DEF NestingInv
      <3>3. PhaseInv'
        BY <3>1 DEF PhaseInv
      <3>4. QED
        BY <3>2, <3>3
    <2>10. WaitInv'
      <3>1. ASSUME NEW i \in 1 .. Len(stack'), stack'[i].at \in {"sync", "wait"}
            PROVE  /\ stack'[i].n <= sent'[0]
                   /\ stack'[i].at = "wait" /\ stack'[i].q = 1 => routed'[0] >= stack'[i].n
        <4>1. stack[i + 1].at # "remaining"
          BY <1>1, <1>2, <2>6
        <4>2. QED
          BY <1>1, <2>6, <3>1, <4>1 DEF WaitInv
      <3>2. QED
        BY <3>1 DEF WaitInv
    <2>11. QED
      BY <2>7, <2>8, <2>9, <2>10
  <1>7. QED
    BY <1>5, <1>6

\* A nested drain returns once the sets that were queued have been routed.
LEMMA RemainingReturnIInv ==
  ASSUME IInv, Running("remaining"), Return, Pending(0) = 0, curq' \in -1 .. 2,
         UNCHANGED <<slots, get, put, idle, sent, routed>>
  PROVE  IInv'
  <1> USE DEF IInv
  <1> DEFINE m == Len(stack) - 1
  <1>1. stack # <<>> /\ Top.at = "remaining" /\ IsLoop(Top)
    BY DEF Running, IsLoop
  <1>2. /\ Len(stack) = m + 1 /\ m \in Nat /\ Top = stack[m + 1]
        /\ \A i \in 1 .. Len(stack) : stack[i] \in Frame
        /\ stack' \in Seq(Frame) /\ Len(stack') = m
        /\ \A i \in 1 .. m : stack'[i] = stack[i] /\ i \in 1 .. Len(stack)
    BY <1>1, TopIs DEF Return
  <1>3. ~idle /\ \A i \in 1 .. m : ~(IsLoop(stack[i]) /\ stack[i].q # 1)
    BY <1>1, OuterLoops
  <1> HIDE DEF m
  <1>4. \A k : Pending(k)' = Pending(k)
    BY DEF Pending
  <1>5. TypeOK'
    BY <1>2 DEF TypeOK
  <1>6. NoEventLost' /\ OnlySetsLeft'
    BY <1>3, <1>4 DEF NoEventLost, OnlySetsLeft, Queued
  <1>7. NestingInv'
    <2>1. ASSUME NEW i \in 1 .. Len(stack')
          PROVE  /\ IsLoop(stack'[i]) \/ stack'[i].at = "handler" => stack'[i].q \in QueueId
                 /\ stack'[i].at = "instant" =>
                      /\ i <= 2
                      /\ i = 2 => stack'[1].at \in {"sync", "wait", "all"}
      <3>1. 1 \in 1 .. m
        BY <1>2
      <3>2. QED
        BY <1>2, <3>1 DEF NestingInv
    <2>2. \A i \in 1 .. Len(stack') : ~(IsLoop(stack'[i]) /\ stack'[i].q # 1)
      BY <1>2, <1>3
    <2>3. QED
      BY <1>3, <2>1, <2>2 DEF NestingInv
  <1>8. PhaseInv'
    BY <1>2, <1>3 DEF PhaseInv
  <1>9. WaitInv'
    <2>1. ASSUME NEW i \in 1 .. Len(stack'), stack'[i].at \in {"sync", "wait"}
          PROVE  /\ stack'[i].n <= sent'[0]
                 /\ stack'[i].at = "wait" /\ stack'[i].q = 1 =>
                      \/ routed'[0] >= stack'[i].n
                      \/ i < Len(stack') /\ stack'[i + 1].at = "remaining"
      <3>1. stack[i].n \in Nat /\ stack[i].n <= sent[0] /\ stack'[i] = stack[i]
        BY <1>2, <2>1, MaxSendsAssumption DEF WaitInv, Frame
      <3>2. routed[0] = sent[0]
        BY RingTypes, Ids DEF Pending
      <3>3. routed[0] >= stack[i].n
        BY <3>1, <3>2, RingTypes, Ids
      <3>4. QED
        BY <3>1, <3>3
    <2>2. QED
      BY <2>1 DEF WaitInv
  <1>10. QED
    BY <1>5, <1>6, <1>7, <1>8, <1>9

\* The nested drain goes on to its next queue, or returns.
LEMMA RemainingPhaseIInv ==
  ASSUME IInv, RemainingPhase
  PROVE  IInv'
  <1> USE DEF IInv
  <1>1. /\ stack # <<>> /\ Top.at = "remaining" /\ IsLoop(Top) /\ Empty(Top.q)
        /\ Running("remaining")
        /\ UNCHANGED <<slots, get, put, idle, sent, routed>>
    BY DEF RemainingPhase, Running, IsLoop
  <1>2. Len(stack) \in 1 .. Len(stack) /\ Top = stack[Len(stack)]
    BY <1>1, TopIs
  <1>3. Top.q \in QueueId /\ Pending(Top.q) = 0
    BY <1>1, <1>2, PendingIs DEF NestingInv
  <1>4. Top.q = 2 => Pending(1) = 0
    BY <1>1, <1>2 DEF PhaseInv
  <1>5. CASE Top.q = 1
    <2>1. stack' = Append(Front(stack), Call(Top.at, 2, 0)) /\ curq' = 2
      BY <1>1, <1>5 DEF RemainingPhase
    <2>2. QED
      BY <1>1, <1>3, <1>5, <2>1, Ids, NextPhaseIInv
  <1>6. CASE Top.q = 2 /\ QueueSum # 0
    <2>1. stack' = Append(Front(stack), Call(Top.at, 0, 0)) /\ curq' = 0
      BY <1>1, <1>6 DEF RemainingPhase
    <2>2. QED
      BY <1>1, <1>3, <1>6, <2>1, Ids, NextPhaseIInv
  <1>7. CASE Top.q = 2 /\ QueueSum = 0
    <2>1. Return /\ curq' = -1
      BY <1>1, <1>7 DEF RemainingPhase
    <2>2. Pending(0) = 0
      BY <1>3, <1>4, <1>7, QueueSumIs
    <2>3. curq' \in -1 .. 2
      BY <2>1
    <2>4. QED
      BY <1>1, <2>1, <2>2, <2>3, RemainingReturnIInv
  <1>8. CASE Top.q = 0
    <2>1. Return /\ curq' = 1
      BY <1>1, <1>8 DEF RemainingPhase
    <2>2. Pending(0) = 0 /\ curq' \in -1 .. 2
      BY <1>3, <1>8, <2>1
    <2>3. QED
      BY <1>1, <2>1, <2>2, RemainingReturnIInv
  <1>9. Top.q = 0 \/ Top.q = 1 \/ Top.q = 2
    BY <1>3 DEF QueueId
  <1>10. QED
    BY <1>5, <1>6, <1>7, <1>8, <1>9

\* Every step of the specification preserves the inductive invariant when the
\* rings are larger than the number of events alive.
LEMMA NextIInv ==
  ASSUME IInv, [Next]_vars, LiveEvents < QueueSize
  PROVE  IInv'
  <1>1. ASSUME NEW k \in QueueId, Send(k)
        PROVE  IInv'
    BY <1>1, SendIInv
  <1>2. CASE SyncSet
    BY <1>2, SyncSetIInv
  <1>3. CASE CallRemaining
    BY <1>3, CallRemainingIInv
  <1>4. CASE SyncReturn
    BY <1>4, ReturnIInv DEF SyncReturn, Running
  <1>5. CASE ProcessAll \/ ProcessAllAgain
    BY <1>5, ProcessAllIInv
  <1>6. CASE Route
    BY <1>6, RouteIInv
  <1>7. CASE HandlerReturn
    BY <1>7, ReturnIInv DEF HandlerReturn, Running
  <1>8. CASE InstantPhase
    BY <1>8, InstantPhaseIInv
  <1>9. CASE RemainingPhase
    BY <1>9, RemainingPhaseIInv
  <1>10. CASE UNCHANGED vars
    BY <1>10 DEF vars, IInv, TypeOK, NoEventLost, NestingInv, OnlySetsLeft, PhaseInv, WaitInv,
                 Pending, Queued
  <1>11. QED
    BY <1>1, <1>2, <1>3, <1>4, <1>5, <1>6, <1>7, <1>8, <1>9, <1>10 DEF Next

-----------------------------------------------------------------------------
(***************************************************************************)
(* The theorems.  RingsHoldPool is what the code relies on: QUEUE_SIZE is  *)
(* larger than the number of events the pool lets exist (processor.h and   *)
(* event.h give both 100000 slots; the pool keeps one back).               *)
(***************************************************************************)
RingsHoldPool == LiveEvents < QueueSize

\* The inductive invariant holds in every behaviour.
THEOREM Inductive ==
  ASSUME RingsHoldPool
  PROVE  Spec => []IInv
  <1>1. IInv /\ [Next]_vars => IInv'
    BY NextIInv DEF RingsHoldPool
  <1>2. QED
    BY InitIInv, <1>1, PTL DEF Spec

\* Every variable keeps its type, in particular the indices stay in the rings.
THEOREM TypeCorrect ==
  ASSUME RingsHoldPool
  PROVE  Spec => []TypeOK
  <1>1. IInv => TypeOK
    BY DEF IInv
  <1>2. QED
    BY Inductive, <1>1, PTL

\* No ring loses, repeats or reorders an event, whatever drains nest in
\* whatever handlers.
THEOREM RingsAreQueues ==
  ASSUME RingsHoldPool
  PROVE  Spec => []NoEventLost
  <1>1. IInv => NoEventLost
    BY DEF IInv
  <1>2. QED
    BY Inductive, <1>1, PTL

\* The calls nest as NestingInv says: instants never nest.
THEOREM CallsNest ==
  ASSUME RingsHoldPool
  PROVE  Spec => []NestingInv
  <1>1. IInv => NestingInv
    BY DEF IInv
  <1>2. QED
    BY Inductive, <1>1, PTL

\* Between instants no notification and no dependency is queued.
THEOREM InstantsLeaveOnlySets ==
  ASSUME RingsHoldPool
  PROVE  Spec => []OnlySetsLeft
  <1>1. IInv => OnlySetsLeft
    BY DEF IInv
  <1>2. QED
    BY Inductive, <1>1, PTL

\* A synchronous set that found the notify phase running has taken effect when
\* it returns.
THEOREM NotifyPhaseSetsBlock ==
  ASSUME RingsHoldPool
  PROVE  Spec => []SyncSetInNotifyPhase
  <1>1. IInv => SyncSetInNotifyPhase
    <2>1. SUFFICES ASSUME IInv, Running("wait"), Top.q = 1
                   PROVE  routed[0] >= Top.n
      BY DEF SyncSetInNotifyPhase
    <2>2. Len(stack) \in 1 .. Len(stack) /\ Top = stack[Len(stack)] /\ ~(Len(stack) < Len(stack))
      BY <2>1, TopIs DEF IInv, Running
    <2>3. QED
      BY <2>1, <2>2 DEF IInv, WaitInv, Running
  <1>2. QED
    BY Inductive, <1>1, PTL

\* When the main program sends no dependency itself, a set is routed only when
\* every dependency sent before it has been registered.
THEOREM DependenciesFirst ==
  ASSUME RingsHoldPool, 2 \notin MainEmits
  PROVE  Spec => DependenciesBeforeSets
  <1>1. IInv /\ [Next]_vars => [routed'[0] # routed[0] => Pending(2) = 0]_vars
    <2> SUFFICES ASSUME IInv, [Next]_vars, routed'[0] # routed[0]
                 PROVE  Pending(2) = 0
      OBVIOUS
    <2>1. Route
      <3>1. ASSUME NEW k \in QueueId, Send(k)
            PROVE  FALSE
        BY <3>1 DEF Send, Enqueue
      <3>2. QED
        BY <3>1 DEF Next, vars, SyncSet, Enqueue, CallRemaining, SyncReturn, ProcessAll,
                    ProcessAllAgain, HandlerReturn, InstantPhase, RemainingPhase
    <2>2. stack # <<>> /\ IsLoop(Top) /\ routed' = [routed EXCEPT ![Top.q] = @ + 1]
      BY <2>1 DEF Route
    <2>3. Top.q = 0
      <3>1. routed \in [QueueId -> 0 .. MaxSends]
        BY DEF IInv, TypeOK
      <3>2. QED
        BY <2>2, <3>1, Ids
    <2>4. Len(stack) \in 1 .. Len(stack) /\ Top = stack[Len(stack)]
      BY <2>2, TopIs DEF IInv
    <2>5. QED
      BY <2>2, <2>3, <2>4 DEF IInv, PhaseInv
  <1>2. QED
    BY Inductive, <1>1, PTL DEF Spec, DependenciesBeforeSets

-----------------------------------------------------------------------------
(***************************************************************************)
(* The processor implements EventQueues, for every size of the rings and   *)
(* every bound: the initial state is an initial state there, and every     *)
(* step is a step there or changes nothing.                                *)
(***************************************************************************)
\* The events n + 1 to n + p, as EventQueues holds them.
Window(n, p) == [j \in 1 .. p |-> n + j]

\* What windows of events do as sequences.
LEMMA WindowIs ==
  ASSUME NEW n \in Nat, NEW p \in Nat
  PROVE  /\ Window(n, p) \in Seq(Nat)
         /\ Len(Window(n, p)) = p
         /\ Append(Window(n, p), n + p + 1) = Window(n, p + 1)
         /\ p # 0 => Tail(Window(n, p)) = Window(n + 1, p - 1)
         /\ Window(n, p) = <<>> <=> p = 0
  <1>1. Window(n, p) \in Seq(Nat) /\ Len(Window(n, p)) = p
    BY DEF Window
  <1>2. Append(Window(n, p), n + p + 1) = Window(n, p + 1)
    BY DEF Window
  <1>3. ASSUME p # 0
        PROVE  Tail(Window(n, p)) = Window(n + 1, p - 1)
    BY <1>3 DEF Window
  <1>4. Window(n, p) = <<>> <=> p = 0
    BY <1>1
  <1>5. QED
    BY <1>1, <1>2, <1>3, <1>4

\* A ring holds the window of the events that are sent and not routed.
LEMMA ContentsIs ==
  ASSUME TypeOK, NoEventLost, NEW k \in QueueId
  PROVE  Contents(k) = Window(routed[k], Pending(k))
  <1>1. Queued(k) = Pending(k) /\ Pending(k) \in Nat /\ routed[k] \in Nat /\ get[k] \in Nat
    BY RingTypes, PendingIs, QueueSizeAssumption DEF NoEventLost
  <1>2. ASSUME NEW j \in 1 .. Pending(k)
        PROVE  slots[k][Wrap(get[k] + j - 1)] = routed[k] + j
    <2>1. j - 1 \in 0 .. Queued(k) - 1
      BY <1>1
    <2>2. slots[k][Wrap(get[k] + (j - 1))] = routed[k] + 1 + (j - 1)
      BY <2>1 DEF NoEventLost
    <2>3. get[k] + (j - 1) = get[k] + j - 1 /\ routed[k] + 1 + (j - 1) = routed[k] + j
      BY <1>1
    <2>4. QED
      BY <2>2, <2>3
  <1>3. QED
    BY <1>1, <1>2 DEF Contents, Window

\* What holds of all rings in every reachable state.
RingsAreWindows ==
  \A l \in QueueId : /\ Contents(l) = Window(routed[l], Pending(l))
                     /\ routed[l] \in Nat /\ sent[l] \in Nat /\ Pending(l) \in Nat
                     /\ Pending(l) = sent[l] - routed[l]

\* The inductive invariant makes every ring a window.
LEMMA ContentsAre == IInv => RingsAreWindows
  BY ContentsIs, RingTypes, PendingIs DEF IInv, RingsAreWindows

\* The contents of the three rings.
AllContents == [k \in QueueId |-> Contents(k)]

\* Queueing an event is a Put.
LEMMA EnqueueIsPut ==
  ASSUME IInv, IInv', NEW k \in QueueId, MaySend(k), Enqueue(k), LiveEvents < QueueSize,
         idle' = FALSE
  PROVE  Queues!Put(k)
  <1>1. \A l \in QueueId : /\ routed[l] \in Nat /\ Pending(l) \in Nat
                           /\ Pending(l) = sent[l] - routed[l]
    BY RingTypes, PendingIs DEF IInv
  <1>2. \A l \in QueueId : Contents(l) = Window(routed[l], Pending(l))
    BY ContentsIs DEF IInv
  <1>3. \A l \in QueueId : Contents(l)' = Window(routed'[l], Pending(l)')
    <2>1. RingsAreWindows'
      BY ContentsAre, PTL
    <2>2. QED
      BY <2>1 DEF RingsAreWindows
  <1>4. /\ Pending(k)' = Pending(k) + 1
        /\ \A l \in QueueId \ {k} : Pending(l)' = Pending(l)
        /\ routed' = routed
    BY EnqueuePending DEF IInv
  <1>5. Len(Contents(0)) + Len(Contents(1)) + Len(Contents(2)) < LiveEvents
    <2>1. ASSUME NEW l \in QueueId
          PROVE  Len(Contents(l)) = Pending(l)
      <3>1. Len(Window(routed[l], Pending(l))) = Pending(l)
        BY <1>1, WindowIs
      <3>2. QED
        BY <1>2, <3>1
    <2>2. QED
      BY <2>1, Ids DEF MaySend
  <1>6. Contents(k)' = Append(Contents(k), sent[k] + 1)
    <2>1. Contents(k)' = Window(routed[k], Pending(k) + 1)
      BY <1>3, <1>4
    <2>2. routed[k] + Pending(k) + 1 = sent[k] + 1
      BY <1>1, RingTypes DEF IInv
    <2>3. Append(Window(routed[k], Pending(k)), routed[k] + Pending(k) + 1)
            = Window(routed[k], Pending(k) + 1)
      BY <1>1, WindowIs
    <2>4. Contents(k) = Window(routed[k], Pending(k))
      BY <1>2
    <2>5. QED
      BY <2>1, <2>2, <2>3, <2>4
  <1>7. \A l \in QueueId \ {k} : Contents(l)' = Contents(l)
    BY <1>2, <1>3, <1>4
  <1>8. AllContents' = [AllContents EXCEPT ![k] = Append(@, sent[k] + 1)]
    BY <1>6, <1>7 DEF AllContents
  <1>9. Len(AllContents[0]) + Len(AllContents[1]) + Len(AllContents[2]) < LiveEvents
    BY <1>5, Ids DEF AllContents
  <1>10. sent' = [sent EXCEPT ![k] = @ + 1]
    BY DEF Enqueue
  <1>11. QED
    BY <1>8, <1>9, <1>10 DEF Queues!Put, AllContents

\* Routing an event is a Take.
LEMMA RouteIsTake ==
  ASSUME IInv, IInv', Route
  PROVE  \E k \in QueueId : Queues!Take(k)
  <1>1. stack # <<>> /\ IsLoop(Top)
    BY DEF Route
  <1>2. Len(stack) \in 1 .. Len(stack) /\ Top = stack[Len(stack)]
    BY <1>1, TopIs DEF IInv
  <1>3. PICK k \in QueueId : k = Top.q
    BY <1>1, <1>2 DEF IInv, NestingInv
  <1>0. /\ ~Empty(k)
        /\ get' = [get EXCEPT ![k] = GetNext(@)]
        /\ routed' = [routed EXCEPT ![k] = @ + 1]
        /\ UNCHANGED <<slots, put, idle, curq, sent>>
    BY <1>3 DEF Route
  <1>4. idle = FALSE
    <2>1. SUFFICES ASSUME idle PROVE FALSE
      BY DEF IInv, TypeOK
    <2>2. Top.at \in {"sync", "wait", "all"}
      BY <1>2, <2>1 DEF IInv, NestingInv
    <2>3. QED
      BY <1>1, <2>2 DEF IsLoop
  <1>5. \A l \in QueueId : routed[l] \in Nat /\ Pending(l) \in Nat /\ sent[l] \in Nat
    BY RingTypes, PendingIs DEF IInv
  <1>6. \A l \in QueueId : Contents(l) = Window(routed[l], Pending(l))
    BY ContentsIs DEF IInv
  <1>7. \A l \in QueueId : Contents(l)' = Window(routed'[l], Pending(l)')
    <2>1. RingsAreWindows'
      BY ContentsAre, PTL
    <2>2. QED
      BY <2>1 DEF RingsAreWindows
  <1>8. Pending(k) # 0
    BY <1>0, PendingIs DEF IInv
  <1>9. /\ routed'[k] = routed[k] + 1 /\ Pending(k)' = Pending(k) - 1
        /\ \A l \in QueueId \ {k} : routed'[l] = routed[l] /\ Pending(l)' = Pending(l)
    <2>1. /\ routed'[k] = routed[k] + 1 /\ sent' = sent
          /\ \A l \in QueueId \ {k} : routed'[l] = routed[l]
      BY <1>0 DEF IInv, TypeOK
    <2>2. Pending(k)' = Pending(k) - 1
      <3>1. Pending(k)' = sent[k] - (routed[k] + 1) /\ Pending(k) = sent[k] - routed[k]
        BY <2>1 DEF Pending
      <3>2. QED
        BY <1>3, <1>5, <3>1
    <2>3. \A l \in QueueId \ {k} : Pending(l)' = Pending(l)
      BY <2>1 DEF Pending
    <2>4. QED
      BY <2>1, <2>2, <2>3
  <1>10. Contents(k) # <<>> /\ Contents(k)' = Tail(Contents(k))
    <2>1. /\ Tail(Window(routed[k], Pending(k))) = Window(routed[k] + 1, Pending(k) - 1)
          /\ Window(routed[k], Pending(k)) # <<>>
      BY <1>3, <1>5, <1>8, WindowIs
    <2>2. Contents(k) = Window(routed[k], Pending(k))
      BY <1>3, <1>6
    <2>3. Contents(k)' = Window(routed'[k], Pending(k)')
      BY <1>3, <1>7
    <2>4. Window(routed'[k], Pending(k)') = Window(routed[k] + 1, Pending(k) - 1)
      BY <1>9
    <2>5. QED
      BY <2>1, <2>2, <2>3, <2>4
  <1>11. \A l \in QueueId \ {k} : Contents(l)' = Contents(l)
    BY <1>6, <1>7, <1>9
  <1>12. AllContents' = [AllContents EXCEPT ![k] = Tail(@)] /\ AllContents[k] # <<>>
    <2>1. AllContents' = [l \in QueueId |-> Contents(l)']
      BY DEF AllContents
    <2>2. AllContents = [l \in QueueId |-> Contents(l)]
      BY DEF AllContents
    <2>3. \A l \in QueueId : Contents(l)' = IF l = k THEN Tail(AllContents[k]) ELSE AllContents[l]
      BY <1>3, <1>10, <1>11, <2>2
    <2>4. QED
      BY <1>3, <1>10, <2>1, <2>2, <2>3
  <1>13. Queues!Take(k)
    BY <1>0, <1>4, <1>12 DEF Queues!Take, AllContents
  <1>14. QED
    BY <1>3, <1>13

\* A step that touches no ring is Start, Rest or a stutter.
LEMMA OtherIsStutter ==
  ASSUME IInv, IInv', UNCHANGED <<slots, get, put, sent, routed>>
  PROVE  Queues!Start \/ Queues!Rest \/ UNCHANGED Queues!vars
  <1>1. AllContents' = AllContents
    BY DEF AllContents, Contents, Queued
  <1>2. CASE idle' = FALSE
    BY <1>1, <1>2 DEF Queues!Start, AllContents
  <1>3. CASE idle' = TRUE
    <2>1. Pending(1)' = 0 /\ Pending(2)' = 0
      BY <1>3 DEF IInv, OnlySetsLeft
    <2>2. Pending(1) = 0 /\ Pending(2) = 0
      BY <2>1 DEF Pending
    <2>3. Contents(1) = <<>> /\ Contents(2) = <<>>
      BY <2>2, ContentsAre, WindowIs, Ids DEF RingsAreWindows
    <2>4. AllContents[1] = <<>> /\ AllContents[2] = <<>>
      BY <2>3, Ids DEF AllContents
    <2>5. QED
      BY <1>1, <1>3, <2>4 DEF Queues!Rest, AllContents
  <1>4. QED
    BY <1>2, <1>3 DEF IInv, TypeOK

\* Every step of the processor is a step of the queues or a stutter.
LEMMA StepRefines ==
  ASSUME IInv, IInv', [Next]_vars, LiveEvents < QueueSize
  PROVE  [Queues!Next]_(Queues!vars)
  <1>1. ASSUME NEW k \in QueueId, NEW c, MaySend(k), Enqueue(k), EnterInstant(c)
        PROVE  Queues!Put(k)
    <2>1. idle' = FALSE
      BY <1>1 DEF EnterInstant, IInv, TypeOK
    <2>2. QED
      BY <1>1, <2>1, EnqueueIsPut
  <1>2. ASSUME NEW k \in QueueId, Send(k)
        PROVE  Queues!Put(k)
    BY <1>1, <1>2 DEF Send
  <1>3. CASE SyncSet
    BY <1>1, <1>3, Ids DEF SyncSet, Queues!Next, Queues!QueueId, QueueId
  <1>4. CASE Route
    BY <1>4, RouteIsTake DEF Queues!Next, Queues!QueueId, QueueId
  <1>5. CASE UNCHANGED <<slots, get, put, sent, routed>>
    BY <1>5, OtherIsStutter DEF Queues!Next
  <1>6. CASE \E k \in QueueId : Send(k)
    BY <1>2, <1>6 DEF Queues!Next, Queues!QueueId, QueueId
  <1>7. QED
    BY <1>3, <1>4, <1>5, <1>6 DEF Next, vars, CallRemaining, SyncReturn, ProcessAll,
       ProcessAllAgain, HandlerReturn, InstantPhase, RemainingPhase

\* The rings start empty and idle.
LEMMA InitRefines == Init => Queues!Init
  <1> SUFFICES ASSUME Init PROVE Queues!Init
    OBVIOUS
  <1>1. \A k \in QueueId : Contents(k) = <<>>
    <2> SUFFICES ASSUME NEW k \in QueueId PROVE Contents(k) = <<>>
      OBVIOUS
    <2>1. Queued(k) = 0
      BY DEF Init, Queued, Distance
    <2>2. QED
      BY <2>1 DEF Contents
  <1>2. QED
    BY <1>1 DEF Init, Queues!Init, Queues!QueueId, QueueId

\* The processor implements the three queues its callers are promised: what it
\* does with rings, an instant and nested drains is, to them, putting and taking.
THEOREM ProcessorImplementsQueues ==
  ASSUME RingsHoldPool
  PROVE  Spec => ImplementsQueues
  <1>1. IInv /\ IInv' /\ [Next]_vars => [Queues!Next]_(Queues!vars)
    BY StepRefines DEF RingsHoldPool
  <1>2. QED
    BY Inductive, InitRefines, <1>1, PTL DEF Spec, ImplementsQueues, Queues!Spec

=============================================================================
