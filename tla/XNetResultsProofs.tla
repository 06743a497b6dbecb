--------------------------- MODULE XNetResultsProofs ---------------------------
(***************************************************************************)
(* Proofs about XNetResults, for every length of the table and however     *)
(* deep calls nest.  Everything follows from one fact: as calls return     *)
(* innermost first, the entries that are not available are those before    *)
(* the depth, so that the first available one is the depth itself.         *)
(***************************************************************************)
EXTENDS XNetResults, TLAPS

\* The entries of the calls in progress are the first of the table.
AvailAreRest == \A e \in Table : avail[e] <=> e >= depth

\* The entry that the depth of a call gives it.
Index(c) == IF c <= MaxResults THEN c - 1 ELSE MaxResults

\* The answers on their way: with the index of their depth, and for a call with an
\* entry of the table at most one, as long as it is in progress.
AnswersInv ==
  \A c \in Call :
    /\ pending[c] > 0 => id[c] = Index(c)
    /\ c <= MaxResults => pending[c] <= 1 /\ (pending[c] > 0 => c <= depth)

IInv == TypeOK /\ AvailAreRest /\ IndexIsDepth /\ AnswersInv /\ AnswersAreOwn

\* The search for an entry ends at the depth, or behind the table.
LEMMA FirstIsDepth ==
  ASSUME TypeOK, AvailAreRest
  PROVE  First \in Entry /\ First = Index(depth + 1)
  <1> USE NumbersAssumption DEF Entry, Table
  <1>1. depth \in Nat /\ MaxResults \in Nat \ {0}
    BY DEF TypeOK
  <1> DEFINE P(e) == (e = MaxResults \/ avail[e]) /\ \A f \in Table : f < e => ~avail[f]
             i == Index(depth + 1)
  <1>2. i \in Entry /\ (i = MaxResults \/ (i \in Table /\ i = depth)) /\ i <= depth
    BY <1>1 DEF Index
  <1>3. P(i)
    BY <1>1, <1>2 DEF AvailAreRest
  <1>4. First \in Entry /\ P(First)
    <2>1. \E e \in Entry : P(e)
      BY <1>2, <1>3
    <2> QED
      BY <2>1 DEF First
  <1>5. \/ First = MaxResults
        \/ First \in Table /\ First >= depth
    BY <1>4, <1>1 DEF AvailAreRest
  <1>6. \A f \in Table : f < First => f < depth
    BY <1>4, <1>1 DEF AvailAreRest
  <1> QED
    BY <1>1, <1>4, <1>5, <1>6 DEF Index

\* The table starts with every entry available and nothing outstanding.
LEMMA InitIInv == Init => IInv
  <1> SUFFICES ASSUME Init PROVE IInv
    OBVIOUS
  <1> USE NumbersAssumption DEF Init
  <1>1. TypeOK
    BY DEF TypeOK, Entry, Call, Nobody
  <1>2. AvailAreRest
    BY DEF AvailAreRest, Table
  <1>3. IndexIsDepth /\ AnswersAreOwn
    BY DEF IndexIsDepth, AnswersAreOwn
  <1>4. AnswersInv
    BY DEF AnswersInv, Call
  <1> QED
    BY <1>1, <1>2, <1>3, <1>4 DEF IInv

\* A request keeps the invariant: its entry is the one after those in use.
LEMMA RequestIInv ==
  ASSUME IInv, Request
  PROVE  IInv'
  <1> DEFINE c == depth + 1
             e == Index(c)
  <1>1. TypeOK /\ AvailAreRest /\ IndexIsDepth /\ AnswersInv /\ AnswersAreOwn
    BY DEF IInv
  <1>2. First = e /\ e \in Entry
    BY <1>1, FirstIsDepth
  <1>3. /\ c \in Call /\ pending[c] < MaxAnswers
        /\ avail'   = [avail EXCEPT ![e] = FALSE]
        /\ waiting' = [waiting EXCEPT ![e] = TRUE]
        /\ depth'   = c
        /\ id'      = [id EXCEPT ![c] = e]
        /\ pending' = [pending EXCEPT ![c] = @ + 1]
        /\ res'     = res
    BY <1>2 DEF Request
  <1>4. /\ depth \in 0 .. MaxCalls /\ MaxCalls \in Nat /\ MaxResults \in Nat \ {0}
        /\ MaxAnswers \in Nat /\ c = depth + 1
        /\ avail \in [Entry -> BOOLEAN] /\ waiting \in [Entry -> BOOLEAN]
        /\ res \in [Entry -> Call \cup {Nobody}] /\ id \in [Call -> Entry]
        /\ pending \in [Call -> 0 .. MaxAnswers]
    BY <1>1, NumbersAssumption DEF TypeOK
  <1>5. TypeOK'
    <2>1. depth' \in 0 .. MaxCalls
      BY <1>3, <1>4 DEF Call
    <2>2. pending' \in [Call -> 0 .. MaxAnswers]
      BY <1>3, <1>4
    <2>3. /\ avail' \in [Entry -> BOOLEAN] /\ waiting' \in [Entry -> BOOLEAN]
          /\ id' \in [Call -> Entry]
      BY <1>2, <1>3, <1>4
    <2> QED
      BY <2>1, <2>2, <2>3, <1>3, <1>4 DEF TypeOK
  <1>6. AvailAreRest'
    <2> SUFFICES ASSUME NEW f \in Table
                 PROVE  avail'[f] <=> f >= depth'
      BY DEF AvailAreRest
    <2>1. f \in Entry /\ f \in Nat /\ f < MaxResults
      BY <1>4 DEF Table, Entry
    <2>2. f = e <=> f = depth
      BY <2>1, <1>4 DEF Index
    <2>3. avail'[f] <=> f # e /\ avail[f]
      BY <2>1, <1>3, <1>4
    <2>4. avail[f] <=> f >= depth
      BY <1>1 DEF AvailAreRest
    <2> QED
      BY <2>1, <2>2, <2>3, <2>4, <1>3, <1>4
  <1>7. \A d \in 1 .. depth' : d \in Call /\ d <= c /\ id'[d] = Index(d)
    <2> SUFFICES ASSUME NEW d \in 1 .. depth'
                 PROVE  d \in Call /\ d <= c /\ id'[d] = Index(d)
      OBVIOUS
    <2>1. d \in Call /\ d <= c
      BY <1>3, <1>4 DEF Call
    <2>2. CASE d = c
      BY <2>1, <2>2, <1>3, <1>4
    <2>3. CASE d # c
      <3>1. d \in 1 .. depth /\ id'[d] = id[d]
        BY <2>1, <2>3, <1>3, <1>4
      <3> QED
        BY <3>1, <2>1, <1>1 DEF IndexIsDepth, Index
    <2> QED
      BY <2>2, <2>3
  <1>8. IndexIsDepth'
    BY <1>7 DEF IndexIsDepth, Index
  <1>9. AnswersInv'
    <2> SUFFICES ASSUME NEW d \in Call
                 PROVE  /\ pending'[d] > 0 => id'[d] = Index(d)
                        /\ d <= MaxResults =>
                             pending'[d] <= 1 /\ (pending'[d] > 0 => d <= depth')
      BY DEF AnswersInv
    <2>1. /\ pending[d] > 0 => id[d] = Index(d)
          /\ d <= MaxResults => pending[d] <= 1 /\ (pending[d] > 0 => d <= depth)
      BY <1>1 DEF AnswersInv
    <2>2. CASE d = c
      <3>1. pending'[d] = pending[d] + 1 /\ id'[d] = e /\ depth' = d
        BY <2>2, <1>3, <1>4
      <3>2. d <= MaxResults => pending[d] = 0
        <4>1. pending[d] \in Nat /\ ~(d <= depth)
          BY <2>2, <1>4
        <4> QED
          BY <4>1, <2>1
      <3> QED
        BY <2>2, <3>1, <3>2, <1>4 DEF Call
    <2>3. CASE d # c
      <3>1. pending'[d] = pending[d] /\ id'[d] = id[d]
        BY <2>3, <1>3, <1>4
      <3>2. d \in Int /\ (d <= depth => d <= depth')
        BY <1>3, <1>4 DEF Call
      <3> QED
        BY <2>1, <3>1, <3>2
    <2> QED
      BY <2>2, <2>3
  <1>10. AnswersAreOwn'
    <2> SUFFICES ASSUME NEW d \in 1 .. depth', d <= MaxResults
                 PROVE  OwnAnswer(d)'
      BY <1>4, <1>3 DEF AnswersAreOwn
    <2>1. d \in Call /\ d <= c /\ id'[d] = d - 1 /\ d - 1 \in Entry
      BY <1>7, <1>4 DEF Index, Entry
    <2>2. CASE d = c
      <3>1. pending'[d] = pending[d] + 1 /\ pending[d] \in Nat /\ e = d - 1
        BY <2>1, <2>2, <1>3, <1>4 DEF Index
      <3>2. waiting'[e]
        BY <1>2, <1>3, <1>4
      <3> QED
        BY <2>1, <3>1, <3>2 DEF OwnAnswer
    <2>3. CASE d # c
      <3>1. d \in 1 .. depth /\ d - 1 # e /\ e \in Int
        BY <2>1, <2>3, <1>3, <1>4 DEF Index
      <3>2. OwnAnswer(d) /\ id[d] = d - 1
        BY <3>1, <1>1 DEF AnswersAreOwn, IndexIsDepth
      <3>3. /\ pending'[d] = pending[d] /\ waiting'[d - 1] = waiting[d - 1]
            /\ res'[d - 1] = res[d - 1]
        BY <2>1, <2>3, <3>1, <1>3, <1>4
      <3> QED
        BY <2>1, <3>2, <3>3 DEF OwnAnswer
    <2> QED
      BY <2>2, <2>3
  <1> QED
    BY <1>5, <1>6, <1>8, <1>9, <1>10 DEF IInv

\* An answer keeps the invariant: no other call with an entry of the table has the
\* entry it goes to.
LEMMA OnResultIInv ==
  ASSUME IInv, NEW c \in Call, OnResult(c)
  PROVE  IInv'
  <1> DEFINE e == id[c]
  <1>1. TypeOK /\ AvailAreRest /\ IndexIsDepth /\ AnswersInv /\ AnswersAreOwn
    BY DEF IInv
  <1>2. /\ pending[c] > 0
        /\ waiting' = [waiting EXCEPT ![e] = FALSE]
        /\ res'     = [res EXCEPT ![e] = c]
        /\ pending' = [pending EXCEPT ![c] = @ - 1]
        /\ avail' = avail /\ depth' = depth /\ id' = id
    BY DEF OnResult
  <1>3. /\ depth \in 0 .. MaxCalls /\ MaxCalls \in Nat /\ MaxResults \in Nat \ {0}
        /\ MaxAnswers \in Nat
        /\ avail \in [Entry -> BOOLEAN] /\ waiting \in [Entry -> BOOLEAN]
        /\ res \in [Entry -> Call \cup {Nobody}] /\ id \in [Call -> Entry]
        /\ pending \in [Call -> 0 .. MaxAnswers]
    BY <1>1, NumbersAssumption DEF TypeOK
  <1>4. pending[c] \in 1 .. MaxAnswers /\ e = Index(c) /\ e \in Entry
    BY <1>1, <1>2, <1>3 DEF AnswersInv
  <1>5. TypeOK'
    <2>1. pending' \in [Call -> 0 .. MaxAnswers]
      BY <1>2, <1>3, <1>4
    <2>2. waiting' \in [Entry -> BOOLEAN] /\ res' \in [Entry -> Call \cup {Nobody}]
      BY <1>2, <1>3, <1>4
    <2> QED
      BY <2>1, <2>2, <1>2, <1>3 DEF TypeOK
  <1>6. AvailAreRest' /\ IndexIsDepth'
    BY <1>1, <1>2 DEF AvailAreRest, IndexIsDepth
  <1>7. \A d \in Call : pending'[d] = IF d = c THEN pending[d] - 1 ELSE pending[d]
    BY <1>2, <1>3
  <1>8. AnswersInv'
    <2> SUFFICES ASSUME NEW d \in Call
                 PROVE  /\ pending'[d] > 0 => id'[d] = Index(d)
                        /\ d <= MaxResults =>
                             pending'[d] <= 1 /\ (pending'[d] > 0 => d <= depth')
      BY DEF AnswersInv
    <2>1. pending[d] \in Nat /\ pending'[d] \in Int /\ pending'[d] <= pending[d]
      BY <1>3, <1>4, <1>7
    <2>2. /\ pending[d] > 0 => id[d] = Index(d)
          /\ d <= MaxResults => pending[d] <= 1 /\ (pending[d] > 0 => d <= depth)
      BY <1>1 DEF AnswersInv
    <2> QED
      BY <2>1, <2>2, <1>2
  <1>9. AnswersAreOwn'
    <2> SUFFICES ASSUME NEW d \in 1 .. depth, d <= MaxResults
                 PROVE  OwnAnswer(d)'
      BY <1>2 DEF AnswersAreOwn
    <2>1. d \in Call /\ d \in Nat /\ id[d] = d - 1 /\ d - 1 \in Entry
      BY <1>1, <1>3 DEF IndexIsDepth, Call, Entry
    <2>2. OwnAnswer(d)
      BY <1>1 DEF AnswersAreOwn
    <2>3. CASE d = c
      <3>1. pending'[d] = 0
        BY <2>1, <2>3, <1>1, <1>4, <1>7 DEF AnswersInv
      <3>2. ~waiting'[e] /\ res'[e] = c
        BY <1>2, <1>3, <1>4
      <3> QED
        BY <3>1, <3>2, <2>3, <1>2 DEF OwnAnswer
    <2>4. CASE d # c
      <3>1. d - 1 # e
        <4>1. c \in Nat \ {0}
          BY DEF Call
        <4> QED
          BY <4>1, <2>1, <2>4, <1>3, <1>4 DEF Index
      <3>2. /\ pending'[d] = pending[d] /\ waiting'[d - 1] = waiting[d - 1]
            /\ res'[d - 1] = res[d - 1]
        BY <2>1, <2>4, <3>1, <1>2, <1>3, <1>7
      <3> QED
        BY <2>1, <2>2, <3>2, <1>2 DEF OwnAnswer
    <2> QED
      BY <2>3, <2>4
  <1> QED
    BY <1>5, <1>6, <1>8, <1>9 DEF IInv

\* A return keeps the invariant: the entry it gives back is the last one in use.
LEMMA ReturnIInv ==
  ASSUME IInv, Return
  PROVE  IInv'
  <1> DEFINE e == id[depth]
  <1>1. TypeOK /\ AvailAreRest /\ IndexIsDepth /\ AnswersInv /\ AnswersAreOwn
    BY DEF IInv
  <1>2. /\ depth > 0 /\ ~waiting[e]
        /\ avail' = [avail EXCEPT ![e] = TRUE]
        /\ depth' = depth - 1
        /\ waiting' = waiting /\ res' = res /\ id' = id /\ pending' = pending
    BY DEF Return
  <1>3. /\ depth \in 1 .. MaxCalls /\ MaxCalls \in Nat /\ MaxResults \in Nat \ {0}
        /\ avail \in [Entry -> BOOLEAN] /\ waiting \in [Entry -> BOOLEAN]
        /\ res \in [Entry -> Call \cup {Nobody}] /\ id \in [Call -> Entry]
        /\ pending \in [Call -> 0 .. MaxAnswers] /\ MaxAnswers \in Nat
    BY <1>1, <1>2, NumbersAssumption DEF TypeOK
  <1>4. e = Index(depth) /\ depth \in 1 .. depth /\ depth \in Call
    BY <1>1, <1>3 DEF IndexIsDepth, Index, Call
  <1>5. TypeOK'
    <2>1. depth' \in 0 .. MaxCalls
      BY <1>2, <1>3
    <2>2. avail' \in [Entry -> BOOLEAN]
      BY <1>2, <1>3
    <2> QED
      BY <2>1, <2>2, <1>2, <1>3 DEF TypeOK
  <1>6. AvailAreRest'
    <2> SUFFICES ASSUME NEW f \in Table
                 PROVE  avail'[f] <=> f >= depth'
      BY DEF AvailAreRest
    <2>1. f \in Entry /\ f \in Nat /\ f < MaxResults
      BY <1>3 DEF Table, Entry
    <2>2. f = e <=> f = depth - 1
      BY <2>1, <1>3, <1>4 DEF Index
    <2>3. avail'[f] <=> f = e \/ avail[f]
      BY <2>1, <1>2, <1>3
    <2>4. avail[f] <=> f >= depth
      BY <1>1 DEF AvailAreRest
    <2> QED
      BY <2>1, <2>2, <2>3, <2>4, <1>2, <1>3
  <1>7. \A d \in 1 .. depth' : d \in 1 .. depth /\ d # depth
    BY <1>2, <1>3
  <1>8. IndexIsDepth'
    BY <1>1, <1>2, <1>7 DEF IndexIsDepth
  <1>9. AnswersInv'
    <2> SUFFICES ASSUME NEW d \in Call
                 PROVE  /\ pending[d] > 0 => id[d] = Index(d)
                        /\ d <= MaxResults =>
                             pending[d] <= 1 /\ (pending[d] > 0 => d <= depth - 1)
      BY <1>2 DEF AnswersInv, Index
    <2>1. /\ pending[d] > 0 => id[d] = Index(d)
          /\ d <= MaxResults => pending[d] <= 1 /\ (pending[d] > 0 => d <= depth)
      BY <1>1 DEF AnswersInv
    <2>2. d = depth /\ d <= MaxResults => ~(pending[d] > 0)
      BY <1>1, <1>2, <1>4 DEF AnswersAreOwn, OwnAnswer
    <2>3. d \in Int
      BY DEF Call
    <2> QED
      BY <2>1, <2>2, <2>3, <1>3
  <1>10. AnswersAreOwn'
    BY <1>1, <1>2, <1>7 DEF AnswersAreOwn, OwnAnswer
  <1> QED
    BY <1>5, <1>6, <1>8, <1>9, <1>10 DEF IInv

\* The invariant holds in every behaviour.
LEMMA SpecIInv == Spec => []IInv
  <1>1. IInv /\ [Next]_vars => IInv'
    <2> SUFFICES ASSUME IInv, [Next]_vars PROVE IInv'
      OBVIOUS
    <2>1. CASE Request
      BY <2>1, RequestIInv
    <2>2. CASE Return
      BY <2>2, ReturnIInv
    <2>3. CASE \E c \in Call : OnResult(c)
      BY <2>3, OnResultIInv
    <2>4. CASE UNCHANGED vars
      BY <2>4 DEF IInv, vars, TypeOK, AvailAreRest, IndexIsDepth, AnswersInv,
                  AnswersAreOwn, OwnAnswer
    <2> QED
      BY <2>1, <2>2, <2>3, <2>4 DEF Next
  <1> QED
    BY InitIInv, <1>1, PTL DEF Spec

\* XNetProtocol never uses an index more than one past the table of results,
\* however long the table is and however deep requests nest.
THEOREM TypeCorrect == Spec => []TypeOK
  <1>1. IInv => TypeOK
    BY DEF IInv
  <1> QED
    BY SpecIInv, <1>1, PTL

\* XNetProtocol::event gives a request the index of its depth, so that requests
\* share memory only when more of them nest than the table has entries.
THEOREM IndexIsDepthCorrect == Spec => []IndexIsDepth
  <1>1. IInv => IndexIsDepth
    BY DEF IInv
  <1> QED
    BY SpecIInv, <1>1, PTL

\* XNetProtocol::getResult makes an entry available again exactly when the request
\* that has it returns: the table never shrinks.
THEOREM EntriesComeBackCorrect == Spec => []EntriesComeBack
  <1>1. IInv => EntriesComeBack
    <2> SUFFICES ASSUME IInv, NEW e \in Table
                 PROVE  avail[e] <=> \A c \in 1 .. depth : id[c] # e
      BY DEF EntriesComeBack
    <2>1. /\ avail[e] <=> e >= depth
          /\ \A c \in 1 .. depth : id[c] = IF c <= MaxResults THEN c - 1 ELSE MaxResults
      BY DEF IInv, AvailAreRest, IndexIsDepth
    <2>2. e \in Nat /\ e < MaxResults /\ depth \in Nat /\ MaxResults \in Nat
      BY NumbersAssumption DEF IInv, TypeOK, Table
    <2>3. CASE e >= depth
      BY <2>1, <2>2, <2>3
    <2>4. CASE e < depth
      <3>1. e + 1 \in 1 .. depth /\ e + 1 <= MaxResults /\ (e + 1) - 1 = e
        BY <2>2, <2>4
      <3>2. id[e + 1] = e
        BY <3>1, <2>1, <2>2
      <3> QED
        BY <3>1, <3>2, <2>1, <2>2, <2>4
    <2> QED
      BY <2>2, <2>3, <2>4
  <1> QED
    BY SpecIInv, <1>1, PTL

\* XNetProtocol::wait holds a request that has an entry of the table until its own
\* answer arrives, and getResult returns that answer, in whatever order answers
\* arrive.
THEOREM AnswersAreOwnCorrect == Spec => []AnswersAreOwn
  <1>1. IInv => AnswersAreOwn
    BY DEF IInv
  <1> QED
    BY SpecIInv, <1>1, PTL
=============================================================================
