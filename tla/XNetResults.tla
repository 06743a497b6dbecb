------------------------------ MODULE XNetResults ------------------------------
(***************************************************************************)
(* The table of results of a connection (XNetProtocol, ResultEntries): the *)
(* requests that wait for an answer of the peer.                           *)
(*                                                                         *)
(* A request takes the first entry that is available, sends its index with *)
(* the event and polls the connection until the answer with that index is  *)
(* there.  Polling handles whatever arrives, which may make requests of    *)
(* its own: calls nest, only the innermost can return, but answers arrive  *)
(* in any order, as the peer may be polling too.  A call is known here by  *)
(* how deep it is nested.                                                  *)
(*                                                                         *)
(* The search for an entry does not look at its outcome: when none is      *)
(* available the index is MAX_RESULTS, and the memory behind the table is  *)
(* used as one more entry.                                                 *)
(***************************************************************************)
EXTENDS Integers

CONSTANTS
  MaxResults,  \* MAX_RESULTS
  MaxCalls,    \* bound of the model: how deep calls nest
  MaxAnswers   \* bound of the model: the unanswered requests of one depth

ASSUME NumbersAssumption == {MaxResults, MaxCalls, MaxAnswers} \subseteq Nat \ {0}

Table  == 0 .. MaxResults - 1
Entry  == 0 .. MaxResults       \* the last one is the memory behind the table
Call   == 1 .. MaxCalls
Nobody == 0

VARIABLES
  avail,    \* avail[e]: the entry can be taken
  waiting,  \* waiting[e]: the answer has not arrived
  res,      \* res[e]: the call that the answer is for
  depth,    \* the calls in progress are 1 .. depth
  id,       \* id[c]: the entry of call c
  pending   \* pending[c]: the requests of calls of depth c without an answer

vars == <<avail, waiting, res, depth, id, pending>>

-----------------------------------------------------------------------------
\* The constructor makes the entries available; nothing else is initialized.
Init ==
  /\ avail \in {f \in [Entry -> BOOLEAN] : \A e \in Table : f[e]}
  /\ waiting \in [Entry -> BOOLEAN]
  /\ res     = [e \in Entry |-> Nobody]
  /\ depth   = 0
  /\ id      = [c \in Call |-> 0]
  /\ pending = [c \in Call |-> 0]

First_notWaiting == CHOOSE e \in Entry :
  /\ e = MaxResults \/ ~waiting[e]
  /\ \A f \in Table : f < e => waiting[f]

\* The first entry that is available, or the index behind the table.
First == CHOOSE e \in Entry :
  /\ e = MaxResults \/ avail[e]
  /\ \A f \in Table : f < e => ~avail[f]

\* event with EFLAG_WAITRESULT, by the code that the innermost call polls for.
Request ==
  LET c == depth + 1
  IN  /\ c \in Call /\ pending[c] < MaxAnswers
      /\ avail'   = [avail EXCEPT ![First] = FALSE]
      /\ waiting' = [waiting EXCEPT ![First] = TRUE]
      /\ depth'   = c
      /\ id'      = [id EXCEPT ![c] = First]
      /\ pending' = [pending EXCEPT ![c] = @ + 1]
      /\ UNCHANGED res

OnResult_innermost(c) ==
  /\ depth > 0 /\ pending[c] > 0
  /\ waiting' = [waiting EXCEPT ![id[depth]] = FALSE]
  /\ res'     = [res EXCEPT ![id[depth]] = c]
  /\ pending' = [pending EXCEPT ![c] = @ - 1]
  /\ UNCHANGED <<avail, depth, id>>

\* onResult, onBlock: the answer to a request of call c arrives.  Calls of one
\* depth whose answers are outstanding together have used the same entry.
OnResult(c) ==
  /\ pending[c] > 0
  /\ waiting' = [waiting EXCEPT ![id[c]] = FALSE]
  /\ res'     = [res EXCEPT ![id[c]] = c]
  /\ pending' = [pending EXCEPT ![c] = @ - 1]
  /\ UNCHANGED <<avail, depth, id>>

Return_keepsEntry ==
  /\ depth > 0 /\ ~waiting[id[depth]]
  /\ depth' = depth - 1
  /\ UNCHANGED <<avail, waiting, res, id, pending>>

\* wait, getResult: the innermost call finds the answer and returns with it.
Return ==
  /\ depth > 0 /\ ~waiting[id[depth]]
  /\ avail' = [avail EXCEPT ![id[depth]] = TRUE]
  /\ depth' = depth - 1
  /\ UNCHANGED <<waiting, res, id, pending>>

Next == Request \/ Return \/ \E c \in Call : OnResult(c)

Spec == Init /\ [][Next]_vars

-----------------------------------------------------------------------------
(***************************************************************************)
(* Properties.                                                             *)
(***************************************************************************)
\* The type invariant: an index outside the table is never more than one past it.
TypeOK ==
  /\ avail \in [Entry -> BOOLEAN]
  /\ waiting \in [Entry -> BOOLEAN]
  /\ res \in [Entry -> Call \cup {Nobody}]
  /\ depth \in 0 .. MaxCalls
  /\ id \in [Call -> Entry]
  /\ pending \in [Call -> 0 .. MaxAnswers]

\* However requests, answers and returns interleave, the index a request gets is
\* its depth (XNetProtocol::event, getResult): no two share an entry of the
\* table, and the memory behind it is used by those and only those that nest
\* deeper than the table is long.
IndexIsDepth ==
  \A c \in 1 .. depth : id[c] = IF c <= MaxResults THEN c - 1 ELSE MaxResults

\* An entry is available again as soon as its call has returned, even when calls
\* have used the memory behind the table (XNetProtocol::getResult).
EntriesComeBack ==
  \A e \in Table : avail[e] <=> \A c \in 1 .. depth : id[c] # e

\* A call that has an entry of the table waits exactly until its own answer
\* arrives, and that is the one it returns with (XNetProtocol::onResult, wait).
OwnAnswer(c)  == IF pending[c] > 0 THEN waiting[id[c]] ELSE ~waiting[id[c]] /\ res[id[c]] = c
AnswersAreOwn == \A c \in 1 .. depth : c <= MaxResults => OwnAnswer(c)

\* xnethandler.cpp: "Block for result if needed", here of every call.
BlocksForResult == \A c \in 1 .. depth : OwnAnswer(c)
=============================================================================
