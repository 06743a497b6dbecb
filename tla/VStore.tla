------------------------------- MODULE VStore -------------------------------
(***************************************************************************)
(* The reactive core: the attributes of the local object store             *)
(* (handlers/local.cpp) and the evaluation of their definitions            *)
(* (core/definition.cpp), driven by the instants of core/processor.cpp.    *)
(*                                                                         *)
(* An attribute holds a value and may have a definition.  A definition     *)
(* given with := is evaluated in the notify phase after one of the         *)
(* attributes it read has changed, and its result is set in the next       *)
(* instant; one given with 'is' is only marked out of date, at once, and   *)
(* evaluated when it is next read.  Each read of an evaluation registers a *)
(* dependency, which the next notification uses up.                        *)
(*                                                                         *)
(* A definition is abstracted to a path: from a base object, GET one key   *)
(* after another.  The rings of the processor are plain queues here, as    *)
(* ProcessorProofs justifies.  Notifications, evaluations and drains call  *)
(* each other, so the calls in progress are a stack.                       *)
(***************************************************************************)
EXTENDS Integers, FiniteSets, SequencesExt

CONSTANTS
  Obj,        \* the objects
  Keys,       \* the keys attributes are named by
  Key,        \* the key $: its attribute is an object's default, and its
              \* dependents are those of all the object's attributes
  Null, Void, \* the two special values
  Paths,      \* the definitions: records with a base object and a list of keys
  Programs    \* the main programs, one of which runs: records of the events it
              \* sends, the attributes it reads, whether it is orderly, and the
              \* bound of the model on the events it sends

Value == Obj \cup {Null, Void}
Slot  == Value \X Keys

ASSUME KeyAssumption    == Key \in Keys
\* Objects and keys are OIDs, of which there are finitely many.
ASSUME FiniteAssumption == IsFiniteSet(Obj) /\ IsFiniteSet(Keys)
ASSUME PathsAssumption  == Paths \subseteq [base : Obj, keys : Seq(Keys)] /\ Null \notin Paths

VARIABLES
  attr,    \* attr[s]: the attribute of slot s; a slot without one has exists = FALSE
  queue,   \* queue[k]: the events of queue k, the oldest first
  curq,    \* the queue being drained, or -1
  stack,   \* the calls in progress, the innermost last
  program, \* the main program that runs
  ops      \* the number of events it has sent

vars == <<attr, queue, curq, stack, program, ops>>

-----------------------------------------------------------------------------
(***************************************************************************)
(* Events and calls.                                                       *)
(***************************************************************************)
SetEvent(type, s, v)     == [type |-> type, slot |-> s, v |-> v]
DefineEvent(s, d, init)  == [type |-> "DEFINE", slot |-> s, def |-> d, init |-> init]
DefineFuncEvent(s, d)    == [type |-> "DEFINE_FUNC", slot |-> s, def |-> d]
DepEvent(is, s, by)      == [type |-> IF is THEN "ADD_IS_DEP" ELSE "ADDDEP", slot |-> s, by |-> by]
NotifyEvent(s)           == [type |-> "NOTIFY", slot |-> s]
\* A set of an attribute that no definition of the model reads: of an error, or
\* of root.error and root.time.
OtherSet                 == [type |-> "SET_OTHER"]

\* The events of queue k.
Event(k) ==
  CASE k = 0 -> [type : {"SET", "SET_BYDEF"}, slot : Slot, v : Value]
                \cup [type : {"DEFINE"}, slot : Slot, def : Paths, init : Value]
                \cup [type : {"DEFINE_FUNC"}, slot : Slot, def : Paths] \cup {OtherSet}
    [] k = 1 -> [type : {"NOTIFY"}, slot : Slot]
    [] k = 2 -> [type : {"ADDDEP", "ADD_IS_DEP"}, slot : Slot, by : Slot]

ASSUME ProgramsAssumption ==
  \A m \in Programs : /\ m.ops \subseteq Event(0) /\ m.reads \subseteq Slot
                       /\ m.orderly \in BOOLEAN /\ m.maxOps \in Nat

\* processInstant, and processRemaining inside the notify phase, draining queue q.
Instant(q)   == [kind |-> "instant", q |-> q]
Remaining(q) == [kind |-> "remaining", q |-> q]
\* A synchronous operation that still has to call processRemaining.
Sync == [kind |-> "sync"]
\* The construction of an Error, with n synchronous sets still to make.
Failing(n) == [kind |-> "error", n |-> n]
\* notifyAll of attribute s at dependent number i.  own is notifyAll(), which
\* locks the attribute, as opposed to notifyAll(key, value) for the $ of an object.
Notifying(s, own) == [kind |-> "notify", slot |-> s, own |-> own, i |-> 1]
\* The evaluation of definition d of attribute s for the attribute ctx: of an
\* out-of-date 'is' attribute, of a $ attribute in place of a missing one, or of
\* a notified := attribute.  res is the object the path has reached, the next
\* key is number pos, and ans the answer to the GET of that key.
Evaluation(kind, s, ctx, d, is) ==
  [kind |-> kind, slot |-> s, ctx |-> ctx, def |-> d, is |-> is,
   pos |-> 1, res |-> d.base, at |-> "get", ans |-> Null]

Top             == Last(stack)
IsEvaluation(f) == f.kind \in {"is", "wild", "future"}
IsLoop(f)       == f.kind \in {"instant", "remaining"}
Idle            == \A i \in DOMAIN stack : stack[i].kind # "instant"
Evaluating      == stack # <<>> /\ IsEvaluation(Top)
Draining(k)     == stack # <<>> /\ IsLoop(Top) /\ Top.q = k

\* processInstant, with the calls c in progress: returns at once when one runs.
ProcessInstant(c) ==
  IF Idle THEN stack' = Append(c, Instant(0)) /\ curq' = 0
          ELSE stack' = c /\ UNCHANGED curq

\* Processor::send.
Sent(c, k, e) ==
  /\ queue' = [queue EXCEPT ![k] = Append(@, e)]
  /\ ProcessInstant(c)

-----------------------------------------------------------------------------
NoAttribute ==
  [exists |-> FALSE, val |-> Null, def |-> Null, isf |-> FALSE, ood |-> FALSE,
   evaluating |-> FALSE, deps |-> <<>>]

Init ==
  /\ attr  = [s \in Slot |-> NoAttribute]
  /\ queue = [k \in 0 .. 2 |-> <<>>]
  /\ curq  = -1
  /\ stack = <<>>
  /\ program \in Programs
  /\ ops   = 0

(***************************************************************************)
(* Notification.  A NOTIFY is queued; a NOTIFY_IS is one of the events that*)
(* send routes at once, so marking goes down the dependents recursively.   *)
(***************************************************************************)
Wild(s) == <<s[1], Key>>

\* The notifyAll of the $ of the object of s, made for s unless it is that $.
WildCall(s) == IF s[2] = Key THEN <<>> ELSE <<Notifying(Wild(s), FALSE)>>

\* notifyAll(): does nothing for an attribute that is being evaluated or notified.
OwnCall(s) == IF attr[s].evaluating THEN <<>> ELSE <<Notifying(s, TRUE)>>

\* NOTIFY_IS marks an 'is' attribute out of date and notifies its dependents,
\* then those of $.  The attributes and the calls, from attributes a.
Marked(a, s)   == IF a[s].isf THEN [a EXCEPT ![s].ood = TRUE, ![s].evaluating = TRUE] ELSE a
MarkCalls(a, s) == WildCall(s) \o (IF a[s].isf THEN OwnCall(s) ELSE <<>>)

NotifyAt(is) ==
  /\ stack # <<>> /\ Top.kind = "notify"
  /\ Top.i <= Len(attr[Top.slot].deps)
  /\ attr[Top.slot].deps[Top.i].is = is
NotifyNext == Append(Front(stack), [Top EXCEPT !.i = @ + 1])
NotifiedSlot == attr[Top.slot].deps[Top.i].slot

NotifyDependent ==
  /\ NotifyAt(FALSE)
  /\ queue' = [queue EXCEPT ![1] = Append(@, NotifyEvent(NotifiedSlot))]
  /\ stack' = NotifyNext
  /\ UNCHANGED <<attr, curq, program, ops>>

NotifyIsDependent ==
  /\ NotifyAt(TRUE)
  /\ attr'  = Marked(attr, NotifiedSlot)
  /\ stack' = NotifyNext \o MarkCalls(attr, NotifiedSlot)
  /\ UNCHANGED <<queue, curq, program, ops>>

NotifyDone_keepsDeps ==
  /\ stack # <<>> /\ Top.kind = "notify"
  /\ Top.i > Len(attr[Top.slot].deps)
  /\ attr'  = [attr EXCEPT ![Top.slot].evaluating = @ /\ ~Top.own]
  /\ stack' = Front(stack)
  /\ UNCHANGED <<queue, curq, program, ops>>

\* All dependents are notified, and forgotten.
NotifyDone ==
  /\ stack # <<>> /\ Top.kind = "notify"
  /\ Top.i > Len(attr[Top.slot].deps)
  /\ attr'  = [attr EXCEPT ![Top.slot].deps = <<>>, ![Top.slot].evaluating = @ /\ ~Top.own]
  /\ stack' = Front(stack)
  /\ UNCHANGED <<queue, curq, program, ops>>

AddDependent_forgetsIs(deps, by, is) ==
  <<[slot |-> by, is |-> FALSE]>> \o RemoveFirstMatch(deps, LAMBDA d : d.slot = by)

\* addDependent: the newest first, and only once, so one other entry of it at most
\* has to go.
AddDependent(deps, by, is) ==
  <<[slot |-> by, is |-> is]>> \o RemoveFirstMatch(deps, LAMBDA d : d.slot = by)

-----------------------------------------------------------------------------
(***************************************************************************)
(* GET.                                                                    *)
(***************************************************************************)
\* The attribute that answers a GET of s: its own, or else the object's $.
Source(s) == IF attr[s].exists THEN s ELSE Wild(s)

OutOfDate(s) == attr[s].isf /\ attr[s].ood

\* The GET needs a definition: of an out-of-date 'is', or of $ for a missing
\* attribute.  Unless that one is being evaluated already, it evaluates it.
Defined(s)      == IF attr[s].exists THEN OutOfDate(s) ELSE attr[Wild(s)].def # Null
MustEvaluate(s) == Defined(s) /\ ~attr[Source(s)].evaluating
Cyclic(s)       == Defined(s) /\ attr[Source(s)].evaluating

\* The evaluation a GET of s starts.
Evaluate(s) ==
  LET src == Source(s)
  IN  /\ attr'  = [attr EXCEPT ![src].evaluating = TRUE]
      /\ stack' = Append(stack, Evaluation(IF attr[s].exists THEN "is" ELSE "wild",
                                           src, s, attr[src].def, attr[src].isf))

\* Code outside every handler reads an attribute.  A read that evaluates nothing
\* changes nothing.  An orderly program does so when no set is left over from the
\* last instant.
MainGet(s) ==
  /\ stack = <<>>
  /\ program.orderly => queue[0] = <<>>
  /\ MustEvaluate(s)
  /\ Evaluate(s)
  /\ UNCHANGED <<queue, curq, program, ops>>

-----------------------------------------------------------------------------
(***************************************************************************)
(* Evaluating: parseExpression along the path.                             *)
(***************************************************************************)
AtEnd(f)       == f.pos > Len(f.def.keys)
Asked(f)       == <<f.res, f.def.keys[f.pos]>>
Asking         == Evaluating /\ Top.at = "get" /\ ~AtEnd(Top)
Finished(kind) == Evaluating /\ Top.kind = kind /\ Top.at = "get" /\ AtEnd(Top)

\* The calls c with the answer v given to the innermost, if it is an evaluation.
Answered(c, v) ==
  IF c # <<>> /\ IsEvaluation(Last(c))
  THEN [c EXCEPT ![Len(c)].at = "dep", ![Len(c)].ans = v]
  ELSE c

GetEvaluates ==
  /\ Asking
  /\ MustEvaluate(Asked(Top))
  /\ Evaluate(Asked(Top))
  /\ UNCHANGED <<queue, curq, program, ops>>

GetAnswers ==
  /\ Asking
  /\ ~Defined(Asked(Top))
  /\ stack' = Answered(stack, attr[Source(Asked(Top))].val)
  /\ UNCHANGED <<attr, queue, curq, program, ops>>

\* A definition that reads itself is an error.
GetCyclic ==
  /\ Asking
  /\ Cyclic(Asked(Top))
  /\ stack' = Append(Front(stack),
                     [Top EXCEPT !.at = IF attr[Asked(Top)].exists THEN "cyclic" ELSE "none"])
                 \o <<Failing(4)>>
  /\ UNCHANGED <<attr, queue, curq, program, ops>>

\* Then an 'is' attribute is set to Null and marked up to date, and the event
\* keeps the result of the previous GET; for $ the answer is Null.
CyclicAnswers ==
  /\ Evaluating
  /\ \/ /\ Top.at = "cyclic"
        /\ attr'  = [attr EXCEPT ![Asked(Top)].val = Null, ![Asked(Top)].ood = FALSE]
        /\ stack' = Answered(stack, IF Top.pos = 1 THEN Null ELSE Top.res)
     \/ /\ Top.at = "none"
        /\ stack' = Answered(stack, Null)
        /\ UNCHANGED attr
  /\ UNCHANGED <<queue, curq, program, ops>>

AddDep_readerFirst ==
  /\ Evaluating /\ Top.at = "dep"
  /\ LET f == Top
     IN  Sent(Append(Front(stack), [f EXCEPT !.at = "get", !.pos = @ + 1, !.res = f.ans]),
              2, DepEvent(f.is, f.ctx, Asked(f)))
  /\ UNCHANGED <<attr, program, ops>>

\* After each GET the dependency is sent, and the path goes on.
AddDep ==
  /\ Evaluating /\ Top.at = "dep"
  /\ LET f == Top
     IN  Sent(Append(Front(stack), [f EXCEPT !.at = "get", !.pos = @ + 1, !.res = f.ans]),
              2, DepEvent(f.is, Asked(f), f.ctx))
  /\ UNCHANGED <<attr, program, ops>>

\* The evaluation of an 'is' attribute ends: the value is cached.  Its setValue
\* notifies nobody, because the attribute is being evaluated.
FinishIs ==
  /\ Finished("is")
  /\ attr'  = [attr EXCEPT ![Top.slot].val = Top.res, ![Top.slot].ood = FALSE,
                           ![Top.slot].evaluating = FALSE]
  /\ stack' = Answered(Front(stack), Top.res)
  /\ UNCHANGED <<queue, curq, program, ops>>

\* The evaluation of $ for a missing attribute ends: the attribute is given the
\* definition of $, asynchronously.
FinishWild ==
  /\ Finished("wild")
  /\ LET a == attr[Top.slot]
     IN  Sent(Answered(Front(stack), Top.res), 0,
              IF a.isf THEN DefineFuncEvent(Top.ctx, a.def)
                       ELSE DefineEvent(Top.ctx, a.def, Top.res))
  /\ attr' = [attr EXCEPT ![Top.slot].evaluating = FALSE]
  /\ UNCHANGED <<program, ops>>

FinishFuture_keepsEvaluating ==
  /\ Finished("future")
  /\ queue' = [queue EXCEPT ![0] = Append(@, SetEvent("SET_BYDEF", Top.slot, Top.res))]
  /\ stack' = Front(stack) \o WildCall(Top.slot)
  /\ UNCHANGED <<attr, curq, program, ops>>

\* The evaluation of a notified attribute ends: its value is set in the next
\* instant, and the NOTIFY goes on to the dependents of $.
FinishFuture ==
  /\ Finished("future")
  /\ queue' = [queue EXCEPT ![0] = Append(@, SetEvent("SET_BYDEF", Top.slot, Top.res))]
  /\ attr'  = [attr EXCEPT ![Top.slot].evaluating = FALSE]
  /\ stack' = Front(stack) \o WildCall(Top.slot)
  /\ UNCHANGED <<curq, program, ops>>

-----------------------------------------------------------------------------
(***************************************************************************)
(* VStore::handle, for the events taken from a queue.                      *)
(***************************************************************************)
\* An event of one of the given types is next in the queue k being drained.
NextEvent(k)    == Head(queue[k])
Takes(k, types) == Draining(k) /\ queue[k] # <<>> /\ NextEvent(k).type \in types
Taken(k)        == [queue EXCEPT ![k] = Tail(@)]

\* setValue, for the attribute s of a: whether it changes the value, and the
\* attributes and calls when it does.
Changes(s, v)     == attr[s].val # v \/ v = Void
SetValue(a, s, v) == IF Changes(s, v) THEN [a EXCEPT ![s].val = v, ![s].evaluating = TRUE] ELSE a

HandleSet ==
  LET e == NextEvent(0)
      s == e.slot
  IN  /\ Takes(0, {"SET", "SET_BYDEF"})
      /\ queue' = Taken(0)
      /\ attr'  = SetValue([attr EXCEPT ![s].exists = TRUE], s, e.v)
      /\ stack' = IF Changes(s, e.v) THEN stack \o WildCall(s) \o OwnCall(s) ELSE stack
      /\ UNCHANGED <<curq, program, ops>>

HandleOtherSet ==
  /\ Takes(0, {"SET_OTHER"})
  /\ queue' = Taken(0)
  /\ UNCHANGED <<attr, curq, stack, program, ops>>

\* A := definition is evaluated by the NOTIFY the attribute sends itself, unless
\* it comes with an initial value; $ is never evaluated for itself.
HandleDefine ==
  LET e == NextEvent(0)
      s == e.slot
      a == [attr EXCEPT ![s].exists = TRUE, ![s].def = e.def, ![s].isf = FALSE, ![s].ood = FALSE]
  IN  /\ Takes(0, {"DEFINE"})
      /\ \/ /\ e.init = Null
            /\ queue' = IF s[2] = Key THEN Taken(0)
                        ELSE [Taken(0) EXCEPT ![1] = Append(@, NotifyEvent(s))]
            /\ attr'  = a
            /\ UNCHANGED stack
         \/ /\ e.init # Null
            /\ queue' = Taken(0)
            /\ attr'  = SetValue(a, s, e.init)
            /\ stack' = IF Changes(s, e.init) THEN stack \o OwnCall(s) ELSE stack
      /\ UNCHANGED <<curq, program, ops>>

\* An 'is' definition is out of date from the start, and says so at once.
HandleDefineFunc ==
  LET e == NextEvent(0)
      s == e.slot
      a == [attr EXCEPT ![s].exists = TRUE, ![s].def = e.def, ![s].isf = TRUE, ![s].ood = TRUE]
  IN  /\ Takes(0, {"DEFINE_FUNC"})
      /\ queue' = Taken(0)
      /\ attr'  = IF s[2] = Key THEN a ELSE Marked(a, s)
      /\ stack' = IF s[2] = Key THEN stack ELSE stack \o MarkCalls(a, s)
      /\ UNCHANGED <<curq, program, ops>>

HandleDep ==
  LET e == NextEvent(2)
  IN  /\ Takes(2, {"ADDDEP", "ADD_IS_DEP"})
      /\ queue' = Taken(2)
      /\ attr'  = [attr EXCEPT ![e.slot].exists = TRUE,
                     ![e.slot].deps = AddDependent(@, e.by, e.type = "ADD_IS_DEP")]
      /\ UNCHANGED <<stack, curq, program, ops>>

\* A := attribute is evaluated, and the handler waits for the evaluation.
HandleNotify ==
  LET s == NextEvent(1).slot
  IN  /\ Takes(1, {"NOTIFY"})
      /\ ~attr[s].isf /\ attr[s].def # Null /\ ~attr[s].evaluating
      /\ queue' = Taken(1)
      /\ attr'  = [attr EXCEPT ![s].evaluating = TRUE]
      /\ stack' = Append(stack, Evaluation("future", s, s, attr[s].def, FALSE))
      /\ UNCHANGED <<curq, program, ops>>

\* Nothing to evaluate, or the attribute is being evaluated, which is an error.
HandleNotifyNone ==
  LET s == NextEvent(1).slot
  IN  /\ Takes(1, {"NOTIFY"})
      /\ attr[s].isf \/ attr[s].def = Null \/ attr[s].evaluating
      /\ queue' = Taken(1)
      /\ stack' = stack \o WildCall(s)
                   \o (IF attr[s].isf \/ attr[s].def = Null THEN <<>> ELSE <<Failing(4)>>)
      /\ UNCHANGED <<attr, curq, program, ops>>

-----------------------------------------------------------------------------
(***************************************************************************)
(* The instants and the main program.                                      *)
(***************************************************************************)
NextPhase_stopsEarly ==
  /\ stack # <<>> /\ Top.kind = "instant" /\ queue[Top.q] = <<>>
  /\ \/ Top.q < 1 /\ curq' = Top.q + 1 /\ stack' = Append(Front(stack), Instant(Top.q + 1))
     \/ Top.q = 1 /\ curq' = -1 /\ stack' = Front(stack)
  /\ UNCHANGED <<attr, queue, program, ops>>

NextPhase ==
  /\ stack # <<>> /\ Top.kind = "instant" /\ queue[Top.q] = <<>>
  /\ \/ Top.q < 2 /\ curq' = Top.q + 1 /\ stack' = Append(Front(stack), Instant(Top.q + 1))
     \/ Top.q = 2 /\ curq' = -1 /\ stack' = Front(stack)
  /\ UNCHANGED <<attr, queue, program, ops>>

RemainingPhase_setsFirst ==
  /\ stack # <<>> /\ Top.kind = "remaining" /\ queue[Top.q] = <<>>
  /\ \/ Top.q = 1 /\ curq' = 0 /\ stack' = Append(Front(stack), Remaining(0))
     \/ Top.q = 0 /\ curq' = 2 /\ stack' = Append(Front(stack), Remaining(2))
     \/ Top.q = 2 /\ curq' = 1 /\ stack' = Front(stack)
  /\ UNCHANGED <<attr, queue, program, ops>>

\* processRemaining inside the notify phase: then the dependencies and the sets.
\* It asks whether anything is queued before the sets; here something always is,
\* the set it was called for or the root.error of an Error that came between.
RemainingPhase ==
  /\ stack # <<>> /\ Top.kind = "remaining" /\ queue[Top.q] = <<>>
  /\ \/ Top.q = 1 /\ curq' = 2 /\ stack' = Append(Front(stack), Remaining(2))
     \/ Top.q = 2 /\ curq' = 0 /\ stack' = Append(Front(stack), Remaining(0))
     \/ Top.q = 0 /\ curq' = 1 /\ stack' = Front(stack)
  /\ UNCHANGED <<attr, queue, program, ops>>

\* A synchronous operation calls processRemaining.
SyncRemaining ==
  /\ stack # <<>> /\ Top = Sync
  /\ IF curq = 1 THEN stack' = Append(Front(stack), Remaining(1)) /\ UNCHANGED curq
                 ELSE ProcessInstant(Front(stack))
  /\ UNCHANGED <<attr, queue, program, ops>>

\* An Error fills a new object with synchronous sets and stores it in root with
\* an asynchronous one.
ErrorSet ==
  /\ stack # <<>> /\ Top.kind = "error"
  /\ Sent(Front(stack) \o (IF Top.n > 0 THEN <<Failing(Top.n - 1), Sync>> ELSE <<>>), 0, OtherSet)
  /\ UNCHANGED <<attr, program, ops>>

\* A synchronous set or define by code outside every handler.
MainSend(e) ==
  /\ stack = <<>>
  /\ ops < program.maxOps
  /\ ops' = ops + 1
  /\ Sent(<<Sync>>, 0, e)
  /\ UNCHANGED <<attr, program>>

\* An iteration of the main loop sets root.time.
Tick ==
  /\ stack = <<>>
  /\ Sent(<<Sync>>, 0, OtherSet)
  /\ UNCHANGED <<attr, program, ops>>

\* The virtual machine works on the calls in progress.
Machine ==
  \/ NotifyDependent \/ NotifyIsDependent \/ NotifyDone
  \/ GetEvaluates \/ GetAnswers \/ GetCyclic \/ CyclicAnswers \/ AddDep
  \/ FinishIs \/ FinishWild \/ FinishFuture
  \/ HandleSet \/ HandleOtherSet \/ HandleDefine \/ HandleDefineFunc \/ HandleDep
  \/ HandleNotify \/ HandleNotifyNone
  \/ NextPhase \/ RemainingPhase \/ SyncRemaining \/ ErrorSet

Next ==
  \/ Machine
  \/ Tick
  \/ \E e \in program.ops : MainSend(e)
  \/ \E s \in program.reads : MainGet(s)

Spec     == Init /\ [][Next]_vars
FairSpec == Spec /\ WF_vars(Machine) /\ WF_vars(Tick)
-----------------------------------------------------------------------------
(***************************************************************************)
(* Properties.                                                             *)
(***************************************************************************)
Dependent == [slot : Slot, is : BOOLEAN]
Attribute ==
  [exists : BOOLEAN, val : Value, def : Paths \cup {Null}, isf : BOOLEAN, ood : BOOLEAN,
   evaluating : BOOLEAN, deps : Seq(Dependent)]

Frame ==
  [kind : {"instant", "remaining"}, q : 0 .. 2] \cup {Sync} \cup [kind : {"error"}, n : 0 .. 4]
  \cup [kind : {"notify"}, slot : Slot, own : BOOLEAN, i : Nat \ {0}]
  \cup [kind : {"is", "wild", "future"}, slot : Slot, ctx : Slot, def : Paths, is : BOOLEAN,
        pos : Nat \ {0}, res : Value, at : {"get", "cyclic", "none", "dep"}, ans : Value]

\* The variables have the types their declarations give them, and every event is
\* in the queue its type belongs to.
TypeOK ==
  /\ attr \in [Slot -> Attribute]
  /\ \A k \in 0 .. 2 : queue[k] \in Seq(Event(k))
  /\ curq \in -1 .. 2
  /\ stack \in Seq(Frame)
  /\ program \in Programs
  /\ ops \in 0 .. program.maxOps

\* An attribute is locked exactly while one evaluation or one notification of it
\* is in progress: none is left locked, and none is entered twice.
LockedIsRunning ==
  \A s \in Slot :
    LET running == {i \in DOMAIN stack :
                      /\ \/ IsEvaluation(stack[i])
                         \/ stack[i].kind = "notify" /\ stack[i].own
                      /\ stack[i].slot = s}
    IN  /\ attr[s].evaluating <=> running # {}
        /\ \A i, j \in running : i = j

\* processRemaining always has a set to go on to, however drains nest: without one
\* it would leave curq at -1, and the synchronous operations after it would no
\* longer wait for their sets.
RemainingFindsSets ==
  stack # <<>> /\ Top = Remaining(2) /\ queue[2] = <<>> => queue[0] # <<>>

\* Where definition d leads, key after key, when g gives what each attribute answers.
Along(d, g) ==
  LET v[n \in 0 .. Len(d.keys)] == IF n = 0 THEN d.base ELSE g[<<v[n - 1], d.keys[n]>>]
  IN  v

\* What GETs answer, by evaluating what they would evaluate, to a depth of n.
GetValue[n \in Nat] ==
  [s \in Slot |->
     IF n = 0 \/ ~Defined(s) THEN attr[Source(s)].val
     ELSE LET d == attr[Source(s)].def IN Along(d, GetValue[n - 1])[Len(d.keys)]]

\* The object the first n keys of definition d lead to, and the attributes d reads.
Depth         == Cardinality(Slot)
Reached(d, n) == Along(d, GetValue[Depth])[n]
Reads(d)      == {<<Reached(d, n - 1), d.keys[n]>> : n \in DOMAIN d.keys}

Quiet     == stack = <<>> /\ \A k \in 0 .. 2 : queue[k] = <<>>
HasDef(s) == attr[s].def # Null /\ s[2] # Key

\* A plain program is orderly and defines attributes other than $, by paths that keep
\* to attributes of a lower rank whatever the values they meet; what it sets has no
\* definition.
Ranked(rank, s, d) ==
  /\ s[2] # Key
  /\ \A v \in Value, n \in 1 .. Len(d.keys) :
       (n = 1 => v = d.base) => d.keys[n] # Key /\ rank[<<v, d.keys[n]>>] < rank[s]

DefinedBy(m) == {e.slot : e \in {f \in m.ops : f.type \in {"DEFINE", "DEFINE_FUNC"}}}

PlainOp(m, rank, e) ==
  \/ e = OtherSet
  \/ e.type = "SET" /\ e.slot[2] # Key /\ e.slot \notin DefinedBy(m)
  \/ e.type = "DEFINE" /\ e.init = Null /\ Ranked(rank, e.slot, e.def)
  \/ e.type = "DEFINE_FUNC" /\ Ranked(rank, e.slot, e.def)

Plain(m, rank) == m.orderly /\ \A e \in m.ops : PlainOp(m, rank, e)

PlainProgram == \E rank \in [Slot -> Nat] : Plain(program, rank)

\* When an orderly program has nothing running or queued, every defined attribute
\* that counts as up to date has the value its definition gives on what the others
\* answer.
ValuesAgree ==
  Quiet /\ program.orderly =>
    \A s \in Slot :
      HasDef(s) /\ ~OutOfDate(s) => attr[s].val = Reached(attr[s].def, Len(attr[s].def.keys))

\* And the next change reaches it: an attribute that counts as up to date, or that
\* others depend upon, is a dependent of every attribute its definition reads.
DependenciesRegistered ==
  Quiet /\ program.orderly =>
    \A s \in Slot :
      HasDef(s) /\ (OutOfDate(s) => attr[s].deps # <<>>) =>
        \A r \in Reads(attr[s].def) :
          \E i \in DOMAIN attr[r].deps : attr[r].deps[i] = [slot |-> s, is |-> attr[s].isf]

\* Every instant ends: notifications use up the dependencies they follow, even
\* along a cycle of definitions.
InstantsEnd == stack # <<>> ~> stack = <<>>

\* oid.h, of 'is' definitions: they evaluate on read instead of using dependency
\* maintenance, so one that counts as up to date is the value of its definition.
FunctionsEvaluateOnRead ==
  Quiet =>
    \A s \in Slot :
      HasDef(s) /\ attr[s].isf /\ ~attr[s].ood =>
        attr[s].val = Reached(attr[s].def, Len(attr[s].def.keys))

\* local.cpp, of a missing attribute: the value of $ is used instead.  Registering
\* a dependency on it does not change that.
DependenciesChangeNoAnswer ==
  [][Len(queue'[2]) < Len(queue[2]) =>
       GetValue[Depth]' = GetValue[Depth]]_vars

\* When the main program is orderly and leaves it alone, the store comes to rest.
ComesToRest == program.orderly => []<>Quiet
=============================================================================
