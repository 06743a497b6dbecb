------------------------------- MODULE Objects -------------------------------
(***************************************************************************)
(* Objects and bulk data: the list of keys each object keeps               *)
(* (handlers/local.cpp over vector.h), and the table of 50 buffers         *)
(* (core/buffer.cpp) in which GET_KEYS and GET_RANGE return keys and       *)
(* values to iterators (core/oid.cpp), to strings and to the evaluation of *)
(* definitions (core/definition.cpp).                                      *)
(*                                                                         *)
(* GET_KEYS does not copy: its buffer points into the array of the key     *)
(* list, which a new key may replace by a larger one.  GET_RANGE evaluates *)
(* the out-of-date 'is' elements on its way, and each evaluation takes a   *)
(* buffer for its definition.  The body of an iteration, and the handlers  *)
(* that run inside an evaluation when it sends its dependencies, may do    *)
(* all this again, so the holders of buffers are a stack.                  *)
(*                                                                         *)
(* A definition is abstracted to the one attribute it reads.               *)
(***************************************************************************)
EXTENDS Integers, FiniteSets, SequencesExt

CONSTANTS
  Obj,         \* the objects
  Elements,    \* their elements: the keys that are numbers, from 0
  Parent,      \* the key of the parent
  Value,       \* the values attributes are set to
  Null,        \* the special OID null
  Garbage,     \* what a read of freed memory finds
  MaxBuffers,  \* MAX_BUFFERS, the size of the table
  InitCap,     \* the first size of a key list's array
  Inc,         \* and what it grows by
  Settable,    \* the slots the program sets
  Definable,   \* the pairs of a slot it defines and the slot the definition reads
  MaxOps       \* bound of the model: the events sent by the program

Key  == (0 .. Elements - 1) \cup {Parent}
Slot == Obj \X Key

\* A buffer points into the array of an object's keys, or has an array of its own.
Buffer == [own : {FALSE}, data : Obj \X Nat, count : Nat]
          \cup [own : {TRUE}, data : Seq(Value \cup {Null}), count : Nat]

ASSUME SizesAssumption ==
  /\ Elements \in Nat \ {0} /\ MaxBuffers \in Nat \ {0} /\ MaxOps \in Nat
  /\ InitCap \in Nat \ {0} /\ Inc \in Nat \ {0}
ASSUME ValuesAssumption ==
  /\ Null \notin Value \cup Slot \cup Buffer /\ Garbage \notin Value \cup Key
  /\ Settable \subseteq Slot /\ Definable \subseteq Slot \X Slot

VARIABLES
  attr,     \* attr[s]: the attribute of slot s
  keys,     \* keys[o]: the keys of object o, in the order they were added
  cap,      \* cap[o]: the size of the array they are in
  array,    \* array[o]: which array that is, counting those before it
  buffers,  \* buffers[i]: the buffer in slot i of the table, or Null
  stack,    \* the calls in progress that hold buffers, the innermost last
  fault,    \* a null buffer was used
  ops       \* the number of events the program has sent

vars == <<attr, keys, cap, array, buffers, stack, fault, ops>>

-----------------------------------------------------------------------------
(***************************************************************************)
(* A frame is one of                                                       *)
(*   iter  a loop with an OID::iterator over the keys of o, at index cur   *)
(*   range getRangeBuffer of o, filling element i                          *)
(*   eval  Definition::evaluate for the attribute s, called by a GET or by *)
(*         a range; to the GET of what it reads, to the dependency it then *)
(*         sends, and done                                                 *)
(*   text  a caller of GET_RANGE that uses the values it got               *)
(* with the slot of its buffer.  first and seen are history: the keys of o *)
(* when the iteration began and those it has visited; since is the number  *)
(* of events sent when the range began.                                    *)
(***************************************************************************)
Iter(o, b)     == [at |-> "iter", o |-> o, buf |-> b, cur |-> 0, first |-> keys[o], seen |-> <<>>]
Ranging(o, b)  == [at |-> "range", o |-> o, buf |-> b, i |-> 0, since |-> ops + 1]
Eval(s, by, b) == [at |-> "eval", s |-> s, by |-> by, buf |-> b, do |-> "get", res |-> Null]
Text(o, b, n)  == [at |-> "text", o |-> o, buf |-> b, since |-> n]

Top         == Last(stack)
Running(at) == stack # <<>> /\ Top.at = at
Below       == Front(stack)

\* Code that may do anything runs: the main program, the body of an iteration, the
\* user of a range, or the handlers of the instant an evaluation starts by sending
\* its dependency.
MaySend ==
  /\ ~fault
  /\ ops < MaxOps
  /\ \/ stack = <<>>
     \/ Running("iter") /\ Top.cur >= 0
     \/ Running("text")
     \/ Running("eval") /\ Top.do = "dep"

-----------------------------------------------------------------------------
(***************************************************************************)
(* The table of buffers.                                                   *)
(***************************************************************************)
Slots == 0 .. MaxBuffers - 1
Full  == \A i \in Slots : buffers[i] # Null

\* allocate: the first slot that is free.
FirstFree == CHOOSE i \in Slots : buffers[i] = Null /\ \A j \in Slots : j < i => buffers[j] # Null

\* A buffer that points to the array of an object's keys, and one with room of its
\* own for n values.
KeysBuffer(o)  == [own |-> FALSE, data |-> <<o, array[o]>>, count |-> Len(keys[o])]
OwnBuffer(n)   == [own |-> TRUE, data |-> [i \in 1 .. n |-> Null], count |-> n]

Create(b)      == buffers' = [buffers EXCEPT ![FirstFree] = b]
Free(i)        == [buffers EXCEPT ![i] = Null]

\* Element n of a buffer, from 0.
Element(b, n) ==
  IF b.own THEN b.data[n + 1]
  ELSE IF b.data[2] = array[b.data[1]] THEN keys[b.data[1]][n + 1]
  ELSE Garbage

-----------------------------------------------------------------------------
NoAttribute == [val |-> Null, def |-> Null, ood |-> FALSE, evaluating |-> FALSE]

Init ==
  /\ attr    = [s \in Slot |-> NoAttribute]
  /\ keys    = [o \in Obj |-> <<>>]
  /\ cap     = [o \in Obj |-> InitCap]
  /\ array   = [o \in Obj |-> 0]
  /\ buffers = [i \in Slots |-> Null]
  /\ stack   = <<>>
  /\ fault   = FALSE
  /\ ops     = 0

Exists(s) == Contains(keys[s[1]], s[2])

\* findAttribute adds the key of an attribute that does not exist to the end of the
\* list, in a larger array when the array is full.
AddKey(o, k) ==
  IF Exists(<<o, k>>) THEN UNCHANGED <<keys, cap, array>>
  ELSE /\ keys' = [keys EXCEPT ![o] = Append(@, k)]
       /\ IF Len(keys[o]) < cap[o] THEN UNCHANGED <<cap, array>>
          ELSE /\ cap'   = [cap EXCEPT ![o] = @ + Inc]
               /\ array' = [array EXCEPT ![o] = @ + 1]

\* A SET of an attribute without a definition.
Set(o, k, v) ==
  /\ MaySend
  /\ <<o, k>> \in Settable
  /\ attr[<<o, k>>].def = Null
  /\ AddKey(o, k)
  /\ attr' = [attr EXCEPT ![<<o, k>>].val = v]
  /\ ops'  = ops + 1
  /\ UNCHANGED <<buffers, stack, fault>>

\* A DEFINE_FUNC: the attribute is out of date from now on.
Define(o, k, d) ==
  /\ MaySend
  /\ <<<<o, k>>, d>> \in Definable
  /\ AddKey(o, k)
  /\ attr' = [attr EXCEPT ![<<o, k>>].def = d, ![<<o, k>>].ood = TRUE]
  /\ ops'  = ops + 1
  /\ UNCHANGED <<buffers, stack, fault>>

\* A NOTIFY_IS: something the definition read has changed.
Notify(s) ==
  /\ MaySend
  /\ attr[s].def # Null
  /\ attr' = [attr EXCEPT ![s].ood = TRUE]
  /\ ops'  = ops + 1
  /\ UNCHANGED <<keys, cap, array, buffers, stack, fault>>

-----------------------------------------------------------------------------
(***************************************************************************)
(* Iterators.                                                              *)
(***************************************************************************)
\* The constructor for begin().  An object without keys has nothing to iterate.
\* create uses the result of allocate without looking at it.
Begin(o) ==
  /\ MaySend
  /\ keys[o] # <<>>
  /\ \/ /\ Full
        /\ fault' = TRUE
        /\ UNCHANGED <<buffers, stack>>
     \/ /\ ~Full
        /\ stack' = Append(stack, Iter(o, FirstFree))
        /\ Create(KeysBuffer(o))
        /\ UNCHANGED fault
  /\ ops' = ops + 1
  /\ UNCHANGED <<attr, keys, cap, array>>

\* The index after n in buffer b, -1 at its end, and the index the loop goes on to:
\* the parent is skipped.  (The code looks for the parent at index -1 too, before the
\* array, where the allocator keeps its size and no OID Parent can be.)
After(b, n)     == IF n + 1 >= b.count THEN -1 ELSE n + 1

\* Mutant: the parent is visited as well.
NextIndex_keepsParent(b, n) == After(b, n)

NextIndex(b, n) == LET a == After(b, n)
                   IN  IF a >= 0 /\ Element(b, a) = Parent THEN After(b, a) ELSE a
\* The loop reads its key and goes on.
Advance ==
  /\ Running("iter") /\ Top.cur >= 0 /\ ~fault
  /\ LET b == buffers[Top.buf]
     IN  stack' = Append(Below, [Top EXCEPT !.cur = NextIndex(b, @),
                                            !.seen = Append(@, Element(b, Top.cur))])
  /\ UNCHANGED <<attr, keys, cap, array, buffers, fault, ops>>

\* Mutant: only at the end.
Destroy_atEnd ==
  /\ Running("iter") /\ ~fault
  /\ buffers' = IF Top.cur = -1 THEN Free(Top.buf) ELSE buffers
  /\ stack'   = Below
  /\ UNCHANGED <<attr, keys, cap, array, fault, ops>>

\* The iterator is destroyed, at the end or where its loop is left.
Destroy ==
  /\ Running("iter") /\ ~fault
  /\ buffers' = Free(Top.buf)
  /\ stack'   = Below
  /\ UNCHANGED <<attr, keys, cap, array, fault, ops>>

-----------------------------------------------------------------------------
(***************************************************************************)
(* Evaluation, and GET_RANGE.                                              *)
(***************************************************************************)
OutOfDate(s) == attr[s].def # Null /\ attr[s].ood

\* evaluate of the definition of s: its GET_RANGE gives it a buffer, which
\* getRangeBuffer uses without looking at it.
Evaluate(s, by, a, c) ==
  \/ /\ Full
     /\ fault' = TRUE
     /\ UNCHANGED <<attr, buffers, stack>>
  \/ /\ ~Full
     /\ attr'  = a
     /\ stack' = Append(c, Eval(s, by, FirstFree))
     /\ Create(OwnBuffer(1))
     /\ UNCHANGED fault

\* The program's GET of an out-of-date attribute; any other changes nothing.
Get(s) ==
  /\ MaySend
  /\ OutOfDate(s) /\ ~attr[s].evaluating
  /\ Evaluate(s, "get", [attr EXCEPT ![s].evaluating = TRUE], stack)
  /\ ops' = ops + 1
  /\ UNCHANGED <<keys, cap, array>>

\* Mutant: an evaluation waits for an attribute that is being evaluated.
EvalGet_waits ==
  /\ Running("eval") /\ Top.do = "get" /\ ~fault
  /\ LET d == attr[Top.s].def
     IN  \/ /\ OutOfDate(d) /\ ~attr[d].evaluating
            /\ Evaluate(d, "get", [attr EXCEPT ![d].evaluating = TRUE], stack)
         \/ /\ ~OutOfDate(d)
            /\ stack' = Append(Below, [Top EXCEPT !.do = "dep", !.res = attr[d].val])
            /\ UNCHANGED <<attr, buffers, fault>>
  /\ UNCHANGED <<keys, cap, array, ops>>

\* An evaluation's GET of the attribute d that it reads: evaluated first when it is
\* out of date, null when it is being evaluated, and otherwise its value.
EvalGet ==
  /\ Running("eval") /\ Top.do = "get" /\ ~fault
  /\ LET d == attr[Top.s].def
     IN  \/ /\ OutOfDate(d) /\ ~attr[d].evaluating
            /\ Evaluate(d, "get", [attr EXCEPT ![d].evaluating = TRUE], stack)
         \/ /\ OutOfDate(d) /\ attr[d].evaluating
            /\ attr'  = [attr EXCEPT ![d].val = Null, ![d].ood = FALSE]
            /\ stack' = Append(Below, [Top EXCEPT !.do = "dep", !.res = Null])
            /\ UNCHANGED <<buffers, fault>>
         \/ /\ ~OutOfDate(d)
            /\ stack' = Append(Below, [Top EXCEPT !.do = "dep", !.res = attr[d].val])
            /\ UNCHANGED <<attr, buffers, fault>>
  /\ UNCHANGED <<keys, cap, array, ops>>

\* The answer v reaches the call c that asked for it.
Answered(c, v) ==
  IF c # <<>> /\ Last(c).at = "eval"
  THEN [c EXCEPT ![Len(c)].do = IF @ = "get" THEN "dep" ELSE @,
                 ![Len(c)].res = IF c[Len(c)].do = "get" THEN v ELSE @]
  ELSE c

\* The evaluation ends.  A GET caches the value, marks it up to date and releases
\* the lock; a range, which took no lock and marked it before, sets it and stores
\* it in its buffer.
EvalDone ==
  /\ Running("eval") /\ Top.do = "dep" /\ ~fault
  /\ \/ /\ Top.by = "get"
        /\ attr'    = [attr EXCEPT ![Top.s].val = Top.res, ![Top.s].ood = FALSE,
                                   ![Top.s].evaluating = FALSE]
        /\ buffers' = Free(Top.buf)
        /\ stack'   = Answered(Below, Top.res)
     \/ /\ Top.by = "range"
        /\ LET r == Last(Below)
           IN  /\ buffers' = [Free(Top.buf) EXCEPT ![r.buf].data[r.i + 1] = Top.res]
               /\ stack'   = Append(Front(Below), [r EXCEPT !.i = @ + 1])
        /\ attr' = [attr EXCEPT ![Top.s].val = Top.res]
  /\ UNCHANGED <<keys, cap, array, fault, ops>>

\* A program asks for all the elements of an object that exists.
GetRange(o) ==
  /\ MaySend
  /\ keys[o] # <<>>
  /\ \/ /\ Full
        /\ fault' = TRUE
        /\ UNCHANGED <<buffers, stack>>
     \/ /\ ~Full
        /\ stack' = Append(stack, Ranging(o, FirstFree))
        /\ Create(OwnBuffer(Elements))
        /\ UNCHANGED fault
  /\ ops' = ops + 1
  /\ UNCHANGED <<attr, keys, cap, array>>

\* Mutant: the value as it is, out of date or not.
RangeStep_keepsOld ==
  /\ Running("range") /\ Top.i < Elements /\ ~fault
  /\ LET s == <<Top.o, Top.i>>
     IN  /\ buffers' = [buffers EXCEPT ![Top.buf].data[Top.i + 1] = attr[s].val]
         /\ stack'   = Append(Below, [Top EXCEPT !.i = @ + 1])
  /\ UNCHANGED <<attr, keys, cap, array, fault, ops>>

\* Element i: marked up to date and evaluated, when it is out of date, or its value.
RangeStep ==
  /\ Running("range") /\ Top.i < Elements /\ ~fault
  /\ LET s == <<Top.o, Top.i>>
     IN  \/ /\ OutOfDate(s)
            /\ Evaluate(s, "range", [attr EXCEPT ![s].ood = FALSE], stack)
         \/ /\ ~OutOfDate(s)
            /\ buffers' = [buffers EXCEPT ![Top.buf].data[Top.i + 1] = attr[s].val]
            /\ stack'   = Append(Below, [Top EXCEPT !.i = @ + 1])
            /\ UNCHANGED <<attr, fault>>
  /\ UNCHANGED <<keys, cap, array, ops>>

\* GET_RANGE returns, to a caller that uses the values and frees the buffer.
RangeDone ==
  /\ Running("range") /\ Top.i = Elements /\ ~fault
  /\ stack' = Append(Below, Text(Top.o, Top.buf, Top.since))
  /\ UNCHANGED <<attr, keys, cap, array, buffers, fault, ops>>

\* Mutant: the buffer is not freed.
TextDone_keepsBuffer ==
  /\ Running("text") /\ ~fault
  /\ stack'   = Below
  /\ UNCHANGED <<attr, keys, cap, array, buffers, fault, ops>>

TextDone ==
  /\ Running("text") /\ ~fault
  /\ buffers' = Free(Top.buf)
  /\ stack'   = Below
  /\ UNCHANGED <<attr, keys, cap, array, fault, ops>>

\* The calls in progress go on.
Machine ==
  \/ Advance \/ EvalGet \/ EvalDone \/ RangeStep \/ RangeDone \/ TextDone
  \/ Running("iter") /\ Top.cur = -1 /\ Destroy

Next ==
  \/ \E o \in Obj, k \in Key, v \in Value : Set(o, k, v)
  \/ \E o \in Obj, k \in Key, d \in Slot : Define(o, k, d)
  \/ \E o \in Obj : Begin(o) \/ GetRange(o)
  \/ \E s \in Slot : Get(s) \/ Notify(s)
  \/ Machine
  \/ Destroy

Spec     == Init /\ [][Next]_vars
FairSpec == Spec /\ WF_vars(Machine)

-----------------------------------------------------------------------------
(***************************************************************************)
(* Properties.                                                             *)
(***************************************************************************)
Frame(f) ==
  /\ f.buf \in Slots
  /\ \/ f.at = "iter" /\ f.o \in Obj /\ f.cur \in -1 .. Cardinality(Key) - 1
     \/ f.at = "range" /\ f.o \in Obj /\ f.i \in 0 .. Elements
     \/ f.at = "eval" /\ f.s \in Slot /\ f.by \in {"get", "range"} /\ f.do \in {"get", "dep"}
     \/ f.at = "text" /\ f.o \in Obj

\* The types of the variables, and an array has room for the keys in it.
TypeOK ==
  /\ attr \in [Slot -> [val : Value \cup {Null}, def : Slot \cup {Null},
                        ood : BOOLEAN, evaluating : BOOLEAN]]
  /\ \A o \in Obj : keys[o] \in Seq(Key) /\ Len(keys[o]) <= cap[o] /\ array[o] \in Nat
  /\ buffers \in [Slots -> Buffer \cup {Null}]
  /\ \A i \in DOMAIN stack : Frame(stack[i])
  /\ fault \in BOOLEAN /\ ops \in 0 .. MaxOps

\* The slots of the table in use are those of the calls in progress, one each and in
\* the order of the calls: no path of an iteration, of a range or of an evaluation
\* forgets its buffer, frees one it does not hold or has its slot given to another.
BuffersAreHeld ==
  /\ \A i \in DOMAIN stack : stack[i].buf = i - 1
  /\ \A i \in Slots : buffers[i] # Null <=> i < Len(stack)

\* A null buffer is used only when as many calls are in progress as the table has
\* slots: each nesting of a loop, a range or an evaluation costs one.
FaultsNeedFullTable == fault => Len(stack) = MaxBuffers

\* What an iteration visits: the keys there were when it began, each once and in the
\* order they were added, without the parent unless it is the first of them; whatever
\* its body adds meanwhile, as long as the array of keys is not replaced.
IterationFaithful ==
  \A i \in DOMAIN stack :
    LET f == stack[i]
    IN  (f.at = "iter" /\ f.cur = -1 /\ buffers[f.buf].data[2] = array[f.o])
        => /\ f.seen = <<f.first[1]>> \o RemoveFirst(Tail(f.first), Parent)
           /\ IsInjective(f.seen)

\* A range agrees with the GETs it stands for: as long as nobody sends an event
\* meanwhile, its elements are up to date when it returns and have the values it got,
\* in cyclic definitions too.  A range takes no lock and marks an element up to date
\* before its value is known, and the evaluations on its way change other elements.
RangeAgrees ==
  (Running("text") /\ Top.since = ops /\ ~fault)
  => \A i \in 0 .. Elements - 1 :
       /\ ~OutOfDate(<<Top.o, i>>)
       /\ buffers[Top.buf].data[i + 1] = attr[<<Top.o, i>>].val

\* Every call ends, however the program nests loops, ranges and definitions, cyclic
\* ones among them, unless it runs out of buffers.
CallsEnd == []<>(stack = <<>> \/ fault)

\* "It will use the given pointer without copying the data and so the pointer must
\* remain valid until the buffer has been used" (core/buffer.h).
PointersStayValid ==
  \A i \in Slots : (buffers[i] # Null /\ ~buffers[i].own)
                   => buffers[i].data[2] = array[buffers[i].data[1]]
=============================================================================
