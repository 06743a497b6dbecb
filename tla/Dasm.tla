-------------------------------- MODULE Dasm ---------------------------------
(***************************************************************************)
(* The notation DASM as it is compiled and evaluated: the parser of        *)
(* notations/dasm.cpp, which carries statements out at once and compiles   *)
(* definitions to sequences of OIDs, their evaluation (parseExpression of  *)
(* core/definition.cpp) and the copies of objects (handlers/local.cpp),    *)
(* which print definitions and compile the text again.                     *)
(*                                                                         *)
(* The program runs one statement after the other outside of any instant,  *)
(* so an event it sends, and each dependency an evaluation sends, has been *)
(* handled when send returns: the queues of VStore are left out, and a     *)
(* step is a statement.  Definitions are 'is' definitions.                 *)
(***************************************************************************)
EXTENDS Language, FiniteSets

CONSTANTS
  Statements,  \* the statements of the program: their text and what they are meant to do
  MaxRun       \* bound of the model: the statements the program runs

VARIABLES
  vm,     \* the store and the variables of DASM
  meant,  \* meant[s]: the expression slot s was last given
  said,   \* what the last statement resulted in, and should have
  ran     \* the number of statements run

vars == <<vm, meant, said, ran>>

Create   == Modifier("CREATE")
Seq2     == Modifier("SEQ")
Compare  == Modifier("COMPARE")
Set      == Modifier("SET")
Func     == Modifier("FUNC")
Union    == Modifier("UNION")
NoDep    == Modifier("NODEP")
BeginSub == Modifier("BEGINSUB")
EndSub   == Modifier("ENDSUB")

Code(c)  == <<"code", c>>
Root     == Obj(0)

-----------------------------------------------------------------------------
(***************************************************************************)
(* The store: attributes by slot, a pair of an object and a key.           *)
(***************************************************************************)
NewAttribute == [val |-> Null, def |-> Null, old |-> FALSE, busy |-> FALSE]

Failed(m) == [m EXCEPT !.errors = @ + 1]

CreateObject(m) == [m |-> [m EXCEPT !.next = @ + 1], val |-> Obj(m.next)]

FindAttribute(m, s) ==
  IF s \in DOMAIN m.slot THEN m
  ELSE [m EXCEPT !.slot = [x \in DOMAIN @ \cup {s} |-> IF x = s THEN NewAttribute ELSE @[x]]]

RECURSIVE NotifyIs(_, _)
RECURSIVE NotifyEach(_, _)
NotifyEach(m, readers) ==
  IF readers = {} THEN m
  ELSE LET r == CHOOSE x \in readers : TRUE IN NotifyEach(NotifyIs(m, r), readers \ {r})

Forget(m, s) == [m EXCEPT !.deps = {d \in @ : d[1] # s}]
NotifyAll(m, s) ==
  IF s \notin DOMAIN m.slot \/ m.slot[s].busy THEN m
  ELSE NotifyEach(Forget(m, s), {d[2] : d \in {e \in m.deps : e[1] = s}})

NotifyIs(m, s) ==
  LET marked == IF s \in DOMAIN m.slot /\ m.slot[s].def # Null
                THEN NotifyAll([m EXCEPT !.slot[s].old = TRUE], s) ELSE m
  IN  IF s[2] = Key THEN marked ELSE NotifyAll(marked, <<s[1], Key>>)

SetValue(m, o, k, v) ==
  IF ~InStore(o) THEN m
  ELSE LET a == FindAttribute(m, <<o, k>>)
       IN  IF a.slot[<<o, k>>].val = v THEN a
           ELSE LET b == NotifyAll([a EXCEPT !.slot[<<o, k>>].val = v], <<o, k>>)
                IN  IF k = Key THEN b ELSE NotifyAll(b, <<o, Key>>)

Define(m, o, k, d) ==
  IF ~InStore(o) THEN m
  ELSE LET a == [FindAttribute(m, <<o, k>>) EXCEPT !.slot[<<o, k>>].def = d,
                                                   !.slot[<<o, k>>].old = TRUE]
       IN  IF d # Null /\ k # Key THEN NotifyIs(a, <<o, k>>) ELSE a

\* Mutant: a dependency does not create its attribute.
AddIsDep_existing(m, o, k, reader) ==
  IF <<o, k>> \notin DOMAIN m.slot THEN m
  ELSE [m EXCEPT !.deps = @ \cup {<<<<o, k>>, reader>>}]

AddIsDep(m, o, k, reader) ==
  IF ~InStore(o) THEN m
  ELSE [FindAttribute(m, <<o, k>>) EXCEPT !.deps = @ \cup {<<<<o, k>>, reader>>}]

-----------------------------------------------------------------------------
(***************************************************************************)
(* GET and the evaluation of definitions.  A GET that its handler gives no *)
(* result, as for a number, leaves the one its event had: before.          *)
(***************************************************************************)
RECURSIVE Expression(_, _, _, _)
RECURSIVE Get(_, _, _, _)

Evaluate(m, d, o, k) ==
  IF d[1] # "code" THEN [m |-> Failed(m), val |-> Null]
  ELSE Expression(m, d[2], 1, <<o, k>>)

NumberGet(n, k, before) == IF k \in Operators THEN Curried(n, k) ELSE before

\* An evaluation of d for slot <<o, k>> that holds the lock of slot s.
Locked(m, s, d, o, k) ==
  IF m.slot[s].busy THEN [m |-> Failed(m), val |-> Null]
  ELSE [Evaluate([m EXCEPT !.slot[s].busy = TRUE], d, o, k) EXCEPT !.m.slot[s].busy = FALSE]

\* The value of an evaluation e becomes that of slot s, or s takes over the definition of $
\* (slot a) that was evaluated for it.  A cycle makes the value Null and gives no result.
Kept(e, m, s, a, before) ==
  IF a = s THEN [e EXCEPT !.m.slot[s].val = e.val, !.m.slot[s].old = FALSE,
                          !.val = IF m.slot[s].busy THEN before ELSE @]
  ELSE [e EXCEPT !.m = IF m.slot[a].busy THEN @ ELSE Define(@, s[1], s[2], m.slot[a].def)]

\* An attribute that is missing takes its value or its definition from $.
GetAttribute(m, o, k, before) ==
  LET s == <<o, k>>
      a == IF s \in DOMAIN m.slot THEN s ELSE <<o, Key>>
  IN  CASE a \notin DOMAIN m.slot -> [m |-> m, val |-> Null]
        [] a \in DOMAIN m.slot /\ (IF a = s THEN ~m.slot[a].old ELSE m.slot[a].def = Null) ->
             [m |-> m, val |-> m.slot[a].val]
        [] OTHER -> Kept(Locked(m, a, m.slot[a].def, o, k), m, s, a, before)

Get(m, o, k, before) ==
  CASE o[1] = "num"     -> [m |-> m, val |-> NumberGet(o[2], k, before)]
    [] o[1] = "curried" -> [m |-> m, val |-> Apply(o, k)]
    [] InStore(o) /\ k # Null -> GetAttribute(m, o, k, before)
    [] OTHER            -> [m |-> m, val |-> Null]

-----------------------------------------------------------------------------
(***************************************************************************)
(* parseExpression.  c is the definition, i the index of the next element, *)
(* r the slot it is evaluated for, res the object the path has reached.    *)
(***************************************************************************)
At(c, i)  == IF i \in DOMAIN c THEN c[i] ELSE Null
Read(m, c, i) == [m EXCEPT !.past = @ \/ i \notin DOMAIN c]
Subst(o, r) == CASE o = This -> r[1] [] o = Key -> r[2] [] OTHER -> o

\* The element at i, or the value of the bracket that starts there.
Element(m, c, i, r) ==
  IF At(c, i) = BeginSub THEN Expression(m, c, i, r)
  ELSE [m |-> Read(m, c, i), at |-> i, val |-> At(c, i)]

RECURSIVE Copy(_, _, _)
\* A modifier with the operands a and b: the store, the place and the object after it.
Set2(res, a, b)   == [m |-> SetValue(b.m, res, a.val, b.val), at |-> b.at, val |-> res]
Func2(res, a, b)  == [m |-> Define(b.m, res, a.val, b.val), at |-> b.at, val |-> res]
Union1(res, a)    == [m |-> Copy(a.m, a.val, res), at |-> a.at, val |-> res]
Compare1(res, a)  == [a EXCEPT !.val = Bool(res = a.val)]

Modify(m, c, i, r, res, mod) ==
  LET a == Element(m, c, i + 1, r)
      b == Element(a.m, c, a.at + 1, r)
  IN  CASE mod = Set     -> Set2(res, a, b)
        [] mod = Func    -> Func2(res, a, b)
        [] mod = Create  -> [at |-> i] @@ CreateObject(m)
        [] mod = Union   -> Union1(res, a)
        [] mod = Seq2    -> a
        [] mod = Compare -> Compare1(res, a)
        [] OTHER         -> [m |-> m, at |-> i, val |-> res]

RECURSIVE Path(_, _, _, _, _, _)
\* The path goes on from the element key: e is the object it leads to.
Onward(e, c, r, before) == Path(e.m, c, e.at + 1, r, e.val, before)
Follow(got, obj, key, c, r) ==
  Onward([m |-> AddIsDep(got.m, obj, key.val, r), at |-> key.at, val |-> got.val], c, r, got.val)

Step(key, obj, c, r, before) ==
  CASE key.val = EndSub -> [key EXCEPT !.val = obj]
    [] key.val # EndSub /\ key.val[1] = "modifier" ->
         Onward(Modify(key.m, c, key.at, r, obj, key.val), c, r, before)
    [] OTHER -> Follow(Get(key.m, obj, key.val, before), obj, key, c, r)

Path(m, c, i, r, res, before) ==
  IF i > Len(c) THEN [m |-> m, at |-> i, val |-> Subst(res, r)]
  ELSE Step(IF c[i] = BeginSub THEN Expression(m, c, i + 1, r)
            ELSE [m |-> m, at |-> i, val |-> c[i]],
            Subst(res, r), c, r, before)

Expression(m, c, i, r) ==
  LET first == At(c, i)
      base  == CASE first = Create   -> [at |-> i + 1] @@ CreateObject(m)
                 [] first = BeginSub -> Expression(m, c, i + 1, r)
                 [] OTHER            -> [m |-> Read(m, c, i), at |-> i + 1, val |-> first]
  IN  Onward([base EXCEPT !.at = @ - 1], c, r, Null)

-----------------------------------------------------------------------------
(***************************************************************************)
(* The parser.  Its state p has the text, the place it has read to, the    *)
(* store, the code it has emitted for the definition it is in, and the     *)
(* object val that was parsed last; in a statement, val is the object      *)
(* reached, key the key that is still to be applied to it if lop is TRUE.  *)
(***************************************************************************)
Word(p)    == IF p.at \in DOMAIN p.text THEN p.text[p.at] ELSE Punct("eof")
Is(p, w)   == p.ok /\ Word(p) = Punct(w)
IsKeyword(p, w) == p.ok /\ Word(p) = Name(w)
Skip(p)    == [p EXCEPT !.at = @ + 1]
Fail(p)    == [p EXCEPT !.ok = FALSE, !.m = Failed(@)]
\* Mutant: the end of the text closes every bracket.
Expect_lenient(p, w) ==
  IF ~p.ok \/ Word(p) = Punct("eof") THEN p ELSE IF Is(p, w) THEN Skip(p) ELSE Fail(p)
Expect(p, w) == IF ~p.ok THEN p ELSE IF Is(p, w) THEN Skip(p) ELSE Fail(p)
Emit(p, o) == [p EXCEPT !.code = Append(@, o)]
Closing    == [w \in {"(", "["} |-> IF w = "(" THEN ")" ELSE "]"]
Opens(p)   == \E w \in DOMAIN Closing : Is(p, w)
\* A dot before a word says nothing: it is read over, but no new line behind it.
Undot(p)   == IF Is(p, ".") THEN Skip(p) ELSE p

IsObject(p) == p.ok /\ (Word(p)[1] # "punct" \/ Word(p)[2] \in {";", "@", "=="})
IsVar(p)    == Is(p, "@") /\ Word(Skip(p))[1] = "name"
VarAt(p)    == LET w == Word(Skip(p))[2]
               IN  IF w \in DOMAIN p.m.vars THEN p.m.vars[w] ELSE Null
ParseObject(p) ==
  CASE Is(p, ";")  -> [Skip(p) EXCEPT !.val = Seq2]
    [] Is(p, "==") -> [Skip(p) EXCEPT !.val = Compare]
    [] IsVar(p)   -> [Skip(Skip(p)) EXCEPT !.val = VarAt(p),
                                           !.m = IF VarAt(p) = Null THEN Failed(@) ELSE @]
    [] Is(p, "@") /\ ~IsVar(p) -> [Skip(p) EXCEPT !.val = Special("@")]
    [] OTHER      -> [Skip(p) EXCEPT !.val = Word(p)]

\* What is parsed: a statement or a definition, to the end of the text or of its bracket.
AsStatement                 == [context |-> Null]
AsDefinition(context, real) == [context |-> context, real |-> real]

RECURSIVE Parse(_, _)
RECURSIVE ParseIf(_, _, _)
RECURSIVE ParseSelect(_, _, _)
RECURSIVE ParseTail(_, _, _)

\* A bracket in a statement: its value, with the state of the statement around it kept.
Nested(p) ==
  LET s == Parse([p EXCEPT !.val = Null, !.key = Null, !.lop = FALSE, !.first = TRUE], AsStatement)
  IN  [s EXCEPT !.key = p.key, !.lop = p.lop, !.first = p.first, !.code = p.code]

-----------------------------------------------------------------------------
(***************************************************************************)
(* Definitions.                                                            *)
(***************************************************************************)
ParseDefinition(p, context, real) ==
  ParseTail(CASE IsKeyword(p, "if")     -> ParseIf(Skip(p), context, FALSE)
              [] IsKeyword(p, "select") -> ParseSelect(Skip(p), context, FALSE)
              [] IsObject(p) /\ Word(p) \notin {Name("if"), Name("select")} ->
                   LET o == ParseObject(p) IN Emit(o, o.val)
              [] OTHER -> Fail(p),
            context, real)

\* Mutant: the '=' stays where it is.
EmitSet_inPlace(p) == Emit(p, Set)

\* An '=' takes the place of the element before it, which is the key it sets.
EmitSet(p) ==
  IF p.code = <<>> THEN Emit(Emit(p, Set), Null)
  ELSE [p EXCEPT !.code = Front(@) \o <<Set, Last(@)>>]

ParseBracket(p, context, real) ==
  LET close == Closing[Word(p)[2]]
      def   == Parse(Emit(Skip(p), BeginSub), AsDefinition(context, TRUE))
      val   == Nested(Skip(p))
  IN  IF real THEN LET e == Expect(def, close) IN IF e.ok THEN Emit(e, EndSub) ELSE e
      ELSE IF val.ok THEN Expect(Emit(val, val.val), close) ELSE val

ParseTail(p, context, real) ==
  LET q    == Undot(p)
      next ==
        CASE Is(p, "nl")               -> Skip(p)
          [] IsKeyword(q, "if")        -> ParseIf(Skip(q), context, FALSE)
          [] IsKeyword(q, "select")    -> ParseSelect(Skip(q), context, FALSE)
          [] Is(q, "==")               -> Emit(Skip(q), Compare)
          [] Is(q, "=")                -> EmitSet(Skip(q))
          [] Opens(q)                  -> ParseBracket(q, context, real)
          [] IsObject(q) /\ Word(q) \notin {Name("if"), Name("select"), Punct("==")} ->
               LET o == ParseObject(q) IN Emit(o, o.val)
          [] OTHER                     -> Fail(q)
  IN  CASE ~p.ok -> p
        [] Is(q, "eof") \/ Is(q, ")") \/ Is(q, "]") \/ Is(q, "}") -> q
        [] OTHER -> ParseTail(next, context, real)

\* A definition of its own: its code is the value.
NewDefinition(p, context, real) ==
  LET d == Parse([p EXCEPT !.code = <<>>], AsDefinition(context, real))
  IN  [d EXCEPT !.val = Code(d.code), !.code = p.code]

\* A definition in braces or an object: def tells which.
ParsePart(p, context) ==
  CASE ~p.ok       -> p
    [] Is(p, "{")  -> [Expect(NewDefinition(Skip(p), context, TRUE), "}") EXCEPT !.def = TRUE]
    [] IsObject(p) -> [ParseObject(p) EXCEPT !.def = FALSE]
    [] OTHER       -> Fail(p)

\* The bracket after if and select: a value when they are carried out at once, code otherwise.
\* An error in it is reported, and the parser goes on behind it with what there is of it.
ParseCondition(p, context, imed) ==
  LET q == Expect(p, "(")
      c == IF imed THEN Nested(q) ELSE NewDefinition(q, context, TRUE)
  IN  IF q.ok THEN Expect([c EXCEPT !.ok = TRUE], ")") ELSE q

\* The object an if or a select chooses from is the first element, the condition its key.
Choose(p, o, c, imed) ==
  LET g == Get(p.m, o, c, Null)
  IN  IF imed THEN [p EXCEPT !.m = g.m, !.val = g.val]
      ELSE [p EXCEPT !.code = @ \o <<o, NoDep, BeginSub>> \o c[2] \o <<EndSub>>]

GivePart(m, o, k, part) ==
  IF part.def THEN Define(m, o, k, part.val) ELSE SetValue(m, o, k, part.val)

\* The value an else-if carried out at once is given a size, as if it were its code.
Resize(m, o) == LET g == Get(m, o, Size, Null) IN SetValue(g.m, o, Size, Num(AsInt(g.val) + 1))

ParseElse(p, context, imed) ==
  IF ~IsKeyword(p, "else") THEN [p EXCEPT !.val = Null, !.def = TRUE]
  ELSE LET q == Skip(p)
           n == ParseIf([Skip(q) EXCEPT !.code = <<>>], context, imed)
       IN  IF ~IsKeyword(q, "if") THEN ParsePart(q, context)
           ELSE [n EXCEPT !.val = IF imed THEN @ ELSE Code(n.code), !.code = p.code, !.def = TRUE,
                          !.m = IF imed /\ n.ok THEN Resize(@, n.val) ELSE @]

\* The object of an if, from its condition and its parts, each parsed after the one before.
IfObject(c, t, e, context, imed) ==
  LET o == CreateObject(e.m)
      m == GivePart(GivePart(SetValue(SetValue(o.m, o.val, Type, Name("if")),
                                      o.val, This, context),
                             o.val, True, t),
                    o.val, Key, e)
  IN  CASE ~c.ok -> c
        [] c.ok /\ ~t.ok -> t
        [] c.ok /\ t.ok /\ ~e.ok -> e
        [] OTHER -> Choose([e EXCEPT !.m = m], o.val, c.val, imed)

ParseIf(p, context, imed) ==
  LET c == ParseCondition(p, context, imed)
      t == ParsePart(c, context)
  IN  IfObject(c, t, ParseElse(t, context, imed), context, imed)

\* A case whose value begins with a round bracket is left without one.
RECURSIVE ParseCases(_, _, _)
ParseCases(p, context, o) ==
  LET k == ParseObject(p)
      q == Expect(k, ":")
      v == ParsePart(q, context)
  IN  CASE ~p.ok -> p
        [] Is(p, "}") -> Skip(p)
        [] Is(p, "eof") -> p
        [] ~IsObject(p) /\ ~Is(p, "}") /\ ~Is(p, "eof") -> Fail(p)
        [] OTHER -> CASE Is(q, "(") -> ParseCases(Skip(q), context, o)
                      [] v.ok       -> ParseCases([v EXCEPT !.m = GivePart(@, o, k.val, v)],
                                                  context, o)
                      [] OTHER      -> v

ParseSelect(p, context, imed) ==
  LET o == CreateObject(p.m)
      c == ParseCondition([p EXCEPT !.m = o.m], context, imed)
      s == ParseCases(Expect(c, "{"), context, o.val)
  IN  IF s.ok THEN Choose(s, o.val, c.val, imed) ELSE s

-----------------------------------------------------------------------------
(***************************************************************************)
(* Statements.                                                             *)
(***************************************************************************)
\* The key that is still to be applied.
Resolve(p) ==
  IF ~p.lop THEN p
  ELSE LET g == Get(p.m, p.val, p.key, Null) IN [p EXCEPT !.m = g.m, !.val = g.val]

Reach(p) == IF p.first THEN p ELSE Resolve(p)

\* Mutant: the key before it is forgotten.
Pend_forgets(p, r, k, word) == [r EXCEPT !.val = p.val, !.key = k, !.lop = TRUE, !.first = FALSE]

\* A new key k: the one before it is applied, which led from p to r.  A bracket goes on even
\* from Null, a word does not.
Pend(p, r, k, word) ==
  IF word /\ ~p.first /\ p.lop /\ r.val = Null THEN Fail(p)
  ELSE [r EXCEPT !.key = k, !.lop = TRUE, !.first = FALSE]

\* %root for this, and a new object for new.
Base(p) ==
  LET new == CreateObject(p.m)
  IN  CASE p.ok /\ p.val = This   -> [p EXCEPT !.val = Root]
        [] p.ok /\ p.val = Create -> [p EXCEPT !.m = new.m, !.val = new.val]
        [] OTHER -> p

ParseVariable(p) ==
  LET w == Word(Skip(p))[2]
      q == Skip(Skip(p))
      v == IF Is(Skip(q), "(") THEN Expect(Nested(Skip(Skip(q))), ")")
           ELSE IF IsObject(Skip(q)) THEN ParseObject(Skip(q)) ELSE Fail(q)
  IN  IF ~IsVar(p) THEN Fail(p)
      ELSE IF ~Is(q, "=") THEN (IF VarAt(p) = Null THEN Fail(p) ELSE [q EXCEPT !.val = VarAt(p)])
      ELSE IF v.ok THEN [v EXCEPT !.m.vars = [x \in DOMAIN @ \cup {w} |->
                                                IF x = w THEN v.val ELSE @[x]]]
      ELSE v

ParseBase(p) ==
  CASE Is(p, "@")              -> ParseVariable(p)
    [] Opens(p)                -> Expect(Nested(Skip(p)), Closing[Word(p)[2]])
    [] IsKeyword(p, "if")      -> ParseIf(Skip(p), p.val, TRUE)
    [] IsKeyword(p, "select")  -> ParseSelect(Skip(p), p.val, TRUE)
    [] IsObject(p) /\ ~Is(p, "@") /\ Word(p) \notin {Name("if"), Name("select")} -> ParseObject(p)
    [] OTHER                   -> Fail(p)

\* The value after '='; one in round brackets gets the object it is given to as its parent.
Assign(p) ==
  LET q == [p EXCEPT !.lop = FALSE]
      w == CASE Is(q, "{") -> Expect(NewDefinition(Skip(q), p.val, TRUE), "}")
             [] Is(q, "[") -> Expect(NewDefinition(Skip(q), p.val, FALSE), "]")
             [] Is(q, "(") -> Expect(Nested(Skip(q)), ")")
             [] IsObject(q) -> ParseObject(q)
             [] OTHER       -> Fail(q)
      m == SetValue(w.m, p.val, p.key, w.val)
  IN  IF ~w.ok THEN w
      ELSE [w EXCEPT !.val = p.val, !.m = IF Is(q, "(") THEN SetValue(m, w.val, This, p.val) ELSE m]

\* A definition that is not in braces goes on to the end of the text or of the bracket around it.
DefineIs(p) ==
  LET q == [p EXCEPT !.lop = FALSE]
      d == IF Is(q, "{") THEN Expect(NewDefinition(Skip(q), p.val, TRUE), "}")
           ELSE NewDefinition(q, p.val, TRUE)
  IN  IF d.ok THEN [d EXCEPT !.val = p.val, !.m = Define(@, p.val, p.key, d.val)] ELSE d

\* Behind a ';' the statement starts anew.
Again(p) == IF Is(p, "eof") THEN p ELSE Base(ParseBase(p))

UnionWith(p) ==
  LET v == CASE Is(p, "{") -> Expect(NewDefinition(Skip(p), p.val, TRUE), "}")
             [] Is(p, "(") -> Expect(Nested(Skip(p)), ")")
             [] OTHER      -> Fail(p)
  IN  IF v.ok THEN [v EXCEPT !.val = p.val, !.m = Copy(@, v.val, p.val)] ELSE v

RECURSIVE ParseMore(_)
ParseMore(p) ==
  LET q     == Undot(p)
      key   == IF Opens(q) THEN Expect(Nested(Skip(q)), Closing[Word(q)[2]]) ELSE ParseObject(q)
      other == Nested(Skip(q))
      next  ==
        CASE Is(p, "nl") -> Skip(p)
          [] Is(q, "==") -> IF other.ok THEN [other EXCEPT !.val = Bool(q.val = other.val)] ELSE other
          [] Is(q, "=")  -> Assign(Skip(q))
          [] IsKeyword(q, "union") -> UnionWith([Resolve(Skip(q)) EXCEPT !.lop = FALSE])
          [] IsKeyword(q, "is")    -> DefineIs(Skip(q))
          [] Is(q, ";")  -> Again([Resolve(Skip(q)) EXCEPT !.lop = FALSE])
          [] Opens(q) \/ (IsObject(q) /\ Word(q) \notin
                             {Punct(";"), Punct("=="), Name("union"), Name("is")}) ->
               IF key.ok THEN Pend(q, Reach([key EXCEPT !.val = q.val]), key.val, IsObject(q)) ELSE key
          [] OTHER       -> Fail(q)
  IN  CASE ~p.ok -> p
        [] Is(q, "eof") \/ Is(q, ")") \/ Is(q, "]") -> Resolve(q)
        [] OTHER -> ParseMore(next)

\* A statement or a bracket that starts with none of these is empty.
SubExpr(p) ==
  IF ~Opens(p) /\ ~IsObject(p) THEN p
  ELSE ParseMore(Base(ParseBase(p)))

\* Statements and definitions have brackets of either.
Parse(p, how) ==
  IF how = AsStatement THEN SubExpr(p) ELSE ParseDefinition(p, how.context, how.real)

-----------------------------------------------------------------------------
(***************************************************************************)
(* Copies: values are copied, definitions are printed and parsed.          *)
(***************************************************************************)
RECURSIVE ToText(_, _)
RECURSIVE Words(_, _, _)
PrintElement(m, c, i) ==
  CASE c[i] = BeginSub -> <<Punct("(")>>
    [] c[i] = EndSub   -> <<Punct(")")>>
    [] c[i] = Union    -> <<Union>>
    [] c[i] = Compare  -> <<Punct("==")>>
    [] c[i] \in {Set, Func, Create, Seq2, NoDep} -> <<>>
    [] OTHER -> IF i = 1 /\ InStore(c[i]) /\ Get(m, c[i], Type, Null).val = Name("if")
                THEN <<Name("if")>> ELSE <<c[i]>>

PrintBranch(m, o, k) ==
  IF <<o, k>> \in DOMAIN m.slot /\ m.slot[<<o, k>>].def[1] = "code"
  THEN In("{", ToText(m, m.slot[<<o, k>>].def[2]), "}") ELSE In("{", <<>>, "}")

Words(m, c, i) == IF i > Len(c) THEN <<>> ELSE PrintElement(m, c, i) \o Words(m, c, i + 1)

WithBranches(m, o, words) ==
  IF words # <<>> /\ Head(words) = Name("if")
  THEN words \o PrintBranch(m, o, True) \o <<Name("else")>> \o PrintBranch(m, o, Key)
  ELSE words

ToText(m, c) == WithBranches(m, At(c, 1), Words(m, c, 1))

Parser(m, text) == [text |-> text, at |-> 1, m |-> m, ok |-> TRUE, code |-> <<>>, val |-> Null,
                    def |-> FALSE, key |-> Null, lop |-> FALSE, first |-> TRUE]

CopyAttribute(m, o, k, to) ==
  LET a == m.slot[<<o, k>>]
      p == Parse(Parser(m, <<to, k, Name("is")>> \o In("{", ToText(m, a.def[2]), "}")), AsStatement)
  IN  IF a.def[1] = "code" THEN p.m
      ELSE IF a.val # Null THEN SetValue(m, to, k, a.val) ELSE m

RECURSIVE CopyEach(_, _, _)
CopyEach(m, slots, to) ==
  IF slots = {} THEN m
  ELSE LET s == CHOOSE x \in slots : TRUE
       IN  CopyEach(CopyAttribute(m, s[1], s[2], to), slots \ {s}, to)

Copy(m, o, to) == CopyEach(m, {s \in DOMAIN m.slot : s[1] = o /\ s[2] # This}, to)

-----------------------------------------------------------------------------
(***************************************************************************)
(* A statement and what it is meant to do: give a slot an expression or a  *)
(* value, give a result, read the attribute s of this and so give a slot a *)
(* value if s is out of date, give an object the attributes of another, or *)
(* fail because it is not complete.                                        *)
(***************************************************************************)
Owner(m, w)   == IF w = "this" THEN Root ELSE m.vars[w]
Wanted(m, a)  == Meaning(a, <<Root, Null>>, [meant |-> meant, vars |-> m.vars])
Given(f, s, a) == [x \in DOMAIN f \cup {s} |-> IF x = s THEN a ELSE f[x]]

OutOfDate(m)  == <<Root, Name("s")>> \in DOMAIN m.slot /\ m.slot[<<Root, Name("s")>>].old

Means(s, before, after) ==
  LET slot == <<Owner(before, s.to), s.key>>
      v    == Wanted(before, s.exp)
      new  == Owner(after, s.to)
  IN  CASE s.does = "define" -> Given(meant, slot, s.exp)
        [] s.does = "set"    -> Given(meant, slot, <<"lit", v>>)
        [] s.does = "trigger" -> IF OutOfDate(before) THEN Given(meant, slot, <<"lit", v>>) ELSE meant
        [] s.does = "clone"  -> [x \in DOMAIN meant \cup {<<new, y[2]>> : y \in
                                     {z \in DOMAIN meant : z[1] = v}} |->
                                  IF x[1] = new THEN meant[<<v, x[2]>>] ELSE meant[x]]
        [] OTHER             -> meant

Init ==
  /\ vm = [slot |-> <<>>, deps |-> {}, next |-> 2, errors |-> 0, past |-> FALSE,
           vars |-> [w \in {"m"} |-> Obj(1)]]
  /\ meant = <<>>
  /\ said = [got |-> Null, wanted |-> Null, error |-> FALSE, does |-> "set"]
  /\ ran = 0

Run(s) ==
  /\ ran < MaxRun
  /\ s.does \in {"define", "set", "result"} => s.to \in {"this"} \cup DOMAIN vm.vars
  /\ ran' = ran + 1
  /\ \E p \in {Parse(Parser(vm, s.text), AsStatement)} :
       /\ vm' = [p.m EXCEPT !.errors = 0]
       /\ meant' = Means(s, vm, p.m)
       /\ said' = [got    |-> IF s.does = "result" THEN p.val ELSE Null,
                   wanted |-> IF s.does = "result" THEN Wanted(vm, s.exp) ELSE Null,
                   error  |-> p.m.errors > 0,
                   does   |-> s.does]

Next == \E s \in Statements : Run(s)

Spec == Init /\ [][Next]_vars

-----------------------------------------------------------------------------
(***************************************************************************)
(* Properties.                                                             *)
(***************************************************************************)
\* Between statements no attribute is locked, and every code and every attribute is whole.
TypeOK ==
  /\ \A s \in DOMAIN vm.slot :
       /\ InStore(s[1]) /\ (s[1][1] = "obj" => s[1][2] < vm.next)
       /\ ~vm.slot[s].busy
       /\ vm.slot[s].def[1] \in {"code", "special"}
  /\ \A d \in vm.deps : d[1] \in DOMAIN vm.slot
  /\ ran \in 0 .. MaxRun

\* Reading an attribute gives what the text it was last given means now, however the
\* definition was compiled, cached, notified, nested in an if or printed and parsed again.
ValuesAreMeant ==
  \A s \in DOMAIN meant :
    Get(vm, s[1], s[2], Null).val = Meaning(meant[s], s, [meant |-> meant, vars |-> vm.vars])

\* An expression carried out by the parser gives what the same text means in a definition,
\* unless it is undefined on the way and so reported.
ResultsAreMeant == said.got = said.wanted \/ said.error

\* A statement that is cut off or lacks its condition is reported, and no other but those whose
\* result is undefined.  What was defined before it stays as it was (ValuesAreMeant).
\* One that ends with a dot outside of all brackets is not (DotStatements of DasmMC).
ErrorsAreMeant ==
  /\ said.does = "fail" => said.error
  /\ said.error => said.does = "fail" \/ (said.does = "result" /\ said.wanted = Null)

\* No evaluation reads past the end of its definition: all brackets are closed and no
\* modifier lacks its operand.
StaysInside ==
  /\ ~vm.past
  /\ \A s \in DOMAIN meant : ~Get(vm, s[1], s[2], Null).m.past
=============================================================================
