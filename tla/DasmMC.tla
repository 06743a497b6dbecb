------------------------------- MODULE DasmMC --------------------------------
(***************************************************************************)
(* Instances of Dasm for TLC: statements over the objects this and @m.     *)
(***************************************************************************)
EXTENDS Dasm

L(o)       == <<"lit", o>>
N(n)       == L(Num(n))
W(w)       == L(Name(w))
V(w)       == <<"var", w>>
G(d, e)    == <<"get", d, e>>
Of(w)      == G(L(This), W(w))
OfM(w)     == G(V("m"), W(w))
Op(d, w, e) == G(G(d, L(Special(w))), e)
Eq(d, e)   == <<"eq", d, e>>
If(c, t, e) == <<"if", c, t, e>>

To(w)   == IF w = "this" THEN <<This>> ELSE <<Punct("@"), Name(w)>>
Slot(w, k) == To(w) \o <<Name(k)>>
Statement(text, does, to, key, exp) ==
  [text |-> text, does |-> does, to |-> to, key |-> Name(key), exp |-> exp]

DefineS(w, k, e) ==
  Statement(Slot(w, k) \o <<Name("is")>> \o In("{", Text(e), "}"), "define", w, k, e)
LineS(w, k, e) ==
  Statement(Slot(w, k) \o <<Name("is")>> \o Text(e) \o <<Punct("nl")>>, "define", w, k, e)
SetS(w, k, e)   == Statement(Slot(w, k) \o <<Punct("="), e[2]>>, "set", w, k, e)
SetInS(w, k, e) == Statement(Slot(w, k) \o <<Punct("=")>> \o In("(", Text(e), ")"), "set", w, k, e)
\* In a statement the left side of == needs brackets.
RECURSIVE Now(_)
Now(e) == CASE e[1] = "eq" -> In("(", Text(e[2]), ")") \o <<Punct("==")>> \o Operand(e[3])
            [] e[1] = "if" -> <<Name("if")>> \o In("(", Now(e[2]), ")") \o Part(e[3])
                              \o <<Name("else")>> \o Part(e[4])
            [] OTHER       -> Text(e)
ResultS(w, e)   == Statement(Now(e), "result", w, "a", e)
CloneS(c, w)    ==
  Statement(<<Punct("@"), Name(c), Punct("=")>>
            \o In("(", <<Create, Name("union")>> \o In("(", To(w), ")"), ")"), "clone", c, "a", V(w))
CutS(s, n)      == Statement(SubSeq(s.text, 1, n), "fail", "this", "a", N(0))

B(n)       == <<"bare", Num(n)>>
IsOne(e)   == Eq(e, N(1))
Select     == <<"select", Of("a"), <<<<Num(0), B(7)>>, <<Num(1), OfM("a")>>>>>>
Plus       == Op(Of("a"), "+", Of("b"))
InThis     == {Of("a"), G(L(This), Of("k")), Plus, IsOne(Of("a")),
               Eq(Of("a"), G(L(This), Of("k"))), Op(OfM("a"), "-", L(Key)),
               If(IsOne(Of("a")), B(5), N(6)), If(IsOne(Of("a")), OfM("a"), <<"none">>),
               If(IsOne(Of("a")), OfM("a"), If(IsOne(OfM("a")), B(7), N(8))),
               Select,
               <<"seq", Of("b"), Of("a")>>}
InM        == {G(L(This), Of("k")), IsOne(Of("a")), Op(Of("a"), "+", Of("a")),
               If(IsOne(Of("a")), N(5), If(IsOne(OfM("k")), N(6), N(7)))}
Results    == {Of("d"), G(L(This), Of("k")), Op(Of("a"), "+", Of("d")), Eq(Of("d"), OfM("d")),
               If(IsOne(Of("a")), N(5), N(6)), If(Eq(Of("d"), N(6)), B(5), OfM("d")), Select}

\* The text of s with a dot before each key.
Dotted(s) ==
  LET t == s.text
      IsKey(i) == i > 1 /\ t[i][1] = "name" /\ t[i] # Name("is") /\ t[i - 1] # Punct("@")
  IN  [s EXCEPT !.text = FlattenSeq([i \in DOMAIN t |->
                                      (IF IsKey(i) THEN <<Punct(".")>> ELSE <<>>) \o <<t[i]>>])]

Put    == <<"put", V("m"), Name("b"), Of("a")>>
Before == <<This, Name("u"), Punct("="), Num(1), Punct(";")>>
Seconds == {[SetS("this", "k", W("b")) EXCEPT !.text = Before \o @]}
\* Behind its key and is a statement is not complete until its last word.
CutsOf(s) == {CutS(s, n) : n \in 3 .. Len(s.text) - 1}
Cuts      == CutsOf(DefineS("this", "e", Op(Of("d"), "+", OfM("d"))))
             \cup CutsOf(DefineS("this", "d", If(IsOne(Of("a")), B(5), N(6))))
             \cup {CutS(Dotted(DefineS("this", "e", Of("d"))), n) : n \in {4, 7, 8}}

\* The condition is missing: this is reported, and e is defined all the same.
NoCondition == [DefineS("this", "e", N(0)) EXCEPT
                  !.does = "fail",
                  !.text = Slot("this", "e") \o <<Name("is")>>
                           \o In("{", <<Name("if"), Punct("("), Punct(")"), Num(5)>>, "}")]
\* The value of the first case, in a round bracket, is lost, and the second case goes on from it.
LostCase == [DefineS("this", "d", <<"select", Of("a"), <<<<Num(1), B(7)>>>>>>) EXCEPT
               !.text = Slot("this", "d") \o <<Name("is"), Punct("{"), Name("select")>>
                        \o In("(", Text(Of("a")), ")")
                        \o In("{", <<Num(0), Punct(":"), Punct("("), Num(1), Punct(":"), Num(7)>>, "}")
                        \o <<Punct("}")>>]

SomeStatements ==
  {DefineS("this", "d", e) : e \in InThis \ {Plus}} \cup {Dotted(DefineS("this", "d", Plus))}
  \cup {LineS("m", "d", e) : e \in InM}
  \cup {SetS("this", "a", N(n)) : n \in 0 .. 1}
  \cup {SetS("m", "k", W("a")), SetS("c", "a", N(1)),
         SetInS("m", "a", Of("a"))}
  \cup {Statement(Slot("this", "s") \o <<Name("is")>> \o In("{", Text(Put), "}"), "script", "m", "b", V("m")),
         Statement(Slot("this", "s"), "trigger", "m", "b", Of("a"))}
  \cup {CloneS("c", "m")}
  \cup {ResultS("this", e) : e \in Results}
  \cup {ResultS("c", G(V("c"), W("d")))}
  \cup Seconds \cup Cuts \cup {NoCondition, LostCase, Dotted(ResultS("this", Of("d")))}

-----------------------------------------------------------------------------
(***************************************************************************)
(* Texts whose meaning is lost.                                            *)
(***************************************************************************)
Rest == {SetS("this", "a", N(n)) : n \in 0 .. 2} \cup {SetS("m", "a", N(1)), ResultS("this", Of("d"))}

\* The else of an if is an object that is not in braces.
ElseStatements   == Rest \cup {DefineS("this", "d", If(IsOne(Of("a")), B(5), B(6)))}
\* A part of an if reads an attribute of this.
ThisStatements   == Rest \cup {DefineS("this", "d", If(IsOne(OfM("a")), Of("a"), N(6)))}
\* A definition that is not in braces is followed by another line.
LineStatements   ==
  Rest \cup {[LineS("this", "d", V("m")) EXCEPT !.text = @ \o SetS("this", "b", N(1)).text]}
\* A path goes on after a number.
NumberStatements == Rest \cup {DefineS("this", "d", G(Of("a"), W("b")))}
\* A definition with two parts, and an if with an object that is not in braces, are copied.
CopyStatements   ==
  Rest \cup {DefineS("m", "d", <<"seq", Of("a"), OfM("a")>>),
             DefineS("m", "d", If(IsOne(Of("a")), B(5), N(6))), CloneS("c", "m")}
\* A statement compares an attribute that is not in brackets.
NowStatements    == Rest \cup {Statement(Text(IsOne(Of("a"))), "result", "this", "a", IsOne(Of("a")))}
\* A statement that ends with a dot.
DotStatements    == Rest \cup {CutS(Dotted(SetS("this", "a", N(1))), 2)}
\* Two brackets in each other.
TestStatements   == Rest \cup {DefineS("this", "d", G(L(This), <<"group", W("a")>>))}
=============================================================================
