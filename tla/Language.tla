------------------------------ MODULE Language -------------------------------
(***************************************************************************)
(* What the notation DASM means, apart from how it is compiled             *)
(* (notations/dasm.cpp) and evaluated (core/definition.cpp).               *)
(*                                                                         *)
(* An OID is a pair of a kind and a value.  A text is a sequence of words: *)
(* what parseObject accepts is written as the OID it stands for, all else  *)
(* is punctuation.                                                         *)
(*                                                                         *)
(* An expression is one of                                                 *)
(*   <<"lit", o>>         the OID o, where this and $ stand for the object *)
(*                        and the key of the definition                    *)
(*   <<"var", w>>         the variable @w                                  *)
(*   <<"get", d, e>>      the attribute e of d                             *)
(*   <<"eq", d, e>>       whether d and e are the same                     *)
(*   <<"if", c, t, e>>    t if c is true, otherwise e                      *)
(*   <<"select", d, cs>>  the second of the pair in cs whose first is d    *)
(*   <<"seq", d, e>>      d and then e                                     *)
(*   <<"group", e>>       e in brackets                                    *)
(*   <<"put", d, k, e>>   gives the attribute k of d the value of e; it is *)
(*                        d itself                                         *)
(*   <<"bare", o>>        the OID o as a part of an if or select, that is  *)
(*                        not in braces                                    *)
(*   <<"none">>           no else                                          *)
(***************************************************************************)
EXTENDS Integers, SequencesExt

Punct(w)    == <<"punct", w>>
Name(w)     == <<"name", w>>
Num(n)      == <<"num", n>>
Obj(n)      == <<"obj", n>>
Special(w)  == <<"special", w>>
Modifier(w) == <<"modifier", w>>

Null   == Special("null")
This   == Special("this")
Key    == Special("$")
Type   == Special("type")
Size   == Special("size")
Bool(b) == Special(IF b THEN "true" ELSE "false")
True   == Bool(TRUE)
False  == Bool(FALSE)

\* The store has the attributes of objects, and of true and false.
InStore(o) == o[1] = "obj" \/ o \in {True, False}

\* What an OID is as an integer.
AsInt(o) == CASE o[1] = "num" -> o[2]
              [] o = True     -> 1
              [] OTHER        -> 0

\* A number and an operator give an OID that waits for the other operand.
Operators == {Special(w) : w \in {"+", "-", "<", ">"}}
Curried(n, op) == <<"curried", <<op[2], n>>>>
Apply(f, v) ==
  LET op == f[2][1]  a == f[2][2]  b == AsInt(v)
  IN  CASE op = "+" -> Num(a + b)
        [] op = "-" -> Num(a - b)
        [] op = "<" -> Bool(a < b)
        [] op = ">" -> Bool(a > b)

-----------------------------------------------------------------------------
(***************************************************************************)
(* The meaning of an expression in the definition of slot c, where         *)
(* s.meant gives the expression each slot was last given, and s.vars the   *)
(* variables.                                                              *)
(***************************************************************************)
RECURSIVE Meaning(_, _, _)
Attribute(s, o, k) ==
  CASE o[1] = "num"               -> IF k \in Operators THEN Curried(o[2], k) ELSE Null
    [] o[1] = "curried"           -> Apply(o, k)
    [] <<o, k>> \in DOMAIN s.meant -> Meaning(s.meant[<<o, k>>], <<o, k>>, s)
    [] OTHER                      -> Null

Meaning(a, c, s) ==
  CASE a[1] = "lit"    -> (CASE a[2] = This -> c[1] [] a[2] = Key -> c[2] [] OTHER -> a[2])
    [] a[1] = "bare"   -> a[2]
    [] a[1] = "var"    -> s.vars[a[2]]
    [] a[1] = "get"    -> Attribute(s, Meaning(a[2], c, s), Meaning(a[3], c, s))
    [] a[1] = "eq"     -> Bool(Meaning(a[2], c, s) = Meaning(a[3], c, s))
    [] a[1] = "if"     -> Meaning(IF Meaning(a[2], c, s) = True THEN a[3] ELSE a[4], c, s)
    [] a[1] = "select" -> LET hit == {i \in DOMAIN a[3] : a[3][i][1] = Meaning(a[2], c, s)}
                          IN  IF hit = {} THEN Null
                              ELSE Meaning(a[3][CHOOSE i \in hit : TRUE][2], c, s)
    [] a[1] = "seq"    -> Meaning(a[3], c, s)
    [] a[1] \in {"group", "put"} -> Meaning(a[2], c, s)
    [] a[1] = "none"   -> Null

-----------------------------------------------------------------------------
(***************************************************************************)
(* The text of an expression in a definition, where this and $ mean        *)
(* something only as the first word of a definition or a bracket.          *)
(***************************************************************************)
In(l, t, r) == <<Punct(l)>> \o t \o <<Punct(r)>>

RECURSIVE Text(_)
Operand(a) == IF (a[1] = "lit" /\ a[2] \notin {This, Key}) \/ a[1] = "var"
              THEN Text(a) ELSE In("(", Text(a), ")")
Part(a)    == IF a[1] = "bare" THEN <<a[2]>> ELSE In("{", Text(a), "}")

Text(a) ==
  CASE a[1] = "lit"    -> <<a[2]>>
    [] a[1] = "var"    -> <<Punct("@"), Name(a[2])>>
    [] a[1] = "get"    -> Text(a[2]) \o Operand(a[3])
    [] a[1] = "eq"     -> Text(a[2]) \o <<Punct("==")>> \o Operand(a[3])
    [] a[1] = "if"     -> <<Name("if")>> \o In("(", Text(a[2]), ")") \o Part(a[3])
                          \o (IF a[4][1] = "none" THEN <<>> ELSE <<Name("else")>> \o Part(a[4]))
    [] a[1] = "select" -> <<Name("select")>> \o In("(", Text(a[2]), ")")
                          \o In("{", FlattenSeq([i \in DOMAIN a[3] |->
                               <<a[3][i][1], Punct(":")>> \o Part(a[3][i][2])]), "}")
    [] a[1] = "seq"    -> Text(a[2]) \o <<Punct(";")>> \o Text(a[3])
    [] a[1] = "group"  -> In("(", Text(a[2]), ")")
    [] a[1] = "put"    -> Text(a[2]) \o <<a[3], Punct("=")>> \o Operand(a[4])
=============================================================================
