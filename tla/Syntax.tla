------------------------------- MODULE Syntax --------------------------------
(***************************************************************************)
(* Syntax trees of source programs (blu-syntax, ast.rs) and their text.    *)
(*                                                                         *)
(* A node is a record whose field k names its kind.  A block is a sequence *)
(* of statements, so that a block is known by the path to it: the index of *)
(* the statement it belongs to in the enclosing block, then which block of *)
(* that statement it is.  A literal and a name are strings.  A field       *)
(* access is an index by a literal, as everything that reads trees treats  *)
(* them alike.                                                             *)
(***************************************************************************)
EXTENDS Integers, Sequences, SequencesExt, TLC

Constant(v) == [k |-> "constant", v |-> v]
Vararg == [k |-> "vararg"]
Name(n) == [k |-> "name", n |-> n]
Group(e) == [k |-> "group", e |-> e]
Index(t, i) == [k |-> "index", t |-> t, i |-> i]
CallOf(f, args) == [k |-> "call", f |-> f, args |-> args]
Method(o, m, args) == [k |-> "method", o |-> o, m |-> m, args |-> args]
Function(params, vararg, body) ==
  [k |-> "function", params |-> params, vararg |-> vararg, vname |-> "", body |-> body]
IfElse(c, a, b) == [k |-> "ifelse", c |-> c, a |-> a, b |-> b]
UnaryOf(op, e) == [k |-> "unary", op |-> op, e |-> e]
BinaryOf(op, l, r) == [k |-> "binary", op |-> op, l |-> l, r |-> r]
Table(fields) == [k |-> "table", fields |-> fields]
ArrayField(v) == [k |-> "array", v |-> v]
NamedField(name, v) == [k |-> "named", name |-> name, v |-> v]
IndexedField(i, v) == [k |-> "indexed", i |-> i, v |-> v]
(* Texts at the odd places, expressions between them. *)
Interpolated(parts) == [k |-> "interpolated", parts |-> parts]

Local(n, attribute, es) == [k |-> "local", n |-> n, attribute |-> attribute, es |-> es]
LocalList(ns, attributes, es) == [k |-> "locals", ns |-> ns, attributes |-> attributes, es |-> es]
LocalFunction(n, f) == [k |-> "localfunction", n |-> n, f |-> f]
FunctionAt(path, method, global, f) ==
  [k |-> "functionat", path |-> path, method |-> method, global |-> global, f |-> f]
Global(ns, attributes, es) == [k |-> "global", ns |-> ns, attributes |-> attributes, es |-> es]
GlobalAll(attribute) == [k |-> "globalall", attribute |-> attribute]
Assign(target, e) == [k |-> "assign", target |-> target, e |-> e]
AssignList(targets, es) == [k |-> "assigns", targets |-> targets, es |-> es]
Compound(op, target, e) == [k |-> "compound", op |-> op, target |-> target, e |-> e]
CallStatement(e) == [k |-> "callstatement", e |-> e]
If(clauses) == [k |-> "if", clauses |-> clauses, else |-> << >>]
IfOrElse(clauses, body) == [k |-> "if", clauses |-> clauses, else |-> <<body>>]
Clause(c, body) == [c |-> c, body |-> body]
While(c, body) == [k |-> "while", c |-> c, body |-> body]
Repeat(body, c) == [k |-> "repeat", c |-> c, body |-> body]
Do(body) == [k |-> "do", body |-> body]
NumericFor(n, first, limit, step, body) ==
  [k |-> "numericfor", n |-> n, first |-> first, limit |-> limit, step |-> step, body |-> body]
GenericFor(ns, es, body) == [k |-> "genericfor", ns |-> ns, es |-> es, body |-> body]
Break == [k |-> "break"]
Continue == [k |-> "continue"]
Label(n) == [k |-> "label", n |-> n]
Goto(n) == [k |-> "goto", n |-> n]
ReturnOf(es) == [k |-> "return", es |-> es]

Calls == {"call", "method"}

(* The blocks of a statement, in the order of the text. *)
Blocks(s) ==
  CASE s.k = "if" -> [j \in DOMAIN s.clauses |-> s.clauses[j].body] \o s.else
    [] s.k \in {"while", "repeat", "do", "numericfor", "genericfor"} -> <<s.body>>
    [] OTHER -> << >>

-----------------------------------------------------------------------------
(***************************************************************************)
(* The text of a tree, as a sequence of lexemes.  Words are the strings of *)
(* the programs.                                                           *)
(***************************************************************************)
Words == {"a", "b", ""}
Digits == {ToString(n) : n \in 0 .. 9}

Quoted(word) == "'" \o word \o "'"
Between(word) == "|" \o word \o "|"    \* a text of an interpolated string

TextOfConstant(v) == IF v \in Words THEN Quoted(v) ELSE v

Spread(texts, between) ==
  LET Joined[j \in 0 .. Len(texts)] ==
        IF j = 0 THEN << >>
        ELSE Joined[j - 1] \o (IF j = 1 THEN << >> ELSE between) \o texts[j]
  IN Joined[Len(texts)]

RECURSIVE TextOf(_), TextOfBlock(_)

TextOfList(es) == Spread([j \in DOMAIN es |-> TextOf(es[j])], <<",">>)

TextOfNames(ns) == Spread([j \in DOMAIN ns |-> <<ns[j]>>], <<",">>)

TextOfDeclared(ns, attributes) ==
  Spread([j \in DOMAIN ns |-> IF attributes[j] = "regular" THEN <<ns[j]>>
                              ELSE <<ns[j], "<", attributes[j], ">">>], <<",">>)

TextOfValues(es) == IF es = << >> THEN << >> ELSE <<"=">> \o TextOfList(es)

TextOfBody(f) ==
  <<"(">> \o TextOfNames(f.params)
  \o (IF ~f.vararg THEN << >>
      ELSE (IF f.params = << >> THEN << >> ELSE <<",">>) \o <<"...">>
           \o IF f.vname = "" THEN << >> ELSE <<f.vname>>)
  \o <<")">> \o TextOfBlock(f.body) \o <<"end">>

TextOfField(f) ==
  CASE f.k = "array"   -> TextOf(f.v)
    [] f.k = "named"   -> <<f.name, "=">> \o TextOf(f.v)
    [] f.k = "indexed" -> <<"[">> \o TextOf(f.i) \o <<"]", "=">> \o TextOf(f.v)

TextOfExpression(e) ==
  CASE e.k = "constant" -> <<TextOfConstant(e.v)>>
    [] e.k = "vararg"   -> <<"...">>
    [] e.k = "name"     -> <<e.n>>
    [] e.k = "group"    -> <<"(">> \o TextOf(e.e) \o <<")">>
    [] e.k = "index"    -> TextOf(e.t) \o <<"[">> \o TextOf(e.i) \o <<"]">>
    [] e.k = "call"     -> TextOf(e.f) \o <<"(">> \o TextOfList(e.args) \o <<")">>
    [] e.k = "method"   -> TextOf(e.o) \o <<":", e.m, "(">> \o TextOfList(e.args) \o <<")">>
    [] e.k = "function" -> <<"function">> \o TextOfBody(e)
    [] e.k = "ifelse"   -> <<"if">> \o TextOf(e.c) \o <<"then">> \o TextOf(e.a)
                           \o <<"else">> \o TextOf(e.b)
    [] e.k = "unary"    -> <<e.op>> \o TextOf(e.e)
    [] e.k = "binary"   -> TextOf(e.l) \o <<e.op>> \o TextOf(e.r)
    [] e.k = "table"    -> <<"{">> \o Spread([j \in DOMAIN e.fields |-> TextOfField(e.fields[j])],
                                            <<",">>) \o <<"}">>
    [] e.k = "interpolated" ->
         <<"|(">> \o Spread([j \in DOMAIN e.parts |->
                            IF j % 2 = 1 THEN <<Between(e.parts[j].v)>>
                            ELSE <<"|{">> \o TextOf(e.parts[j]) \o <<"}|">>], << >>)
         \o <<"|)">>

TextOfIf(s) ==
  Spread([j \in DOMAIN s.clauses |->
            <<IF j = 1 THEN "if" ELSE "elseif">> \o TextOf(s.clauses[j].c) \o <<"then">>
            \o TextOfBlock(s.clauses[j].body)], << >>)
  \o (IF s.else = << >> THEN << >> ELSE <<"else">> \o TextOfBlock(s.else[1]))
  \o <<"end">>

TextOfStatement(s) ==
  CASE s.k = "local"         -> <<"local">> \o TextOfDeclared(<<s.n>>, <<s.attribute>>) \o TextOfValues(s.es)
    [] s.k = "locals"        -> <<"local">> \o TextOfDeclared(s.ns, s.attributes) \o TextOfValues(s.es)
    [] s.k = "localfunction" -> <<"local", "function", s.n>> \o TextOfBody(s.f)
    [] s.k = "functionat"    -> (IF s.global THEN <<"global">> ELSE << >>) \o <<"function">>
                                \o Spread([j \in DOMAIN s.path |->
                                             (IF j = 1 THEN << >>
                                              ELSE IF j = Len(s.path) /\ s.method THEN <<":">>
                                              ELSE <<".">>) \o <<s.path[j]>>], << >>)
                                \o TextOfBody(s.f)
    [] s.k = "global"        -> <<"global">> \o TextOfDeclared(s.ns, s.attributes) \o TextOfValues(s.es)
    [] s.k = "globalall"     -> <<"global">> \o (IF s.attribute = "regular" THEN << >>
                                                 ELSE <<"<", s.attribute, ">">>) \o <<"*">>
    [] s.k = "assign"        -> TextOf(s.target) \o <<"=">> \o TextOf(s.e)
    [] s.k = "assigns"       -> TextOfList(s.targets) \o <<"=">> \o TextOfList(s.es)
    [] s.k = "compound"      -> TextOf(s.target) \o <<s.op \o "=">> \o TextOf(s.e)
    [] s.k = "callstatement" -> TextOf(s.e)
    [] s.k = "if"            -> TextOfIf(s)
    [] s.k = "while"         -> <<"while">> \o TextOf(s.c) \o <<"do">> \o TextOfBlock(s.body) \o <<"end">>
    [] s.k = "repeat"        -> <<"repeat">> \o TextOfBlock(s.body) \o <<"until">> \o TextOf(s.c)
    [] s.k = "do"            -> <<"do">> \o TextOfBlock(s.body) \o <<"end">>
    [] s.k = "numericfor"    -> <<"for", s.n, "=">> \o TextOfList(<<s.first, s.limit>> \o s.step)
                                \o <<"do">> \o TextOfBlock(s.body) \o <<"end">>
    [] s.k = "genericfor"    -> <<"for">> \o TextOfNames(s.ns) \o <<"in">> \o TextOfList(s.es)
                                \o <<"do">> \o TextOfBlock(s.body) \o <<"end">>
    [] s.k \in {"break", "continue"} -> <<s.k>>
    [] s.k = "label"         -> <<"::", s.n, "::">>
    [] s.k = "goto"          -> <<"goto", s.n>>
    [] s.k = "return"        -> <<"return">> \o TextOfList(s.es)

Expressions == {"constant", "vararg", "name", "group", "index", "call", "method", "function",
                "ifelse", "unary", "binary", "table", "interpolated"}

TextOf(node) == IF node.k \in Expressions THEN TextOfExpression(node) ELSE TextOfStatement(node)

TextOfBlock(body) == Spread([j \in DOMAIN body |-> TextOf(body[j])], <<";">>)
=============================================================================
