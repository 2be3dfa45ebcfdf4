------------------------------ MODULE Legality -------------------------------
(***************************************************************************)
(* Which programs have to be rejected though they are well-formed, after   *)
(* the manuals of the profiles and docs/dialect-matrix.md: what a profile  *)
(* does not have, writes to constants, names that no declaration covers,   *)
(* labels defined twice and gotos that find no label or that would enter   *)
(* the scope of a variable.                                                *)
(*                                                                         *)
(* scope holds the declarations a place sees, innermost last: of local     *)
(* variables, of globals, and of all globals (the name "*").               *)
(***************************************************************************)
EXTENDS Syntax, FiniteSetsExt

Declaration(n, global, constant) == [n |-> n, global |-> global, constant |-> constant]

(* The declaration that decides what n is: one of its own comes first. *)
DeclarationsOf(scope, n) ==
  LET own == {j \in DOMAIN scope : scope[j].n = n}
      all == {j \in DOMAIN scope : scope[j].n = "*"} IN
  IF own # {} THEN {scope[Max(own)]} ELSE IF all # {} THEN {scope[Max(all)]} ELSE {}

(* Once a global is declared, those that are not are errors. *)
MayUse(scope, n) ==
  DeclarationsOf(scope, n) # {} \/ \A d \in Range(scope) : ~d.global

MayWrite(scope, n) == MayUse(scope, n) /\ \A d \in DeclarationsOf(scope, n) : ~d.constant

Scopes(ns, attributes, global) ==
  [j \in DOMAIN ns |-> Declaration(ns[j], global, attributes[j] \in {"const", "close"})]

(* What a statement declares for those after it in its block. *)
DeclaredBy(s) ==
  CASE s.k = "local"         -> Scopes(<<s.n>>, <<s.attribute>>, FALSE)
    [] s.k = "locals"        -> Scopes(s.ns, s.attributes, FALSE)
    [] s.k = "localfunction" -> <<Declaration(s.n, FALSE, FALSE)>>
    [] s.k = "global"        -> Scopes(s.ns, s.attributes, TRUE)
    [] s.k = "globalall"     -> <<Declaration("*", TRUE, s.attribute = "const")>>
    [] s.k = "functionat" /\ s.global -> <<Declaration(s.path[1], TRUE, FALSE)>>
    [] OTHER                 -> << >>

ScopeBefore(scope, body, j) == scope \o Spread([h \in 1 .. j - 1 |-> DeclaredBy(body[h])], << >>)

(* The control variable of a loop is a constant in Lua 5.5. *)
LoopScope(profile, s) ==
  CASE s.k = "numericfor" -> <<Declaration(s.n, FALSE, profile = "Lua55")>>
    [] s.k = "genericfor" -> [j \in DOMAIN s.ns |-> Declaration(s.ns[j], FALSE, profile = "Lua55" /\ j = 1)]
    [] OTHER              -> << >>

(* The expressions directly in a statement or an expression. *)
SubExpressions(x) ==
  CASE x.k \in {"group", "unary"} -> <<x.e>>
    [] x.k = "index"              -> <<x.t, x.i>>
    [] x.k = "call"               -> <<x.f>> \o x.args
    [] x.k = "method"             -> <<x.o>> \o x.args
    [] x.k = "ifelse"             -> <<x.c, x.a, x.b>>
    [] x.k = "binary"             -> <<x.l, x.r>>
    [] x.k = "table"              -> Spread([j \in DOMAIN x.fields |->
                                       (IF x.fields[j].k = "indexed" THEN <<x.fields[j].i>> ELSE << >>)
                                       \o <<x.fields[j].v>>], << >>)
    [] x.k = "interpolated"       -> x.parts
    [] x.k \in {"local", "locals", "global", "genericfor", "return"} -> x.es
    [] x.k \in {"assign", "compound"} -> <<x.target, x.e>>
    [] x.k = "assigns"            -> x.targets \o x.es
    [] x.k = "callstatement"      -> <<x.e>>
    [] x.k = "if"                 -> [j \in DOMAIN x.clauses |-> x.clauses[j].c]
    [] x.k = "while"              -> <<x.c>>
    [] x.k = "numericfor"         -> <<x.first, x.limit>> \o x.step
    [] OTHER                      -> << >>

WrittenNames(s) ==
  CASE s.k \in {"assign", "compound"} -> IF s.target.k = "name" THEN {s.target.n} ELSE {}
    [] s.k = "assigns"    -> {t.n : t \in {t \in Range(s.targets) : t.k = "name"}}
    [] s.k = "functionat" -> IF Len(s.path) = 1 /\ ~s.global THEN {s.path[1]} ELSE {}
    [] OTHER              -> {}

-----------------------------------------------------------------------------
(***************************************************************************)
(* goto.  way is how a place is reached from the body of its function: the *)
(* blocks on the way, outermost first, each with the index in it and       *)
(* whether it is the body of a repeat.                                     *)
(***************************************************************************)
LabelsIn(body, n) == {h \in DOMAIN body : body[h].k = "label" /\ body[h].n = n}

(* A label at the end of a block is outside the scope of its variables. *)
AtBlockEnd(at, h) ==
  ~at.repeat /\ \A j \in h + 1 .. Len(at.body) : at.body[j].k = "label"

Enters(at, h) ==
  /\ ~AtBlockEnd(at, h)
  /\ \E j \in at.j + 1 .. h - 1 : DeclaredBy(at.body[j]) # << >>

GotoLegal(way, n) ==
  LET with == {w \in DOMAIN way : LabelsIn(way[w].body, n) # {}}
      at == way[Max(with)] IN
  with # {} /\ ~Enters(at, Min(LabelsIn(at.body, n)))

LabelLegal(way, n) ==
  \A w \in DOMAIN way : \A h \in LabelsIn(way[w].body, n) : h >= way[w].j

-----------------------------------------------------------------------------
(***************************************************************************)
(* What only some profiles have (docs/dialect-matrix.md, LEX and OP).      *)
(***************************************************************************)
Modern == {"Lua53", "Lua54", "Lua55", "Blu"}

Available(profile, x) ==
  CASE x.k \in {"continue", "compound", "ifelse", "interpolated"} -> profile \in {"Luau", "Blu"}
    [] x.k \in {"goto", "label"}     -> profile \notin {"Luau", "Lua51"}
    [] x.k \in {"global", "globalall"} -> profile \in {"Lua55", "Blu"}
    [] x.k = "functionat"            -> x.global => profile \in {"Lua55", "Blu"}
    [] x.k = "function"              -> x.vname # "" => profile \in {"Lua55", "Blu"}
    [] x.k = "local"                 -> x.attribute = "regular" \/ profile \in {"Lua54", "Lua55", "Blu"}
    [] x.k \in {"unary", "binary"}   ->
         /\ x.op \in {"&", "|", "~", "<<", ">>"} => profile \in Modern
         /\ x.op = "//" => profile \in Modern \cup {"Luau"}
    [] OTHER                         -> TRUE

RECURSIVE LegalExpression(_, _, _), LegalBlock(_, _, _, _, _)

LegalFunction(profile, scope, f) ==
  Available(profile, f) /\
  LegalBlock(profile, scope \o [j \in DOMAIN f.params |-> Declaration(f.params[j], FALSE, FALSE)]
                            \o (IF f.vname = "" THEN << >> ELSE <<Declaration(f.vname, FALSE, TRUE)>>),
             f.body, << >>, FALSE)

LegalExpression(profile, scope, e) ==
  /\ e.k # "function" => Available(profile, e)
  /\ e.k = "name" => MayUse(scope, e.n)
  /\ e.k = "function" => LegalFunction(profile, scope, e)
  /\ \A j \in DOMAIN SubExpressions(e) : LegalExpression(profile, scope, SubExpressions(e)[j])

LegalStatement(profile, scope, way, s) ==
  LET after == scope \o DeclaredBy(s)
      self == IF s.k = "functionat" /\ s.method THEN <<Declaration("self", FALSE, FALSE)>> ELSE << >>
      bs == Blocks(s) IN
  /\ Available(profile, s)
  /\ \A j \in DOMAIN SubExpressions(s) : LegalExpression(profile, scope, SubExpressions(s)[j])
  /\ \A n \in WrittenNames(s) : MayWrite(scope, n)
  /\ s.k \in {"localfunction", "functionat"} => LegalFunction(profile, after \o self, s.f)
  /\ s.k = "functionat" => MayUse(after, s.path[1])
  /\ s.k = "locals" => Cardinality({j \in DOMAIN s.ns : s.attributes[j] = "close"}) <= 1
  /\ s.k = "goto" => GotoLegal(way, s.n)
  /\ s.k = "label" => LabelLegal(way, s.n)
  /\ \A j \in DOMAIN bs : LegalBlock(profile, scope \o LoopScope(profile, s), bs[j], way, s.k = "repeat")
  /\ s.k = "repeat" => LegalExpression(profile, ScopeBefore(scope, s.body, Len(s.body) + 1), s.c)

LegalBlock(profile, scope, body, way, repeat) ==
  \A j \in DOMAIN body :
    LegalStatement(profile, ScopeBefore(scope, body, j),
                   Append(way, [body |-> body, j |-> j, repeat |-> repeat]), body[j])

Legal(profile, program) == LegalBlock(profile, << >>, program, << >>, FALSE)
=============================================================================
