------------------------------- MODULE Parser --------------------------------
(***************************************************************************)
(* From text to trees (blu-syntax, parser.rs, and the kinds of lexemes of  *)
(* lib.rs).                                                                *)
(*                                                                         *)
(* A text is a sequence of lexemes; "newline" stands for trivia with a     *)
(* line break.  A parser P has the text and the index at which it reads,   *)
(* the statements of the block it is in (body), the number of loops around *)
(* it in its function, and the node just built (out).  bad tells that a    *)
(* diagnostic was reported, broken that an internal invariant failed.      *)
(* Parsing goes on after a diagnostic: fail tells that the production at   *)
(* hand was given up, and the steps that remain of it do nothing.  Limits  *)
(* on nodes, depth and diagnostics are left out.                           *)
(***************************************************************************)
EXTENDS Syntax

GlobalProfiles == {"Blu", "Lua55"}
TypedProfiles == {"Blu", "Luau"}
GotoProfiles == {"Blu", "Lua52", "Lua53", "Lua54", "Lua55"}
AttributeProfiles == {"Blu", "Lua54", "Lua55"}
BitwiseProfiles == {"Blu", "Lua53", "Lua54", "Lua55"}
FloorProfiles == BitwiseProfiles \cup {"Luau"}

Keywords ==
  {"global", "local", "function", "return", "not", "and", "or", "if", "then", "elseif", "else", "end",
   "while", "do", "repeat", "until", "for", "in", "goto", "break", "continue", "nil", "true", "false"}

BitwiseSymbols == {"&", "|", "~", "<<", ">>"}

OperatorOf ==
  "+=" :> "+" @@ "-=" :> "-" @@ "*=" :> "*" @@ "/=" :> "/" @@ "//=" :> "//" @@ "%=" :> "%"
  @@ "^=" :> "^" @@ "..=" :> ".."

Symbols ==
  {"=", "==", "~=", "<", "<=", ">", ">=", ",", ";", ":", "::", "+", "-", "*", "/", "%", "^", "#", "{", "}",
   "[", "]", "(", ")", ".", "..", "...", "//", "?", "|(", "|)", "|{", "}|"} \cup BitwiseSymbols \cup DOMAIN OperatorOf

(* Only global is a name where it is no keyword. *)
KindOf(profile, lexeme) ==
  CASE lexeme \in {Quoted(w) : w \in Words}                   -> "string"
    [] lexeme \in {Between(w) : w \in Words}                  -> "text"
    [] lexeme \in Digits                                      -> "number"
    [] lexeme = "global" /\ profile \notin GlobalProfiles     -> "name"
    [] lexeme \in Keywords \cup Symbols                       -> lexeme
    [] OTHER                                                  -> "name"

(* What the lexer reports, so that parsing does not start. *)
Unavailable(profile, lexeme) ==
  \/ lexeme \in DOMAIN OperatorOf \cup {"|(", "continue", "?"} /\ profile \notin TypedProfiles
  \/ lexeme \in BitwiseSymbols /\ profile \notin BitwiseProfiles
  \/ lexeme = "//" /\ profile \notin FloorProfiles
  \/ lexeme = "goto" /\ profile \notin GotoProfiles
  \/ lexeme = "::" /\ profile \notin GotoProfiles \cup {"Luau"}

RECURSIVE SkipTrivia(_, _)

SkipTrivia(text, j) == IF j <= Len(text) /\ text[j] = "newline" THEN SkipTrivia(text, j + 1) ELSE j

Here(P) == SkipTrivia(P.text, P.at)
Kind(P) == IF Here(P) > Len(P.text) THEN "eof" ELSE KindOf(P.profile, P.text[Here(P)])
Lexeme(P) == P.text[Here(P)]
Sees(P, kind) == ~P.fail /\ Kind(P) = kind
AfterLineBreak(P) == Here(P) > P.at

Bump(P) == IF P.fail THEN P ELSE [P EXCEPT !.at = IF Here(P) > Len(P.text) THEN Here(P) ELSE Here(P) + 1]

(* The kind of the n-th significant lexeme from here. *)
RECURSIVE KindAhead(_, _)
KindAhead(P, n) == IF n = 0 THEN Kind(P) ELSE KindAhead(Bump(P), n - 1)

PreviousKind(P) ==
  LET before == SelectSeq(SubSeq(P.text, 1, P.at - 1), LAMBDA l : l # "newline") IN
  IF before = << >> THEN "none" ELSE KindOf(P.profile, Last(before))

ReportOrEof(P) == IF P.fail THEN P ELSE [P EXCEPT !.bad = TRUE]

(* A report about the current lexeme where there is none fails. *)
Report(P) == [ReportOrEof(P) EXCEPT !.broken = @ \/ (~P.fail /\ Kind(P) = "eof")]

GiveUp(P) == [ReportOrEof(P) EXCEPT !.fail = TRUE]

Expect(P, kind) == IF P.fail \/ Sees(P, kind) THEN Bump(P) ELSE GiveUp(P)

Yield(P, node) == [P EXCEPT !.out = node]

(* The production goes on as if what was tried had been absent. *)
Instead(P, node) == [P EXCEPT !.fail = FALSE, !.out = node]

Push(P, statement) == IF P.fail THEN P ELSE [P EXCEPT !.body = Append(@, statement)]

RECURSIVE SkipTo(_, _)
SkipTo(P, kinds) == IF P.fail \/ Kind(P) \in kinds \cup {"eof"} THEN P ELSE SkipTo(Bump(P), kinds)

(***************************************************************************)
(* The productions that need one another; Production finds the body of     *)
(* each, which is below under the same name with Read.                     *)
(***************************************************************************)
RECURSIVE Production(_, _, _)

ParseExpression(P, minimum) == Production("expression", P, minimum)
ParsePostfix(P) == Production("postfix", P, 0)
ParseFunctionBody(P) == Production("function", P, 0)
ParseArguments(P) == Production("arguments", P, 0)
ParseStatements(P, terminators) == Production("statements", P, terminators)

-----------------------------------------------------------------------------
(***************************************************************************)
(* Types are skipped.                                                      *)
(***************************************************************************)
RECURSIVE SkipContainer(_, _, _, _), SkipDotted(_), SkipType(_), SkipTypeRest(_)

SkipContainer(P, open, close, depth) ==
  CASE Kind(P) = "eof"                    -> ReportOrEof(P)
    [] Kind(P) = close /\ depth = 1       -> Bump(P)
    [] Kind(P) = close                    -> SkipContainer(Bump(P), open, close, depth - 1)
    [] OTHER -> SkipContainer(Bump(P), open, close, IF Kind(P) = open THEN depth + 1 ELSE depth)

SkipDotted(P) ==
  IF ~Sees(P, ".") THEN IF Sees(P, "<") THEN SkipContainer(Bump(P), "<", ">", 1) ELSE P
  ELSE IF Kind(Bump(P)) \in {"name", "nil"} THEN SkipDotted(Bump(Bump(P)))
  ELSE ReportOrEof(Bump(P))

SkipTypePrimary(P) ==
  LET params == SkipContainer(Bump(P), "(", ")", 1)
      arrow == IF Sees(params, "-") THEN Bump(params) ELSE params IN
  CASE Kind(P) \in {"name", "nil"} -> SkipDotted(Bump(P))
    [] Kind(P) = "{"               -> SkipContainer(Bump(P), "{", "}", 1)
    [] Kind(P) = "("               -> IF Sees(params, "-") /\ Sees(arrow, ">") THEN SkipType(Bump(arrow)) ELSE arrow
    [] OTHER                       -> ReportOrEof(P)

SkipTypeRest(P) ==
  LET optional == IF Sees(P, "?") THEN Bump(P) ELSE P IN
  IF Kind(optional) \in {"|", "&"} THEN SkipTypeRest(SkipTypePrimary(Bump(optional))) ELSE optional

SkipType(P) == IF P.fail THEN P ELSE SkipTypeRest(SkipTypePrimary(P))

SkipAnnotation(P) == IF P.profile \in TypedProfiles /\ Sees(P, ":") THEN SkipType(Bump(P)) ELSE P

-----------------------------------------------------------------------------
(***************************************************************************)
(* Lists and functions.                                                    *)
(***************************************************************************)
RECURSIVE ParseMore(_, _), ParseParameters(_, _)

ParseMore(P, lenient) ==
  LET e == ParseExpression(Bump(P), 0) IN
  IF ~Sees(P, ",") THEN P
  ELSE IF e.fail THEN IF lenient THEN Instead(e, P.out) ELSE e
  ELSE ParseMore(Yield(e, Append(P.out, e.out)), lenient)

(* A lenient list ends where an expression is missing. *)
ParseList(P, lenient) ==
  LET first == ParseExpression(P, 0) IN
  IF first.fail THEN first ELSE ParseMore(Yield(first, <<first.out>>), lenient)

ParseValues(P) ==
  LET list == ParseList(Bump(P), TRUE) IN
  IF ~Sees(P, "=") THEN Yield(P, << >>) ELSE IF list.fail THEN Instead(list, << >>) ELSE list

ParseNested(P, terminators) ==
  LET b == ParseStatements([P EXCEPT !.body = << >>], terminators) IN
  IF P.fail THEN P ELSE [b EXCEPT !.out = b.body, !.body = P.body]

ParseLoopBody(P) ==
  [Expect(ParseNested([P EXCEPT !.loops = @ + 1], {"end"}), "end") EXCEPT !.loops = P.loops]

ParameterList(params, vararg, vname) == [params |-> params, vararg |-> vararg, vname |-> vname]

ParseParameters(P, params) ==
  LET dots == Bump(P)
      named == P.profile \in GlobalProfiles /\ Sees(dots, "name")
      rest == SkipAnnotation(IF named THEN Bump(dots) ELSE dots)
      name == SkipAnnotation(Expect(P, "name"))
      all == Append(params, Lexeme(P)) IN
  IF Sees(P, "...") THEN Yield(rest, ParameterList(params, TRUE, IF named THEN Lexeme(dots) ELSE ""))
  ELSE IF Sees(name, ",") THEN ParseParameters(Bump(name), all)
  ELSE IF name.fail THEN name ELSE Yield(name, ParameterList(all, FALSE, ""))

ParseGivenParameters(P) ==
  IF Sees(P, ")") \/ P.fail THEN Yield(P, ParameterList(<< >>, FALSE, "")) ELSE ParseParameters(P, << >>)

(* The body of a function, from behind its parameters on. *)
ParseFunctionWith(P, given, loops) ==
  LET body == ParseNested([P EXCEPT !.loops = 0], {"end"})
      end == Expect([body EXCEPT !.loops = loops], "end") IN
  IF end.fail THEN end
  ELSE Yield(end, [Function(given.params, given.vararg, body.out) EXCEPT !.vname = given.vname])

ParseFunctionFrom(P) == ParseFunctionWith(SkipAnnotation(Expect(P, ")")), P.out, P.loops)

ReadFunctionBody(P) == ParseFunctionFrom(ParseGivenParameters(Expect(P, "(")))

-----------------------------------------------------------------------------
(***************************************************************************)
(* Expressions.                                                            *)
(***************************************************************************)
(* How strongly an operator binds on its left, and what its right side    *)
(* has to bind at least.                                                   *)
Precedence ==
  LET Level(ops, left, right) == [op \in ops |-> <<left, right>>] IN
  Level({"or"}, 1, 2) @@ Level({"and"}, 2, 3) @@ Level({"==", "~=", "<", "<=", ">", ">="}, 3, 4)
  @@ Level({"|"}, 4, 5) @@ Level({"~"}, 5, 6) @@ Level({"&"}, 6, 7) @@ Level({"<<", ">>"}, 7, 8)
  @@ Level({".."}, 8, 8) @@ Level({"+", "-"}, 9, 10) @@ Level({"*", "/", "%", "//"}, 10, 11) @@ Level({"^"}, 12, 12)

UnaryOperators == {"not", "-", "~", "#"}

RECURSIVE ParseOperators(_, _), ParseFields(_, _), ParseParts(_, _), ParseIfExpression(_)

(* Mutant: the right side of an operator may hold another of its level. *)
ParseOperatorsRightward(P, minimum) ==
  LET op == Kind(P)
      right == ParseExpression(Bump(P), Precedence[op][1]) IN
  IF op \notin DOMAIN Precedence \/ Precedence[op][1] < minimum THEN P
  ELSE IF right.fail THEN Instead(right, P.out)
  ELSE ParseOperators(Yield(right, BinaryOf(op, P.out, right.out)), minimum)

ParseOperators(P, minimum) ==
  LET op == Kind(P)
      right == ParseExpression(Bump(P), Precedence[op][2]) IN
  IF op \notin DOMAIN Precedence \/ Precedence[op][1] < minimum THEN P
  ELSE IF right.fail THEN Instead(right, P.out)
  ELSE ParseOperators(Yield(right, BinaryOf(op, P.out, right.out)), minimum)

(* What follows after an error in a field is not read. *)
ParseTableEnd(P, fields) ==
  IF Sees(P, "}") THEN Yield(Bump(P), Table(fields)) ELSE Yield(P, Table(<< >>))

ParseField(P) ==
  LET key == ParseExpression(Bump(P), 0)
      indexed == ParseExpression(Expect(Expect(key, "]"), "="), 0)
      item == ParseExpression(P, 0)
      named == ParseExpression(Bump(item), 0) IN
  IF Sees(P, "[") THEN IF indexed.fail THEN indexed ELSE Yield(indexed, IndexedField(key.out, indexed.out))
  ELSE IF ~Sees(item, "=") THEN IF item.fail THEN item ELSE Yield(item, ArrayField(item.out))
  ELSE IF item.out.k # "name" THEN GiveUp(item)
  ELSE IF named.fail THEN named ELSE Yield(named, NamedField(item.out.n, named.out))

ParseFields(P, fields) ==
  LET f == ParseField(P)
      all == Append(fields, f.out) IN
  CASE Sees(P, "}")                    -> ParseTableEnd(P, fields)
    [] Sees(P, "eof")                  -> ParseTableEnd(ReportOrEof(P), fields)
    [] f.fail                        -> ParseTableEnd(Instead(f, << >>), fields)
    [] Sees(f, ",") \/ Sees(f, ";")      -> ParseFields(Bump(f), all)
    [] Sees(f, "}")                    -> ParseTableEnd(f, all)
    [] OTHER                         -> ParseTableEnd(ReportOrEof(f), all)

WordOf(P) == CHOOSE w \in Words : Lexeme(P) \in {Quoted(w), Between(w)}

ParseParts(P, parts) ==
  LET text == Expect(P, "text")
      read == Append(parts, Constant(WordOf(P)))
      e == ParseExpression(Expect(text, "|{"), 0)
      close == Expect(e, "}|") IN
  IF text.fail THEN text
  ELSE IF Sees(text, "|)") THEN Yield(Bump(text), Interpolated(read))
  ELSE IF close.fail THEN close ELSE ParseParts(close, Append(read, e.out))

(* After if or elseif. *)
ParseIfExpression(P) ==
  LET c == ParseExpression(P, 0)
      a == ParseExpression(Expect(c, "then"), 0)
      b == IF Sees(a, "elseif") THEN ParseIfExpression(Bump(a)) ELSE ParseExpression(Expect(a, "else"), 0) IN
  IF b.fail THEN b ELSE Yield(b, IfElse(c.out, a.out, b.out))

ParseGroup(P) ==
  LET inner == ParseExpression(Bump(P), 0) IN
  IF inner.fail THEN inner
  ELSE IF Sees(inner, ")") THEN ParsePostfix(Yield(Bump(inner), Group(inner.out)))
  ELSE ReportOrEof(inner)

ParsePrimary(P) ==
  LET kind == Kind(P)
      if == ParseIfExpression(Bump(P))
      f == ParseFunctionBody(Bump(P)) IN
  CASE kind \in {"nil", "true", "false", "number"} -> ParsePostfix(Yield(Bump(P), Constant(Lexeme(P))))
    [] kind = "string"   -> ParsePostfix(Yield(Bump(P), Constant(WordOf(P))))
    [] kind = "..."      -> ParsePostfix(Yield(Bump(P), Vararg))
    [] kind = "|("       -> ParseParts(Bump(P), << >>)
    [] kind = "name" \/ (kind = "global" /\ P.profile = "Lua55") -> ParsePostfix(Yield(Bump(P), Name(Lexeme(P))))
    [] kind = "if"       -> IF P.profile \notin TypedProfiles THEN [Bump(Report(P)) EXCEPT !.fail = TRUE]
                            ELSE IF if.fail THEN if ELSE ParsePostfix(if)
    [] kind = "function" -> IF f.fail THEN f ELSE ParsePostfix(f)
    [] kind = "{"        -> ParsePostfix(ParseFields(Bump(P), << >>))
    [] kind = "("        -> ParseGroup(P)
    [] OTHER             -> GiveUp(P)

ParsePrefix(P) ==
  LET e == ParseExpression(Bump(P), 11) IN
  IF Kind(P) \notin UnaryOperators THEN ParsePrimary(P)
  ELSE IF e.fail THEN e ELSE Yield(e, UnaryOf(Kind(P), e.out))

ReadExpression(P, minimum) ==
  LET left == ParsePrefix(P) IN
  IF P.fail THEN P ELSE IF left.fail THEN left ELSE ParseOperators(left, minimum)

(* The arguments of a call, in one of their three forms. *)
ReadArguments(P) ==
  LET open == Bump(P)
      list == IF Sees(open, ")") THEN Yield(open, << >>) ELSE ParseList(open, FALSE)
      table == ParseFields(open, << >>) IN
  CASE Sees(P, "(")      -> Expect(list, ")")
    [] Sees(P, "{")      -> Yield(table, <<table.out>>)
    [] Sees(P, "string") -> Yield(open, <<Constant(WordOf(P))>>)
    [] OTHER           -> GiveUp(P)

LabelAhead(P) == KindAhead(P, 1) = "name" /\ KindAhead(P, 2) = "::"

(* What follows an expression; after an error the expression stays. *)
ReadPostfix(P) ==
  LET Extend(Q, node) == IF Q.fail THEN Instead(Q, P.out) ELSE ParsePostfix(Yield(Q, node))
      kind == Kind(P)
      open == Bump(P)
      key == ParseExpression(open, 0)
      method == ParseArguments(Expect(open, "name"))
      call == ParseArguments(P) IN
  CASE kind = "::" /\ P.profile \in TypedProfiles /\ ~LabelAhead(P) -> ParsePostfix(SkipType(open))
    [] P.out.k \notin {"name", "group", "index", "call", "method"} -> P
    [] kind = "["                    -> Extend(Expect(key, "]"), Index(P.out, key.out))
    [] kind = "."                    -> Extend(Expect(open, "name"), Index(P.out, Constant(Lexeme(open))))
    [] kind = ":"                    -> Extend(method, Method(P.out, Lexeme(open), method.out))
    [] kind = "(" /\ P.profile = "Luau" /\ AfterLineBreak(P) -> Report(P)
    [] kind \in {"(", "{", "string"} -> Extend(call, CallOf(P.out, call.out))
    [] OTHER                         -> P

-----------------------------------------------------------------------------
(***************************************************************************)
(* Statements.                                                             *)
(***************************************************************************)
RECURSIVE ParseClauses(_, _), ParseNames(_, _), ParsePath(_), ParseDeclared(_, _, _, _), ParseTargets(_, _, _)

ParseClauses(P, clauses) ==
  LET c == ParseExpression(P, 0)
      body == ParseNested(Expect(c, "then"), {"elseif", "else", "end"})
      all == Append(clauses, Clause(c.out, body.out)) IN
  IF body.fail THEN body
  ELSE IF Sees(body, "elseif") THEN ParseClauses(Bump(body), all) ELSE Yield(body, all)

ParseIf(P) ==
  LET clauses == ParseClauses(Bump(P), << >>)
      else == ParseNested(Bump(clauses), {"end"}) IN
  IF Sees(clauses, "else") THEN Push(Expect(else, "end"), IfOrElse(clauses.out, else.out))
  ELSE Push(Expect(clauses, "end"), If(clauses.out))

ParseWhile(P) ==
  LET c == ParseExpression(Bump(P), 0)
      body == ParseLoopBody(Expect(c, "do")) IN
  Push(body, While(c.out, body.out))

ParseRepeat(P) ==
  LET body == ParseNested([Bump(P) EXCEPT !.loops = @ + 1], {"until"})
      c == ParseExpression(Expect([body EXCEPT !.loops = P.loops], "until"), 0) IN
  Push(c, Repeat(body.out, c.out))

ParseDo(P) ==
  LET body == ParseNested(Bump(P), {"end"}) IN Push(Expect(body, "end"), Do(body.out))

ParseNames(P, names) ==
  LET next == Expect(Bump(P), "name") IN
  IF ~Sees(P, ",") THEN Yield(P, names)
  ELSE IF next.fail THEN next ELSE ParseNames(next, Append(names, Lexeme(Bump(P))))

(* A step that cannot be read is left out. *)
ParseNumericFor(P, n) ==
  LET first == ParseExpression(P, 0)
      limit == ParseExpression(Expect(first, ","), 0)
      given == ParseExpression(Bump(limit), 0)
      step == IF ~Sees(limit, ",") THEN Yield(limit, << >>)
              ELSE IF given.fail THEN Instead(given, << >>) ELSE Yield(given, <<given.out>>)
      body == ParseLoopBody(Expect(step, "do")) IN
  Push(body, NumericFor(n, first.out, limit.out, step.out, body.out))

ParseGenericFor(P, n) ==
  LET names == ParseNames(P, <<n>>)
      es == ParseList(Expect(names, "in"), FALSE)
      body == ParseLoopBody(Expect(es, "do")) IN
  Push(body, GenericFor(names.out, es.out, body.out))

ParseFor(P) ==
  LET name == Expect(Bump(P), "name")
      n == Lexeme(Bump(P)) IN
  IF name.fail THEN name
  ELSE IF Sees(name, "=") THEN ParseNumericFor(Bump(name), n) ELSE ParseGenericFor(name, n)

ParseLabel(P) ==
  LET open == Bump(P) IN
  IF P.profile = "Luau" THEN Bump(SkipTo(Report(open), {"::"}))
  ELSE Push(Expect(Expect(open, "name"), "::"), Label(Lexeme(open)))

ParseGoto(P) == Push(Expect(Bump(P), "name"), Goto(Lexeme(Bump(P))))

ParsePath(P) ==
  LET next == Expect(Bump(P), "name") IN
  IF ~Sees(P, ".") THEN P
  ELSE IF next.fail THEN next ELSE ParsePath(Yield(next, Append(P.out, Lexeme(Bump(P)))))

ParseFunctionStatement(P, global) ==
  LET keyword == Bump(P)
      path == ParsePath(Yield(Expect(keyword, "name"), <<Lexeme(keyword)>>))
      method == Sees(path, ":")
      f == ParseFunctionBody(IF method THEN Expect(Bump(path), "name") ELSE path)
      names == IF method THEN Append(path.out, Lexeme(Bump(path))) ELSE path.out
      checked == IF global /\ ~f.fail /\ Len(names) # 1 THEN Report(f) ELSE f IN
  Push(checked, FunctionAt(names, method /\ ~global, global, f.out))

(* An attribute in out, or the default. *)
ParseAttribute(P, default) ==
  LET open == Bump(P)
      name == Bump(open)
      close == IF Sees(name, ">") THEN Bump(name) ELSE ReportOrEof(name)
      known == Lexeme(open) \in {"const", "close"} IN
  IF ~Sees(P, "<") THEN Yield(P, default)
  ELSE IF ~Sees(open, "name") THEN Yield(ReportOrEof(open), default)
  ELSE Yield(IF known /\ P.profile \in AttributeProfiles THEN close ELSE ReportOrEof(close),
             IF known THEN Lexeme(open) ELSE default)

(* Names with their attributes, from a name on. *)
ParseDeclared(P, default, ns, attributes) ==
  LET a == ParseAttribute(SkipAnnotation(Bump(P)), default)
      all == [ns |-> Append(ns, Lexeme(P)), attributes |-> Append(attributes, a.out)]
      none == [ns |-> ns, attributes |-> attributes] IN
  IF ~Sees(P, "name") THEN Yield(ReportOrEof(P), none)
  ELSE IF Sees(a, ",") THEN ParseDeclared(Bump(a), default, all.ns, all.attributes)
  ELSE Yield(a, all)

ParseDefaulted(P) ==
  LET missing == ReportOrEof(P) IN
  ParseDeclared(IF Sees(P, "name") \/ ~Sees(missing, ",") THEN P ELSE Bump(missing), P.out, << >>, << >>)

ParseLocalNames(P) == ParseDefaulted(ParseAttribute(P, "regular"))

ParseLocalFunction(P) ==
  LET f == ParseFunctionBody(Expect(Bump(P), "name")) IN Push(f, LocalFunction(Lexeme(Bump(P)), f.out))

PushLocals(P, ns, as) ==
  IF ns = << >> THEN P
  ELSE IF Len(ns) = 1 /\ Len(P.out) <= 1 THEN Push(P, Local(ns[1], as[1], P.out))
  ELSE Push(P, LocalList(ns, as, P.out))

ParseLocalValues(P) == PushLocals(ParseValues(P), P.out.ns, P.out.attributes)

ParseLocal(P) ==
  IF Sees(Bump(P), "function") THEN ParseLocalFunction(Bump(P))
  ELSE ParseLocalValues(ParseLocalNames(Bump(P)))

PushGlobals(P, ns, as) == Push(P, Global(ns, as, P.out))

ParseGlobalValues(P) == PushGlobals(ParseValues(P), P.out.ns, P.out.attributes)

(* From what follows a leading attribute on. *)
ParseGlobalNames(P) ==
  LET all == Bump(P) IN
  IF Sees(P, "*") THEN Push(IF Sees(all, "=") THEN Report(Bump(all)) ELSE all, GlobalAll(P.out))
  ELSE ParseGlobalValues(ParseDeclared(P, P.out, << >>, << >>))

ParseGlobal(P) ==
  IF Sees(Bump(P), "function") THEN ParseFunctionStatement(Bump(P), TRUE)
  ELSE ParseGlobalNames(ParseAttribute(Bump(P), "regular"))

IsTarget(e) == e.k \in {"name", "index"}

(* A further target starts with a name where the first one did. *)
ParseTargets(P, named, targets) ==
  LET start == Bump(P)
      next == IF ~named THEN ParseExpression(start, 0)
              ELSE IF Sees(start, "name") THEN ParsePostfix(Yield(Bump(start), Name(Lexeme(start)))) ELSE GiveUp(start) IN
  IF ~Sees(P, ",") THEN Yield(P, targets)
  ELSE IF next.fail THEN next
  ELSE IF ~IsTarget(next.out) THEN GiveUp(next)
  ELSE ParseTargets(next, named, Append(targets, next.out))

(* From what follows the first target on. *)
ParseAssignmentTo(P, target, named) ==
  LET value == ParseExpression(Bump(P), 0)
      targets == ParseTargets(P, named, <<target>>)
      values == ParseList(Expect(targets, "="), FALSE) IN
  IF Kind(P) \in DOMAIN OperatorOf THEN Push(value, Compound(OperatorOf[Kind(P)], target, value.out))
  ELSE IF ~values.fail /\ Len(targets.out) = 1 /\ Len(values.out) = 1
       THEN Push(values, Assign(target, values.out[1]))
  ELSE Push(values, AssignList(targets.out, values.out))

(***************************************************************************)
(* A statement that starts with a name.  A call before = or , is taken for *)
(* a target, which the code thinks impossible.                             *)
(***************************************************************************)
ParseAssignment(P) ==
  LET e == ParsePostfix(Yield(Bump(P), Name(Lexeme(P)))) IN
  IF e.out.k \in Calls /\ ~Sees(e, "=") /\ ~Sees(e, ",") THEN Push(e, CallStatement(e.out))
  ELSE IF ~IsTarget(e.out) THEN [e EXCEPT !.broken = TRUE, !.fail = TRUE]
  ELSE ParseAssignmentTo(e, e.out, TRUE)

ParseExpressionStatement(P) ==
  LET e == ParseExpression(P, 0)
      bad == ReportOrEof(e) IN
  IF e.fail THEN e
  ELSE IF Kind(e) \in {"=", ","} \cup DOMAIN OperatorOf
       THEN IF IsTarget(e.out) THEN ParseAssignmentTo(e, e.out, FALSE) ELSE GiveUp(e)
  ELSE IF e.out.k \in Calls THEN Push(e, CallStatement(e.out))
  ELSE IF Kind(bad) \in {"eof", ";"} THEN bad ELSE Bump(bad)

ParseSemicolon(P) ==
  Bump(IF P.profile = "Luau" /\ PreviousKind(P) \in {"none", ";"} THEN Report(P) ELSE P)

(* After return, break and continue a block has to end. *)
ParseBlockEnd(P, terminators) ==
  IF P.fail \/ Kind(P) \in terminators \cup {"eof", ";"} THEN P ELSE SkipTo(Report(P), terminators)

ParseLoopControl(P, terminators) ==
  LET said == IF P.loops = 0 THEN ReportOrEof(Bump(P)) ELSE Push(Bump(P), [k |-> Kind(P)]) IN
  ParseBlockEnd(IF Sees(said, ";") THEN Bump(said) ELSE said, terminators)

ParseReturn(P, terminators) ==
  LET start == Bump(P)
      list == ParseList(start, TRUE)
      said == IF Kind(start) \in {"eof", ";", "end", "else", "elseif", "until"} THEN Push(start, ReturnOf(<< >>))
              ELSE IF list.fail THEN Instead(list, << >>) ELSE Push(list, ReturnOf(list.out))
      past == IF Sees(said, ";") THEN Bump(said) ELSE said IN
  ParseBlockEnd(IF Sees(past, ";") /\ P.profile \notin TypedProfiles THEN Report(past) ELSE past, terminators)

ParseStatement(P, terminators) ==
  LET kind == Kind(P) IN
  CASE kind = ";"        -> ParseSemicolon(P)
    [] kind = "global"   -> IF P.profile = "Lua55" /\ KindAhead(P, 1) \notin {"function", "<", "*", "name"}
                            THEN ParseExpressionStatement(P) ELSE ParseGlobal(P)
    [] kind = "local"    -> ParseLocal(P)
    [] kind = "function" -> ParseFunctionStatement(P, FALSE)
    [] kind = "name"     -> ParseAssignment(P)
    [] kind = "if"       -> ParseIf(P)
    [] kind = "while"    -> ParseWhile(P)
    [] kind = "repeat"   -> ParseRepeat(P)
    [] kind = "do"       -> ParseDo(P)
    [] kind = "for"      -> ParseFor(P)
    [] kind = "::"       -> ParseLabel(P)
    [] kind = "goto"     -> ParseGoto(P)
    [] kind = "return"   -> ParseReturn(P, terminators)
    [] kind \in {"break", "continue"} -> ParseLoopControl(P, terminators)
    [] kind \in {"nil", "true", "false", "number", "string", "not", "-", "~", "#", "(", "|(", "{"} ->
         ParseExpressionStatement(P)
    [] OTHER             -> Bump(Report(P))

ReadStatements(P, terminators) ==
  IF P.broken \/ Kind(P) \in terminators \cup {"eof"} THEN P
  ELSE ParseStatements([ParseStatement(P, terminators) EXCEPT !.fail = FALSE], terminators)

Production(what, P, x) ==
  CASE what = "expression" -> ReadExpression(P, x)
    [] what = "postfix"    -> ReadPostfix(P)
    [] what = "function"   -> ReadFunctionBody(P)
    [] what = "arguments"  -> ReadArguments(P)
    [] what = "statements" -> ReadStatements(P, x)

(***************************************************************************)
(* The tree of a text, or why there is none.                               *)
(***************************************************************************)
Outcome(P) ==
  IF P.broken THEN [verdict |-> "failed", body |-> << >>]
  ELSE IF P.bad THEN [verdict |-> "rejected", body |-> << >>]
  ELSE [verdict |-> "accepted", body |-> P.body]

Parse(profile, text) ==
  IF \E j \in DOMAIN text : Unavailable(profile, text[j]) THEN [verdict |-> "rejected", body |-> << >>]
  ELSE Outcome(ParseStatements([profile |-> profile, text |-> text, at |-> 1, loops |-> 0, body |-> << >>,
                                out |-> << >>, fail |-> FALSE, bad |-> FALSE, broken |-> FALSE], {}))
=============================================================================
