----------------------------- MODULE Semantics -------------------------------
(***************************************************************************)
(* What a program means: an evaluator of syntax trees, written from the    *)
(* language contract (docs/language-contract.md) and the reference manuals *)
(* of the profiles, not from the compiler.                                 *)
(*                                                                         *)
(* A state S is a World with the cells of the variables, the closures made *)
(* so far, the list l just computed, and how control leaves a statement:   *)
(* flow is next, break, continue, goto (to label) or return (l).  stuck    *)
(* tells that a branch asked a question truth does not answer.  An         *)
(* environment has the variables in scope, innermost last, and the varargs *)
(* of the function.                                                        *)
(***************************************************************************)
EXTENDS Syntax, World, FiniteSetsExt

LexicalProfiles == {"Lua52", "Lua53", "Lua54", "Lua55"}
ClosingProfiles == {"Lua54", "Lua55"}

Variable(n, cell, close) == [n |-> n, cell |-> cell, close |-> close]

Declare(S, env, n, v, close) ==
  [S EXCEPT !.cells = Append(@, v), !.env = [env EXCEPT !.names = Append(@, Variable(n, Len(S.cells) + 1, close))]]

DeclareAll(S, env, ns, l) ==
  FoldLeft(LAMBDA T, j : Declare(T, T.env, ns[j], NthOf(l, j), FALSE), [S EXCEPT !.env = env], [j \in DOMAIN ns |-> j])

(* A declaration of globals hides the variables of their names. *)
Hide(S, env, ns) ==
  [S EXCEPT !.env = [env EXCEPT !.names = @ \o [j \in DOMAIN ns |-> Variable(ns[j], 0, FALSE)]]]

(* The innermost variable of a name: 0 if it is global. *)
CellOf(env, n) ==
  LET hits == {j \in DOMAIN env.names : env.names[j].n = n} IN
  IF hits = {} THEN 0 ELSE env.names[Max(hits)].cell

EnvironmentOf(S, env) == IF S.profile \in LexicalProfiles THEN S.cells[CellOf(env, "_ENV")] ELSE Environment

ReadName(S, env, n) ==
  IF CellOf(env, n) # 0 THEN [S EXCEPT !.v = S.cells[CellOf(env, n)]]
  ELSE Fetch(S, EnvironmentOf(S, env), Literal(n))

WriteName(S, env, n, v) ==
  IF CellOf(env, n) # 0 THEN [S EXCEPT !.cells[CellOf(env, n)] = v]
  ELSE Put(S, EnvironmentOf(S, env), Literal(n), v)

(* Which way a branch on v goes, where truth tells. *)
Decide(S, v) ==
  LET known == Answers(S, v) IN
  IF Cardinality(known) = 1 THEN [S EXCEPT !.b = Holds(v, CHOOSE b \in known : TRUE)]
  ELSE [S EXCEPT !.b = FALSE, !.stuck = TRUE]

NewClosure(S, env, f) ==
  [S EXCEPT !.closures = Append(@, [f |-> f, env |-> env]), !.v = ClosureValue(Len(S.closures) + 1)]

RECURSIVE Eval(_, _, _), EvalAll(_, _, _), ExecBlock(_, _, _), Exec(_, _, _)

-----------------------------------------------------------------------------
(***************************************************************************)
(* Expressions.                                                            *)
(***************************************************************************)
CallWith(S, f, args) ==
  LET c == S.closures[f.f]
      params == DeclareAll(S, [c.env EXCEPT !.dots = AfterFirst(args, Len(c.f.params))], c.f.params, args)
      t == MakeTable(params)
      named == Declare(PutList(t, t.v, 0, params.env.dots), params.env, c.f.vname, t.v, FALSE)
      start == IF c.f.vname = "" THEN params ELSE named
      done == ExecBlock(start, start.env, c.f.body) IN
  IF Has(f, "f") THEN [done EXCEPT !.l = IF done.flow = "return" THEN @ ELSE ListOf(<< >>),
                                     !.flow = "next", !.env = S.env]
  ELSE [Act(S, "call", <<f, args>>) EXCEPT !.l = ResultsOf(Len(S.log) + 1, 1)]

(* All results of a call or all varargs; of other expressions the value. *)
EvalMulti(S, env, e) ==
  LET o == IF e.k = "method" THEN Eval(S, env, e.o) ELSE Eval(S, env, e.f)
      f == IF e.k = "method" THEN Fetch(o, o.v, Literal(e.m)) ELSE o
      args == EvalAll(f, env, e.args)
      v == Eval(S, env, e) IN
  IF e.k = "vararg" THEN [S EXCEPT !.l = env.dots]
  ELSE IF e.k \in Calls
       THEN CallWith(args, f.v, IF e.k = "method" THEN Before(<<o.v>>, args.l) ELSE args.l)
  ELSE [v EXCEPT !.l = ListOf(<<v.v>>)]

(* The values of a list, the last one with all it has. *)
EvalAll(S, env, es) ==
  LET Next(T, e) == LET v == Eval(T, env, e) IN [v EXCEPT !.l = ListOf(Append(T.l.items, v.v))]
      fixed == FoldLeft(Next, [S EXCEPT !.l = ListOf(<< >>)], IF es = << >> THEN es ELSE Front(es))
      last == EvalMulti(fixed, env, Last(es)) IN
  IF es = << >> THEN fixed ELSE [last EXCEPT !.l = Before(fixed.l.items, @)]

EvalField(S, env, t, fields, j) ==
  LET f == fields[j]
      position == Cardinality({h \in 1 .. j : fields[h].k = "array"})
      key == IF f.k = "indexed" THEN Eval(S, env, f.i)
             ELSE [S EXCEPT !.v = Literal(IF f.k = "array" THEN ToString(position) ELSE f.name)]
      value == Eval(key, env, f.v)
      list == EvalMulti(S, env, f.v) IN
  IF f.k = "array" /\ j = Len(fields) /\ f.v.k \in Calls \cup {"vararg"} THEN PutList(list, t, position, list.l)
  ELSE Put(value, t, key.v, value.v)

EvalBinary(S, env, e) ==
  LET l == Eval(S, env, e.l)
      r == Eval(l, env, e.r)
      d == Decide(l, l.v)
      equal == Operate(r, "==", l.v, r.v) IN
  CASE e.op = "and" -> IF d.b THEN Eval(d, env, e.r) ELSE d
    [] e.op = "or"  -> IF d.b THEN d ELSE Eval(d, env, e.r)
    [] e.op = "~="  -> Apply(equal, "not", equal.v)
    [] e.op = ">"   -> Operate(r, "<", r.v, l.v)
    [] e.op = ">="  -> Operate(r, "<=", r.v, l.v)
    [] OTHER        -> Operate(r, e.op, l.v, r.v)

EvalParts(S, env, parts) ==
  LET Part(T, j) ==
        LET v == Eval(T, env, parts[j])
            f == Fetch(v, Environment, Literal("tostring"))
            c == CallWith(f, f.v, ListOf(<<v.v>>)) IN
        IF j % 2 = 1 THEN v ELSE [c EXCEPT !.v = NthOf(c.l, 1)]
      Join(T, j) == LET v == Part(T, j) IN Operate(v, "..", T.v, v.v) IN
  FoldLeft(Join, Part(S, 1), [j \in 1 .. Len(parts) - 1 |-> j + 1])

Eval(S, env, e) ==
  LET t == Eval(S, env, e.t)
      i == Eval(t, env, e.i)
      multi == EvalMulti(S, env, e)
      c == Eval(S, env, e.c)
      d == Decide(c, c.v)
      u == Eval(S, env, e.e)
      made == MakeTable(S) IN
  CASE e.k = "constant"     -> [S EXCEPT !.v = Literal(e.v)]
    [] e.k = "name"         -> ReadName(S, env, e.n)
    [] e.k = "group"        -> u
    [] e.k = "index"        -> Fetch(i, t.v, i.v)
    [] e.k \in Calls \cup {"vararg"} -> [multi EXCEPT !.v = NthOf(multi.l, 1)]
    [] e.k = "function"     -> NewClosure(S, env, e)
    [] e.k = "ifelse"       -> Eval(d, env, IF d.b THEN e.a ELSE e.b)
    [] e.k = "unary"        -> Apply(u, e.op, u.v)
    [] e.k = "binary"       -> EvalBinary(S, env, e)
    [] e.k = "interpolated" -> EvalParts(S, env, e.parts)
    [] e.k = "table"        ->
         [FoldLeft(LAMBDA T, j : EvalField(T, env, made.v, e.fields, j), made, [j \in DOMAIN e.fields |-> j])
            EXCEPT !.v = made.v]

-----------------------------------------------------------------------------
(***************************************************************************)
(* Blocks.  Whatever way a block is left, its variables to be closed are   *)
(* closed from the last to the first.                                      *)
(***************************************************************************)
CloseFrom(S, env, names) ==
  FoldRight(LAMBDA x, T : IF x.close THEN CloseValue(T, S.cells[x.cell]) ELSE T,
            SubSeq(env.names, names + 1, Len(env.names)), S)

(* The names a statement declares for the rest of its block. *)
Declares(s) ==
  CASE s.k \in {"local", "localfunction"}   -> <<s.n>>
    [] s.k \in {"locals", "global"}         -> s.ns
    [] s.k = "functionat" /\ s.global       -> <<s.path[1]>>
    [] OTHER                                -> << >>

RECURSIVE ExecFrom(_, _, _, _)

(* The statements from j on; a goto to a label of the block goes on there. *)
ExecFrom(S, outer, body, j) ==
  LET done == Exec(S, S.env, body[j])
      labels == {h \in DOMAIN body : body[h].k = "label" /\ body[h].n = done.label}
      at == Min(labels)
      kept == outer + FoldLeft(LAMBDA n, s : n + Len(Declares(s)), 0, SubSeq(body, 1, at - 1))
      back == [CloseFrom(done, done.env, kept) EXCEPT
                 !.env.names = SubSeq(@, 1, IF kept < Len(@) THEN kept ELSE Len(@)), !.flow = "next"] IN
  IF j > Len(body) \/ S.stuck THEN S
  ELSE IF done.flow = "next" THEN ExecFrom(done, outer, body, j + 1)
  ELSE IF done.flow = "goto" /\ labels # {} THEN ExecFrom(back, outer, body, at)
  ELSE done

(* The body without leaving its scope. *)
ExecOpen(S, env, body) == ExecFrom([S EXCEPT !.env = env], Len(env.names), body, 1)

ExecBlock(S, env, body) ==
  LET done == ExecOpen(S, env, body) IN [CloseFrom(done, done.env, Len(env.names)) EXCEPT !.env = env]

-----------------------------------------------------------------------------
(***************************************************************************)
(* Loops.                                                                  *)
(***************************************************************************)
RECURSIVE Loop(_, _, _), RepeatLoop(_, _, _), CountLoop(_, _, _, _, _, _), CallLoop(_, _, _, _, _, _)

(* After a round: go on, or leave with the flow of what comes after. *)
GoesOn(S) == S.flow \in {"next", "continue"} /\ ~S.stuck
Onward(S) == [S EXCEPT !.flow = "next"]
Left(S) == IF S.flow = "break" THEN Onward(S) ELSE S

Loop(S, env, s) ==
  LET c == Eval(S, env, s.c)
      d == Decide(c, c.v)
      round == ExecBlock(d, env, s.body) IN
  IF ~d.b \/ d.stuck THEN d
  ELSE IF GoesOn(round) THEN Loop(Onward(round), env, s) ELSE Left(round)

(* The condition sees the variables of the body. *)
RepeatLoop(S, env, s) ==
  LET body == ExecOpen(S, env, s.body)
      c == Eval(Onward(body), body.env, s.c)
      d == Decide(c, c.v)
      out == IF GoesOn(body) THEN d ELSE body
      closed == [CloseFrom(out, body.env, Len(env.names)) EXCEPT !.env = env] IN
  IF GoesOn(body) /\ ~d.b /\ ~d.stuck THEN RepeatLoop(closed, env, s) ELSE Left(closed)

CountLoop(S, env, s, i, limit, step) ==
  LET up == Operate(S, "<", Literal("0"), step)
      u == Decide(up, up.v)
      within == IF u.b THEN Operate(u, "<=", i, limit) ELSE Operate(u, "<=", limit, i)
      d == Decide(within, within.v)
      round == ExecBlock(Declare(d, env, s.n, i, FALSE),
                         [env EXCEPT !.names = Append(@, Variable(s.n, Len(d.cells) + 1, FALSE))], s.body)
      sum == Operate(Onward(round), "+", i, step)
      wrap == IF u.b THEN Operate(sum, "<", sum.v, i) ELSE Operate(sum, "<", i, sum.v)
      w == Decide(wrap, wrap.v) IN
  IF ~d.b \/ d.stuck THEN d
  ELSE IF ~GoesOn(round) THEN Left(round)
  ELSE IF w.b \/ w.stuck THEN w
  ELSE CountLoop(w, env, s, sum.v, limit, step)

NumericLoop(S, env, s) ==
  LET i == Eval(S, env, s.first)
      limit == Eval(i, env, s.limit)
      step == IF s.step = << >> THEN [limit EXCEPT !.v = Literal("1")] ELSE Eval(limit, env, s.step[1]) IN
  [CountLoop(step, env, s, AsNumber(i.v), AsNumber(limit.v), AsNumber(step.v)) EXCEPT !.env = env]

CallLoop(S, env, s, f, state, control) ==
  LET called == CallWith(S, f, ListOf(<<state, control>>))
      first == NthOf(called.l, 1)
      end == Operate(called, "==", first, NilValue)
      d == Decide(end, end.v)
      start == DeclareAll(d, env, s.ns, called.l)
      round == ExecBlock(start, start.env, s.body) IN
  IF d.b \/ d.stuck THEN d
  ELSE IF GoesOn(round) THEN CallLoop(Onward(round), env, s, f, state, first) ELSE Left(round)

GenericLoop(S, env, s) ==
  LET given == EvalAll(S, env, s.es)
      iter == Act(given, "iterate", FirstOf(given.l, 3))
      plain == S.profile \notin {"Blu", "Luau"}
      start == IF plain THEN given ELSE [iter EXCEPT !.l = ResultsOf(Len(iter.log), 1)]
      closing == S.profile \in ClosingProfiles
      marked == IF closing THEN MarkToClose(start, NthOf(start.l, 4)) ELSE start
      done == CallLoop(marked, env, s, NthOf(start.l, 1), NthOf(start.l, 2), NthOf(start.l, 3)) IN
  [(IF closing THEN CloseValue(done, NthOf(start.l, 4)) ELSE done) EXCEPT !.env = env]

-----------------------------------------------------------------------------
(***************************************************************************)
(* Statements.                                                             *)
(***************************************************************************)
RECURSIVE ExecClauses(_, _, _, _)

ExecClauses(S, env, s, j) ==
  LET c == Eval(S, env, s.clauses[j].c)
      d == Decide(c, c.v) IN
  IF S.stuck THEN S
  ELSE IF j > Len(s.clauses) THEN IF s.else = << >> THEN S ELSE ExecBlock(S, env, s.else[1])
  ELSE IF d.b THEN ExecBlock(d, env, s.clauses[j].body)
  ELSE ExecClauses(d, env, s, j + 1)

(* The table and the key of a target, in t and k. *)
Target(S, env, target) ==
  LET t == Eval(S, env, target.t)
      i == Eval(t, env, target.i) IN
  IF target.k = "name" THEN [S |-> S, n |-> target.n] ELSE [S |-> i, t |-> t.v, k |-> i.v]

Write(S, env, to, v) == IF Has(to, "n") THEN WriteName(S, env, to.n, v) ELSE Put(S, to.t, to.k, v)

DeclareMarked(S, ns, attributes, l) ==
  LET One(T, j) ==
        LET close == attributes[j] = "close"
            d == Declare(T, T.env, ns[j], NthOf(l, j), close) IN
        IF close THEN MarkToClose(d, NthOf(l, j)) ELSE d IN
  FoldLeft(One, S, [j \in DOMAIN ns |-> j])

(* The places from left to right, the values, the writes from the last on. *)
ExecAssigns(S, env, targets, es) ==
  LET One(T, t) == LET p == Target(T.S, env, t) IN [S |-> p.S, to |-> Append(T.to, p)]
      places == FoldLeft(One, [S |-> S, to |-> << >>], targets)
      values == EvalAll(places.S, env, es) IN
  FoldRight(LAMBDA j, T : Write(T, env, places.to[j], NthOf(values.l, j)), [j \in DOMAIN targets |-> j], values)

ExecCompound(S, env, s) ==
  LET to == Target(S, env, s.target)
      old == IF s.target.k = "name" THEN ReadName(S, env, s.target.n) ELSE Fetch(to.S, to.t, to.k)
      right == Eval(old, env, s.e)
      new == Operate(right, s.op, old.v, right.v) IN
  Write(new, env, to, new.v)

ExecFunctionAt(S, env, s) ==
  LET f == IF s.method THEN [s.f EXCEPT !.params = <<"self">> \o @] ELSE s.f
      Step(T, key) == Fetch(T, T.v, Literal(key))
      table == FoldLeft(Step, ReadName(S, env, s.path[1]), SubSeq(s.path, 2, Len(s.path) - 1))
      at == NewClosure(table, env, f)
      scope == IF s.global THEN Hide(S, env, <<s.path[1]>>) ELSE S
      plain == NewClosure(scope, scope.env, f) IN
  IF Len(s.path) > 1 THEN Put(at, table.v, Literal(Last(s.path)), at.v)
  ELSE WriteName(plain, scope.env, s.path[1], plain.v)

ExecGlobal(S, env, s) ==
  LET values == EvalAll(S, env, s.es)
      One(T, j) ==
        LET e == EnvironmentOf(T, env) IN
        IF S.profile = "Lua55" THEN Act(T, "declare", <<e, Literal(s.ns[j]), NthOf(values.l, j)>>)
        ELSE Put(T, e, Literal(s.ns[j]), NthOf(values.l, j)) IN
  Hide(IF s.es = << >> THEN S ELSE FoldLeft(One, values, [j \in DOMAIN s.ns |-> j]), env, s.ns)

(* The function is in scope in itself. *)
ExecLocalFunction(S, env, s) ==
  LET d == Declare(S, env, s.n, NilValue, FALSE)
      f == NewClosure(d, d.env, s.f) IN
  [f EXCEPT !.cells[Len(d.cells)] = f.v]

Exec(S, env, s) ==
  LET values == EvalAll(S, env, s.es) IN
  CASE s.k = "local"         -> DeclareMarked(values, <<s.n>>, <<s.attribute>>, values.l)
    [] s.k = "locals"        -> DeclareMarked(values, s.ns, s.attributes, values.l)
    [] s.k = "localfunction" -> ExecLocalFunction(S, env, s)
    [] s.k = "functionat"    -> ExecFunctionAt(S, env, s)
    [] s.k = "global"        -> ExecGlobal(S, env, s)
    [] s.k = "assign"        -> ExecAssigns(S, env, <<s.target>>, <<s.e>>)
    [] s.k = "assigns"       -> ExecAssigns(S, env, s.targets, s.es)
    [] s.k = "compound"      -> ExecCompound(S, env, s)
    [] s.k = "callstatement" -> Eval(S, env, s.e)
    [] s.k = "if"            -> ExecClauses(S, env, s, 1)
    [] s.k = "while"         -> Loop(S, env, s)
    [] s.k = "repeat"        -> RepeatLoop(S, env, s)
    [] s.k = "do"            -> ExecBlock(S, env, s.body)
    [] s.k = "numericfor"    -> NumericLoop(S, env, s)
    [] s.k = "genericfor"    -> GenericLoop(S, env, s)
    [] s.k \in {"break", "continue"} -> [S EXCEPT !.flow = s.k]
    [] s.k = "goto"          -> [S EXCEPT !.flow = "goto", !.label = s.n]
    [] s.k = "return"        -> [values EXCEPT !.flow = "return"]
    [] OTHER                 -> S

(* The run of a program that asks the questions truth answers. *)
Meaning(profile, program, truth) ==
  LET S == [log |-> << >>, truth |-> truth, v |-> NilValue, l |-> ListOf(<< >>), b |-> FALSE,
            profile |-> profile, cells |-> <<Environment>>, closures |-> << >>, env |-> << >>,
            flow |-> "next", label |-> "", stuck |-> FALSE]
      env == [names |-> <<Variable("_ENV", 1, FALSE)>>, dots |-> ResultsOf(0, 1)]
      done == ExecBlock(S, env, program) IN
  [log |-> done.log, stuck |-> done.stuck,
   result |-> IF done.flow = "return" THEN done.l ELSE ListOf(<< >>)]
=============================================================================
