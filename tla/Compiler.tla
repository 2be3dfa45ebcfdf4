------------------------------ MODULE Compiler -------------------------------
(***************************************************************************)
(* The compiler's lowering of a syntax tree to BluV1 code (blu-compiler,   *)
(* owned.rs).                                                              *)
(*                                                                         *)
(* A lowerer is a record L, and each operator maps it to the lowerer after *)
(* the step: code and regs are the code so far and the number of registers *)
(* taken, bindings the declarations in scope, outer those of the enclosing *)
(* function as this one sees them, ups the captured ones; breaks and       *)
(* continues hold, loop by loop, the jumps to patch; plan, labels and      *)
(* gotos serve goto, at is the path of the statement being lowered; protos *)
(* holds the finished functions.  out and outs are the registers of the    *)
(* expression or the list just lowered, found tells whether a name was     *)
(* resolved.  The first error stays in error, and makes the rest void.     *)
(*                                                                         *)
(* Registers are never reused: a temporary keeps its own.  The limits on   *)
(* registers, bindings and the like, the constant pool, source maps and    *)
(* debug names are left out; constants stand in the instructions.          *)
(***************************************************************************)
EXTENDS Syntax, Validation, TLC, FiniteSetsExt

Nil == "nil"

(* Instructions of Bytecode with the operands execution needs as well. *)
JumpIfFalsy(s) == JumpIf(s, 0) @@ [when |-> FALSE]
JumpIfTruthy(s) == JumpIf(s, 0) @@ [when |-> TRUE]
Not(d, s) == Move(d, s) @@ [by |-> "not"]
UpvalueGet(d, u) == GetUpvalue(d) @@ [u |-> u]
UpvalueSet(u, s) == SetUpvalue(s) @@ [u |-> u]
GlobalSet(v, s) == StoreGlobal(s) @@ [v |-> v]

(***************************************************************************)
(* Code, registers and errors.                                             *)
(***************************************************************************)
Emit(L, i) == [L EXCEPT !.code = Append(@, i)]

HereOf(L) == Len(L.code) + 1

AllocateRegister(L) == [L EXCEPT !.out = L.regs, !.regs = @ + 1]

AllocateRegisters(L, n) ==
  [L EXCEPT !.out = L.regs, !.outs = [j \in 1 .. n |-> L.regs + j - 1], !.regs = @ + n]

(* A value in a register of its own: Instruction(d) computes it. *)
Produce(L, Instruction(_)) == LET a == AllocateRegister(L) IN Emit(a, Instruction(a.out))

Fail(L, what) == [L EXCEPT !.error = IF @ = "" THEN what ELSE @]

Check(L, ok, what) == IF ok THEN L ELSE Fail(L, what)

PatchBranch(L, at, to) == [L EXCEPT !.code[at].to = to]

PatchBranches(L, ats, to) ==
  FoldLeft(LAMBDA M, at : PatchBranch(M, at, to), L, ats)

BranchesHere(L, ats) == PatchBranches(L, ats, HereOf(L))

LowerConstant(L, v) == Produce(L, LAMBDA d : LoadConstant(d, v))

LowerGlobalName(L, n) == Produce(L, LAMBDA d : LoadGlobal(d, n))

SnapshotRegister(L, s) == Produce(L, LAMBDA d : Move(d, s))

(* Copies of the sources in registers that follow each other. *)
CopyRegisters(L, sources) ==
  LET a == AllocateRegisters(L, Len(sources)) IN
  [a EXCEPT !.code = @ \o [j \in DOMAIN sources |-> Move(a.outs[j], sources[j])],
            !.out = IF sources = << >> THEN 0 ELSE @]

(* A call of one of the virtual machine's own functions. *)
CallInternal(L, n, sources) ==
  LET f == LowerGlobalName(L, n)
      a == CopyRegisters(f, sources) IN
  Produce(a, LAMBDA d : Call(f.out, a.out, Len(sources), "none", "fixed", d, 1))

-----------------------------------------------------------------------------
(***************************************************************************)
(* Declarations.  kind is local, env for the environment of the chunk,     *)
(* forstate for the hidden variables of a generic for, and global,         *)
(* wildcard and default for what only says which globals are declared.     *)
(***************************************************************************)
Binding(kind, n, register, constant, close) ==
  [kind |-> kind, name |-> n, register |-> register, constant |-> constant, close |-> close]

OuterBinding(kind, n, constant, from, at) ==
  [kind |-> kind, name |-> n, constant |-> constant, from |-> from, at |-> at]

IsGlobal(b) == b.kind \in {"global", "wildcard", "default"}

PushBinding(L, b) == [L EXCEPT !.bindings = Append(@, b)]

(* The last binding of a sequence which P holds of, 0 if there is none. *)
LastWith(bs, P(_)) ==
  LET hits == {j \in DOMAIN bs : P(bs[j])} IN IF hits = {} THEN 0 ELSE Max(hits)

Names(b, n) == b.kind \in {"local", "env"} /\ b.name = n

DeclaresGlobal(b, n) == b.kind = "global" /\ b.name = n

(* A declaration of the global hides a local of the name. *)
ResolveLocal(L, n) ==
  LET at == LastWith(L.bindings, LAMBDA b : Names(b, n) \/ DeclaresGlobal(b, n))
      found == at # 0 /\ ~IsGlobal(L.bindings[at]) IN
  [L EXCEPT !.found = found, !.out = IF found THEN L.bindings[at].register ELSE @]

StatusIn(bs, n) ==
  LET Explicit(j) == \E h \in j + 1 .. Len(bs) : bs[h].kind = "global"
      Declares(j) == \/ DeclaresGlobal(bs[j], n)
                     \/ bs[j].kind = "wildcard"
                     \/ bs[j].kind = "default" /\ ~Explicit(j) IN
  IF \E j \in DOMAIN bs : Declares(j) THEN "declared"
  ELSE IF Explicit(0) THEN "undeclared" ELSE "unknown"

GlobalStatus(L, n) ==
  LET inner == StatusIn(L.bindings, n) IN IF inner = "unknown" THEN StatusIn(L.outer, n) ELSE inner

PushUpvalue(L, b) == [L EXCEPT !.ups = Append(@, b), !.found = TRUE, !.out = Len(L.ups) + 1]

ResolveUpvalue(L, n) ==
  LET captured == LastWith(L.ups, LAMBDA b : Names(b, n))
      outer == LastWith(L.outer, LAMBDA b : Names(b, n) \/ DeclaresGlobal(b, n)) IN
  IF captured # 0 THEN [L EXCEPT !.found = TRUE, !.out = captured]
  ELSE IF outer # 0 /\ ~IsGlobal(L.outer[outer]) THEN PushUpvalue(L, L.outer[outer])
  ELSE [L EXCEPT !.found = FALSE]

(* The register of the environment in scope, in the profiles that have one. *)
ResolveEnvironment(L) ==
  LET Env(b) == Names(b, "_ENV")
      own == LastWith(L.bindings, Env)
      captured == LastWith(L.ups, Env)
      outer == LastWith(L.outer, Env)
      Get(M, u) == Produce([M EXCEPT !.env = TRUE], LAMBDA d : UpvalueGet(d, u)) IN
  IF L.profile \notin Lexical \/ own + captured + outer = 0 THEN [L EXCEPT !.found = FALSE]
  ELSE [(IF own # 0 THEN [L EXCEPT !.out = L.bindings[own].register, !.env = TRUE]
         ELSE IF captured # 0 THEN Get(L, captured)
         ELSE Get(PushUpvalue(L, L.outer[outer]), Len(L.ups) + 1)) EXCEPT !.found = TRUE]

GlobalIsConstant(L, n) ==
  LET Declares(b) == b.kind = "wildcard" \/ DeclaresGlobal(b, n)
      own == LastWith(L.bindings, Declares)
      captured == LastWith(L.ups, Declares)
      outer == LastWith(L.outer, Declares) IN
  IF own # 0 THEN L.bindings[own].constant
  ELSE IF captured # 0 THEN L.ups[captured].constant
  ELSE outer # 0 /\ L.outer[outer].constant

(* Mutant: variables of enclosing functions are not looked at. *)
EnsureWritableHere(L, n) ==
  LET own == LastWith(L.bindings, LAMBDA b : Names(b, n) \/ DeclaresGlobal(b, n)) IN
  Check(L, ~(IF own # 0 THEN L.bindings[own].constant ELSE GlobalIsConstant(L, n)), "const")

EnsureWritable(L, n) ==
  LET own == LastWith(L.bindings, LAMBDA b : Names(b, n) \/ DeclaresGlobal(b, n))
      captured == LastWith(L.ups, LAMBDA b : Names(b, n))
      outer == LastWith(L.outer, LAMBDA b : Names(b, n)) IN
  Check(L, ~(IF own # 0 THEN L.bindings[own].constant
             ELSE IF captured # 0 THEN L.ups[captured].constant
             ELSE IF outer # 0 THEN L.outer[outer].constant
             ELSE GlobalIsConstant(L, n)), "const")

-----------------------------------------------------------------------------
(***************************************************************************)
(* Expressions.                                                            *)
(***************************************************************************)
(* What is lowered by way of itself; Lower finds the body of each, below. *)
RECURSIVE Lower(_, _, _)

LowerExpression(L, e) == Lower("expression", L, e)
LowerCall(L, e, out, o, n) == Lower("call", L, <<e, out, o, n>>)
LowerAllCallResults(L, e) == LowerCall(L, e, "all", 0, 0)
LowerFunction(L, f, method) == Lower("function", L, <<f, method>>)
LowerBlock(L, body, block) == Lower("block", L, <<body, block>>)
LowerStatement(L, s) == Lower("statement", L, s)

(* The expressions one after the other; outs are their registers. *)
LowerEach(L, es) ==
  FoldLeft(LAMBDA M, e : LET a == LowerExpression(M, e) IN [a EXCEPT !.outs = Append(M.outs, a.out)],
           [L EXCEPT !.outs = << >>], es)

LowerNameAt(L, n, local, up, env) ==
  LET key == LowerConstant(env, n) IN
  IF local.found THEN local
  ELSE IF up.found THEN Produce(up, LAMBDA d : UpvalueGet(d, up.out))
  ELSE IF GlobalStatus(L, n) = "undeclared" THEN Fail(L, "undeclared")
  ELSE IF env.found THEN Produce(key, LAMBDA d : GetTable(d, env.out, key.out))
  ELSE LowerGlobalName(L, n)

LowerName(L, n) == LowerNameAt(L, n, ResolveLocal(L, n), ResolveUpvalue(L, n), ResolveEnvironment(L))

IsMulti(e) == e.k \in Calls \cup {"vararg"}

(* What the last argument adds to the fixed ones. *)
ExtraOf(args) ==
  IF args = << >> THEN "none"
  ELSE IF Last(args).k = "vararg" THEN "varargs"
  ELSE IF Last(args).k \in Calls THEN "dynamic" ELSE "none"

(* The function of a call in out, and a method's receiver in outs. *)
LowerCallee(L, e) ==
  IF e.k = "call" THEN [LowerExpression(L, e.f) EXCEPT !.outs = << >>]
  ELSE LET receiver == LowerExpression(L, e.o)
           key == LowerConstant(receiver, e.m) IN
       [Produce(key, LAMBDA d : GetTable(d, receiver.out, key.out)) EXCEPT !.outs = <<receiver.out>>]

(***************************************************************************)
(* A call: the callee, the arguments, their copies in a row, then the call *)
(* the last argument expands to, right before the instruction that takes   *)
(* its results.  n is how many results are wanted where out is "fixed".    *)
(***************************************************************************)
EmitCall(L, e, out, o, n) ==
  LET extra == ExtraOf(e.args)
      f == LowerCallee(Check(L, extra = "varargs" => L.vararg, "vararg"), e)
      fixed == LowerEach(f, IF extra = "none" THEN e.args ELSE Front(e.args))
      sources == f.outs \o fixed.outs
      copy == CopyRegisters(fixed, sources)
      tail == IF extra = "dynamic" THEN LowerAllCallResults(copy, Last(e.args)) ELSE copy
      into == IF out = "fixed" THEN AllocateRegisters(tail, n) ELSE tail IN
  Emit(into, Call(f.out, copy.out, Len(sources), extra, out,
                  IF out = "fixed" THEN into.outs[1] ELSE o, n))

(* Returns n values from the register out on, and all results of the call. *)
LowerReturnCall(L, e, n) ==
  IF n = 0 THEN LowerCall(L, e, "return", 0, 0) ELSE LowerCall(L, e, "prefix", L.out, n)

(* The first n results of a call or of the varargs, in outs. *)
LowerResults(L, e, n) ==
  IF e.k \in Calls THEN LowerCall(L, e, "fixed", 0, n)
  ELSE LET a == AllocateRegisters(Check(L, L.vararg, "vararg"), n) IN Emit(a, Varargs(a.outs[1], n))

(***************************************************************************)
(* A list of values for want places: the last one is asked for all that    *)
(* are missing, where it can supply them.  With snapshot each value is     *)
(* copied as soon as it is there, and those without a place are dropped.   *)
(***************************************************************************)
LowerValues(L, es, want, snapshot) ==
  LET Value(M, j) ==
        LET need == want - j + 1
            a == IF j = Len(es) /\ need > 1 /\ IsMulti(es[j]) THEN LowerResults(M, es[j], need)
                 ELSE LET e == LowerExpression(M, es[j]) IN [e EXCEPT !.outs = <<e.out>>]
            c == IF snapshot THEN CopyRegisters(a, SubSeq(a.outs, 1, Min({need, Len(a.outs)}))) ELSE a
        IN [c EXCEPT !.outs = M.outs \o c.outs]
      Pad(M, j) == LET a == LowerConstant(M, Nil) IN [a EXCEPT !.outs = Append(M.outs, a.out)]
      given == FoldLeft(Value, [L EXCEPT !.outs = << >>], [j \in DOMAIN es |-> j]) IN
  FoldLeft(Pad, given, [j \in 1 .. want - Len(given.outs) |-> j])

RECURSIVE IsLiteral(_), LiteralOf(_)

IsLiteral(e) == e.k = "constant" \/ (e.k = "unary" /\ e.op = "-" /\ IsLiteral(e.e))

Numbers == {"0", "1", "2", "-0", "-1", "-2"}

(* Negation applies to numbers; "panic" where the source expects one. *)
LiteralOf(e) ==
  IF e.k = "constant" THEN e.v
  ELSE IF LiteralOf(e.e) \in Numbers THEN "-" \o LiteralOf(e.e) ELSE "panic"

(* A constructor of literals only: one register for keys, one for values. *)
LowerLiteralFields(L, table, fields, KeyOf(_)) ==
  LET key == AllocateRegister(L)
      value == AllocateRegister(key)
      Field(j) == <<LoadConstant(key.out, KeyOf(j)), LoadConstant(value.out, LiteralOf(fields[j].v)),
                    SetTable(table, key.out, value.out)>> IN
  Check([value EXCEPT !.code = @ \o Spread([j \in DOMAIN fields |-> Field(j)], << >>)],
        \A j \in DOMAIN fields : LiteralOf(fields[j].v) # "panic", "panic")

(* One field; the last one of the list may expand. *)
LowerField(L, table, fields, j) ==
  LET f == fields[j]
      position == Cardinality({h \in 1 .. j : fields[h].k = "array"})
      last == j = Len(fields) /\ f.k = "array"
      key == CASE f.k = "array"   -> LowerConstant(L, ToString(position))
               [] f.k = "named"   -> LowerConstant(L, f.name)
               [] f.k = "indexed" -> LowerExpression(L, f.i)
      value == LowerExpression(key, f.v) IN
  IF last /\ f.v.k \in Calls THEN LowerCall(L, f.v, "list", table, position)
  ELSE IF last /\ f.v.k = "vararg"
       THEN Emit(Check(L, L.vararg, "vararg"), SetListVarargs(table, position))
  ELSE Emit(value, SetTable(table, key.out, value.out))

LowerTableFields(L, table, fields) ==
  LET All(kind) == Len(fields) > 1 /\ \A j \in DOMAIN fields : fields[j].k = kind /\ IsLiteral(fields[j].v)
      distinct == \A i, j \in DOMAIN fields : fields[i].name = fields[j].name => i = j
      ordered == IF L.profile = "Blu" /\ distinct THEN Reverse(fields) ELSE fields IN
  IF All("array") THEN LowerLiteralFields(L, table, fields, LAMBDA j : ToString(j))
  ELSE IF All("named") THEN LowerLiteralFields(L, table, ordered, LAMBDA j : ordered[j].name)
  ELSE FoldLeft(LAMBDA M, j : LowerField(M, table, fields, j), L, [j \in DOMAIN fields |-> j])

LowerTable(L, e) ==
  LET t == Produce(L, NewTable) IN [LowerTableFields(t, t.out, e.fields) EXCEPT !.out = t.out]

(* Moves one of two values to the register d, on either side of a branch. *)
LowerIfExpression(L, e) ==
  LET test == LowerExpression(L, e.c)
      c == AllocateRegister(test)
      a == LowerExpression(Emit(c, JumpIfFalsy(test.out)), e.a)
      end == Emit(Emit(a, Move(c.out, a.out)), Jump(0))
      b == LowerExpression(PatchBranch(end, HereOf(c), HereOf(end)), e.b)
      done == Emit(b, Move(c.out, b.out)) IN
  [PatchBranch(done, HereOf(end) - 1, HereOf(done)) EXCEPT !.out = c.out]

LowerAndOr(L, e) ==
  LET l == LowerExpression(L, e.l)
      d == Produce(l, LAMBDA r : Move(r, l.out))
      test == Emit(d, IF e.op = "and" THEN JumpIfFalsy(l.out) ELSE JumpIfTruthy(l.out))
      r == LowerExpression(test, e.r)
      done == Emit(r, Move(d.out, r.out)) IN
  [PatchBranch(done, HereOf(d), HereOf(done)) EXCEPT !.out = d.out]

OperatorClass(op) ==
  CASE op \in {"+", "-", "*", "/", "//", "%", "^"} -> "Arithmetic"
    [] op \in {"&", "|", "~", "<<", ">>"}          -> "Bitwise"
    [] op = ".."                                   -> "Concatenate"

Operation(op, d, s, k) == Binary(OperatorClass(op), d, s, k) @@ [by |-> op]

LowerBinary(L, e) ==
  LET l == LowerExpression(L, e.l)
      r == LowerExpression(l, e.r)
      Comparison(kind, s, k) == Produce(r, LAMBDA d : Compare(kind, d, s, k))
      equal == Comparison("==", l.out, r.out) IN
  CASE e.op = "=="           -> equal
    [] e.op = "~="           -> Produce(equal, LAMBDA d : Not(d, equal.out))
    [] e.op \in {"<", "<="}  -> Comparison(e.op, l.out, r.out)
    [] e.op = ">"            -> Comparison("<", r.out, l.out)
    [] e.op = ">="           -> Comparison("<=", r.out, l.out)
    [] OTHER                 -> Produce(r, LAMBDA d : Operation(e.op, d, l.out, r.out))

LowerUnary(L, e) ==
  LET s == LowerExpression(L, e.e) IN
  Produce(s, LAMBDA d : CASE e.op = "not" -> Not(d, s.out)
                          [] e.op = "#"   -> Unary("Length", d, s.out)
                          [] OTHER        -> Unary("Negate", d, s.out) @@ [by |-> e.op])

(* Text and expressions take turns; an expression goes through tostring. *)
LowerInterpolated(L, e) ==
  LET Part(M, j) ==
        LET v == LowerExpression(M, e.parts[j])
            f == LowerGlobalName(v, "tostring") IN
        IF j % 2 = 1 THEN v
        ELSE Produce(f, LAMBDA d : Call(f.out, v.out, 1, "none", "fixed", d, 1))
      Join(M, j) ==
        LET v == Part(M, j) IN Produce(v, LAMBDA d : Operation("..", d, M.out, v.out)) IN
  FoldLeft(Join, Part(L, 1), [j \in 1 .. Len(e.parts) - 1 |-> j + 1])

LowerIndex(L, e) ==
  LET t == LowerExpression(L, e.t)
      i == LowerExpression(t, e.i) IN
  Produce(i, LAMBDA d : GetTable(d, t.out, i.out))

EmitExpression(L, e) ==
  CASE e.k = "constant"     -> LowerConstant(L, e.v)
    [] e.k = "vararg"       -> LowerResults(L, e, 1)
    [] e.k = "name"         -> LowerName(L, e.n)
    [] e.k = "group"        -> LowerExpression(L, e.e)
    [] e.k = "index"        -> LowerIndex(L, e)
    [] e.k \in Calls        -> LowerCall(L, e, "fixed", 0, 1)
    [] e.k = "function"     -> LowerFunction(L, e, FALSE)
    [] e.k = "ifelse"       -> LowerIfExpression(L, e)
    [] e.k = "unary"        -> LowerUnary(L, e)
    [] e.k = "binary"       -> IF e.op \in {"and", "or"} THEN LowerAndOr(L, e) ELSE LowerBinary(L, e)
    [] e.k = "table"        -> LowerTable(L, e)
    [] e.k = "interpolated" -> LowerInterpolated(L, e)

-----------------------------------------------------------------------------
(***************************************************************************)
(* Leaving scopes.  A scope is the number of bindings outside it.  What is *)
(* to be closed is closed in reverse order by calls, then captured         *)
(* variables get a life of their own.                                      *)
(***************************************************************************)
EmitCloseBindings(L, scope) ==
  FoldRight(LAMBDA b, M : IF b.close THEN CallInternal(M, "close", <<b.register>>) ELSE M,
            SubSeq(L.bindings, scope + 1, Len(L.bindings)), L)

EmitCloseUpvalues(L, scope) ==
  LET registers == {L.bindings[j].register :
                      j \in {j \in scope + 1 .. Len(L.bindings) : ~IsGlobal(L.bindings[j])}} IN
  IF registers = {} THEN L ELSE Emit(L, Close(Min(registers)))

LeaveScope(L, scope) == EmitCloseUpvalues(EmitCloseBindings(L, scope), scope)

CloseScope(L, scope) == [L EXCEPT !.bindings = SubSeq(@, 1, scope)]

LocalDepth(L) == Len(SelectSeq(L.bindings, LAMBDA b : ~IsGlobal(b)))

(* The scope with the given number of locals. *)
ScopeOfDepth(L, depth) ==
  LET Locals(j) == Cardinality({h \in 1 .. j : ~IsGlobal(L.bindings[h])}) IN
  IF depth = 0
  THEN Min({j - 1 : j \in {j \in DOMAIN L.bindings : ~IsGlobal(L.bindings[j])}} \cup {Len(L.bindings)})
  ELSE Min({j \in DOMAIN L.bindings : Locals(j) = depth} \cup {Len(L.bindings)})

LowerBlockOf(L, s, j) == LowerBlock(L, Blocks(s)[j], L.block \o <<L.at, j>>)

(***************************************************************************)
(* if, while, repeat.  ended tells that control does not reach the end of  *)
(* what was lowered.                                                       *)
(***************************************************************************)
LowerScoped(L, s, j) ==
  LET scope == Len(L.bindings)
      b == LowerBlockOf(L, s, j) IN
  CloseScope(IF b.ended THEN b ELSE LeaveScope(b, scope), scope)

(* The jump over what follows the clause that failed at test, in jumps. *)
EndClause(all, L, test) ==
  LET e == IF L.ended THEN L ELSE Emit(L, Jump(0)) IN
  [low |-> PatchBranch(e, test, HereOf(e)), ended |-> all.ended /\ L.ended,
   jumps |-> IF L.ended THEN all.jumps ELSE Append(all.jumps, HereOf(L))]

LowerClause(all, s, j) ==
  LET c == LowerExpression(all.low, s.clauses[j].c) IN
  EndClause(all, LowerScoped(Emit(c, JumpIfFalsy(c.out)), s, j), HereOf(c))

LowerElse(all, s) ==
  LET else == IF s.else = << >> THEN [all.low EXCEPT !.ended = FALSE]
              ELSE LowerScoped(all.low, s, Len(s.clauses) + 1) IN
  [BranchesHere(else, all.jumps) EXCEPT !.ended = all.ended /\ @]

LowerIf(L, s) ==
  LowerElse(FoldLeft(LAMBDA all, j : LowerClause(all, s, j),
                     [low |-> L, ended |-> TRUE, jumps |-> << >>], [j \in DOMAIN s.clauses |-> j]), s)

(* A loop's body, with the jumps of its breaks and continues. *)
LowerLoopBody(L, s) ==
  LET b == LowerBlockOf([L EXCEPT !.breaks = Append(@, << >>), !.continues = Append(@, << >>)], s, 1) IN
  [low |-> [b EXCEPT !.breaks = Front(@), !.continues = Front(@)],
   breaks |-> Last(b.breaks), continues |-> Last(b.continues),
   again |-> ~b.ended \/ Last(b.continues) # << >>]

ContinueTarget(body) == BranchesHere(body.low, body.continues)

BreakTarget(L, breaks, scope) ==
  IF breaks = << >> THEN L ELSE LeaveScope(BranchesHere(L, breaks), scope)

(* Mutant: the scope of the body is not left when the loop goes round. *)
LowerWhileOpen(L, s) ==
  LET c == LowerExpression(L, s.c)
      scope == Len(L.bindings)
      body == LowerLoopBody(Emit(c, JumpIfFalsy(c.out)), s)
      next == ContinueTarget(body)
      back == IF body.again THEN Emit(next, Jump(HereOf(L))) ELSE next
      end == CloseScope(BreakTarget(back, body.breaks, scope), scope) IN
  [BranchesHere(end, <<HereOf(c)>>) EXCEPT !.ended = FALSE]

LowerWhile(L, s) ==
  LET c == LowerExpression(L, s.c)
      scope == Len(L.bindings)
      body == LowerLoopBody(Emit(c, JumpIfFalsy(c.out)), s)
      next == ContinueTarget(body)
      back == IF body.again THEN Emit(LeaveScope(next, scope), Jump(HereOf(L))) ELSE next
      end == CloseScope(BreakTarget(back, body.breaks, scope), scope) IN
  [BranchesHere(end, <<HereOf(c)>>) EXCEPT !.ended = FALSE]

(* The condition is in the scope of the body. *)
LowerRepeat(L, s) ==
  LET scope == Len(L.bindings)
      body == LowerLoopBody(L, s)
      next == ContinueTarget(body)
      c == LowerExpression(next, s.c)
      back == Emit(LeaveScope(Emit(c, JumpIfTruthy(c.out)), scope), Jump(HereOf(L)))
      exit == BranchesHere(back, Append(body.breaks, HereOf(c)))
      end == IF body.again THEN LeaveScope(exit, scope) ELSE BreakTarget(next, body.breaks, scope) IN
  [CloseScope(end, scope) EXCEPT !.ended = FALSE]

-----------------------------------------------------------------------------
(***************************************************************************)
(* for.                                                                    *)
(***************************************************************************)
RECURSIVE StepSign(_)

(* "none" where the step is not a literal. *)
StepSign(e) ==
  CASE e.k = "constant" /\ e.v \in Numbers -> IF e.v = "0" THEN "zero" ELSE "positive"
    [] e.k = "group"                        -> StepSign(e.e)
    [] e.k = "unary" /\ e.op = "-"          ->
         (CASE StepSign(e.e) = "positive" -> "negative"
            [] StepSign(e.e) = "negative" -> "positive"
            [] OTHER                      -> StepSign(e.e))
    [] OTHER                                -> "none"

(* One of the three controls, made a number by the virtual machine. *)
LowerControl(L, s, role) ==
  LET f == LowerGlobalName(L, "coerce")
      a == AllocateRegister(f)
      named == Emit(LowerConstant(a, role), Move(a.out, s)) IN
  Produce(named, LAMBDA d : Call(f.out, a.out, 2, "none", "fixed", d, 1))

LowerControlOf(L, e, role) == LET v == LowerExpression(L, e) IN LowerControl(v, v.out, role)

(* index, limit and step in outs, and ahead of the loop. *)
CoerceControls(L, index, limit) ==
  LET coerced == CallInternal(L, "coerce_index", <<index, L.outs[1]>>) IN
  [coerced EXCEPT !.outs = <<coerced.out, limit, L.outs[1]>>]

CheckStep(L, s) ==
  LET checked == IF s.step # << >> /\ L.profile \in {"Blu", "Lua54", "Lua55"}
                 THEN CallInternal(L, "validate_step", <<L.out>>) ELSE L IN
  [checked EXCEPT !.outs = <<L.out>>]

LowerStep(L, s) ==
  CheckStep(IF s.step = << >> THEN LowerConstant(L, "1") ELSE LowerControlOf(L, s.step[1], "step"), s)

LowerForLimit(L, s) ==
  LET limit == LowerControlOf(L, s.limit, "limit")
      index == SnapshotRegister(limit, L.out) IN
  CoerceControls(LowerStep(index, s), index.out, limit.out)

LowerForSetup(L, s) == LowerForLimit(LowerControlOf(L, s.first, "initial"), s)

(* The sign of the step decides the comparison, at run time if need be. *)
LowerForCondition(L, index, limit, step, sign) ==
  LET c == AllocateRegister(L)
      Up == Compare("<=", c.out, index, limit)
      Down == Compare("<=", c.out, limit, index)
      zero == LowerConstant(c, "0")
      positive == Produce(zero, LAMBDA d : Compare("<", d, zero.out, step))
      up == Emit(Emit(Emit(positive, JumpIfFalsy(positive.out)), Up), Jump(0))
      down == Emit(PatchBranch(up, HereOf(positive), HereOf(up)), Down)
      low == CASE sign = "positive" -> Emit(c, Up)
               [] sign = "none"     -> PatchBranch(down, HereOf(up) - 1, HereOf(down))
               [] OTHER             -> Emit(c, Down) IN
  [low EXCEPT !.out = c.out]

(***************************************************************************)
(* To the next index: round again unless the addition wrapped around, and, *)
(* where the sign is known, unless the limit is passed.  outs holds the    *)
(* jump that leaves the loop.                                              *)
(***************************************************************************)
LowerForNext(L, index, limit, step, sign, condition, start) ==
  LET ascending == sign = "positive"
      previous == SnapshotRegister(L, index)
      sum == Emit(previous, Operation("+", index, index, step))
      Less(M, a, b) == Produce(M, LAMBDA d : Compare("<", d, a, b))
      wrapped == IF ascending THEN Less(sum, index, previous.out) ELSE Less(sum, previous.out, index)
      limited == Emit(Emit(wrapped, JumpIfTruthy(wrapped.out)),
                      IF ascending THEN Compare("<=", condition, index, limit)
                                   ELSE Compare("<=", condition, limit, index))
      known == Emit(Emit(Emit(limited, JumpIfFalsy(condition)), Jump(start)), Jump(0))
      zero == LowerConstant(sum, "0")
      positive == Less(zero, zero.out, step)
      up == Less(positive, index, previous.out)
      down == Less(up, previous.out, index)
      rising == Emit(Emit(Emit(down, JumpIfFalsy(positive.out)), JumpIfTruthy(up.out)), Jump(start))
      falling == Emit(Emit(Emit(PatchBranch(rising, HereOf(down), HereOf(rising)), JumpIfTruthy(down.out)),
                           Jump(start)), Jump(0)) IN
  IF sign # "none"
  THEN [PatchBranches(known, <<HereOf(wrapped), HereOf(limited)>>, HereOf(known) - 1)
          EXCEPT !.outs = <<HereOf(known) - 1>>]
  ELSE [PatchBranches(falling, <<HereOf(down) + 1, HereOf(rising)>>, HereOf(falling) - 1)
          EXCEPT !.outs = <<HereOf(falling) - 1>>]

(* From the end of the body on: the next index, or nothing. *)
LowerForBack(body, control, condition, sign, scope, start) ==
  LET next == ContinueTarget(body) IN
  IF body.again
  THEN LowerForNext(EmitCloseUpvalues(LeaveScope(next, scope + 1), scope),
                    control[1], control[2], control[3], sign, condition, start)
  ELSE [next EXCEPT !.outs = << >>]

LowerForExit(L, breaks, scope, test) ==
  LET end == CloseScope(BreakTarget(L, breaks, scope + 1), scope + 1) IN
  [CloseScope(EmitCloseUpvalues(BranchesHere(end, Append(L.outs, test)), scope), scope) EXCEPT !.ended = FALSE]

(* The loop from its condition, in out, on. *)
LowerForBody(L, s, sign, start) ==
  LET scope == Len(L.bindings)
      v == SnapshotRegister(Emit(L, JumpIfFalsy(L.out)), L.outs[1])
      body == LowerLoopBody(PushBinding(v, Binding("local", s.n, v.out, L.profile = "Lua55", FALSE)), s) IN
  LowerForExit(LowerForBack(body, L.outs, L.out, sign, scope, start), body.breaks, scope, HereOf(L))

LowerForLoop(L, s, sign) ==
  LowerForBody(LowerForCondition(L, L.outs[1], L.outs[2], L.outs[3], sign), s, sign, HereOf(L))

LowerNumericFor(L, s) ==
  LowerForLoop(LowerForSetup(L, s), s, IF s.step = << >> THEN "positive" ELSE StepSign(s.step[1]))

PrepareIterator(L) ==
  LET prepare == LowerGlobalName(L, "prepare_iter")
      copies == CopyRegisters(prepare, L.outs)
      prepared == AllocateRegisters(copies, 3) IN
  IF L.profile \in {"Blu", "Luau"}
  THEN Emit(prepared, Call(prepare.out, copies.out, 3, "none", "fixed", prepared.out, 3))
  ELSE L

(* The values a generic for starts from, in outs. *)
LowerIterator(L, s) ==
  PrepareIterator(LowerValues(L, s.es, IF L.profile \in {"Lua54", "Lua55"} THEN 4 ELSE 3, TRUE))

(* In Lua 5.4 and 5.5 the fourth value is closed when the loop is left. *)
MarkIterator(L) ==
  LET states == [j \in 1 .. 4 |-> Binding("forstate", "", L.outs[j], FALSE, j = 4)] IN
  IF L.profile \notin {"Lua54", "Lua55"} THEN L
  ELSE [CallInternal([L EXCEPT !.bindings = @ \o states], "mark_close", <<L.outs[4]>>) EXCEPT !.outs = L.outs]

(* The next values in outs, and in out whether there are none. *)
LowerIteration(L, s) ==
  LET control == L.outs
      args == CopyRegisters(L, <<control[2], control[3]>>)
      into == AllocateRegisters(args, Len(s.ns))
      call == Emit(Emit(into, Call(control[1], args.out, 2, "none", "fixed", into.out, Len(s.ns))),
                   Move(control[3], into.out))
      nil == LowerConstant(call, Nil) IN
  Produce(nil, LAMBDA d : Compare("==", d, into.out, nil.out))

LowerIterationBack(body, inner, scope, start) ==
  LET next == ContinueTarget(body)
      back == IF body.again THEN Emit(EmitCloseUpvalues(LeaveScope(next, inner), scope), Jump(start)) ELSE next IN
  CloseScope(BreakTarget(back, body.breaks, inner), inner)

LowerIterationBody(L, s, scope, start) ==
  LET names == [j \in DOMAIN s.ns |->
                  Binding("local", s.ns[j], L.outs[j], L.profile = "Lua55" /\ j = 1, FALSE)]
      body == LowerLoopBody([Emit(L, JumpIfTruthy(L.out)) EXCEPT !.bindings = @ \o names], s)
      end == LowerIterationBack(body, Len(L.bindings) + Len(s.ns), scope, start)
      exit == BranchesHere(end, <<HereOf(L)>>) IN
  [CloseScope(EmitCloseBindings(EmitCloseUpvalues(exit, scope), scope), scope) EXCEPT !.ended = FALSE]

LowerIterations(L, s, scope) == LowerIterationBody(LowerIteration(L, s), s, scope, HereOf(L))

LowerGenericFor(L, s) == LowerIterations(MarkIterator(LowerIterator(L, s)), s, Len(L.bindings))

-----------------------------------------------------------------------------
(***************************************************************************)
(* goto.  A plan of the labels and gotos of a function, made ahead, tells  *)
(* how many locals and global declarations are in scope at each.  A label  *)
(* at the end of its block counts as outside the locals of the block.      *)
(***************************************************************************)
Declared(s) == CASE s.k = "local" -> 1 [] s.k = "locals" -> Len(s.ns) [] OTHER -> 0

LoopLocals(s) == CASE s.k = "numericfor" -> 1 [] s.k = "genericfor" -> Len(s.ns) [] OTHER -> 0

OnlyLabelsAfter(body, j) == \A h \in j + 1 .. Len(body) : body[h].k = "label"

RECURSIVE PlanLabels(_, _, _, _, _)

PlanLabels(body, block, scope, globals, terminal) ==
  LET Before(j, Count(_)) == FoldLeft(LAMBDA n, s : n + Count(s), 0, SubSeq(body, 1, j - 1))
      ScopeAt(j) == scope + Before(j, Declared)
      GlobalsAt(j) == globals + Before(j, LAMBDA s : IF s.k \in {"global", "globalall"} THEN 1 ELSE 0)
      LastLocal(j) == LastWith(SubSeq(body, 1, j - 1), LAMBDA s : Declared(s) > 0)
      AtEnd(j) == terminal /\ OnlyLabelsAfter(body, j)
      Entry(j) == [k |-> body[j].k, name |-> body[j].n, block |-> block, at |-> j,
                   scope |-> IF AtEnd(j) THEN scope ELSE ScopeAt(j),
                   local |-> IF AtEnd(j) THEN 0 ELSE LastLocal(j), globals |-> GlobalsAt(j)]
      Inner(j) == LET bs == Blocks(body[j]) IN
                  Spread([h \in DOMAIN bs |->
                            PlanLabels(bs[h], block \o <<j, h>>, ScopeAt(j) + LoopLocals(body[j]),
                                       GlobalsAt(j), body[j].k # "repeat")], << >>) IN
  Spread([j \in DOMAIN body |-> IF body[j].k \in {"label", "goto"} THEN <<Entry(j)>> ELSE Inner(j)],
         << >>)

Planned(L, k, n) == SelectSeq(L.plan, LAMBDA p : p.k = k /\ p.name = n)

(* A label of the active block is the target of one of the gotos. *)
LabelHasGoto(L, gotos, n) ==
  /\ \E p \in Range(Planned(L, "label", n)) : p.block = L.block
  /\ \E g \in Range(gotos) : g.name = n /\ IsPrefix(L.block, g.block)

VisibleFrom(entries, n, block) == SelectSeq(entries, LAMBDA p : p.name = n /\ IsPrefix(p.block, block))

(* A label is no scope: the locals stay live where it is. *)
LowerLabel(L, n) ==
  [Check(L, VisibleFrom(L.labels, n, L.block) = << >>, "label")
     EXCEPT !.labels = Append(@, [name |-> n, target |-> HereOf(L), scope |-> LocalDepth(L), block |-> L.block])]

(***************************************************************************)
(* A goto may not enter the scope of a local or a global declaration, and  *)
(* leaves the scopes between it and the block of the label.                *)
(***************************************************************************)
LowerGoto(L, n) ==
  LET depth == LocalDepth(L)
      self == CHOOSE p \in Range(Planned(L, "goto", n)) : p.block = L.block /\ p.at = L.at
      named == Planned(L, "label", n)
      visible == VisibleFrom(named, n, L.block)
      target == Head(visible)
      place == IF target.block = L.block THEN L.at ELSE L.block[Len(target.block) + 1]
      enters == target.local > place \/ target.globals > self.globals \/ target.scope > depth
      left == IF target.scope < depth /\ target.block # L.block
              THEN LeaveScope(L, ScopeOfDepth(L, target.scope)) ELSE L
      low == IF visible # << >> THEN Check(left, ~enters, "goto") ELSE Check(L, named = << >>, "goto") IN
  [Emit(low, Jump(0)) EXCEPT
     !.gotos = Append(@, [name |-> n, at |-> HereOf(low), scope |-> depth, block |-> L.block,
                          globals |-> self.globals])]

ResolveGotos(L) ==
  LET Resolve(M, g) ==
        LET labels == VisibleFrom(L.labels, g.name, g.block)
            label == Head(labels)
            plan == Head(SelectSeq(Planned(L, "label", g.name), LAMBDA p : p.block = label.block)) IN
        IF labels = << >> THEN Fail(M, "goto")
        ELSE PatchBranch(Check(M, plan.globals <= g.globals /\ plan.scope <= g.scope, "goto"),
                         g.at, label.target) IN
  FoldLeft(Resolve, L, L.gotos)

-----------------------------------------------------------------------------
(***************************************************************************)
(* Declarations and assignments.                                           *)
(***************************************************************************)
SnapshotIfBound(L, s) ==
  IF \E b \in Range(L.bindings) : b.register = s THEN SnapshotRegister(L, s) ELSE [L EXCEPT !.out = s]

MarkCloseValue(L, s, n) ==
  LET f == LowerGlobalName(L, "mark_close")
      a == SnapshotRegister(f, s)
      named == LowerConstant(a, n) IN
  Produce(named, LAMBDA d : Call(f.out, a.out, 2, "none", "fixed", d, 1))

DeclareLocal(L, n, s, attribute) ==
  LET close == attribute = "close"
      b == PushBinding(L, Binding("local", n, s, attribute \in {"const", "close"}, close)) IN
  IF close THEN MarkCloseValue(b, s, n) ELSE b

LowerLocal(L, s) ==
  LET v == LowerExpression(L, s.es[1])
      low == IF s.es = << >> THEN LowerConstant(L, Nil) ELSE SnapshotIfBound(v, v.out) IN
  DeclareLocal(low, s.n, low.out, s.attribute)

BindAll(L, rs) ==
  LET Bound(M, r) == LET b == SnapshotIfBound(M, r) IN [b EXCEPT !.outs = Append(M.outs, b.out)] IN
  FoldLeft(Bound, [L EXCEPT !.outs = << >>], rs)

DeclareLocals(L, s) ==
  FoldLeft(LAMBDA M, j : DeclareLocal(M, s.ns[j], L.outs[j], s.attributes[j]), L, [j \in DOMAIN s.ns |-> j])

LowerLocalValues(L, s) == DeclareLocals(BindAll(L, SubSeq(L.outs, 1, Len(s.ns))), s)

LowerLocalList(L, s) ==
  LET closing == Cardinality({j \in DOMAIN s.ns : s.attributes[j] = "close"}) IN
  LowerLocalValues(LowerValues(Check(L, L.profile \in {"Lua54", "Lua55"} => closing <= 1, "close"),
                               s.es, Len(s.ns), FALSE), s)

(* The function can call itself by its name. *)
LowerLocalFunction(L, s) ==
  LET nil == LowerConstant(L, Nil)
      f == LowerFunction(PushBinding(nil, Binding("local", s.n, nil.out, FALSE, FALSE)), s.f, FALSE) IN
  Emit(f, Move(nil.out, f.out))

NoRegister == -1

(* Writes a global: a field of the environment, where there is one. *)
StoreName(L, n, s) ==
  LET env == ResolveEnvironment(L)
      key == LowerConstant(env, n) IN
  IF env.found THEN Emit(key, SetTable(env.out, key.out, s)) ELSE Emit(L, GlobalSet(n, s))

(* In Lua 5.5 a declaration fails if the global is there already. *)
DeclareGlobal(L, n, s, env) ==
  LET key == LowerConstant(env, n) IN
  IF env.found /\ L.profile = "Lua55"
  THEN CallInternal(key, "declare_global", <<env.out, key.out, s>>) ELSE StoreName(L, n, s)

LowerGlobalNames(L, s) ==
  LET declared == [L EXCEPT !.bindings = @ \o
                     [j \in DOMAIN s.ns |-> Binding("global", s.ns[j], NoRegister, s.attributes[j] = "const", FALSE)]] IN
  IF s.es = << >> THEN declared
  ELSE FoldLeft(LAMBDA M, j : DeclareGlobal(M, s.ns[j], L.outs[j], ResolveEnvironment(M)),
                declared, [j \in DOMAIN s.ns |-> j])

LowerGlobal(L, s) ==
  LET ok == Check(Check(L, "close" \notin Range(s.attributes), "close"), "_ENV" \notin Range(s.ns), "undeclared") IN
  LowerGlobalNames(LowerValues(ok, s.es, Len(s.ns), FALSE), s)

LowerGlobalAll(L, s) ==
  PushBinding(L, Binding("wildcard", "*", NoRegister, s.attribute = "const", FALSE))

(***************************************************************************)
(* Where a value is to go.                                                 *)
(***************************************************************************)
Place(kind, r, key) == [kind |-> kind, r |-> r, key |-> key]

(* The place a name stands for; with a key, the environment's is loaded. *)
PlaceAt(L, n, local, up, env) ==
  IF local.found THEN [low |-> local, place |-> Place("local", local.out, "")]
  ELSE IF up.found THEN [low |-> up, place |-> Place("upvalue", up.out, "")]
  ELSE IF env.found THEN [low |-> env, place |-> Place("env", env.out, n)]
  ELSE [low |-> L, place |-> Place("global", 0, n)]

PlaceOfName(L, n) == PlaceAt(L, n, ResolveLocal(L, n), ResolveUpvalue(L, n), ResolveEnvironment(L))

WithKey(p) ==
  LET key == LowerConstant(p.low, p.place.key) IN
  IF p.place.kind = "env" THEN [low |-> key, place |-> Place("table", p.place.r, key.out)] ELSE p

StoreTo(L, p, s) ==
  CASE p.kind = "local"   -> Emit(L, Move(p.r, s))
    [] p.kind = "upvalue" -> Emit(L, UpvalueSet(p.r, s))
    [] p.kind = "table"   -> Emit(L, SetTable(p.r, p.key, s))
    [] p.kind = "global"  -> Emit(L, GlobalSet(p.key, s))

Undeclared(p, n) == p.place.kind \in {"env", "global"} /\ GlobalStatus(p.low, n) = "undeclared"

StoreAt(p, s) == StoreTo(p.low, p.place, s)

(* The place is found before the value, the key of a global after it. *)
LowerAssignName(p, s) ==
  LET v == LowerExpression(Check(p.low, ~Undeclared(p, s.target.n), "undeclared"), s.e) IN
  StoreAt(WithKey([low |-> v, place |-> p.place]), v.out)

LowerAssign(L, s) ==
  LET n == s.target.n
      t == LowerExpression(L, s.target.t)
      i == LowerExpression(t, s.target.i)
      w == LowerExpression(i, s.e) IN
  IF s.target.k = "name" THEN LowerAssignName(PlaceOfName(EnsureWritable(L, n), n), s)
  ELSE Emit(w, SetTable(t.out, i.out, w.out))

(* Table and key are snapshots, so that nothing later moves the place. *)
PlaceOfTarget(L, target) ==
  LET t == LowerExpression(L, target.t)
      table == SnapshotRegister(t, t.out)
      i == LowerExpression(table, target.i)
      key == IF target.i.k = "constant" THEN i ELSE SnapshotRegister(i, i.out) IN
  IF target.k = "name" THEN WithKey(PlaceOfName(EnsureWritable(L, target.n), target.n))
  ELSE [low |-> key, place |-> Place("table", table.out, key.out)]

(* From the value the place has now, in out, on. *)
LowerCompoundTo(L, place, s) ==
  LET right == LowerExpression(L, s.e)
      value == Produce(right, LAMBDA d : Operation(s.op, d, L.out, right.out)) IN
  StoreTo(value, place, value.out)

LowerCompoundName(L, s) ==
  LET p == WithKey(PlaceOfName(L, s.target.n)) IN
  LowerCompoundTo(SnapshotRegister(p.low, L.out), p.place, s)

LowerCompoundIndex(p, s) ==
  LET got == Produce(p.low, LAMBDA d : GetTable(d, p.place.r, p.place.key)) IN
  LowerCompoundTo(SnapshotRegister(got, got.out), p.place, s)

LowerCompound(L, s) ==
  IF s.target.k = "name" THEN LowerCompoundName(LowerName(EnsureWritable(L, s.target.n), s.target.n), s)
  ELSE LowerCompoundIndex(PlaceOfTarget(L, s.target), s)

AddPlace(to, p) == [low |-> p.low, places |-> Append(to.places, p.place)]

StoreAll(L, places) ==
  FoldRight(LAMBDA j, M : StoreTo(M, places[j], L.outs[j]), [j \in DOMAIN places |-> j], L)

LowerAssigned(to, s) == StoreAll(LowerValues(to.low, s.es, Len(s.targets), TRUE), to.places)

(* Every place, then every value, then the writes from the last on. *)
LowerAssignList(L, s) ==
  LowerAssigned(FoldLeft(LAMBDA to, t : AddPlace(to, PlaceOfTarget(to.low, t)),
                         [low |-> L, places |-> << >>], s.targets), s)

LowerFunctionName(L, s) ==
  LET root == s.path[1]
      Stored(p) == StoreAt(WithKey([p EXCEPT !.low = Check(@, ~Undeclared(p, root), "undeclared")]), L.out) IN
  IF s.global THEN StoreName(L, root, L.out) ELSE Stored(PlaceOfName(L, root))

(* A function for a field of the table in out. *)
LowerFunctionField(L, s) ==
  LET Step(M, key) == LET i == LowerConstant(M, key) IN Produce(i, LAMBDA d : GetTable(d, M.out, i.out))
      table == FoldLeft(Step, L, SubSeq(s.path, 2, Len(s.path) - 1))
      g == LowerFunction(table, s.f, s.method)
      last == LowerConstant(g, Last(s.path)) IN
  Emit(last, SetTable(table.out, last.out, g.out))

LowerFunctionStatement(L, s) ==
  LET root == s.path[1]
      declared == IF s.global THEN PushBinding(L, Binding("global", root, NoRegister, FALSE, FALSE)) ELSE L IN
  IF Len(s.path) > 1 THEN LowerFunctionField(LowerName(L, root), s)
  ELSE LowerFunctionName(LowerFunction(EnsureWritable(declared, root), s.f, s.method), s)

-----------------------------------------------------------------------------
(***************************************************************************)
(* return.  The values are copied where a close handler could change them, *)
(* or where they do not follow each other.                                 *)
(***************************************************************************)
Contiguous(rs) == \A j \in 2 .. Len(rs) : rs[j] = rs[j - 1] + 1

InARow(L, copy) ==
  IF L.outs # << >> /\ (copy \/ ~Contiguous(L.outs)) THEN CopyRegisters(L, L.outs)
  ELSE [L EXCEPT !.out = IF L.outs = << >> THEN 0 ELSE Head(L.outs)]

LowerReturn(L, s) ==
  LET closing == \E b \in Range(L.bindings) : b.close
      extra == ExtraOf(s.es)
      each == LowerEach(L, IF extra = "none" THEN s.es ELSE Front(s.es))
      first == InARow(each, closing /\ extra # "dynamic")
      n == Len(each.outs)
      call == LowerAllCallResults(first, Last(s.es))
      low == CASE extra = "none"    -> Emit(EmitCloseBindings(first, 0), Return("none", first.out, n))
               [] extra = "varargs" -> Emit(EmitCloseBindings(Check(first, L.vararg, "vararg"), 0),
                                            Return("varargs", first.out, n))
               [] closing           -> Emit(call, Return("dynamic", first.out, n))
               [] OTHER             -> LowerReturnCall(first, Last(s.es), n) IN
  [low EXCEPT !.ended = TRUE]

(* A jump out of or to the end of the body: nothing is closed on the way. *)
LowerBreak(L) ==
  [Emit(Check(L, L.breaks # << >>, "break"), Jump(0)) EXCEPT
     !.breaks = IF @ = << >> THEN @ ELSE Append(Front(@), Append(Last(@), HereOf(L))), !.ended = TRUE]

LowerContinue(L) ==
  [Emit(Check(L, L.continues # << >>, "continue"), Jump(0)) EXCEPT
     !.continues = IF @ = << >> THEN @ ELSE Append(Front(@), Append(Last(@), HereOf(L))), !.ended = TRUE]

EmitStatement(L, s) ==
  CASE s.k = "local"         -> LowerLocal(L, s)
    [] s.k = "locals"        -> LowerLocalList(L, s)
    [] s.k = "localfunction" -> LowerLocalFunction(L, s)
    [] s.k = "functionat"    -> LowerFunctionStatement(L, s)
    [] s.k = "global"        -> LowerGlobal(L, s)
    [] s.k = "globalall"     -> LowerGlobalAll(L, s)
    [] s.k = "assign"        -> LowerAssign(L, s)
    [] s.k = "assigns"       -> LowerAssignList(L, s)
    [] s.k = "compound"      -> LowerCompound(L, s)
    [] s.k = "callstatement" -> LowerExpression(L, s.e)
    [] s.k = "if"            -> LowerIf(L, s)
    [] s.k = "while"         -> LowerWhile(L, s)
    [] s.k = "repeat"        -> LowerRepeat(L, s)
    [] s.k = "do"            -> LowerScoped(L, s, 1)
    [] s.k = "numericfor"    -> LowerNumericFor(L, s)
    [] s.k = "genericfor"    -> LowerGenericFor(L, s)
    [] s.k = "break"         -> LowerBreak(L)
    [] s.k = "continue"      -> LowerContinue(L)
    [] s.k = "label"         -> LowerLabel(L, s.n)
    [] s.k = "goto"          -> [LowerGoto(L, s.n) EXCEPT !.ended = TRUE]
    [] s.k = "return"        -> LowerReturn(L, s)

RECURSIVE LowerFrom(_, _, _)

(***************************************************************************)
(* The statements from j on.  What control does not reach is skipped, up   *)
(* to a label some goto names; code is live again there if a goto to this  *)
(* or to a later label of the block has been emitted.                      *)
(***************************************************************************)
LowerFrom(L, body, j) ==
  LET labels == {h \in j .. Len(body) : body[h].k = "label"}
      wanted == {h \in labels : LabelHasGoto(L, Planned(L, "goto", body[h].n), body[h].n)}
      live == \E h \in labels : LabelHasGoto(L, L.gotos, body[h].n)
      at == IF L.ended THEN Min(wanted) ELSE j
      low == LowerStatement([L EXCEPT !.at = at, !.ended = FALSE], body[at]) IN
  IF j > Len(body) \/ L.error # "" \/ (L.ended /\ wanted = {}) THEN L
  ELSE LowerFrom([low EXCEPT !.ended = IF L.ended THEN ~live ELSE @], body, at + 1)

EmitBlock(L, body, block) ==
  [LowerFrom([L EXCEPT !.block = block, !.ended = FALSE], body, 1) EXCEPT !.block = L.block, !.at = L.at]

-----------------------------------------------------------------------------
(***************************************************************************)
(* Functions.                                                              *)
(***************************************************************************)

(***************************************************************************)
(* A lowerer at the start of a function.  That of the chunk, which nothing *)
(* encloses, has the environment and what is declared by default.          *)
(***************************************************************************)
NewLowerer(profile, outer, protos, f, method) ==
  LET empty == [profile |-> profile, outer |-> outer, ups |-> << >>, vararg |-> f.vararg,
                params |-> Len(f.params) + IF method THEN 1 ELSE 0, bindings |-> << >>,
                breaks |-> << >>, continues |-> << >>, labels |-> << >>, gotos |-> << >>,
                plan |-> << >>, block |-> << >>, at |-> 0, regs |-> 0, code |-> << >>,
                protos |-> protos, children |-> << >>, env |-> FALSE, implicit |-> FALSE,
                error |-> "", out |-> 0, outs |-> << >>, found |-> FALSE, ended |-> FALSE]
      Parameter(L, n) == LET a == AllocateRegister(L) IN PushBinding(a, Binding("local", n, a.out, FALSE, FALSE))
      self == IF method THEN Parameter(empty, "self") ELSE empty
      e == Produce(self, NewTable)
      chunk == IF outer # << >> \/ profile \notin Lexical THEN self
               ELSE PushBinding([e EXCEPT !.implicit = TRUE], Binding("env", "_ENV", e.out, FALSE, FALSE))
      default == IF outer # << >> \/ profile \notin {"Blu", "Lua55"} THEN chunk
                 ELSE PushBinding(chunk, Binding("default", "", NoRegister, FALSE, FALSE))
      params == FoldLeft(Parameter, default, f.params)
      t == Produce(params, NewTable) IN
  IF f.vname = "" THEN params
  ELSE PushBinding(Emit(t, SetListVarargs(t.out, 0)), Binding("local", f.vname, t.out, TRUE, FALSE))

(* The environment becomes the last of the captured variables. *)
ReorderUpvalues(L) ==
  LET Env(b) == b.name = "_ENV"
      order == SelectSeq([j \in DOMAIN L.ups |-> j], LAMBDA j : ~Env(L.ups[j]))
               \o SelectSeq([j \in DOMAIN L.ups |-> j], LAMBDA j : Env(L.ups[j]))
      New(old) == CHOOSE j \in DOMAIN order : order[j] = old
      Instruction(i) == IF i.op \in {"GetUpvalue", "SetUpvalue"} THEN [i EXCEPT !.u = New(@)] ELSE i
      Capture(u) == IF u.from = "upvalue" THEN [u EXCEPT !.at = New(@)] ELSE u
      Child(j) == LET p == L.protos[j] IN
                  IF j \in Range(L.children) THEN [p EXCEPT !.ups = [h \in DOMAIN @ |-> Capture(@[h])]] ELSE p IN
  IF Len(L.ups) < 2 \/ L.outer = << >> THEN L
  ELSE [L EXCEPT !.ups = [j \in DOMAIN order |-> L.ups[order[j]]],
                 !.code = [j \in DOMAIN @ |-> Instruction(@[j])],
                 !.protos = [j \in DOMAIN @ |-> Child(j)]]

(* The features of the code.  Only jumps past the first count as forward. *)
RequiredFeatures(L, p) ==
  LET FeaturesAt(k) ==
        LET i == L.code[k] IN
        IF i.op = "Jump" THEN (IF i.to > 1 THEN {"ForwardBranches"} ELSE {})
                              \cup (IF i.to <= k THEN {"BackwardBranches"} ELSE {})
        ELSE IF i.op = "Return" /\ i.extra = "dynamic" THEN {}
        ELSE FeaturesOf(p, k) IN
  {"Baseline"} \cup UNION {FeaturesAt(k) : k \in DOMAIN L.code}
  \cup (IF L.env THEN {"Globals"} ELSE {})
  \cup (IF L.implicit THEN {"ImplicitEnvironment"} ELSE {})

(* Mutant: a return is added to a body that ended with one. *)
EndBodyAgain(L) == Emit(EmitCloseBindings(L, 0), Return("none", 0, 0))

EndBody(L) == IF L.ended THEN L ELSE Emit(EmitCloseBindings(L, 0), Return("none", 0, 0))

AddPrototype(L) ==
  LET family == [registers |-> L.regs, params |-> L.params, features |-> {}, profile |-> L.profile]
      proto == [code |-> L.code, ups |-> [j \in DOMAIN L.ups |-> [from |-> L.ups[j].from, at |-> L.ups[j].at]],
                vararg |-> L.vararg, implicit |-> L.implicit, family |-> family] IN
  [L EXCEPT !.protos = Append(@, [proto EXCEPT !.family.features = RequiredFeatures(L, proto)])]

(* The prototype of a function, added to protos. *)
RunLowerer(L, body) ==
  LET low == LowerBlock([L EXCEPT !.plan = PlanLabels(body, << >>, LocalDepth(L), 0, TRUE)], body, << >>) IN
  AddPrototype(ReorderUpvalues(ResolveGotos(EndBody(low))))

EnsureUpvalue(L, b) ==
  IF \E u \in Range(L.ups) : u.name = b.name /\ u.from = b.from /\ u.at = b.at THEN L ELSE PushUpvalue(L, b)

(* By its text, its parameters left aside. *)
FunctionMentionsBinding(f, b) == b.name \notin Range(f.params) /\ b.name \in Range(TextOf(f))

EmitClosure(L, child, n) ==
  LET caps == {u.at : u \in {u \in Range(child.protos[n].ups) : u.from = "register"}} IN
  IF child.error # "" THEN Fail(L, child.error)
  ELSE Produce([L EXCEPT !.protos = child.protos, !.children = Append(@, n)], LAMBDA d : Closure(d, n, caps))

(* The declarations of a function as the ones in it see them. *)
OuterBindings(L) ==
  SelectSeq(L.outer, IsGlobal)
  \o [j \in DOMAIN L.ups |-> OuterBinding(L.ups[j].kind, L.ups[j].name, L.ups[j].constant, "upvalue", j)]
  \o [j \in DOMAIN L.bindings |->
        LET b == L.bindings[j] IN
        OuterBinding(b.kind, b.name, b.constant, IF IsGlobal(b) THEN "none" ELSE "register", b.register)]

EmitChild(L, child) == EmitClosure(L, child, Len(child.protos))

EmitNested(L, f, method) ==
  EmitChild(L, RunLowerer(NewLowerer(L.profile, OuterBindings(L), L.protos, f, method), f.body))

(***************************************************************************)
(* A nested function.  What it mentions of the variables further out is    *)
(* captured here first, so that it can be captured from here.              *)
(***************************************************************************)
EmitFunction(L, f, method) ==
  LET demanded == SelectSeq(L.outer, LAMBDA b : ~IsGlobal(b) /\ FunctionMentionsBinding(f, b)) IN
  EmitNested(FoldLeft(EnsureUpvalue, L, demanded), f, method)

Lower(what, L, x) ==
  CASE what = "expression" -> EmitExpression(L, x)
    [] what = "call"       -> EmitCall(L, x[1], x[2], x[3], x[4])
    [] what = "function"   -> EmitFunction(L, x[1], x[2])
    [] what = "block"      -> EmitBlock(L, x[1], x[2])
    [] what = "statement"  -> EmitStatement(L, x)

UnitOf(L) == [error |-> L.error, protos |-> IF L.error = "" THEN L.protos ELSE << >>]

(* A program: its prototypes, the chunk's last, or an error. *)
Compile(profile, body) ==
  UnitOf(RunLowerer(NewLowerer(profile, << >>, << >>, Function(<< >>, TRUE, body), FALSE), body))
=============================================================================
