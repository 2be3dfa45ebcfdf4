-------------------------------- MODULE World --------------------------------
(***************************************************************************)
(* What a program deals with while it runs, the same for its text and for  *)
(* its code: values, lists of values, and the effects the host sees.       *)
(*                                                                         *)
(* The functions, tables and operators of the host are opaque.  Using one  *)
(* is an effect: an entry of the log.  Its result is known only as result  *)
(* r of entry e, and whether it counts as true is an open question until a *)
(* branch asks; truth holds the answers.  What has no effect on anything,  *)
(* such as arithmetic on numbers, yields a term.  A world is a record with *)
(* a log, the truth so far and v, the value just computed.                 *)
(***************************************************************************)
EXTENDS Integers, Sequences, SequencesExt, TLC

Literal(v) == [c |-> v]
NilValue == Literal("nil")
Truth(b) == Literal(IF b THEN "true" ELSE "false")
Environment == [env |-> "global"]
ClosureValue(n) == [f |-> n]
Result(e, r) == [e |-> e, r |-> r]
TableValue(e) == [t |-> e]
Term(op, args) == [op |-> op, args |-> args]

Has(v, field) == field \in DOMAIN v

(* The numbers of the programs. *)
Range9 == -9 .. 9
NumberNames == {ToString(n) : n \in Range9}
IsNumber(v) == Has(v, "c") /\ v.c \in NumberNames
NumberOf(v) == CHOOSE n \in Range9 : ToString(n) = v.c

NumericOps == {"number", "+", "-", "*", "/", "//", "%", "^"}
Numeric(v) == IsNumber(v) \/ (Has(v, "op") /\ v.op \in NumericOps)

-----------------------------------------------------------------------------
(***************************************************************************)
(* Lists: some values, and then perhaps all results of an entry from the   *)
(* r-th on, however many they are.                                         *)
(***************************************************************************)
ListOf(values) == [items |-> values, rest |-> << >>]
ResultsOf(e, r) == [items |-> << >>, rest |-> <<Result(e, r)>>]

NthOf(l, n) ==
  IF n <= Len(l.items) THEN l.items[n]
  ELSE IF l.rest = << >> THEN NilValue
  ELSE Result(l.rest[1].e, l.rest[1].r + n - Len(l.items) - 1)

AfterFirst(l, n) ==
  IF n <= Len(l.items) THEN [l EXCEPT !.items = SubSeq(@, n + 1, Len(@))]
  ELSE [items |-> << >>,
        rest |-> [j \in DOMAIN l.rest |-> Result(l.rest[j].e, l.rest[j].r + n - Len(l.items))]]

Before(values, l) == [l EXCEPT !.items = values \o @]

FirstOf(l, n) == [j \in 1 .. n |-> NthOf(l, j)]

-----------------------------------------------------------------------------
(***************************************************************************)
(* Effects.                                                                *)
(***************************************************************************)
Act(w, what, args) ==
  [w EXCEPT !.log = Append(@, [what |-> what, args |-> args]), !.v = Result(Len(w.log) + 1, 1)]

MakeTable(w) == [Act(w, "table", << >>) EXCEPT !.v = TableValue(Len(w.log) + 1)]

(* Globals are fields of the environment. *)
Fetch(w, t, k) == IF t = Environment THEN Act(w, "global", <<k>>) ELSE Act(w, "get", <<t, k>>)

Put(w, t, k, v) == IF t = Environment THEN Act(w, "setglobal", <<k, v>>) ELSE Act(w, "set", <<t, k, v>>)

PutList(w, t, from, l) == Act(w, "setlist", <<t, from, l>>)

(* nil and false need no closing; any other value can be closed, and its   *)
(* __close succeeds.                                                       *)
NeedsClosing(v) == v \notin {NilValue, Literal("false")}

MarkToClose(w, v) == IF NeedsClosing(v) THEN Act(w, "mark", <<v>>) ELSE w

CloseValue(w, v) == IF NeedsClosing(v) THEN Act(w, "close", <<v>>) ELSE w

(* A control of a numeric for. *)
AsNumber(v) == IF Numeric(v) THEN v ELSE Term("number", <<v>>)

(* Operators on numbers, and equality with a literal, have no effect. *)
Calculate(op, a, b) ==
  LET x == NumberOf(a)
      y == NumberOf(b) IN
  CASE op = "+"  -> Literal(ToString(x + y))
    [] op = "-"  -> Literal(ToString(x - y))
    [] op = "*"  -> Literal(ToString(x * y))
    [] op = "<"  -> Truth(x < y)
    [] op = "<=" -> Truth(x <= y)
    [] OTHER     -> Term(op, <<a, b>>)

Operate(w, op, a, b) ==
  LET opaque == ~Has(a, "c") /\ ~Has(b, "c") IN
  IF op = "==" THEN IF a = b THEN [w EXCEPT !.v = Truth(TRUE)]
                    ELSE IF Has(a, "c") /\ Has(b, "c") THEN [w EXCEPT !.v = Truth(FALSE)]
                    ELSE IF opaque /\ ~(Numeric(a) /\ Numeric(b)) THEN Act(w, op, <<a, b>>)
                    ELSE [w EXCEPT !.v = Term(op, <<a, b>>)]
  ELSE IF op \in NumericOps \cup {"<", "<="} /\ IsNumber(a) /\ IsNumber(b)
       THEN [w EXCEPT !.v = Calculate(op, a, b)]
  ELSE IF op \in NumericOps \cup {"<", "<="} /\ Numeric(a) /\ Numeric(b)
       THEN [w EXCEPT !.v = Term(op, <<a, b>>)]
  ELSE Act(w, op, <<a, b>>)

Apply(w, op, a) ==
  CASE op = "not" /\ Has(a, "c") -> [w EXCEPT !.v = Truth(a \in {NilValue, Literal("false")})]
    [] op = "not"                -> [w EXCEPT !.v = Term("not", <<a>>)]
    [] op = "-" /\ IsNumber(a)   -> [w EXCEPT !.v = Literal(ToString(0 - NumberOf(a)))]
    [] OTHER                     -> Act(w, op, <<a>>)

-----------------------------------------------------------------------------
(***************************************************************************)
(* Truth.                                                                  *)
(***************************************************************************)
RECURSIVE Question(_)

(* The value whose truth decides that of v. *)
Question(v) == IF Has(v, "op") /\ v.op = "not" THEN Question(v.args[1]) ELSE v

RECURSIVE Negated(_)

Negated(v) == IF Has(v, "op") /\ v.op = "not" THEN ~Negated(v.args[1]) ELSE FALSE

(* The answers there are: both where nobody has asked. *)
Answers(w, v) ==
  LET q == Question(v) IN
  IF Has(q, "c") THEN {q \notin {NilValue, Literal("false")}}
  ELSE IF Has(q, "e") \/ Has(q, "op") THEN IF q \in DOMAIN w.truth THEN {w.truth[q]} ELSE BOOLEAN
  ELSE {TRUE}

Answered(w, v, b) ==
  LET q == Question(v) IN IF Cardinality(Answers(w, v)) = 1 THEN w ELSE [w EXCEPT !.truth = (q :> b) @@ @]

Holds(v, b) == IF Negated(v) THEN ~b ELSE b
=============================================================================
