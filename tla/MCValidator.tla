---------------------------- MODULE MCValidator -----------------------------
(***************************************************************************)
(* Prototypes of two registers.  Every code of up to three instructions    *)
(* over an alphabet with each op and each kind of operand error, every     *)
(* code of four over the calls and their consumers, and every code of      *)
(* four and five over the instructions that decide initialization on       *)
(* branching code: five is the shortest code with a block that only a      *)
(* later backward jump enters and a reachable end.                         *)
(***************************************************************************)
EXTENDS Validator

CallAlphabet ==
  {LoadConstant(0, 0), Return("none", 0, 1), Return("dynamic", 0, 1), Jump(2), JumpIf(0, 3)}
  \cup {Call(0, 1, 0, e, "all", 0, 0) : e \in Extras}
  \cup {Call(0, 0, 1, "dynamic", "fixed", 1, 1), Call(0, 0, 0, "dynamic", "list", 1, 1),
        Call(0, 0, 0, "none", "prefix", 1, 1), Call(0, 1, 1, "dynamic", "return", 0, 0)}

Alphabet ==
  CallAlphabet
  \cup {NewTable(1), GetUpvalue(2), SetUpvalue(1), Move(1, 0), Binary("Arithmetic", 0, 0, 1), SetTable(0, 1, 0),
        SetListVarargs(0, 0), SetListVarargs(0, 1), Varargs(0, 0), Varargs(0, 2), Varargs(1, 2),
        Closure(1, "child", {0}), Closure(0, "child", {1}), Close(0), Close(3), Jump(1), Jump(3), JumpIf(1, 2),
        Return("varargs", 0, 2), Call(0, 0, 1, "varargs", "fixed", 0, 2),
        Call(0, 0, 0, "none", "list", 1, 0)}

BranchAlphabet(n) ==
  {LoadConstant(0, 0), StoreGlobal(0), NewTable(1), Return("none", 0, 1)}
  \cup {JumpIf(0, t) : t \in 2 .. n} \cup {Jump(t) : t \in 1 .. n}

Features ==
  {"Baseline", "FixedCalls", "ReturnCalls", "DynamicCallResults", "Varargs", "Closures",
   "Globals", "Tables", "ForwardBranches", "BackwardBranches"}

Family(length, alphabet, ends, params) ==
  [length |-> length, alphabet |-> alphabet, ends |-> ends, registers |-> 2, params |-> params,
   features |-> Features, profile |-> "Luau"]

MCFamilies ==
  {Family(n, Alphabet, Alphabet, p) : n \in 0 .. 2, p \in {0, 1, 3}}
  \cup {Family(3, Alphabet, Alphabet, 1),
        Family(4, CallAlphabet, {i \in CallAlphabet : Leaves(i)}, 2)}
  \cup {Family(n, BranchAlphabet(n), {Return("none", 0, 0), Return("none", 1, 1)}, p) :
          n \in 3 .. 5, p \in 0 .. 1}
  \cup {[Family(2, Alphabet, {Return("none", 0, 1)}, 2) EXCEPT !.features = @ \ {f}, !.profile = "Blu"] :
          f \in Features}
=============================================================================
