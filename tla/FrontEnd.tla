------------------------------ MODULE FrontEnd -------------------------------
(***************************************************************************)
(* From a text to its effects: the text is parsed and compiled, the        *)
(* validator has to accept the code, the virtual machine runs it, and what *)
(* the host sees is what the program means.                                *)
(***************************************************************************)
EXTENDS Parser, Compiler, Execution, Semantics, Legality

CONSTANT Suites    \* sets of programs: texts with their profile and the trees they stand for

ASSUME TestsAssumption == MaxTests \in Nat

VARIABLES program, tree,
          stage    \* what the program has come to: text, tree, code or running

vars == <<program, tree, stage, unit, machine>>

NoTree == [verdict |-> "none", body |-> << >>]
NoUnit(error) == [error |-> error, protos |-> << >>]

Init ==
  /\ \E j \in DOMAIN Suites : program \in Suites[j]
  /\ stage = "text" /\ tree = NoTree /\ unit = NoUnit("") /\ NoMachine

ParseText ==
  /\ stage = "text" /\ stage' = "tree"
  /\ tree' = Parse(program.profile, program.text)
  /\ UNCHANGED <<program, unit, machine>>

CompileTree ==
  /\ stage = "tree" /\ stage' = "code"
  /\ unit' = IF tree.verdict = "accepted" THEN Compile(program.profile, tree.body) ELSE NoUnit("syntax")
  /\ UNCHANGED <<program, tree, machine>>

Load ==
  /\ stage = "code" /\ unit.error = "" /\ stage' = "running"
  /\ StartMachine
  /\ UNCHANGED <<program, tree, unit>>

Run == stage = "running" /\ Step /\ UNCHANGED <<program, tree, stage, unit>>

Finished == stage = "running" /\ frames = << >>

(* The program is over, was not compiled, or has asked all its questions. *)
Stopped ==
  /\ \/ Finished
     \/ stage = "code" /\ unit.error # ""
     \/ Is("JumpIf") /\ Cardinality(DOMAIN world.truth) = MaxTests
  /\ UNCHANGED vars

Next == ParseText \/ CompileTree \/ Load \/ Run \/ Stopped

Spec == Init /\ [][Next]_vars

-----------------------------------------------------------------------------
(* The steps after which there is something to say. *)
Compiled == stage = "tree" /\ stage' = "code"
Ends == ~Finished /\ Finished'

(***************************************************************************)
(* A text that is accepted is read as the one tree it stands for, so that  *)
(* operators group by their precedence, statements end where they end, and *)
(* what the parser skips changes nothing around it.                        *)
(***************************************************************************)
ParsesAsWritten ==
  [][stage' = "tree" /\ tree'.verdict = "accepted" => program.bodies = {tree'.body}]_vars

(***************************************************************************)
(* A text is rejected exactly if it is no program of its profile, be it    *)
(* for its form or for what the compiler has to check.                     *)
(***************************************************************************)
RejectsExactlyTheIllegal ==
  [][Compiled => (unit'.error = "" <=> \E body \in program.bodies : Legal(program.profile, body))]_vars

(***************************************************************************)
(* What the compiler emits for a program it accepts, the validator accepts *)
(* too: every register is written on each way to a use, branches are       *)
(* declared, and results of open calls are taken at once.                  *)
(***************************************************************************)
EmittedCodeIsValid ==
  [][Compiled => \A j \in DOMAIN unit'.protos : ValidatePrototype(unit'.protos[j])]_vars

(***************************************************************************)
(* A run that ends has had the effects of the program, in their order and  *)
(* with their values, and returns what it returns.                         *)
(***************************************************************************)
RunsAsWritten ==
  [][Ends => \A body \in program.bodies :
               LET m == Meaning(program.profile, body, world'.truth) IN
               ~m.stuck /\ m.log = world'.log /\ m.result = returned'[1]]_vars

(***************************************************************************)
(* When a run ends, each value that was to be closed has been, whichever   *)
(* way its scope was left (docs/language-contract.md: normal exit, break,  *)
(* return and goto).                                                       *)
(***************************************************************************)
ClosesWhatItMarks ==
  LET Times(what, v) == Cardinality({j \in DOMAIN world.log : world.log[j] = [what |-> what, args |-> <<v>>]}) IN
  Finished => \A e \in Range(world.log) :
                e.what = "mark" => Times("close", e.args[1]) = Times("mark", e.args[1])
=============================================================================
