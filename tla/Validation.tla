----------------------------- MODULE Validation -----------------------------
(***************************************************************************)
(* What the validator of BluV1 artifacts (blu.rs) demands of a prototype:  *)
(* a record of its code and of its family, the registers, params, features *)
(* and profile it declares.                                                *)
(***************************************************************************)
EXTENDS Bytecode, SequencesExt

(***************************************************************************)
(* One prototype.                                                          *)
(***************************************************************************)
RegisterFile(p) == 0 .. p.family.registers - 1

CallFeatures(i) ==
  (CASE i.out = "fixed"                -> {"FixedCalls"}
     [] i.out \in {"return", "prefix"} -> {"ReturnCalls"}
     [] i.out = "list"                 -> {"DynamicCallResults", "Tables"}
     [] i.out = "all"                  -> {"DynamicCallResults"})
  \cup (CASE i.extra = "varargs" -> {"Varargs"}
          [] i.extra = "dynamic" -> {"DynamicCallResults"}
          [] i.extra = "none"    -> {})

(* The profiles where the environment of a chunk is a lexical variable. *)
Lexical == {"Lua52", "Lua53", "Lua54", "Lua55"}

FeaturesOf(p, k) ==
  LET i == p.code[k] IN
  CASE i.op = "Call"                          -> CallFeatures(i)
    [] i.op = "Return" /\ i.extra = "varargs" -> {"Varargs"}
    [] i.op = "Return" /\ i.extra = "dynamic" -> {"DynamicCallResults"}
    [] i.op = "Varargs"                       -> {"Varargs"}
    [] i.op = "SetListVarargs"                -> {"Varargs", "Tables"}
    [] i.op \in {"GetTable", "SetTable"}      -> {"Tables"}
    [] i.op = "NewTable"                      ->
         IF k = 1 /\ p.family.profile \in Lexical THEN {} ELSE {"Tables"}
    [] i.op \in {"LoadGlobal", "StoreGlobal"} -> {"Globals"}
    [] i.op \in {"Closure", "Close", "GetUpvalue", "SetUpvalue"} -> {"Closures"}
    [] i.op = "JumpIf"                        -> {"ForwardBranches"}
    [] i.op = "Jump"                          ->
         {"ForwardBranches"} \cup (IF i.to <= k THEN {"BackwardBranches"} ELSE {})
    [] OTHER                                  -> {}

FeaturesDeclared(p) ==
  {"Baseline"} \cup UNION {FeaturesOf(p, k) : k \in DOMAIN p.code} \subseteq p.family.features

Producer(i) == i.op = "Call" /\ i.out = "all"

Consumer(i) == i.op \in {"Call", "Return"} /\ i.extra = "dynamic"

BackwardTargets(code) ==
  {code[q].to : q \in {q \in DOMAIN code : code[q].op = "Jump" /\ code[q].to <= q}}

(***************************************************************************)
(* backward_branch_requirements: the registers some path from target reads *)
(* before it writes them.  The source carries all registers through one    *)
(* worklist; they do not influence each other.                             *)
(***************************************************************************)
UnwrittenFrom(code, target, r) ==
  LET Reach[k \in 0 .. Len(code)] ==
        IF k = 0 THEN {target}
        ELSE LET seen == Reach[k - 1] IN
             seen \cup UNION {Successors(code, q) :
                                q \in {q \in seen : r \notin InstructionWrites(code[q])}}
  IN Reach[Len(code)]

BackwardBranchRequirements(p, target) ==
  {r \in RegisterFile(p) :
     \E q \in UnwrittenFrom(p.code, target, r) : r \in InstructionReads(p.code[q])}

-----------------------------------------------------------------------------
(***************************************************************************)
(* The checks of one instruction, given the initialized registers.         *)
(***************************************************************************)
LoadOK(p, i, init) == i.d \in RegisterFile(p)

TableOK(p, i, init) ==
  CASE i.op \in Stores         -> i.s \in init
    [] i.op = "SetTable"       -> {i.t, i.k, i.s} \subseteq init
    [] i.op = "SetListVarargs" -> /\ i.t \in init
                                  /\ i.start > 0 \/ p.family.profile \in {"Blu", "Lua55"}

OperatorOK(p, i, init) ==
  /\ i.d \in RegisterFile(p)
  /\ IF i.op \in Unaries THEN i.s \in init ELSE {i.s, i.k} \subseteq init

ListCallOK(p, i, init) == i.o \in init /\ i.n > 0

FixedCallOK(p, i, init) == Span(i.o, i.n) \subseteq RegisterFile(p)

AllResultsOK(p, k, init) == k < Len(p.code) /\ Consumer(p.code[k + 1])

ReturnCallOK(p, i, init) == i.out = "prefix" => Span(i.o, i.n) \subseteq init

CallOK(p, k, init) ==
  LET i == p.code[k] IN
  /\ {i.f} \cup Span(i.a, i.na) \subseteq init
  /\ CASE i.out = "fixed" -> FixedCallOK(p, i, init)
       [] i.out = "all"   -> AllResultsOK(p, k, init)
       [] i.out = "list"  -> ListCallOK(p, i, init)
       [] OTHER           -> ReturnCallOK(p, i, init)

ClosureOK(p, i, init) ==
  IF i.op = "Closure" THEN i.d \in RegisterFile(p) /\ i.caps \subseteq init
                      ELSE i.from <= p.family.registers

VarargsOK(p, i, init) == i.n > 0 /\ Span(i.d, i.n) \subseteq RegisterFile(p)

ReturnOK(p, i, init) == Span(i.o, i.n) \subseteq init

JumpIfOK(p, k, init) == p.code[k].s \in init /\ p.code[k].to \in k + 1 .. Len(p.code)

(* Mutant: a backward jump is only checked to stay in the code. *)
JumpOKAnywhere(p, k, init, states) == p.code[k].to \in 1 .. Len(p.code)

(***************************************************************************)
(* A backward jump is checked against the registers that were initialized  *)
(* when the scan passed its target, and only where the code from there on  *)
(* needs them.  The scan has passed every target before the jump, so the   *)
(* state is unavailable only for the target of an unreachable instruction. *)
(***************************************************************************)
JumpOK(p, k, init, states) ==
  LET to == p.code[k].to IN
  /\ to \in 1 .. Len(p.code)
  /\ to <= k =>
       /\ states[to] # {}
       /\ \A target \in states[to] :
            BackwardBranchRequirements(p, to) \cap target \subseteq init

InstructionOK(p, k, init, states) ==
  LET i == p.code[k] IN
  CASE i.op \in Loads                                   -> LoadOK(p, i, init)
    [] i.op \in Stores \cup {"SetTable", "SetListVarargs"} -> TableOK(p, i, init)
    [] i.op \in Unaries \cup Binaries                   -> OperatorOK(p, i, init)
    [] i.op = "Call"                                    -> CallOK(p, k, init)
    [] i.op \in {"Closure", "Close"}                    -> ClosureOK(p, i, init)
    [] i.op = "Varargs"                                 -> VarargsOK(p, i, init)
    [] i.op = "Return"                                  -> ReturnOK(p, i, init)
    [] i.op = "JumpIf"                                  -> JumpIfOK(p, k, init)
    [] i.op = "Jump"                                    -> JumpOK(p, k, init, states)

-----------------------------------------------------------------------------
(***************************************************************************)
(* The scan.  incoming[k] holds the registers initialized on every forward *)
(* branch to k seen so far, states[k] those at a backward target when the  *)
(* scan passed it: both are sets of at most one register set.              *)
(***************************************************************************)
Common(p, sets) == {r \in RegisterFile(p) : \A s \in sets : r \in s}

(* The parameters follow the slot of the lexical environment. *)
Parameters(p) ==
  Span(IF "ImplicitEnvironment" \in p.family.features THEN 1 ELSE 0, p.family.params)

ScanStart(p) ==
  [ok |-> Parameters(p) \subseteq RegisterFile(p), reachable |-> TRUE, init |-> Parameters(p),
   incoming |-> [k \in DOMAIN p.code |-> {}], states |-> [k \in DOMAIN p.code |-> {}]]

(* Mutant: code that only a later jump enters is taken for unreachable. *)
EntryStateForward(p, s, k) ==
  LET arrivals == s.incoming[k] \cup (IF s.reachable THEN {s.init} ELSE {}) IN
  IF arrivals # {} THEN {Common(p, arrivals)} ELSE {}

(***************************************************************************)
(* What is initialized when control reaches k: on every way there, or, at  *)
(* the target of a later jump that nothing before it reaches, what the     *)
(* code from there on needs.                                               *)
(***************************************************************************)
EntryState(p, s, k) ==
  LET arrivals == s.incoming[k] \cup (IF s.reachable THEN {s.init} ELSE {}) IN
  IF arrivals # {} THEN {Common(p, arrivals)}
  ELSE IF k \in BackwardTargets(p.code) THEN {BackwardBranchRequirements(p, k)}
  ELSE {}

ConsumerMisplaced(p, s, k) ==
  /\ Consumer(p.code[k])
  /\ \/ s.incoming[k] # {}
     \/ k \in BackwardTargets(p.code)
     \/ k = 1
     \/ ~Producer(p.code[k - 1])

Branch(p, incoming, k, init) ==
  LET i == p.code[k] IN
  IF i.op \in {"Jump", "JumpIf"} /\ i.to > k /\ i.to <= Len(p.code)
  THEN [incoming EXCEPT ![i.to] = {Common(p, @ \cup {init})}]
  ELSE incoming

ScanStep(p, s, k) ==
  LET entry == EntryState(p, s, k)
      i == p.code[k] IN
  IF ~s.ok \/ ConsumerMisplaced(p, s, k) THEN [s EXCEPT !.ok = FALSE]
  ELSE IF entry = {} THEN [s EXCEPT !.ok = i.op = "Close"]
  ELSE LET init == CHOOSE e \in entry : TRUE
           states == [s.states EXCEPT ![k] = IF k \in BackwardTargets(p.code) THEN entry ELSE {}]
       IN [ok |-> InstructionOK(p, k, init, states),
           reachable |-> ~Leaves(i) /\ i.op # "Jump",
           init |-> init \cup InstructionWrites(i),
           incoming |-> Branch(p, [s.incoming EXCEPT ![k] = {}], k, init),
           states |-> states]

ValidatePrototype(p) ==
  LET Scan[k \in 0 .. Len(p.code)] ==
        IF k = 0 THEN ScanStart(p) ELSE ScanStep(p, Scan[k - 1], k) IN
  /\ FeaturesDeclared(p)
  /\ Scan[Len(p.code)].ok
  /\ p.code # << >>
  /\ Leaves(Last(p.code))
=============================================================================
