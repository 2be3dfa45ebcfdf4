----------------------------- MODULE Validator ------------------------------
(***************************************************************************)
(* The validator of BluV1 artifacts (blu.rs) and what it is for: the       *)
(* interpreter reads registers, takes branches and consumes the results of *)
(* the call before without checking any of it again.                       *)
(*                                                                         *)
(* The validator reads the code once, from first to last instruction, and  *)
(* keeps the registers known to be initialized.  A behaviour of this       *)
(* specification takes one prototype, decides it the way the validator     *)
(* does, and if it is accepted runs it: any branch may be taken, and       *)
(* before any instruction a collection may reclaim the values of the       *)
(* registers the virtual machine's liveness masks call dead.               *)
(***************************************************************************)
EXTENDS Validation

CONSTANT
  Families      \* where prototypes come from: records with the registers, params,
                \* features and profile of a prototype, the length of its code, and
                \* the alphabets of its last and of its other instructions

(* Operands and register counts are unsigned in the source. *)
ASSUME FamiliesAssumption ==
  \A f \in Families :
    /\ f.registers \in Nat
    /\ \A i \in f.alphabet \cup f.ends :
         /\ i.op \in Opcodes
         /\ i.op \in {"Varargs", "Call"} => i.n \in Nat
         /\ i.op = "SetListVarargs" => i.start \in Nat
         /\ i.op = "Close" => i.from \in Nat

VARIABLES
  proto,        \* the prototype, its code instruction by instruction, then
  verdict,      \* what the validator says of it: "pending" until all is there
  pc, written,  \* the next instruction, and the registers that hold a value
  dynamic       \* whether the results of the call before are at hand

vars == <<proto, verdict, pc, written, dynamic>>

-----------------------------------------------------------------------------
(***************************************************************************)
(* An accepted prototype runs.                                             *)
(***************************************************************************)
Init ==
  /\ proto \in {[code |-> << >>, family |-> f] : f \in Families}
  /\ verdict = "pending"
  /\ pc = 1
  /\ written = {}
  /\ dynamic = FALSE

ReadInstruction ==
  /\ verdict = "pending"
  /\ Len(proto.code) < proto.family.length
  /\ \E i \in IF Len(proto.code) + 1 = proto.family.length THEN proto.family.ends
                                                           ELSE proto.family.alphabet :
       proto' = [proto EXCEPT !.code = Append(@, i)]
  /\ UNCHANGED <<verdict, pc, written, dynamic>>

Validate ==
  /\ verdict = "pending"
  /\ Len(proto.code) = proto.family.length
  /\ written' = Parameters(proto)
  /\ verdict' = IF ValidatePrototype(proto) THEN "accepted" ELSE "rejected"
  /\ UNCHANGED <<proto, pc, dynamic>>

Running == verdict = "accepted" /\ pc \in DOMAIN proto.code

Here == proto.code[pc]

RunInstruction ==
  /\ Running
  /\ pc' \in IF Leaves(Here) THEN {0} ELSE Targets(proto.code, pc)
  /\ written' = written \cup InstructionWrites(Here)
  /\ dynamic' = Producer(Here)
  /\ UNCHANGED <<proto, verdict>>

Collect ==
  /\ Running
  /\ written' = written \cap LiveRegisterMasks(proto.code)[pc]
  /\ UNCHANGED <<proto, verdict, pc, dynamic>>

Next == ReadInstruction \/ Validate \/ RunInstruction \/ Collect

Spec == Init /\ [][Next]_vars

-----------------------------------------------------------------------------
(***************************************************************************)
(* A second account of what makes a prototype wrong, by its paths: the     *)
(* pairs of a pc and the registers written on some path to it, the entry   *)
(* first, and the faults which a path or a single instruction shows.       *)
(***************************************************************************)
Configurations(p) ==
  LET Reach[n \in 0 .. Len(p.code) * (p.family.registers + 1)] ==
        IF n = 0 THEN {<<1, Parameters(p)>>}
        ELSE LET seen == Reach[n - 1] IN
             seen \cup UNION {{<<q, c[2] \cup InstructionWrites(p.code[c[1]])>> :
                                q \in Successors(p.code, c[1])} : c \in seen}
  IN Reach[Len(p.code) * (p.family.registers + 1)]

Malformed(p, k) ==
  LET i == p.code[k] IN
  \/ ~(InstructionReads(i) \cup InstructionWrites(i) \subseteq RegisterFile(p))
  \/ i.op = "Varargs" /\ i.n = 0
  \/ i.op = "Close" /\ i.from > p.family.registers
  \/ i.op = "SetListVarargs" /\ i.start = 0 /\ p.family.profile \notin {"Blu", "Lua55"}
  \/ i.op = "Call" /\ i.out = "list" /\ i.n = 0
  \/ i.op \in {"Jump", "JumpIf"} /\ i.to \notin DOMAIN p.code
  \/ i.op = "JumpIf" /\ i.to <= k
  \/ Producer(i) /\ (k = Len(p.code) \/ ~Consumer(p.code[k + 1]))
  \/ Consumer(i) /\ (k = 1 \/ ~Producer(p.code[k - 1]))
  \/ Consumer(i) /\ \E q \in DOMAIN p.code : p.code[q].op \in {"Jump", "JumpIf"} /\ p.code[q].to = k

Faulty(p) ==
  \/ ~FeaturesDeclared(p) \/ ~(Parameters(p) \subseteq RegisterFile(p)) \/ p.code = << >>
  \/ ~Leaves(Last(p.code))
  \/ \E k \in DOMAIN p.code : Malformed(p, k)
  \/ \E k \in DOMAIN p.code : p.code[k].op # "Close" /\ \A c \in Configurations(p) : c[1] # k
  \/ \E c \in Configurations(p) : ~(InstructionReads(p.code[c[1]]) \subseteq c[2])

(***************************************************************************)
(* Accepted code never fails to find what it needs: on every path, with    *)
(* every collection in between, the pc stays within the code, a register   *)
(* that is read holds a value, a register that is written exists, and an   *)
(* instruction that takes the results of the call before finds them.  The  *)
(* virtual machine's liveness agrees with the validator's initialization:  *)
(* a live register has been written, so that the values a frame offers as  *)
(* roots are values the program put there.                                 *)
(***************************************************************************)
AcceptedCodeRuns ==
  verdict = "accepted" /\ pc # 0 =>
    /\ pc \in DOMAIN proto.code
    /\ InstructionReads(Here) \subseteq written
    /\ InstructionWrites(Here) \subseteq RegisterFile(proto)
    /\ Consumer(Here) => dynamic
    /\ LiveRegisterMasks(proto.code)[pc] \subseteq written

(***************************************************************************)
(* The validator's one linear pass loses nothing on loops and on code that *)
(* only a later backward goto enters: what it rejects is malformed,        *)
(* unreachable or reads an unwritten register on some path.                *)
(***************************************************************************)
RejectedCodeIsWrong == verdict = "rejected" => Faulty(proto)
=============================================================================
