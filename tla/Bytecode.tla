------------------------------ MODULE Bytecode ------------------------------
(***************************************************************************)
(* BluV1 instructions, and what the virtual machine knows of an            *)
(* instruction before it runs it: the registers it reads and writes, where *)
(* control goes next, and from these the registers that are live at each   *)
(* pc (vm.rs, blu_live_register_masks), which decide what a collection may *)
(* reclaim while a frame is running.                                       *)
(*                                                                         *)
(* Code is a sequence, so a pc is one more than in the source.  An         *)
(* instruction is a record of its op and operands: d the destination, s    *)
(* and k sources, t a table register.  Arithmetic, Bitwise and Compare     *)
(* stand for the instructions of their kind, Move for Move and Not, JumpIf *)
(* for both conditional jumps; Closure names the child prototype and the   *)
(* parent registers it captures.                                           *)
(*                                                                         *)
(* The nineteen call instructions are the product of what is appended to   *)
(* their na argument registers from a (extra: nothing, the varargs of the  *)
(* frame, the results of the call before) and of what becomes of the       *)
(* results (out: n registers from o, all kept for the next instruction,    *)
(* returned, returned after the n registers from o, stored in the table of *)
(* register o from index n on).                                            *)
(***************************************************************************)
EXTENDS Integers, Sequences, FiniteSets

Span(first, n) == first .. first + n - 1

LoadConstant(d, v) == [op |-> "LoadConstant", d |-> d, v |-> v]
LoadGlobal(d, v) == [op |-> "LoadGlobal", d |-> d, v |-> v]
NewTable(d) == [op |-> "NewTable", d |-> d]
GetUpvalue(d) == [op |-> "GetUpvalue", d |-> d]
StoreGlobal(s) == [op |-> "StoreGlobal", s |-> s]
SetUpvalue(s) == [op |-> "SetUpvalue", s |-> s]
Unary(op, d, s) == [op |-> op, d |-> d, s |-> s]
Move(d, s) == Unary("Move", d, s)
Binary(op, d, s, k) == [op |-> op, d |-> d, s |-> s, k |-> k]
Compare(kind, d, s, k) == [op |-> "Compare", kind |-> kind, d |-> d, s |-> s, k |-> k]
GetTable(d, s, k) == [op |-> "GetTable", d |-> d, s |-> s, k |-> k]
SetTable(t, k, s) == [op |-> "SetTable", t |-> t, k |-> k, s |-> s]
Varargs(d, n) == [op |-> "Varargs", d |-> d, n |-> n]
SetListVarargs(t, start) == [op |-> "SetListVarargs", t |-> t, start |-> start]
Closure(d, child, caps) == [op |-> "Closure", d |-> d, child |-> child, caps |-> caps]
Close(from) == [op |-> "Close", from |-> from]
JumpIf(s, to) == [op |-> "JumpIf", s |-> s, to |-> to]
Jump(to) == [op |-> "Jump", to |-> to]
Return(extra, o, n) == [op |-> "Return", extra |-> extra, o |-> o, n |-> n]
Call(f, a, na, extra, out, o, n) ==
  [op |-> "Call", f |-> f, a |-> a, na |-> na, extra |-> extra, out |-> out, o |-> o, n |-> n]

Loads == {"LoadConstant", "LoadGlobal", "NewTable", "GetUpvalue"}
Stores == {"StoreGlobal", "SetUpvalue"}
Unaries == {"Move", "Negate", "Length"}
Operators == {"Arithmetic", "Bitwise", "Concatenate", "Compare"}
Binaries == Operators \cup {"GetTable"}
Extras == {"none", "varargs", "dynamic"}
Outs == {"fixed", "all", "return", "prefix", "list"}

Opcodes ==
  Loads \cup Stores \cup Unaries \cup Binaries
  \cup {"SetTable", "SetListVarargs", "Varargs", "Closure", "Close", "Call", "Return", "JumpIf", "Jump"}

Leaves(i) ==
  \/ i.op = "Return"
  \/ i.op = "Call" /\ i.out \in {"return", "prefix"}

(***************************************************************************)
(* Where the interpreter goes from pc, and the successors its liveness     *)
(* analysis sees: those within the code.                                   *)
(***************************************************************************)
Targets(code, pc) ==
  LET i == code[pc] IN
  CASE i.op = "Jump"   -> {i.to}
    [] i.op = "JumpIf" -> {i.to, pc + 1}
    [] Leaves(i)       -> {}
    [] OTHER           -> {pc + 1}

Successors(code, pc) == Targets(code, pc) \cap DOMAIN code

InstructionReads(i) ==
  CASE i.op \in Stores \cup Unaries \cup {"JumpIf"} -> {i.s}
    [] i.op \in Binaries                         -> {i.s, i.k}
    [] i.op = "SetTable"                         -> {i.t, i.k, i.s}
    [] i.op = "SetListVarargs"                   -> {i.t}
    [] i.op = "Closure"                          -> i.caps
    [] i.op = "Return"                           -> Span(i.o, i.n)
    [] i.op = "Call"                             ->
         {i.f} \cup Span(i.a, i.na)
         \cup (CASE i.out = "prefix" -> Span(i.o, i.n)
                 [] i.out = "list"   -> {i.o}
                 [] OTHER            -> {})
    [] OTHER                                     -> {}

InstructionWrites(i) ==
  CASE i.op \in Loads \cup Unaries \cup Binaries \cup {"Closure"} -> {i.d}
    [] i.op = "Varargs"                                     -> Span(i.d, i.n)
    [] i.op = "Call" /\ i.out = "fixed"                     -> Span(i.o, i.n)
    [] OTHER                                                -> {}

(* Mutant: a write does not end the liveness of what the register held. *)
LiveRegisterMasksUnkilled(code) ==
  LET Pass[k \in 0 .. Len(code)] ==
        IF k = 0 THEN [pc \in DOMAIN code |-> {}]
        ELSE [pc \in DOMAIN code |->
                InstructionReads(code[pc]) \cup UNION {Pass[k - 1][q] : q \in Successors(code, pc)}]
  IN Pass[Len(code)]

(***************************************************************************)
(* Backward liveness, iterated to its fixpoint: one pass of the loop per   *)
(* instruction is enough, a register's liveness travels one edge a pass.   *)
(***************************************************************************)
LiveRegisterMasks(code) ==
  LET Pass[k \in 0 .. Len(code)] ==
        IF k = 0 THEN [pc \in DOMAIN code |-> {}]
        ELSE LET live == Pass[k - 1] IN
             [pc \in DOMAIN code |->
                InstructionReads(code[pc])
                \cup ((UNION {live[q] : q \in Successors(code, pc)})
                      \ InstructionWrites(code[pc]))]
  IN Pass[Len(code)]
=============================================================================
