----------------------------- MODULE Execution -------------------------------
(***************************************************************************)
(* Running compiled code (vm.rs, execute_blu_v1): registers, captured      *)
(* variables, calls and returns, with the host as in World.                *)
(*                                                                         *)
(* A frame has its function, the pc, the values of its registers, which    *)
(* cell a captured register lives in while its variable is in scope (open, *)
(* 0 if none), the cells it captured itself, its varargs, the results of   *)
(* a call that the next instruction takes (tail), and what it still has to *)
(* close (marks).  returned holds the results on their way to the frame on *)
(* top.                                                                    *)
(***************************************************************************)
EXTENDS World, FiniteSetsExt

CONSTANT MaxTests    \* bound: the branches whose outcome is open

VARIABLES unit,      \* the compiled program: an error or its prototypes
          world, frames, cells, closures, returned

machine == <<world, frames, cells, closures, returned>>

Top == Last(frames)

CodeOf(frame) == unit.protos[frame.proto].code

At == CodeOf(Top)[Top.pc]

Ready == frames # << >> /\ returned = << >>

Is(op) == Ready /\ At.op = op

Read(r) == IF Top.open[r] = 0 THEN Top.regs[r] ELSE cells[Top.open[r]]

ReadSpan(first, n) == [j \in 1 .. n |-> Read(first + j - 1)]

(* Registers first, first + 1, ... of a frame: captured ones in cells. *)
Wrote(frame, first, values) ==
  [frame EXCEPT !.regs = [r \in DOMAIN @ |-> IF r - first + 1 \in DOMAIN values THEN values[r - first + 1] ELSE @[r]]]

WroteCells(frame, first, values) ==
  [c \in DOMAIN cells |->
     LET at == {j \in DOMAIN values : frame.open[first + j - 1] = c} IN
     IF at = {} THEN cells[c] ELSE values[CHOOSE j \in at : TRUE]]

WithTop(frame) == Append(Front(frames), frame)

Advance(frame) == [frame EXCEPT !.pc = @ + 1]

(* The values go to the registers from first on, and control to the next. *)
Store(first, values) ==
  /\ frames' = WithTop(Advance(Wrote(Top, first, values)))
  /\ cells' = WroteCells(Top, first, values)
  /\ UNCHANGED <<closures, returned>>

(* A new world, whose value is stored. *)
Compute(w) == world' = w /\ Store(At.d, <<w.v>>)

(* A new world, and nothing to store. *)
Perform(w) ==
  /\ world' = w
  /\ frames' = WithTop(Advance(Top))
  /\ UNCHANGED <<cells, closures, returned>>

-----------------------------------------------------------------------------
(***************************************************************************)
(* Instructions without calls.                                             *)
(***************************************************************************)
Internals == {"close", "mark_close", "coerce", "coerce_index", "validate_step", "prepare_iter", "declare_global"}

DoLoadConstant == Is("LoadConstant") /\ Compute([world EXCEPT !.v = Literal(At.v)])

DoLoadGlobal ==
  /\ Is("LoadGlobal")
  /\ Compute(IF At.v \in Internals THEN [world EXCEPT !.v = [internal |-> At.v]]
             ELSE Fetch(world, Environment, Literal(At.v)))

DoStoreGlobal == Is("StoreGlobal") /\ Perform(Put(world, Environment, Literal(At.v), Read(At.s)))

DoMove ==
  /\ Is("Move")
  /\ Compute(IF Has(At, "by") THEN Apply(world, "not", Read(At.s)) ELSE [world EXCEPT !.v = Read(At.s)])

(* The first instruction of a chunk with an environment makes it. *)
DoNewTable ==
  /\ Is("NewTable")
  /\ Compute(IF Top.pc = 1 /\ unit.protos[Top.proto].implicit THEN [world EXCEPT !.v = Environment]
             ELSE MakeTable(world))

DoGetTable == Is("GetTable") /\ Compute(Fetch(world, Read(At.s), Read(At.k)))

DoSetTable == Is("SetTable") /\ Perform(Put(world, Read(At.t), Read(At.k), Read(At.s)))

DoNegate == Is("Negate") /\ Compute(Apply(world, At.by, Read(At.s)))

DoLength == Is("Length") /\ Compute(Apply(world, "#", Read(At.s)))

DoArithmetic == Is("Arithmetic") /\ Compute(Operate(world, At.by, Read(At.s), Read(At.k)))

DoBitwise == Is("Bitwise") /\ Compute(Operate(world, At.by, Read(At.s), Read(At.k)))

DoConcatenate == Is("Concatenate") /\ Compute(Operate(world, At.by, Read(At.s), Read(At.k)))

DoCompare == Is("Compare") /\ Compute(Operate(world, At.kind, Read(At.s), Read(At.k)))

DoVarargs == Is("Varargs") /\ Store(At.d, FirstOf(Top.varargs, At.n)) /\ UNCHANGED world

DoSetListVarargs == Is("SetListVarargs") /\ Perform(PutList(world, Read(At.t), At.start, Top.varargs))

(***************************************************************************)
(* Captured variables.  A register is in a cell from its first capture on, *)
(* until its scope is closed.                                              *)
(***************************************************************************)
DoClosure ==
  /\ Is("Closure")
  /\ LET ups == unit.protos[At.child].ups
         fresh == SetToSortSeq({r \in At.caps : Top.open[r] = 0}, <)
         CellIn(r) == IF Top.open[r] # 0 THEN Top.open[r]
                      ELSE Len(cells) + CHOOSE j \in DOMAIN fresh : fresh[j] = r
         captured == [j \in DOMAIN ups |-> IF ups[j].from = "register" THEN CellIn(ups[j].at) ELSE Top.ups[ups[j].at]]
         value == ClosureValue(Len(closures) + 1)
         opened == [Top EXCEPT !.open = [r \in DOMAIN @ |-> IF r \in At.caps THEN CellIn(r) ELSE @[r]]]
         before == cells \o [j \in DOMAIN fresh |-> Top.regs[fresh[j]]] IN
     /\ closures' = Append(closures, [proto |-> At.child, ups |-> captured])
     /\ cells' = IF opened.open[At.d] = 0 THEN before ELSE [before EXCEPT ![opened.open[At.d]] = value]
     /\ frames' = WithTop(Advance(Wrote(opened, At.d, <<value>>)))
     /\ UNCHANGED <<world, returned>>

DoGetUpvalue == Is("GetUpvalue") /\ Compute([world EXCEPT !.v = cells[Top.ups[At.u]]])

DoSetUpvalue ==
  /\ Is("SetUpvalue")
  /\ cells' = [cells EXCEPT ![Top.ups[At.u]] = Read(At.s)]
  /\ frames' = WithTop(Advance(Top))
  /\ UNCHANGED <<world, closures, returned>>

DoClose ==
  /\ Is("Close")
  /\ LET closing == {r \in DOMAIN Top.open : r >= At.from} IN
     frames' = WithTop(Advance([Top EXCEPT
                 !.regs = [r \in DOMAIN @ |-> IF r \in closing THEN Read(r) ELSE @[r]],
                 !.open = [r \in DOMAIN @ |-> IF r \in closing THEN 0 ELSE @[r]]]))
  /\ UNCHANGED <<world, cells, closures, returned>>

DoJump ==
  /\ Is("Jump")
  /\ frames' = WithTop([Top EXCEPT !.pc = At.to])
  /\ UNCHANGED <<world, cells, closures, returned>>

DoJumpIf ==
  /\ Is("JumpIf")
  /\ \E b \in Answers(world, Read(At.s)) :
       /\ Cardinality(Answers(world, Read(At.s))) > 1 => Cardinality(DOMAIN world.truth) < MaxTests
       /\ world' = Answered(world, Read(At.s), b)
       /\ frames' = WithTop([Top EXCEPT !.pc = IF Holds(Read(At.s), b) = At.when THEN At.to ELSE @ + 1])
  /\ UNCHANGED <<cells, closures, returned>>

-----------------------------------------------------------------------------
(***************************************************************************)
(* Calls and returns.                                                      *)
(***************************************************************************)
Arguments ==
  Before(ReadSpan(At.a, At.na), CASE At.extra = "none"    -> ListOf(<< >>)
                                  [] At.extra = "varargs" -> Top.varargs
                                  [] At.extra = "dynamic" -> Top.tail)

Frame(proto, ups, args) ==
  LET p == unit.protos[proto]
      first == IF p.implicit THEN 1 ELSE 0
      registers == 0 .. p.family.registers - 1 IN
  [proto |-> proto, pc |-> 1, ups |-> ups, marks |-> << >>, tail |-> ListOf(<< >>),
   regs |-> [r \in registers |-> IF r \in first .. first + p.family.params - 1
                                 THEN NthOf(args, r - first + 1) ELSE NilValue],
   open |-> [r \in registers |-> 0],
   varargs |-> IF p.vararg THEN AfterFirst(args, p.family.params) ELSE ListOf(<< >>)]

(* A call to return with replaces the frame, any other is on top of it. *)
CallClosure ==
  /\ Is("Call") /\ Has(Read(At.f), "f")
  /\ LET c == closures[Read(At.f).f]
         below == IF At.out = "return" THEN Front(frames) ELSE frames IN
     frames' = Append(below, Frame(c.proto, c.ups, Arguments))
  /\ UNCHANGED <<world, cells, closures, returned>>

CallHost ==
  /\ Is("Call") /\ ~Has(Read(At.f), "f") /\ ~Has(Read(At.f), "internal")
  /\ world' = Act(world, "call", <<Read(At.f), Arguments>>)
  /\ returned' = <<ResultsOf(Len(world.log) + 1, 1)>>
  /\ frames' = IF At.out = "return" THEN Front(frames) ELSE frames
  /\ UNCHANGED <<cells, closures>>

(***************************************************************************)
(* What the functions the compiler relies on do, and what they return.     *)
(* They succeed: a step of zero, a control that is no number, a global     *)
(* that exists already and a value that cannot be closed raise errors,     *)
(* which end the run.  How prepare_iter finds the iterator (__iter,        *)
(* __call, next) is up to the host: one effect, whose results go on.       *)
(***************************************************************************)
Internal(name, args) ==
  CASE name = "mark_close"     -> [world |-> MarkToClose(world, args[1]), results |-> ListOf(<< >>)]
    [] name = "close"          -> [world |-> CloseValue(world, args[1]), results |-> ListOf(<< >>)]
    [] name = "coerce"         -> [world |-> world, results |-> ListOf(<<AsNumber(args[1])>>)]
    [] name = "coerce_index"   -> [world |-> world, results |-> ListOf(<<AsNumber(args[1])>>)]
    [] name = "validate_step"  -> [world |-> world, results |-> ListOf(<< >>)]
    [] name = "declare_global" -> [world |-> Act(world, "declare", args), results |-> ListOf(<< >>)]
    [] name = "prepare_iter"   -> [world |-> Act(world, "iterate", args), results |-> ResultsOf(Len(world.log) + 1, 1)]

CallInternalFunction ==
  /\ Is("Call") /\ Has(Read(At.f), "internal")
  /\ LET name == Read(At.f).internal
         args == ReadSpan(At.a, At.na)
         done == Internal(name, args)
         marks == CASE name = "mark_close" /\ NeedsClosing(args[1]) -> Append(Top.marks, args[1])
                    [] name = "close" /\ NeedsClosing(args[1])      -> Front(Top.marks)
                    [] OTHER                                        -> Top.marks IN
     /\ world' = done.world
     /\ returned' = <<done.results>>
     /\ frames' = WithTop([Top EXCEPT !.marks = marks])
  /\ UNCHANGED <<cells, closures>>

(* Results of a call, where it wants them. *)
Wanted(out) == frames # << >> /\ returned # << >> /\ At.out = out

DeliverResults ==
  /\ Wanted("fixed")
  /\ frames' = WithTop(Advance(Wrote(Top, At.o, FirstOf(returned[1], At.n))))
  /\ cells' = WroteCells(Top, At.o, FirstOf(returned[1], At.n))
  /\ returned' = << >>
  /\ UNCHANGED <<world, closures>>

DeliverAll ==
  /\ Wanted("all")
  /\ frames' = WithTop(Advance([Top EXCEPT !.tail = returned[1]]))
  /\ returned' = << >>
  /\ UNCHANGED <<world, cells, closures>>

DeliverList ==
  /\ Wanted("list")
  /\ world' = PutList(world, Read(At.o), At.n, returned[1])
  /\ frames' = WithTop(Advance(Top))
  /\ returned' = << >>
  /\ UNCHANGED <<cells, closures>>

DeliverPrefix ==
  /\ Wanted("prefix")
  /\ returned' = <<Before(ReadSpan(At.o, At.n), returned[1])>>
  /\ frames' = Front(frames)
  /\ UNCHANGED <<world, cells, closures>>

(* A return of a call's results closes what the frame has left to close. *)
DoReturn ==
  /\ Is("Return")
  /\ returned' = <<Before(ReadSpan(At.o, At.n), CASE At.extra = "none"    -> ListOf(<< >>)
                                                  [] At.extra = "varargs" -> Top.varargs
                                                  [] At.extra = "dynamic" -> Top.tail)>>
  /\ world' = IF At.extra = "dynamic" THEN FoldRight(LAMBDA v, w : CloseValue(w, v), Top.marks, world) ELSE world
  /\ frames' = Front(frames)
  /\ UNCHANGED <<cells, closures>>

-----------------------------------------------------------------------------

Step ==
  \/ DoLoadConstant \/ DoLoadGlobal \/ DoStoreGlobal \/ DoMove
  \/ DoNewTable \/ DoGetTable \/ DoSetTable
  \/ DoNegate \/ DoLength \/ DoArithmetic \/ DoBitwise \/ DoConcatenate \/ DoCompare
  \/ DoVarargs \/ DoSetListVarargs
  \/ DoClosure \/ DoGetUpvalue \/ DoSetUpvalue \/ DoClose
  \/ DoJump \/ DoJumpIf
  \/ CallClosure \/ CallHost \/ CallInternalFunction
  \/ DeliverResults \/ DeliverAll \/ DeliverList \/ DeliverPrefix \/ DoReturn

(* Before the program is loaded, and the call of its main function. *)
NoMachine ==
  /\ world = [log |-> << >>, truth |-> << >>, v |-> NilValue]
  /\ frames = << >> /\ cells = << >> /\ closures = << >> /\ returned = << >>

StartMachine ==
  /\ frames' = <<Frame(Len(unit.protos), << >>, ResultsOf(0, 1))>>
  /\ UNCHANGED <<world, cells, closures, returned>>
=============================================================================
