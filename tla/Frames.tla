------------------------------- MODULE Frames -------------------------------
(***************************************************************************)
(* The BluV1 interpreter loop (vm.rs, run_blu_v1_loop_inner): frames,      *)
(* their callers, open upvalues, and the roots that protect their values   *)
(* while something else runs.                                              *)
(*                                                                         *)
(* A guest call, that of a metamethod included, pushes the caller and what *)
(* its registers keep alive onto active_roots, and stays in the same Rust  *)
(* loop.  A native function that calls back, a finalizer run by a          *)
(* collection and a resumed coroutine start another loop on top: acts is   *)
(* the stack of loops.  A yield takes a loop off and parks it; a resume    *)
(* puts it back under one root entry for all of its frames.                *)
(*                                                                         *)
(* Values are pairs of a tag and a number.  The heap maps the identity of  *)
(* a table, closure or upvalue cell to its contents; a reclaimed identity  *)
(* is gone for ever, so that a stale handle shows.  The profile is Lua 5.4 *)
(* or 5.5: an older one passes the error of a finalizer on.                *)
(***************************************************************************)
EXTENDS Bytecode, SequencesExt

CONSTANTS
  Mains,        \* codes of main prototypes which the validator accepts
  Protos,       \* the other prototypes: [code, params, vararg]
  Registers,    \* the register file of every prototype
  CallLimit,    \* call_limit
  TailLimit,    \* MAX_TAIL_CALLS
  Budget        \* instructions the execution may take

VARIABLES
  main,         \* the main prototype: its code and its liveness masks
  acts,         \* the interpreter loops, innermost last
  roots,        \* active_roots: sets of heap identities
  heap, next,   \* heap contents, and the next identity
  global,       \* a global variable
  parked,       \* the loop of the suspended coroutine: a sequence of at most one
  remaining,    \* the instruction budget left to the innermost loop
  outcome       \* "running", or how the execution ended

vars == <<main, acts, roots, heap, next, global, parked, remaining, outcome>>

-----------------------------------------------------------------------------
Nil == <<"nil", 0>>
Number(n) == <<"num", n>>
Native(n) == <<"native", n>>
Global == <<"global", 0>>

(***************************************************************************)
(* The native functions programs call: one that calls its argument back,   *)
(* coroutine.yield, coroutine.resume (of a new coroutine when it is given  *)
(* a function, which drops the suspended one; else of the suspended one or *)
(* of a dead one), collectgarbage, and setmetatable, here given one        *)
(* function that stands for a metatable whose every entry it is            *)
(* (__metatable, which protects one, is left out).                         *)
(***************************************************************************)
CallBack == Native(1)
Yield == Native(2)
Resume == Native(3)
CollectGarbage == Native(4)
SetMetatable == Native(5)
Boolean(b) == <<"boolean", IF b THEN 1 ELSE 0>>
True == Boolean(TRUE)
Message == <<"string", 0>>
IsTruthy(v) == v \notin {Nil, Boolean(FALSE)}

Handles(values) == {v[2] : v \in {v \in values : v[1] \in {"table", "closure", "cell"}}}

Nth(values, n) == IF n \in DOMAIN values THEN values[n] ELSE Nil

Code(proto) == IF proto = "main" THEN main.code ELSE Protos[proto].code

(***************************************************************************)
(* Liveness masks are computed once per prototype and cached.  Past the    *)
(* last instruction nothing is live.                                       *)
(***************************************************************************)
ProtoMasks == [p \in DOMAIN Protos |-> LiveRegisterMasks(Protos[p].code)]

Live(proto, pc) ==
  LET masks == IF proto = "main" THEN main.live ELSE ProtoMasks[proto]
  IN IF pc \in DOMAIN masks THEN masks[pc] ELSE {}

LiveRegisterValues(f, pc) == {f.regs[r] : r \in Live(f.proto, pc)}

FrameHandles(f, values) ==
  (Handles(values \cup ToSet(f.varargs)) \cup {f.open[r] : r \in Registers} \cup {f.fn}) \ {0}

FrameRootsAt(f) == FrameHandles(f, LiveRegisterValues(f, f.pc))

(* Mutant: the variables its closures share with a caller are not roots. *)
CallerRootsRegisters(c) == Handles(LiveRegisterValues(c.frame, c.frame.pc))

CallerRoots(c) == FrameHandles(c.frame, LiveRegisterValues(c.frame, c.frame.pc))

ContinuationRoots(a) ==
  UNION {FrameHandles(f, {f.regs[r] : r \in Registers}) :
           f \in {a.frame} \cup {c.frame : c \in ToSet(a.callers)}}
  \cup Handles(ToSet(a.dyn))

(***************************************************************************)
(* What a collection starts from besides the roots of the collecting       *)
(* instruction: active_roots, the roots held by native calls, the closures *)
(* of all frames (the debug frames keep them), the suspended coroutine.    *)
(***************************************************************************)
OtherRoots ==
  UNION ToSet(roots)
  \cup UNION {acts[k].held : k \in DOMAIN acts}
  \cup UNION {{acts[k].frame.fn} \cup {c.frame.fn : c \in ToSet(acts[k].callers)} : k \in DOMAIN acts}
  \cup UNION {ContinuationRoots(a) : a \in ToSet(parked)}
  \cup Handles({global})

Reachable(h, from) ==
  LET Step(s) == s \cup UNION {Handles(ToSet(h[x].refs)) \cup {h[x].meta} : x \in s \cap DOMAIN h}
      Reach[n \in 0 .. Cardinality(DOMAIN h)] ==
        IF n = 0 THEN Step(from) ELSE Step(Reach[n - 1])
  IN Reach[Cardinality(DOMAIN h)] \cap DOMAIN h

-----------------------------------------------------------------------------
(***************************************************************************)
(* Frames and loops.                                                       *)
(***************************************************************************)
NewFrame(fn, proto, args) ==
  LET params == IF proto = "main" THEN 0 ELSE Protos[proto].params
      vararg == proto # "main" /\ Protos[proto].vararg IN
  [proto |-> proto, pc |-> 1, fn |-> fn,
   regs |-> [r \in Registers |-> IF r < params THEN Nth(args, r + 1) ELSE Nil],
   varargs |-> IF vararg THEN SubSeq(args, params + 1, Len(args)) ELSE << >>,
   open |-> [r \in Registers |-> 0],
   collected |-> FALSE, blind |-> FALSE]

(***************************************************************************)
(* base is the number of root entries when the loop was started, to which  *)
(* its end truncates active_roots.  wait tells what the innermost native   *)
(* operation of the frame is at, got its results, held its roots, into the *)
(* table its results go to (wait is "filling" when they come from a guest  *)
(* call).  While a collection runs finalizers wait is "finalizer": due are *)
(* the objects whose turn is still to come, saved the budget set aside,    *)
(* after what the loop goes on with.                                       *)
(***************************************************************************)
NewLoop(frame, base, depth, co) ==
  [frame |-> frame, callers |-> << >>, dyn |-> << >>, tail |-> 0, base |-> base,
   depth |-> depth, co |-> co, resumed |-> FALSE, wait |-> "none", got |-> << >>, held |-> {},
   into |-> 0, due |-> {}, saved |-> 0, after |-> "none"]

Top == acts[Len(acts)]
F == Top.frame
I == Code(F.proto)[F.pc]

WithTop(a) == [acts EXCEPT ![Len(acts)] = a]

Depth(a) == a.depth + Len(a.callers)

FrameCount == FoldSeq(LAMBDA a, n : n + 1 + Len(a.callers), 0, acts)

(* Mutant: registers keep the values they had when the call began. *)
RefreshOpenUpvaluesNot(h, f) == [f EXCEPT !.blind = FALSE]

RefreshOpenUpvalues(h, f) ==
  [f EXCEPT !.regs = [r \in Registers |-> IF f.open[r] \in DOMAIN h THEN h[f.open[r]].refs[1] ELSE @[r]],
            !.blind = FALSE]

SetRegisters(f, o, n, values) ==
  [f EXCEPT !.regs = [r \in Registers |-> IF r \in Span(o, n) THEN Nth(values, r - o + 1) ELSE @[r]]]

SetCells(h, f, o, n, values) ==
  [x \in DOMAIN h |->
     IF \E r \in Span(o, n) : f.open[r] = x
     THEN [h[x] EXCEPT !.refs = <<Nth(values, 1 + (CHOOSE r \in Span(o, n) : f.open[r] = x) - o)>>]
     ELSE h[x]]

Advance(f) == [f EXCEPT !.pc = @ + 1, !.collected = FALSE]

Truncate(s, n) == SubSeq(s, 1, IF n < Len(s) THEN n ELSE Len(s))

DropLast(s, n) == Truncate(s, Len(s) - n)

RegisterSpan(f, o, n) == [j \in 1 .. n |-> f.regs[o + j - 1]]

Running == outcome = "running"

(* Mutant: jumps are free. *)
AtChargingOthers(ops) ==
  /\ Running
  /\ Top.wait = "none"
  /\ I.op \in ops
  /\ remaining > 0
  /\ remaining' = IF I.op \in {"Jump", "JumpIf"} THEN remaining ELSE remaining - 1

(***************************************************************************)
(* An instruction is about to run: the innermost loop is not inside a      *)
(* native operation.  Each costs one unit of the budget.                   *)
(***************************************************************************)
At(ops) ==
  /\ Running
  /\ Top.wait = "none"
  /\ I.op \in ops
  /\ remaining > 0
  /\ remaining' = remaining - 1

-----------------------------------------------------------------------------
(***************************************************************************)
(* A loop that ends truncates active_roots to where it began; the native   *)
(* call that started it pops its own entry.                                *)
(***************************************************************************)
RootsLeft(a, rts, native) == DropLast(Truncate(rts, a.base), IF native THEN 1 ELSE 0)

(***************************************************************************)
(* An error leaves loop after loop, up to the run of a coroutine, whose    *)
(* resumer gets false and a message, or to a finalizer, whose error is     *)
(* ignored (Lua 5.4 and 5.5); without either it ends the execution, and    *)
(* execute truncates active_roots.  No error is special: a coroutine that  *)
(* exhausts the budget leaves its resumer none.  What pcall and xpcall     *)
(* catch is the subject of ProtectedCalls.                                 *)
(***************************************************************************)
RunsFinalizer(k) == acts[k].wait = "finalizer"

Catching == {k \in 2 .. Len(acts) : acts[k].co \/ RunsFinalizer(k - 1)}

End(reason) ==
  /\ outcome' = reason
  /\ acts' = << >> /\ roots' = << >> /\ parked' = << >>
  /\ UNCHANGED <<main, heap, next, global>>

Told(resumer) == [resumer EXCEPT !.wait = "returned", !.got = <<Boolean(FALSE), Message>>, !.held = {}]

LeftFailing(below) ==
  [SubSeq(acts, 1, below) EXCEPT ![below] = IF RunsFinalizer(below) THEN @ ELSE Told(@)]

(* Mutant: a failure leaves the entries of the frames it ends. *)
LeaveFailingUntruncated(failing) ==
  /\ acts' = LeftFailing(failing - 1)
  /\ UNCHANGED <<main, roots, heap, next, global, parked, outcome>>

LeaveFailing(failing) ==
  /\ acts' = LeftFailing(failing - 1)
  /\ roots' = RootsLeft(acts[failing], roots, ~RunsFinalizer(failing - 1))
  /\ UNCHANGED <<main, heap, next, global, parked, outcome>>

Fail(reason) == IF Catching = {} THEN End(reason) ELSE LeaveFailing(Max(Catching))

(***************************************************************************)
(* An operation met a reclaimed object: what NeededValuesSurvive denies.   *)
(***************************************************************************)
FailStale == End("StaleHandle")

InstructionLimit ==
  /\ Running
  /\ Top.wait = "none"
  /\ remaining = 0
  /\ Fail("InstructionLimit")
  /\ UNCHANGED remaining

-----------------------------------------------------------------------------
(***************************************************************************)
(* Returns.  apply_blu_return is repeated while the caller was itself      *)
(* returning (ReturnPrefix): its prefix goes before the values.  Every     *)
(* caller that is left pops one entry of active_roots, except when a       *)
(* resumption returns at once (pops FALSE).                                *)
(***************************************************************************)
LeaveLoop(a, values, rts) ==
  LET below == Len(acts) - 1
      outer == acts[below]
      ended == RunsFinalizer(below) IN
  /\ IF below = 0 THEN outcome' = "done" /\ acts' = << >>
     ELSE /\ UNCHANGED outcome
          /\ acts' = [SubSeq(acts, 1, below) EXCEPT ![below] =
                        IF ended THEN outer
                        ELSE [outer EXCEPT !.wait = "returned", !.held = {},
                                           !.got = IF a.co THEN <<True>> \o values ELSE values]]
  /\ roots' = RootsLeft(a, rts, below # 0 /\ ~ended)
  /\ UNCHANGED <<main, heap, next, global, parked>>

(***************************************************************************)
(* Table contents from index start on; set_blu_table_list and table writes.*)
(***************************************************************************)
Put(items, start, values) ==
  [k \in 1 .. Max({Len(items), start - 1 + Len(values)}) |->
     IF k >= start /\ k < start + Len(values) THEN values[k - start + 1] ELSE Nth(items, k)]

SetTableList(h, t, start, values) == [h EXCEPT ![t].refs = Put(@, start, values)]

ApplyReturn(a, k, values, rts) ==
  LET c == a.callers[k]
      f == RefreshOpenUpvalues(heap, c.frame)
      back(g, dyn) == [a EXCEPT !.frame = g, !.callers = SubSeq(@, 1, k - 1), !.dyn = dyn]
      continue(b, h) ==
        /\ acts' = WithTop(b)
        /\ heap' = h /\ roots' = rts
        /\ UNCHANGED <<main, next, global, parked, outcome>>
      done(g, dyn, h) == continue(back(g, dyn), h)
      o == c.result.o
      n == c.result.n IN
  CASE c.result.out = "fixed" -> done(SetRegisters(f, o, n, values), << >>, SetCells(heap, f, o, n, values))
    [] c.result.out = "truthy" ->
         LET v == <<Boolean(IsTruthy(Nth(values, 1)))>>
         IN done(SetRegisters(f, o, 1, v), << >>, SetCells(heap, f, o, 1, v))
    [] c.result.out = "all"   -> done(f, values, heap)
    [] c.result.out = "list"  ->
         continue([back([f EXCEPT !.pc = @ - 1], << >>) EXCEPT !.wait = "filling", !.got = values, !.into = o], heap)

ReturnValues(a, values, pops) ==
  LET n == Len(a.callers)
      k == Max({0} \cup {j \in 1 .. n : a.callers[j].result.out # "prefix"})
      prefix(c) == RegisterSpan(RefreshOpenUpvalues(heap, c.frame), c.result.o, c.result.n)
      all == FlattenSeq([j \in 1 .. n - k |-> prefix(a.callers[k + j])]) \o values
      rts(left) == IF pops THEN DropLast(roots, left) ELSE roots
  IN IF k = 0 THEN LeaveLoop(a, all, rts(n)) ELSE ApplyReturn(a, k, all, rts(n - k + 1))

Extra(i) ==
  CASE i.extra = "varargs" -> F.varargs
    [] i.extra = "dynamic" -> Top.dyn
    [] i.extra = "none"    -> << >>

DynAfter(i) == IF i.extra = "dynamic" THEN << >> ELSE Top.dyn

ReturnStep ==
  /\ At({"Return"})
  /\ ReturnValues([Top EXCEPT !.dyn = DynAfter(I)], RegisterSpan(F, I.o, I.n) \o Extra(I), TRUE)

-----------------------------------------------------------------------------
(***************************************************************************)
(* Collections and finalizers.  A table's meta is the function its         *)
(* metatable names, fin whether that is still to be called as a finalizer. *)
(***************************************************************************)
TableObject(items) == [refs |-> items, meta |-> 0, fin |-> FALSE, proto |-> "table"]
ClosureObject(proto, cells) == [refs |-> cells, meta |-> 0, fin |-> FALSE, proto |-> proto]
CellObject(v) == [refs |-> <<v>>, meta |-> 0, fin |-> FALSE, proto |-> "cell"]

Finalizing == \E k \in DOMAIN acts : RunsFinalizer(k)

(***************************************************************************)
(* own are the roots of the collecting instruction, a the innermost loop,  *)
(* which waits for the finalizers and then goes on with then.  No          *)
(* collection starts while another one runs finalizers (gc_collecting).    *)
(* The order of the finalizers is the subject of Heap; here it is any.     *)
(***************************************************************************)
Collect(own, a, then) ==
  LET live == Reachable(heap, OtherRoots \cup own)
      dying == {x \in DOMAIN heap \ live : heap[x].fin}
      kept == Reachable(heap, OtherRoots \cup own \cup dying) IN
  /\ heap' = IF Finalizing THEN heap
             ELSE [x \in kept |-> IF x \in dying THEN [heap[x] EXCEPT !.fin = FALSE] ELSE heap[x]]
  /\ acts' = WithTop([a EXCEPT !.wait = "finalizer", !.after = then,
                              !.due = IF Finalizing THEN {} ELSE dying, !.saved = remaining'])
  /\ UNCHANGED <<main, roots, next, global, parked, outcome>>

Allocating == {"NewTable", "Closure", "Concatenate", "SetTable", "SetListVarargs"}

AllocationCollects ==
  /\ Running
  /\ Top.wait = "none"
  /\ I.op \in Allocating
  /\ remaining > 0
  /\ ~F.collected
  /\ ~Finalizing
  /\ UNCHANGED remaining
  /\ Collect(FrameRootsAt(F), [Top EXCEPT !.frame.collected = TRUE], "none")

(***************************************************************************)
(* Writing results into a table may collect, too: the roots are then those *)
(* of the frame at its next instruction, the table and the results.  (Each *)
(* written value may; here one of them does.)                              *)
(***************************************************************************)
Delivering == Top.wait \in {"returned", "resumed", "filling"} /\ I.out = "list"

DeliveryCollects ==
  /\ Running
  /\ Delivering
  /\ Top.got # << >>
  /\ ~F.collected
  /\ ~Finalizing
  /\ UNCHANGED remaining
  /\ Collect(FrameHandles(F, LiveRegisterValues(F, F.pc + 1)) \cup {Top.into} \cup Handles(ToSet(Top.got)),
             [Top EXCEPT !.frame.collected = TRUE], Top.wait)

(***************************************************************************)
(* Every finalizer has the whole instruction limit to itself, and counts   *)
(* its depth from the frames there are; one beyond the call limit fails at *)
(* once, which is ignored as all its errors are.                           *)
(***************************************************************************)
RunFinalizer ==
  /\ Running
  /\ Top.wait = "finalizer"
  /\ \E x \in Top.due :
       LET fn == heap[x].meta IN
       IF FrameCount + 1 > CallLimit
       THEN /\ acts' = WithTop([Top EXCEPT !.due = @ \ {x}])
            /\ UNCHANGED <<main, roots, heap, next, global, parked, remaining, outcome>>
       ELSE /\ acts' = Append(WithTop([Top EXCEPT !.due = @ \ {x}, !.frame.blind = TRUE]),
                              NewLoop(NewFrame(fn, heap[fn].proto, <<<<"table", x>>>>), Len(roots),
                                      FrameCount + 1, FALSE))
            /\ roots' = Append(roots, {x, fn})
            /\ remaining' = Budget
            /\ UNCHANGED <<main, heap, next, global, parked, outcome>>

FinishCollection ==
  /\ Running
  /\ Top.wait = "finalizer"
  /\ Top.due = {}
  /\ acts' = WithTop([Top EXCEPT !.wait = Top.after, !.held = {}, !.after = "none", !.saved = 0])
  /\ remaining' = Top.saved
  /\ UNCHANGED <<main, roots, heap, next, global, parked, outcome>>

-----------------------------------------------------------------------------
(***************************************************************************)
(* Instructions that stay in the frame.  set_blu_register writes through   *)
(* to the cell of a captured register.                                     *)
(***************************************************************************)
Assign(f, h, o, n, values) ==
  /\ acts' = WithTop([Top EXCEPT !.frame = Advance(SetRegisters(f, o, n, values))])
  /\ heap' = SetCells(h, f, o, n, values)
  /\ UNCHANGED <<main, roots, parked, outcome>>

LoadStep ==
  /\ At({"LoadConstant", "LoadGlobal"})
  /\ Assign(F, heap, I.d, 1, <<IF I.v = Global THEN global ELSE I.v>>)
  /\ UNCHANGED <<next, global>>

StoreGlobalStep ==
  /\ At({"StoreGlobal"})
  /\ Assign(F, heap, 0, 0, << >>)
  /\ global' = F.regs[I.s]
  /\ UNCHANGED next

MoveStep ==
  /\ At({"Move"})
  /\ Assign(F, heap, I.d, 1, <<F.regs[I.s]>>)
  /\ UNCHANGED <<next, global>>

VarargsStep ==
  /\ At({"Varargs"})
  /\ Assign(F, heap, I.d, I.n, F.varargs)
  /\ UNCHANGED <<next, global>>

NewTableStep ==
  /\ At({"NewTable"})
  /\ Assign(RefreshOpenUpvalues(heap, F), heap @@ (next :> TableObject(<< >>)), I.d, 1, <<<<"table", next>>>>)
  /\ next' = next + 1
  /\ UNCHANGED global

(***************************************************************************)
(* A closure gets the cell of every register it captures: the open one, or *)
(* a new one with the register's value.                                    *)
(***************************************************************************)
NewClosureStep ==
  LET new == {r \in I.caps : F.open[r] = 0}
      open == [r \in Registers |->
                 IF r \in new THEN next + Cardinality({q \in new : q <= r}) ELSE F.open[r]]
      caps == SetToSortSeq(I.caps, <)
      closure == ClosureObject(I.child, [j \in DOMAIN caps |-> <<"cell", open[caps[j]]>>])
      cells == [x \in {open[r] : r \in new} |-> CellObject(F.regs[CHOOSE r \in new : open[r] = x])] IN
  /\ At({"Closure"})
  /\ Assign([F EXCEPT !.open = open], heap @@ cells @@ (next :> closure), I.d, 1, <<<<"closure", next>>>>)
  /\ next' = next + 1 + Cardinality(new)
  /\ UNCHANGED global

UpvalueCell == heap[F.fn].refs[1][2]

UpvalueStep ==
  /\ At({"GetUpvalue", "SetUpvalue"})
  /\ IF F.fn = 0 THEN Fail("MissingClosure")
     ELSE IF UpvalueCell \notin DOMAIN heap THEN FailStale
     ELSE /\ IF I.op = "GetUpvalue"
             THEN Assign(F, heap, I.d, 1, heap[UpvalueCell].refs)
             ELSE Assign(F, [heap EXCEPT ![UpvalueCell].refs = <<F.regs[I.s]>>], 0, 0, << >>)
          /\ UNCHANGED <<next, global>>

CloseStep ==
  LET f == RefreshOpenUpvalues(heap, F) IN
  /\ At({"Close"})
  /\ Assign([f EXCEPT !.open = [r \in Registers |-> IF r < I.from THEN @[r] ELSE 0]], heap, 0, 0, << >>)
  /\ UNCHANGED <<next, global>>

JumpStep ==
  /\ At({"Jump", "JumpIf"})
  /\ \E to \in Targets(Code(F.proto), F.pc) :
       acts' = WithTop([Top EXCEPT !.frame = [Advance(F) EXCEPT !.pc = to]])
  /\ UNCHANGED <<main, roots, heap, next, global, parked, outcome>>

SetListVarargsStep ==
  LET t == F.regs[I.t] IN
  /\ At({"SetListVarargs"})
  /\ IF t[1] # "table" THEN Fail("Type")
     ELSE IF t[2] \notin DOMAIN heap THEN FailStale
     ELSE /\ Assign(F, SetTableList(heap, t[2], Max({1, I.start}), F.varargs), 0, 0, << >>)
          /\ UNCHANGED <<next, global>>

-----------------------------------------------------------------------------
(***************************************************************************)
(* Calls.                                                                  *)
(***************************************************************************)
EnterGuest(a, fn, args, result) ==
  LET c == [frame |-> Advance(F), result |-> result] IN
  IF Depth(a) >= CallLimit THEN Fail("CallLimit")
  ELSE IF fn \notin DOMAIN heap THEN FailStale
  ELSE /\ acts' = WithTop([a EXCEPT !.frame = NewFrame(fn, heap[fn].proto, args),
                                    !.callers = Append(@, c)])
       /\ roots' = Append(roots, CallerRoots(c))
       /\ UNCHANGED <<main, heap, next, global, parked, outcome>>

TailCall(a, fn, args) ==
  IF fn \notin DOMAIN heap THEN FailStale
  ELSE /\ acts' = WithTop([a EXCEPT !.frame = NewFrame(fn, heap[fn].proto, args), !.tail = @ + 1])
       /\ UNCHANGED <<main, roots, heap, next, global, parked, outcome>>

(***************************************************************************)
(* Table accesses and operators: on plain values at once, else through the *)
(* metamethod of an operand.  The programs use numbers as table keys.      *)
(***************************************************************************)
Stale(values) == ~(Handles(values) \subseteq DOMAIN heap)

Metas(values) == {heap[x].meta : x \in Handles(values)} \ {0}

GetTableStep ==
  LET t == F.regs[I.s]
      key == F.regs[I.k]
      raw == Nth(heap[t[2]].refs, key[2]) IN
  /\ At({"GetTable"})
  /\ key[1] = "num"
  /\ IF t[1] # "table" THEN Fail("Type")
     ELSE IF Stale({t}) THEN FailStale
     ELSE IF raw = Nil /\ Metas({t}) # {}
          THEN EnterGuest(Top, heap[t[2]].meta, <<t, key>>, [out |-> "fixed", o |-> I.d, n |-> 1])
     ELSE Assign(F, heap, I.d, 1, <<raw>>) /\ UNCHANGED <<next, global>>

SetTableStep ==
  LET t == F.regs[I.t]
      key == F.regs[I.k]
      v == F.regs[I.s] IN
  /\ At({"SetTable"})
  /\ key[1] = "num"
  /\ IF t[1] # "table" THEN Fail("Type")
     ELSE IF Stale({t}) THEN FailStale
     ELSE IF Nth(heap[t[2]].refs, key[2]) = Nil /\ Metas({t}) # {}
          THEN EnterGuest(Top, heap[t[2]].meta, <<t, key, v>>, [out |-> "fixed", o |-> 0, n |-> 0])
     ELSE Assign(F, SetTableList(heap, t[2], key[2], <<v>>), 0, 0, << >>) /\ UNCHANGED <<next, global>>

(***************************************************************************)
(* What an operator does to operands it has no raw result for.             *)
(***************************************************************************)
CallMetamethod(operands, out) ==
  LET with == {v \in ToSet(operands) : v[1] = "table" /\ heap[v[2]].meta # 0} IN
  IF Stale(ToSet(operands)) THEN FailStale
  ELSE IF with = {} THEN Fail("Type")
  ELSE LET v == IF operands[1] \in with THEN operands[1] ELSE operands[2]
       IN EnterGuest(Top, heap[v[2]].meta, operands, [out |-> out, o |-> I.d, n |-> 1])

AssignResult(v) == Assign(F, heap, I.d, 1, <<v>>) /\ UNCHANGED <<next, global>>

Operands == IF I.op \in Unaries THEN <<F.regs[I.s], F.regs[I.s]>> ELSE <<F.regs[I.s], F.regs[I.k]>>

Numeric(operands) == \A v \in ToSet(operands) : v[1] = "num"

ArithmeticStep ==
  /\ At({"Arithmetic"})
  /\ IF Numeric(Operands) THEN AssignResult(Operands[1]) ELSE CallMetamethod(Operands, "fixed")

BitwiseStep ==
  /\ At({"Bitwise"})
  /\ IF Numeric(Operands) THEN AssignResult(Operands[2]) ELSE CallMetamethod(Operands, "fixed")

NegateStep ==
  /\ At({"Negate"})
  /\ IF Numeric(Operands) THEN AssignResult(Number(-Operands[1][2])) ELSE CallMetamethod(Operands, "fixed")

ConcatenateStep ==
  /\ At({"Concatenate"})
  /\ IF Numeric(Operands) THEN AssignResult(Operands[1]) ELSE CallMetamethod(Operands, "fixed")

LengthStep ==
  LET v == F.regs[I.s] IN
  /\ At({"Length"})
  /\ IF v[1] = "table" /\ ~Stale({v}) /\ Metas({v}) = {} THEN AssignResult(Number(Len(heap[v[2]].refs)))
     ELSE CallMetamethod(Operands, "fixed")

(***************************************************************************)
(* Equality asks a metamethod of two different tables only, and tables     *)
(* without one are different.                                              *)
(***************************************************************************)
CompareStep ==
  LET l == Operands[1]
      r == Operands[2]
      tables == l[1] = "table" /\ r[1] = "table" IN
  /\ At({"Compare"})
  /\ IF Stale({l, r}) THEN FailStale
     ELSE IF I.kind = "eq" /\ (l = r \/ ~tables \/ Metas({l, r}) = {}) THEN AssignResult(Boolean(l = r))
     ELSE IF I.kind # "eq" /\ Numeric(Operands)
          THEN AssignResult(Boolean(IF I.kind = "lt" THEN l[2] < r[2] ELSE l[2] <= r[2]))
     ELSE CallMetamethod(Operands, "truthy")

(***************************************************************************)
(* Native functions.  The call holds the live values of the frame and the  *)
(* arguments, in active_roots and in native_contexts; b is the loop inside *)
(* the call, d the depth it passes on.  A native function that calls back  *)
(* pushes them again.                                                      *)
(***************************************************************************)
Held(args) == FrameRootsAt(F) \cup Handles(ToSet(args))

StartLoop(b, fn, args, depth, co) ==
  IF depth > CallLimit /\ ~co THEN Fail("CallLimit")
  ELSE IF fn \notin DOMAIN heap THEN FailStale
  ELSE /\ acts' = Append(WithTop(b), NewLoop(NewFrame(fn, heap[fn].proto, args), Len(roots) + 1, depth, co))
       /\ roots' = roots \o <<b.held, b.held>>
       /\ parked' = IF co THEN << >> ELSE parked
       /\ UNCHANGED <<main, heap, next, global, outcome>>

(***************************************************************************)
(* A yield truncates active_roots to where its loop began, and the resumer *)
(* pops the entry of its native call.                                      *)
(***************************************************************************)
YieldNative(b, args) ==
  LET below == Len(acts) - 1 IN
  IF ~b.co THEN Fail("Yield")
  ELSE /\ parked' = <<[b EXCEPT !.held = {}, !.tail = 0]>>
       /\ acts' = [SubSeq(acts, 1, below) EXCEPT
                     ![below] = [@ EXCEPT !.wait = "returned", !.held = {}, !.got = <<True>> \o args]]
       /\ roots' = RootsLeft(b, roots, TRUE)
       /\ UNCHANGED <<main, heap, next, global, outcome>>

ResumeParked(b, args) ==
  LET p == parked[1] IN
  /\ acts' = Append(WithTop(b),
                    [p EXCEPT !.frame = RefreshOpenUpvalues(heap, @), !.wait = "resumed", !.got = args,
                              !.resumed = TRUE, !.base = Len(roots) + 1])
  /\ roots' = roots \o <<b.held, ContinuationRoots(p)>>
  /\ parked' = << >>
  /\ UNCHANGED <<main, heap, next, global, outcome>>

ResumeDead(b) ==
  /\ acts' = WithTop(Told(b))
  /\ UNCHANGED <<main, roots, heap, next, global, parked, outcome>>

SetMetatableNative(b, args) ==
  LET t == Nth(args, 1)
      fn == Nth(args, 2) IN
  IF t[1] # "table" \/ fn[1] # "closure" THEN Fail("Type")
  ELSE IF Stale({t}) THEN FailStale
  ELSE /\ heap' = [heap EXCEPT ![t[2]].meta = fn[2], ![t[2]].fin = TRUE]
       /\ acts' = WithTop([b EXCEPT !.wait = "returned", !.got = <<t>>, !.held = {}])
       /\ UNCHANGED <<main, roots, next, global, parked, outcome>>

CallNative(f, b, args, d) ==
  CASE f = CallBack       -> IF Nth(args, 1)[1] # "closure" THEN Fail("Type")
                             ELSE StartLoop(b, args[1][2], Tail(args), d + 1, FALSE)
    [] f = Yield          -> YieldNative(b, args)
    [] f = Resume         -> IF Nth(args, 1)[1] = "closure"
                             THEN StartLoop(b, args[1][2], Tail(args), d + 1, TRUE)
                             ELSE IF parked = << >> THEN ResumeDead(b) ELSE ResumeParked(b, args)
    [] f = CollectGarbage -> Collect(b.held, [b EXCEPT !.got = <<True>>], "returned")
    [] f = SetMetatable   -> SetMetatableNative(b, args)

(***************************************************************************)
(* A table with a metatable is called through its __call                   *)
(* (resolve_blu_callable).                                                 *)
(***************************************************************************)
Called(v) ==
  IF v[1] = "table" /\ ~Stale({v}) /\ Metas({v}) # {} THEN <<"closure", heap[v[2]].meta>> ELSE v

CallArguments(i) ==
  LET v == F.regs[i.f]
      given == RegisterSpan(F, i.a, i.na) \o Extra(i)
  IN IF Called(v) # v THEN <<v>> \o given ELSE given

Inside(a, args, into) == [a EXCEPT !.wait = "native", !.held = Held(args), !.into = into]

Dispatch(a, f, args, result) ==
  CASE f[1] = "closure" -> EnterGuest(a, f[2], args, result)
    [] f[1] = "native"  -> CallNative(f, Inside(a, args, result.o), args, Depth(a))
    [] OTHER            -> Fail("Type")

CallFixed(a, f, args) == Dispatch(a, f, args, [out |-> "fixed", o |-> I.o, n |-> I.n])

CallAllResults(a, f, args) == Dispatch(a, f, args, [out |-> "all", o |-> 0, n |-> 0])

SetListCall(a, f, args) ==
  LET t == F.regs[I.o] IN
  IF t[1] # "table" THEN Fail("Type") ELSE Dispatch(a, f, args, [out |-> "list", o |-> t[2], n |-> I.n])

ReturnCallPrefix(a, f, args) == Dispatch(a, f, args, [out |-> "prefix", o |-> I.o, n |-> I.n])

(***************************************************************************)
(* A native tail call outside a coroutine takes one level more.            *)
(***************************************************************************)
ReturnCall(a, f, args) ==
  LET inCoroutine == \E k \in DOMAIN acts : acts[k].co IN
  CASE a.tail >= TailLimit -> Fail("CallLimit")
    [] a.tail < TailLimit /\ f[1] = "closure" -> TailCall(a, f[2], args)
    [] a.tail < TailLimit /\ f[1] = "native"  ->
         CallNative(f, [Inside(a, args, 0) EXCEPT !.tail = @ + 1], args,
                    Depth(a) + IF inCoroutine THEN 0 ELSE 1)
    [] a.tail < TailLimit /\ f[1] \notin {"closure", "native"} -> Fail("Type")

CallStep ==
  LET a == [Top EXCEPT !.dyn = DynAfter(I)]
      f == Called(F.regs[I.f])
      args == CallArguments(I) IN
  /\ At({"Call"})
  /\ CASE I.out = "fixed"  -> CallFixed(a, f, args)
       [] I.out = "all"    -> CallAllResults(a, f, args)
       [] I.out = "list"   -> SetListCall(a, f, args)
       [] I.out = "prefix" -> ReturnCallPrefix(a, f, args)
       [] I.out = "return" -> ReturnCall(a, f, args)

(***************************************************************************)
(* What the loop does with the results of a native call.  Registers are    *)
(* refreshed after it, but not where they go to a table.  A resumption has *)
(* refreshed them before, and so has the return of a guest call whose      *)
(* results go to a table.                                                  *)
(***************************************************************************)
FinishNative ==
  LET a == [Top EXCEPT !.wait = "none", !.got = << >>, !.into = 0]
      v == Top.got
      f == RefreshOpenUpvalues(heap, F)
      pops == Top.wait = "returned" IN
  /\ Running
  /\ Top.wait \in {"returned", "resumed", "filling"}
  /\ UNCHANGED remaining
  /\ CASE I.out = "fixed"  ->
            /\ acts' = WithTop([a EXCEPT !.frame = Advance(SetRegisters(f, I.o, I.n, v))])
            /\ heap' = SetCells(heap, f, I.o, I.n, v)
            /\ UNCHANGED <<main, roots, next, global, parked, outcome>>
       [] I.out = "all"    ->
            /\ acts' = WithTop([a EXCEPT !.frame = Advance(f), !.dyn = v])
            /\ UNCHANGED <<main, roots, heap, next, global, parked, outcome>>
       [] I.out = "list"   ->
            IF Top.into \notin DOMAIN heap THEN FailStale
            ELSE /\ acts' = WithTop([a EXCEPT !.frame = [Advance(F) EXCEPT !.blind = F.blind \/ pops]])
                 /\ heap' = SetTableList(heap, Top.into, I.n, v)
                 /\ UNCHANGED <<main, roots, next, global, parked, outcome>>
       [] I.out = "return" -> ReturnValues([a EXCEPT !.tail = 0], v, pops)
       [] I.out = "prefix" -> ReturnValues([a EXCEPT !.tail = 0], RegisterSpan(F, I.o, I.n) \o v, pops)

-----------------------------------------------------------------------------
Init ==
  /\ main \in {[code |-> code, live |-> LiveRegisterMasks(code)] : code \in Mains}
  /\ acts = <<NewLoop(NewFrame(0, "main", << >>), 0, 0, FALSE)>>
  /\ roots = << >>
  /\ heap = << >> /\ next = 1
  /\ global = Nil
  /\ parked = << >>
  /\ remaining = Budget
  /\ outcome = "running"

Instructions ==
  \/ LoadStep \/ StoreGlobalStep \/ MoveStep \/ VarargsStep \/ NewTableStep \/ NewClosureStep
  \/ UpvalueStep \/ CloseStep \/ JumpStep \/ SetListVarargsStep
  \/ GetTableStep \/ SetTableStep \/ ArithmeticStep \/ BitwiseStep \/ NegateStep \/ LengthStep
  \/ ConcatenateStep \/ CompareStep \/ CallStep \/ ReturnStep

Collections == AllocationCollects \/ DeliveryCollects \/ RunFinalizer \/ FinishCollection

Next == Instructions \/ FinishNative \/ InstructionLimit \/ Collections

(***************************************************************************)
(* The interpreter is one thread that always takes its next step.          *)
(***************************************************************************)
Spec == Init /\ [][Next]_vars /\ WF_vars(Next)

-----------------------------------------------------------------------------
(***************************************************************************)
(* What a frame will still read.  A frame inside a call has its operands   *)
(* read already: what counts is live after the instruction and not written *)
(* by the call.                                                            *)
(***************************************************************************)
Waiting(f, pc) ==
  Live(f.proto, pc + 1) \ InstructionWrites(Code(f.proto)[pc])

Needed(f, r) == {f.open[q] : q \in Registers} \cup Handles({f.regs[q] : q \in r} \cup ToSet(f.varargs))

CallersNeed(a) == UNION {Needed(c.frame, Waiting(c.frame, c.frame.pc - 1)) : c \in ToSet(a.callers)}

LoopNeeds(a) ==
  CallersNeed(a)
  \cup Needed(a.frame, IF a.wait = "none" \/ (a.wait = "finalizer" /\ a.after = "none")
                       THEN Live(a.frame.proto, a.frame.pc)
                       ELSE Waiting(a.frame, a.frame.pc))
  \cup Handles(ToSet(a.dyn) \cup ToSet(a.got))

(***************************************************************************)
(* Whatever code runs in between and whenever it collects, the values that *)
(* frames will still read stay alive: the registers live at the pc they    *)
(* continue at, their varargs, their captured variables, results on their  *)
(* way; and no operation meets a reclaimed object.                         *)
(***************************************************************************)
NeededValuesSurvive ==
  /\ outcome # "StaleHandle"
  /\ \A a \in ToSet(acts) \cup ToSet(parked) : LoopNeeds(a) \ {0} \subseteq DOMAIN heap

(***************************************************************************)
(* Its part about callers alone, which is what their snapshots are for:    *)
(* "Suspended and nested Blu frames keep their caller snapshots in         *)
(* `active_roots` as soon as the caller is pushed" (vm.rs).                *)
(***************************************************************************)
CallersSurvive == \A a \in ToSet(acts) : CallersNeed(a) \ {0} \subseteq DOMAIN heap

(***************************************************************************)
(* The values a frame will return before those of the call it is in:       *)
(* "preceding fixed return expressions are retained in a GC-rooted bounded *)
(* caller continuation" (docs/language-contract.md).                       *)
(***************************************************************************)
PrefixesSurvive ==
  \A a \in ToSet(acts) : \A c \in ToSet(a.callers) :
    c.result.out = "prefix" =>
      Handles(ToSet(RegisterSpan(c.frame, c.result.o, c.result.n))) \subseteq DOMAIN heap

(***************************************************************************)
(* A captured variable has one value: the register of the running frame    *)
(* agrees with the cell its closures write, unless a finalizer ran inside  *)
(* an instruction of the frame other than NewTable, or a native call       *)
(* filled a table.                                                         *)
(***************************************************************************)
Mirrors(f) == \A r \in Registers : f.open[r] \in DOMAIN heap => f.regs[r] = heap[f.open[r]].refs[1]

RegistersMirrorCells == Running /\ Top.wait = "none" /\ ~F.blind => Mirrors(F)

(***************************************************************************)
(* active_roots has exactly one entry per waiting caller, and two per      *)
(* nested loop (one for a finalizer); nothing is left at the end.          *)
(***************************************************************************)
RootsMatchFrames ==
  /\ outcome # "running" => roots = << >>
  /\ Running => LET a == Top IN Len(roots) = a.base + Len(a.callers) + (IF Len(acts) = 1 THEN 0 ELSE 1)

(***************************************************************************)
(* Rust recursion stays within the call limit whatever mixture of guest    *)
(* calls, tail calls, callbacks, finalizers and resumptions nests.         *)
(***************************************************************************)
FramesWithinLimit == FrameCount <= CallLimit + 1

(***************************************************************************)
(* What a frame is charged with, a root entry and a place under the call   *)
(* limit, is given back exactly when the frame is left.                    *)
(***************************************************************************)
FramesAccounted == RootsMatchFrames /\ FramesWithinLimit

(***************************************************************************)
(* Calls, callbacks, finalizers and resumptions leave the frame they       *)
(* return to as it must be, whether they end or fail: its registers agree  *)
(* with the cells that closures wrote meanwhile, its roots and its depth   *)
(* are its own.                                                            *)
(***************************************************************************)
FramesRestored == RegistersMirrorCells /\ FramesAccounted

(***************************************************************************)
(* Every execution ends: guest code that loops, by its instruction budget. *)
(***************************************************************************)
ExecutionEnds == <>(outcome # "running")

=============================================================================
