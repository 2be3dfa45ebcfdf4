------------------------------ MODULE MCFrames ------------------------------
(***************************************************************************)
(* Programs: a main function puts a table in register 0, a closure of some *)
(* prototype in 1 that captures register 0 or nothing, a native function   *)
(* in 2, a second table in 3 and a number in 4, takes any two steps of an  *)
(* alphabet, and ends in some way.  Only what the validator accepts runs.  *)
(***************************************************************************)
EXTENDS Frames

V == INSTANCE Validator WITH Families <- {}, proto <- << >>, verdict <- "", pc <- 0, written <- {},
                             dynamic <- FALSE

Proto(params, code) == [params |-> params, vararg |-> FALSE, code |-> code]

MCProtos ==
  [alloc   |-> Proto(0, <<NewTable(0), Return("none", 0, 1)>>),
   spread  |-> [Proto(0, <<NewTable(0), SetListVarargs(0, 1), Varargs(1, 1), Return("varargs", 0, 2)>>)
                  EXCEPT !.vararg = TRUE],
   setter  |-> Proto(1, <<NewTable(1), SetUpvalue(1), Return("none", 0, 1)>>),
   rec     |-> Proto(0, <<GetUpvalue(0), Call(0, 1, 0, "none", "fixed", 0, 1), Return("none", 0, 1)>>),
   spin    |-> Proto(0, <<GetUpvalue(0), Call(0, 1, 0, "none", "return", 0, 0)>>),
   again   |-> Proto(0, <<LoadGlobal(0, CallBack), LoadGlobal(1, Global),
                          Call(0, 1, 1, "none", "fixed", 0, 1), Return("none", 0, 1)>>),
   yielder |-> Proto(1, <<LoadGlobal(1, Yield), NewTable(2), Call(1, 2, 1, "none", "fixed", 1, 1),
                          NewTable(2), Return("none", 0, 2)>>),
   last    |-> Proto(0, <<LoadGlobal(0, Yield), NewTable(1), Move(2, 1), Call(0, 2, 1, "none", "return", 0, 0)>>),
   middle  |-> Proto(0, <<NewTable(0), Closure(1, "yielder", {}), Call(1, 0, 1, "none", "fixed", 1, 1),
                          NewTable(2), Return("none", 0, 1)>>),
   busy    |-> Proto(0, <<Jump(1)>>),
   broken  |-> Proto(1, <<NewTable(1), Call(1, 0, 1, "none", "fixed", 1, 1), Return("none", 0, 1)>>),
   faulty  |-> Proto(0, <<LoadGlobal(1, Yield), Call(1, 0, 0, "none", "fixed", 1, 1), Closure(1, "broken", {}),
                          Call(1, 0, 1, "none", "fixed", 1, 1), Return("none", 0, 1)>>),
   nest    |-> Proto(0, <<Closure(0, "alloc", {}), Call(0, 0, 0, "none", "fixed", 0, 1), Return("none", 0, 1)>>),
   breaker |-> Proto(0, <<NewTable(1), SetUpvalue(1), Call(1, 0, 1, "none", "fixed", 1, 1), Return("none", 0, 1)>>),
   outer   |-> Proto(0, <<NewTable(0), Closure(1, "middle", {}), Call(1, 0, 0, "none", "fixed", 1, 1),
                          Return("none", 0, 1)>>)]

Capturing == {"setter", "rec", "spin", "breaker"}

Setup(p, caps, native) ==
  <<NewTable(0), Closure(1, p, caps), LoadGlobal(2, native), NewTable(3), LoadConstant(4, Number(1))>>

First ==
  {Call(1, 3, 1, "none", "fixed", 3, 1), Call(1, 3, 1, "none", "all", 0, 0),
   Call(2, 1, 1, "none", "fixed", 2, 1), Call(2, 0, 2, "none", "fixed", 2, 1),
   Call(2, 1, 1, "none", "list", 3, 1), NewTable(0), StoreGlobal(1), Closure(3, "setter", {0, 3}),
   SetTable(0, 4, 3), Close(0), JumpIf(4, 8)}

Second ==
  {Call(1, 0, 1, "none", "fixed", 0, 2), Call(1, 3, 1, "dynamic", "fixed", 3, 2),
   Call(1, 3, 1, "none", "fixed", 3, 1), Call(2, 1, 1, "none", "fixed", 2, 1),
   GetTable(3, 0, 4), SetTable(0, 4, 3), Binary("Concatenate", 3, 0, 3), NewTable(0), LoadGlobal(2, CollectGarbage),
   Closure(3, "setter", {0, 3}), Jump(6)}

WithMetatable == {Call(2, 0, 2, "none", "fixed", 2, 1), NewTable(0), Move(3, 0)}

Applied ==
  {Binary(op, 3, 0, 3) : op \in {"Arithmetic", "Bitwise"}} \cup {Binary(op, 3, 4, 4) : op \in Operators \ {"Compare"}}
  \cup {Unary("Negate", 3, r) : r \in {0, 4}} \cup {Unary("Length", 3, r) : r \in {0, 4}}
  \cup {Compare(k, 3, 0, 3) : k \in {"eq", "lt"}} \cup {Compare(k, 3, 4, 4) : k \in {"lt", "le"}}

Resuming ==
  {Call(2, 1, 1, "none", "fixed", 2, 1), Call(2, 4, 1, "none", "fixed", 3, 2),
   Call(2, 4, 1, "none", "list", 3, 1), NewTable(0), LoadGlobal(2, Resume)}

Endings ==
  {Return("none", 0, 4), Return("dynamic", 3, 1), Call(2, 1, 1, "none", "prefix", 3, 1),
   Call(1, 3, 1, "none", "return", 0, 0)}

(***************************************************************************)
(* The values before a returning call, and the table a call fills: held by *)
(* a captured variable which the callee does not replace.                  *)
(***************************************************************************)
PrefixOfCaptured == Call(1, 3, 1, "none", "prefix", 0, 1)
ListOfCaptured == Call(1, 3, 1, "none", "list", 0, 1)

Accepted(codes) ==
  {code \in codes :
     V!ValidatePrototype(
       [code |-> code,
        family |-> [registers |-> 5, params |-> 0, profile |-> "Lua54",
                    features |-> {"Baseline", "FixedCalls", "ReturnCalls", "DynamicCallResults", "Varargs",
                                  "Closures", "Globals", "Tables", "ForwardBranches", "BackwardBranches"}]])}

Programs(setups, first, second, endings) ==
  {s \o <<x, y, e>> : s \in setups, x \in first, y \in second, e \in endings}

(***************************************************************************)
(* A table gets a finalizer and is dropped; then comes what may collect:   *)
(* an allocation, an operation, a call, a list of results, a coroutine.    *)
(***************************************************************************)
Finalized(p, caps) ==
  {Setup(p, caps, SetMetatable) \o <<Call(2, 0, 2, "none", "fixed", 2, 0), NewTable(0)>> \o steps :
     steps \in {<<x, e>> : x \in First \cup Second, e \in Endings}
             \cup {<<Closure(3, c, {}), LoadGlobal(2, Resume), Call(2, 3, 1, "none", out, 0, 1),
                    Return("none", 0, 4)>> :
                     c \in {"alloc", "broken"}, out \in {"fixed", "list"}}
             \cup {<<LoadGlobal(2, CallBack), Closure(3, "nest", {}), Call(2, 3, 1, "none", "list", 0, 1),
                    Return("none", 0, 4)>>,
                   <<Closure(3, "nest", {}), Call(3, 0, 0, "none", "fixed", 0, 1), Return("none", 0, 4)>>}}

MCMains ==
  Accepted(
    Programs({Setup("setter", {0}, CallBack)} \cup {Setup(p, {0}, SetMetatable) : p \in Capturing},
             First, Second, Endings \cup {PrefixOfCaptured})
    \cup Programs({Setup("setter", {0}, SetMetatable)}, WithMetatable, Applied, {Return("none", 0, 4)})
    \cup UNION {Finalized(p, {0}) : p \in Capturing}
    \cup UNION {Finalized(p, {}) : p \in {"alloc", "again", "yielder", "faulty", "busy"}}
    \cup Programs({Setup("alloc", {0}, CollectGarbage)}, First, {ListOfCaptured}, Endings)
    \cup Programs({Setup(p, {}, CallBack) : p \in {"spread", "again"}}, First, Second, Endings)
    \cup Programs({Setup(p, {}, Resume) : p \in {"alloc", "yielder", "last", "busy", "faulty"}} \cup {Setup("breaker", {0}, Resume)},
                Resuming, Resuming,
                  Endings \cup {Call(2, 4, 1, "none", "return", 0, 0)}))

(***************************************************************************)
(* A table in a register is returned before the results of a call.         *)
(***************************************************************************)
MCPrefixMains ==
  Accepted(Programs({Setup("alloc", {}, CollectGarbage)}, First, Second,
                    {Call(1, 3, 1, "none", "prefix", 3, 1)}))

(***************************************************************************)
(* A coroutine is suspended two calls deep and resumed.                    *)
(***************************************************************************)
MCNestedYieldMains ==
  Accepted({Setup("outer", {}, Resume)
            \o <<Call(2, 1, 1, "none", "fixed", 3, 1), Call(2, 4, 1, "none", "fixed", 3, 1), Return("none", 3, 1)>>})
=============================================================================
