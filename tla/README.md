# Verification of Blu

Blu is a Lua/Luau superset: a parser and compiler, an owned bytecode format with a
validator, and a virtual machine, written in Rust. This directory holds TLA+ models
of the parts whose correctness depends on long sequences of steps, on guest code
that runs in the middle of something else, or on two pieces of code that must agree.
TLC checks them on small instances; TLAPS proves the memory account, the tables, the
slots, the collector, the validator and the bookkeeping of coroutines for every value of
the constants.

## 1. Inventory

| Component | Source (`src/crates/`) | State | Operations | What makes it hard |
|---|---|---|---|---|
| Memory account | `blu-runtime/src/memory.rs` | current, peak, threshold, collections | reserve, commit, commit_replacing, drop, release, finish_collection | overflow, two limits, rollback of a half-done replacement |
| Tables | `blu-runtime/src/heap.rs` (`Table`) | array, hash, tombstones, order, capacities, flags | set, get, clear, freeze, lengths, next, weak clearing | keys move between the parts; a guest traversal runs beside the writes |
| Slot arena | `heap.rs` (`Slot`, `allocate`, `object`) | slots, generations, free list | allocate, sweep, resolve | stale handles, generations that wrap |
| Collector | `heap.rs` (`collect_*`), `vm.rs` (`collect_internal`) | marks, finalizer state, batch | mark, resurrect, clear weak references, sweep, call finalizers | ephemerons, resurrection, guest code inside a collection |
| Interpreter loop | `vm.rs` (`run_blu_v1_loop_inner`) | frames, registers, open upvalues, active_roots, budget | instructions, calls, returns, metamethods | what is rooted while something else runs; registers and cells of one variable |
| Protected calls, close values | `vm.rs` 5193–5590, 14242–15229 | activations, close_values, capture flags | pcall, xpcall, handlers, close | continuations that cross native calls; handlers that fail |
| Coroutines | `vm.rs` 24072–24912, 12544–12618 | thread states, running_thread, delivery, depth | create, wrap, resume, yield, close, status, trampoline | re-entry, chains and circles of waiting threads, failure half-way |
| Pending operations | `vm.rs` 12984–14225 | continuations of native operations | resume_blu_operation | the same function written twice, before and after a yield |
| Libraries | `vm.rs` 18295–18870, 25050–26215, 30236–31644 | iterators of gmatch | table library, patterns | shifting in place, integer edges, empty matches |
| Modules | `vm.rs` 13276–13358, 16684–16865 | loading_modules, module_cache | require, searchers, loaders | recursion, yields and errors inside a load |
| Bytecode | `blu-bytecode/src/blu.rs` | none (pure) | encode, decode, validate; string.dump in `vm.rs` | limits checked twice, flow analysis, renumbering |
| Compiler | `blu-compiler/src/owned.rs` | scopes, registers, jumps to patch | lowering | register lifetime, jump patching, captured variables |
| Parser | `blu-syntax/src` | position, diagnostics | recursive descent in six profiles | precedence, where statements end |
| Engine, packages | `blu-lang`, `blu-package` | loaded packages, admission | load, run, encode, decode | host configuration |
| Core types, conformance tool | `blu-core`, `blu-conformance` | data; child processes | – | – |

How they interact: a text is parsed, compiled to an artifact, validated, perhaps
stored and decoded again, and run. The interpreter calls the heap for each table
access and allocation; the heap reserves from the memory account before it grows
anything and reports pressure, upon which the VM gathers its roots and collects; a
collection ends in finalizers, which run in the interpreter and come back to the
heap. Native functions call back into guest code, which may yield through them.
The runtime is single-threaded: its concurrency is re-entry, guest code in the
middle of a traversal, a collection, a sort or a resume.

## 2. Modules

| Module | Kind | Stands for |
|---|---|---|
| `MemoryAccount` | operators | `MemoryAccount`, `MemoryReservation` |
| `MemoryLedger` | machine | the account with its callers: who holds how much |
| `Selection` | operators | a selection of a sequence, in order |
| `LuaTable` | operators | `Table`: what one call computes |
| `TableMap` | abstract machine | what a table promises: a mapping from keys to values |
| `TableStore` | machine | one table behind the `table_*` interface, its charges, and a traversal |
| `SlotArena` | abstract machine | generational slots and handles |
| `Heap` | machine | objects, references, collection cycle, finalizer batch |
| `Coroutines` | machine | threads, host stack of `resume_thread`, trampoline |
| `Bytecode` | operators | instructions, what they read and write, where they go, liveness masks |
| `Frames`, `MCFrames` | machine, programs | the interpreter loop: frames, roots, open upvalues, collections |
| `ProtectedCalls` | machine | pcall, xpcall, message handlers, to-be-closed values on the main thread |
| `Validation` | operators | the flow analysis of one prototype |
| `Validator`, `MCValidator` | machine, codes | a prototype that is decided and, if accepted, run |
| `ArtifactFormat`, `ArtifactDecoder`, `ArtifactValidation` | operators | encode; decode with its budget; validate |
| `Artifacts`, `MCArtifacts` | machine, artifacts | artifacts stored, damaged, loaded, dumped and run |
| `Syntax` | operators | syntax trees and their texts |
| `Parser` | operators | the parser, on lexemes |
| `Compiler` | operators | lowering of every form of statement and expression |
| `World`, `Execution` | operators, actions | what a program deals with; running compiled code |
| `Legality`, `Semantics` | reference | which trees are programs, and what they mean, from the contract and the manuals |
| `FrontEnd`, `MCFrontEnd` | machine, suites | from a text to its effects |
| `TableLibrary`, `Patterns` | operators | the table library; the pattern matcher, and its meaning as a reference |
| `Operations`, `MCOperations` | machine, scenarios | native functions with callbacks, before and after yields; require |
| `SelectionLemmas` | proofs | enumerations of finite sets, and induction without an operator parameter |
| `MemoryLedgerProofs`, `TableProofs`, `SlotArenaProofs`, `HeapProofs`, `ValidatorProofs`, `CoroutinesProofs`, `ProtectedCallsProofs` | proofs | theorems about the machines they are named after (`TableProofs`: `TableStore`) |

`LuaTable` and `Heap` select with `Selection`;
`TableStore` extends `LuaTable` and `MemoryAccount` and implements `TableMap`;
`Heap` implements `SlotArena` with the mapping at the end of `Heap`. `Artifacts`
composes the codec with `Validator`; `FrontEnd` composes `Parser`, `Compiler`,
`Validation` and `Execution` and compares them with `Legality` and `Semantics`;
`Operations` uses `TableLibrary` and `Patterns`. Definitions marked "mutant" stand
beside the definition they vary. They are used by no specification; each shows, put
in the place of the original, that a property notices the bug.

**Memory account.** An account is a record; the operators take and return it, as
the methods do. `MemoryLedger` adds what no field of the code holds: the bytes that
callers own and the open reservation, so that the counter can be compared with the
truth. No hard limit is `HardLimit = UsizeMax`.

**Tables.** `Set` follows the branches of `Table::set` in their order; each returns
the table it leaves and what it reserves and gives back. `TableSetFails` is the same
write when the growth is refused: what the code had changed before asking stays
changed. The order of the standard `HashMap` and Luau's node order are opaque: a
permutation that stays until the capacity changes. The traversal keeps the key it
passes to `next`; it is given up (`Disturbs`) when guest code adds a key, which Lua leaves
undefined, and by nothing else: clearing or overwriting any key goes on. What a write or a
collection did to the order under it is remembered (`shrunk`, `compacted`, `rehashed`) and
named by the properties that it excuses. `TableMap` allows a write of one key, emptying the
table, and forgetting what the collector found dead in a weak table: a key that gets lost
otherwise is no step of it, and `ImplementsMap` also asks that in a strong table the key
and the value be those of the call, so that a refused growth changes no read.

**Heap.** `roots` is everything the VM passes to a collection. Objects have
references, a metatable, a weak mode and entries; the split of a table in two parts
is `LuaTable`'s. One action `Collect` is the uninterruptible part of
`collect_internal`; the finalizer calls that follow are actions of their own, with
guest code between them.

**Coroutines.** `frames` is the host stack of `resume_thread` calls, each with its
trampoline. Guest code is nondeterministic and runs when no trampoline is between
two steps. Values are named by who sent them.

**Frames.** `acts` is the stack of Rust loops, each with its frame and callers;
`roots` is `active_roots`. A heap object is what it refers to. Every allocating
instruction, and the delivery of results into a table (`DeliveryCollects`), may collect
what no root reaches, and then run guest finalizers. An error leaves loop after loop up to
the run of a coroutine, whose resumer gets `false` and a message and goes on, or to a
finalizer, whose error Lua 5.4 and 5.5 ignore, so that the collecting frame goes on
(`Fail`); only without either it ends the execution. That holds for the call limit and the
instruction limit, too: a coroutine that runs out of instructions fails, and leaves its
resumer none. A program is a main function out of `MCMains` that the validator accepts.

**Protected calls.** `stack` is the stack of Rust activations and `res` the result on
its way down; guest code calls, fails, marks values and returns as it likes within
the budget. `astray` tells that an activation met something else than its driver,
`swept` holds the values that were closed while their scope was open.

**Artifacts.** Bytes have `ByteBits = 7` bits, so that four of them fit the integers
TLC computes with. A behaviour validates and encodes an artifact under limits,
possibly damages the bytes, decodes and validates them, dumps a function of what
came out, and runs code with any branch taken and collections in between.
`RejectedCodeIsWrong` compares the validator's single scan with a fixpoint.

**Front end.** The host is opaque (`World`): using one of its functions is an entry
of a log, and whether a result counts as true is asked when a branch needs it. So a
run of the compiled code can be compared with the meaning of the text, for every
answer to the first `MaxTests` questions. The suites of `MCFrontEnd` hold all short
texts over several alphabets and systematic programs for every construct.

**Operations.** A thread is a stack of guest frames and operation frames. An
operation is `direct` until its thread is suspended and `resumed` from then on, as
the code has the two written separately. What the collector keeps is what
`invoke_native_callback` and `pending_blu_operation_roots` list.

## 3. Where code and documents differ

The passing properties hold outside the cases below; how each is left out is said in
section 4. Paths are under `src/crates/` except `docs/`, which is `src/docs/`.

Shown by TLC, which refutes the property when it takes the place of those in the
configuration:

| Configuration | Property | What happens |
|---|---|---|
| `TableWalk.cfg` (`TableStore`), `MaxKey = 3`, `StringKeys = {s}`, `Values = {x}`, `HeapKeys = {}`, `HeapValues = {}`, `OrderThreshold = 9`, `WeakModes = {{}}` | `WalkVisitsOnce` | growing the array over a hole leaves the written key in the hash part as well; `pairs` returns it twice (`heap.rs:2060`) |
| `TableWalk.cfg` | `WalkContinues` | an assignment to a key of the hash part compacts it (`heap.rs:2113`), or a weak collection trims it, and the tombstone the traversal stands on is gone: `next` refuses the key. `docs/language-contract.md:921`: "preserves a valid continuation, including after collection"; `heap.rs:2095` says the same of strong tables |
| `TableWalk.cfg`, `NumberKeys = {n}` | `WalkVisitsOnce` | in an opaque order a collection that trims the hash part of a weak table during a traversal reshuffles it (`heap.rs:2459`, `2517`): a key that stays is skipped or returned twice |
| `TableWalk.cfg`, `MaxKey = 1`, `StringKeys = {a, b}`, `HeapKeys = {}`, `TablePolicies = {"Unordered"}`, `OrderThreshold = 9`, `WeakModes = {{}}` | `WalkVisitsOnceUnlessReordered` without `~walk.rehashed` | `t[1] = nil` on a key of the array inserts a tombstone into the hash part (`heap.rs:2022`), which may have to grow for it and rehashes: a traversal under way in an opaque order then goes on in the new one and skips or repeats string keys, though Lua allows clearing a field during a traversal |
| `TableContents.cfg`, `MaxKey = 4`, `WeakModes = {{"v"}}` | `ReadsSeeWrites` | growing over a hole after a weak collection trimmed the array hides hash keys behind nils |
| `TableContents.cfg` | `OrderWithinCharge`, `FreeWritesAreFree` | promoted keys stay in the order vector, which outgrows its charge; with a legacy boundary, or after a refused write that asked for an order (`heap.rs:2120`), a write predicted to be free reserves memory. `TableProofs` found the second case: `order_enabled` is set before the growth is asked for, and `set_bytes` (`heap.rs:2144`) does not count the order that the next compaction starts |
| `HeapFinalizerCallback.cfg` (`Heap`) | `QueuedFinalizersResolve` | a callback held by a weak-valued metatable is swept before it is called (`heap.rs:1439`) |
| `HeapFinalizers.cfg`, `Profiles = {"Lua53"}` | `NoFinalizerLost` | in Lua 5.2 and 5.3 a failing finalizer drops the rest of its batch for good |
| `CoroutinesArguments.cfg` (`Coroutines`) | `ValuesArrive` | a wrapped coroutine called again after a yield gets other arguments (`vm.rs:24527`) |
| `CoroutinesDepth.cfg` | `DepthMatchesStack` | a refused `coroutine.resume` argument uses up a nesting level for good (`vm.rs:24447`) |
| `Coroutines.cfg`, `ActivationLimit = 1`, `Programs = {{"wrap call", "yield", "return", "fail", "close"}}` | `UnmixedSound` | a wrapped call that the activation limit refuses ends its parents but not itself (`vm.rs:24514`): the refused thread goes on waiting for a child that lives, and is taken for the caller of it later, so that `coroutine.close` closes an active thread |
| `Coroutines.cfg` | `NoneStranded`, `DeliveryConsumed`, `StatusTruthful` | the caller of a wrapped coroutine that fails stays suspended in the call; where resumes and wrapped calls are mixed, a result for a killed thread reaches the next one resumed, and `status` takes an active thread for a suspended one |
| `Frames.cfg`, `Mains <- MCPrefixMains` (`MCFrames`) | `PrefixesSurvive` | the values before `return a, f()` are not rooted while the callee runs (`vm.rs:9077`, `11186`; `docs/language-contract.md:90`); the table of `{f()}` likewise |
| `FramesResume.cfg` (`MCFrames`) | `CallersSurvive` | a resumed continuation gets one root entry for all its frames, which the first return pops (`vm.rs:24818`; comment `vm.rs:11281`) |
| `ProtectedCalls.cfg` (`ProtectedCalls`) | `ClosedOnlyWhenLeft` | the close marker is one per loop: a return in a guest callee closes values of its callers too (`vm.rs:10684`; `docs/language-contract.md:279`) |
| `ProtectedCalls.cfg`, `CallLimit = 4`, `Budget = 6`, `MaxValues = 0` | `LoopsBounded` | a message handler always gets a level to run on (`vm.rs:5556`), and its caller's activation is given back before it runs: a handler that calls xpcall with itself nests without bound; the comment `vm.rs:15027` takes this fallback to be bounded |
| the same, `CallLimit = 5`, `Budget = 7`, `MaxValues = 2` (5 minutes) | `FramesBounded` | a protected call of a close handler that runs while an error unwinds a target is charged a depth below the target's (`vm.rs:5430`, `15067`) |
| `FrontEnd.cfg`, `Suites <- MCBreaks` (`MCFrontEnd`) | `ClosesWhatItMarks` | `break` and `continue` emit only a jump: to-be-closed values of nested blocks stay open (`owned.rs:2146`; `docs/language-contract.md:278`) |

`MCFrontEnd` holds further one-program suites; each refutes a property when
`FrontEnd.cfg` is given `Suites <-` its name:

| Suite | What happens |
|---|---|
| `MCLateClosing` | a `break` before a to-be-closed local of the loop body: the validator rejects the legal program |
| `MCRepeats` | `repeat return until x`: the code after the return is emitted and rejected (`owned.rs:1147`; the parser's test `tests/parser.rs:1625` takes it for legal) |
| `MCEndless` | a function that ends in a backward goto has no final return and is rejected (`blu.rs:3077`; `docs/language-contract.md:229`) |
| `MCEntering` | a goto into the scope of a `local function` is accepted (`owned.rs:2419`; `docs/language-contract.md:229`) |
| `MCUndeclared` | assignment lists do not check that their targets are declared (`owned.rs:3576`) |
| `MCFieldOrder` | the Blu profile stores constant fields in reverse order (`owned.rs:3965`; `docs/language-contract.md:356`) |
| `MCShadows` | of two captured variables of one name the older is read (`owned.rs:2990`, `6221`; comment `owned.rs:11`) |

Met while modelling; the models follow the code here, and the exceptions of the
properties (section 4) keep to it:

- `gsub` loses the next byte of the subject when its callback yields at an empty match
  (`vm.rs:31497` against 18838; `docs/language-contract.md:799`); `foreach` and
  `foreachi` take the last result of a callback after a yield and the first otherwise
  (13791 against 26123; `docs/language-contract.md:907`); a resumed `sort` writes
  without metamethods and does not validate its comparator. `gmatch` and `gsub` suppress every
  empty match right after a non-empty one (31534), as the manuals say and the scenario of
  `b*` in `aba` has it, where `docs/language-contract.md:779` speaks of the last one only.
- `require`: an error of the first searcher leaves the name marked as being loaded
  (16838, but not in the resumed path, 13306); a yield of a direct loader takes the
  mark off, so that the module may be loaded twice (16856;
  `docs/language-contract.md:1188`); closing a coroutine inside a `require` leaves the
  mark. A direct `require` does not root the tables of `package` it read. Setting
  `package.loaded[name]` to nil does not load again, as `module_cache` answers.
- A coroutine whose entry is native is resumed without context and roots (24828).
- Registers of captured variables are not refreshed when a finalizer runs inside
  `NewClosure`, `SetTable`, `Concatenate` or `SetListVarargs`, or a native call fills a
  list (comment `vm.rs:7343`). `ReturnVarargs` does not restore the caller's named
  vararg table (10856). `tail_call_count` is only reset after a native tail call (9200).
- Protected calls: `protected_call_target_depth` is lowered on activation and not
  raised on resume, so that a second pcall is charged the base depth again (15067);
  a pcall of a guest closure inside a native callback loses the inner continuation to
  the outer one (12544; `docs/language-contract.md:578`); `resume_blu_v1` unwinds close
  values on an activation (12928); a pcall in a close handler run by an error replaces
  that error (14440). `Concatenate` checks the result of `__concat` where `Length` does
  not check `__len` (10301, 10102).
- Codec: `decode` charges four bytes per line entry that `validate` does not
  (`blu.rs:4898`); the minimum width of an instruction is taken as 3 (4575) where
  `ReturnDynamic` has one byte; the comment at 568 calls floor division illegal for Blu,
  `floor_division_is_legal` (721) accepts it; the source name `=?` of a stripped dump may
  exceed a tighter limit of the host.
- Compiler: captured locals of nested blocks are not closed by `break`; a backward goto
  in one block emits no closes (2307); an explicit `local _ENV` is not seen two functions
  further in when the function between does not mention it
  (`docs/language-contract.md:94`); a function whose only branch is a goto to its first
  instruction lacks FORWARD_BRANCHES (870); `{-"1", 2}` meets an `expect` (3914);
  `local b, c = a, f()` copies `a` after `f()` ran (3537); errors in unreachable
  statements are not reported.
- Parser: `f() = 1` makes `parse` return InternalInvariant (1700, comment 212);
  `parenthesized_prefix_starts_assignment` (2620) is never used; `break` in the middle of
  a block is rejected in all profiles; `goto` and `continue` are rejected as names where
  they are no keywords; Lua 5.1 accepts `;;` and Luau `do ; end`; the comment at 1110
  speaks of union types whose tokens the lexer does not have.

## 4. Runs

| Run | Specification | What it shows | Bounds |
|---|---|---|---|
| `memory_ledger` | `MemoryLedger` | the counter is what callers hold, the hard limit and the limit on one allocation hold, a collection is asked for before the limit refuses, and leaves room | a 5-bit usize; requests up to 21 reach every refusal and the overflow |
| `table_contents` | `TableStore` | the table implements `TableMap`; parts, charges, tombstones, flags, order, lengths and predictions agree with the contents | keys 1..3 and an object as a key, two policies, with and without capacities; the thresholds of 1024 lowered to 3 (order) and 2 (compaction), so that both are crossed. Other keys and values behave alike, which `TableProofs` shows |
| `table_walk` | `TableStore` | a traversal and collections beside the writes: nothing twice, nothing missed, a cleared key still continues | two array keys and a heap key, all policies, strong and weak tables |
| `slot_arena` | `SlotArena` | stale handles fail, slots are reused before new ones are added | 3 slots, 3 generations, so that wrapping happens |
| `heap_marking` | `Heap` | the marking loop keeps exactly what liveness demands | 3 tables with heap keys, 4 references: a chain of two ephemerons |
| `heap_finalizers` | `Heap`, fair | nothing dangles, clearing removes dead entries only, each registration is called once and in reverse order, collections end, the heap implements `SlotArena` | 2 slots reused once, tables and userdata, weak keys and values, 3 references, 2 registrations, Lua 5.4 |
| `coroutines` | `Coroutines`, fair | one runner per thread, the depth counts, the trampoline returns; outside the mixed program results reach who waits and status is truthful | 4 threads, 3 nested resumes, 4 activations; three kinds of programs |
| `frames` | `Frames`, fair | what frames still read survives, registers agree with cells, root entries and depth are given back on every way out of a frame, returns, yields and errors in coroutines and finalizers alike, every execution ends | 5 registers, 3 calls, 2 tail calls, 18 instructions: any two steps between a prologue and an end; coroutines and finalizers that fail by a type error, a yield, the call limit, the tail call limit and the instruction limit, one or more calls deep; one collection per instruction and per delivery |
| `protected_calls` | `ProtectedCalls`, fair | values are closed once when their scope is left, outcomes reach their calls, the counters follow the Rust activations, the execution ends | 2 nested protected calls, 2 values, 1 failing handler, 5 guest steps |
| `artifacts` | `Artifacts` | accepted code runs and rejected code is wrong; encode and decode are inverse under limits and damage; dumps reload | every instruction; each limit at its edge and one below; every byte of the artifacts in `Fragile` changed, every length cut; codes of up to 5 instructions; 2 dumps |
| `front_end` | `FrontEnd` | texts are read as their one tree, rejected exactly if illegal, compiled to valid code that does what they mean | the suites; 3 questions |
| `operations` | `Operations` | yields change no result, library functions do what the manual says at once, nothing needed is collected, modules are loaded once | integers -8..7, 3 yields, 1 collection, chains of 3 metatables |

The bounds are small because the hazards are about shapes and not sizes: a hole and
the key behind it, an ephemeron chain, a thread and its grandparent, a loop in a loop.
Counters that wrap or saturate have small moduli, so that they do.

Exceptions: `WalkVisitsOnceUnlessReordered`, `WalkReturnsReads`, `PartsDisjoint`,
`TombstonesCounted` and `WeakReadsSeeWrites` hold until nil is written just past the
array, the first also until a hash part of opaque order is reordered under the traversal:
by a collection that trims it (`shrunk`) or by clearing an array key, whose tombstone makes
it grow (`rehashed`). `FreeWritesAreFreeOtherwise` unless the table tracks a legacy
boundary or a refused write left it waiting for an order (`OrderPending`);
`WalkContinuesUnlessCompacted` for tables that are not weak, until a compaction takes the
key the traversal stands on (`compacted`); `UnmixedSound` for programs that nest
coroutines in one of the two ways, until the activation limit refuses a chain that is not
a circle, which the run has no room for;
`DepthMatchesThreads` as long as only threads are resumed. `NestingAccounted` allows a loop for
every message handler under way, and bounds the frames of the driver unless an
activation goes `astray`. `ClosingSound` and
`OutcomesReachCallers` end where an activation goes `astray`, and values in `swept` may
be closed twice. `RegistersMirrorCells` excuses frames in which a finalizer ran inside
one of the four instructions or a list is delivered (`blind`). `MCMains` has no guest prefix or list calls on
registers that nothing else holds, and yields one call deep. `CodecIsExact` excuses
artifacts whose line table alone exceeds the limit on decoded bytes. The suites of
`front_end` leave out the programs of section 3. `YieldsAreInvisible` leaves out `gsub`
operations that lost a byte (`astray`) and callbacks of `foreach` with several results,
`OperationsKeepTheirValues` the tables read by a direct `require`, `ModulesLoadOnce` the
names in `tainted`. Of the library functions, `LibraryMeansWhatItSays` gives the meaning of
`insert`, `remove`, `move`, `unpack`, `concat` and `clone`; of `find`, `pack`, `create`,
`clear`, `freeze`, `getn` and `maxn` it says nothing.

`CHECK_DEADLOCK FALSE` is set for `Heap`, where the bounds on references and deaths end
behaviours; `TableStore`, where a frozen table that nothing walks stops; `Artifacts`,
`Frames` and `ProtectedCalls`, whose behaviours end.

## 5. Fairness

Safety runs assume none. `CollectionEnds` assumes weak fairness of calling the next
finalizer and of a finalizer coming to an end: the loop of `collect_internal_inner` is
host code, and each finalizer runs under the VM's instruction limit. `TrampolineReturns`
assumes weak fairness of the trampoline, a host loop; nothing is assumed of guest code.
The two `ExecutionEnds` assume weak fairness of `Next`: one host thread executes, and it
always takes its next step. That guest code ends is not assumed but shown.

## 6. Proofs

**Memory account.** `MemoryLedgerProofs` proves for every usize width, limit and growth percentage: type
correctness, `LedgerBalances`, `WithinLimit`, `PressureBeforeRefusal` and the action
property `CollectionLeavesRoom`. None is inductive alone: releasing is safe because the
balance holds, the balance stays in usize because of the limit, and pressure before
refusal needs that the threshold never passes the limit. `WithinLimit` is both limits: the
account within the hard limit, and an open reservation within the limit on one allocation. The inductive invariant is
their conjunction with that bound. The assumptions are those of `ConfigAssumption`:
sizes are naturals within usize.

**Tables.** `TableProofs` proves of `TableStore`, for any keys and values, policies,
capacities, thresholds, widths of entries and weak modes:

| Theorem | What it establishes |
|---|---|
| `TableInvariant` | the invariant below, after any sequence of operations |
| `RepresentationStaysSound` | `RepresentationSound`, for strong tables and for weak ones that never saw nil written just past their array; `StrongRepresentationSound` is the run's case |
| `ChargeAndFlagsHold` | its parts without the lengths, for every table |
| `FreeWritesStayFree` | a write that `set_bytes` predicts to be free asks for no bytes, with the two exceptions of section 3 |
| `ReadsSeeTheWrites` | reads agree with the writes and with what the collector took |
| `WalkPairsReads` | `next` returns the value that a read returns |
| `TraversalStaysSound` | `TraversalSound`: a traversal beside writes and collections returns no key twice, misses none that stays and goes on from a cleared key, with the exceptions of section 4 |
| `StrongTraversalsComplete` | where no table is weak, nothing twice and nothing missed until nil is written just past the array or the hash part grows for the tombstone of a cleared array key |
| `TrackedTableIsMap`, `TableIsMap` | `TableStore` implements `TableMap`, step by step |

The invariant of a table is `Sound`: the parts stand apart (`Apart`), capacities and the
tombstone count fit the contents (`Sized`), the order lists the hash part once
(`Ordered`), the flags cover the references (`Flagged`). `PartsDisjoint` alone is not
inductive: with a legacy boundary the keys between it and the array have to be accounted
for, and in a strong table it must be known that a stale hash entry lies behind a value,
or growing over a hole would bring it back. Every operator of `LuaTable` has lemmas that
say what it reads afterwards (`Stores`), that it keeps `Sound`, and that the bytes it
asks for and gives back are the difference of `DynamicBytes` (`Charged`). `TableInv` adds
that the charge is current and that reads agree with the history `map`; `WalkInv` that
the order of a traversal lists the keys there are. Where a weak table saw nil written
past its array, reads are not those of a map (section 3), whence `Tracked`, and lengths
may end before a missing value.

A traversal is proved about by its position. `VisitInv` says that the keys it returned
and that are still there lie before its current key in the order of `next`, and that the
stable keys before it were returned; `ContinueInv` that the current key keeps its place in
that order, as a value or as a tombstone. Writes keep them because no key changes sides of
the current one (`SidesKept`) as long as the order stays, `next` because it goes on to the next value in that order
(`NextAdvances`). `StrongInv` adds that without weak tables nothing trims the hash
part (`OrderFollowsRoom`: an opaque order changes only with the room of the hash part). The
exceptions are where the proof had no way on, an opaque order that was trimmed or rehashed
and the compaction that drops the current key: they are findings of section 3.

**Slots.** `SlotArenaProofs` proves for every generation modulus and number of slots:
type correctness, that handles of swept objects do not resolve (`StaleHandlesFail`)
until their slot has wrapped, and that there are exactly as many slots as objects were
live at once (`SlotsMatchPeak`). `StaleHandlesFail` is not inductive; `DeadBelow`
strengthens it: the generation of a dead handle is below its slot's, since generations
only grow until they wrap.

**Collector.** `HeapProofs` proves of `Heap`, for any number of slots, references,
registrations, kinds of objects, weak modes and profiles:

| Theorem | What it establishes |
|---|---|
| `HeapTypeCorrect`, `NoDanglingHandles` | the heap keeps its shape; every handle in roots and live objects resolves |
| `CollectionsAreExact` | the marking loops find the least set closed under strong references and ephemeron entries |
| `WeakReferencesClearedExactly` | an entry disappears only with its key or value |
| `HeapImplementsArena` | `Heap` implements `SlotArena` |
| `BatchesRunInReverse` | finalizers run in reverse order of registration |
| `FinalizersRunOnce`, `RegistrationsRunOnce` | none is finalized twice |
| `BatchesComplete` | `HeapAndBatchSound`: nothing in a batch is lost |

The invariant is `Sound`: the shape of slots, live and free list, no dangling handle, and
targets of waiting finalizers that resolve, as the batch itself is no root. `Orders` adds
that orders are unique, below the counter and descending in a batch, `PickedOnce` that
what was picked is marked done or swept, `Batch` that callbacks can still be called.
The marking loops are recursive functions on the size of what is left to mark; that they
end in the least closed set is proved by the smallest counterexample. Three theorems have
conditions. `FinalizersRunOnce` asks that no generation went round (`wrapped = {}`), since
in Lua 5.2 an object is known by its handle; no other profile needs it
(`RegistrationsRunOnce`). `BatchesComplete` is about Lua 5.4 and 5.5, as an error drops
the rest of a batch in the others, and about heaps in which no metatable is weak in its
values or no closure is an object, as such a callback may be swept before its call: the
findings of section 3.

**Validator.** `ValidatorProofs` proves `AcceptedCodeRuns` for code of any length over
the instructions of `Families`, and any number of registers. The invariant `Secure` says
that control is where the scan of the validator was (`Seen`), that every register which
the liveness mask of the instruction names holds a value, and that results are at hand
if the instruction takes them. It is inductive by two facts about the analyses.
`LiveIsInitialized`: what is live at an instruction is initialized there by the scan; and
the liveness masks satisfy their data-flow equations, since the chain of sets that the
iteration computes must stop (`ChainStops`). `Edges` says of every accepted instruction
that its successors were scanned with at least its state.

`RejectedCodeHasFaults` is the other half: what is rejected is wrong by an instruction or
by a path (`RejectedCodeIsWrong`), so the single scan, which meets the head of a loop
before the jumps back to it, loses nothing against following all paths. The proof takes
code without such a fault and shows that the scan accepts it. `Holding` is the invariant
of the scan: it has seen every instruction that a path leads to, and what it knows there
covers what is live. That is enough as the requirements the validator computes backwards
are the liveness of the VM (`RequiredIsLive`), and paths that carry every live register
into an instruction are all that a fault could come from (`WaysMeetNeeds`). That the
reference itself follows all paths, within the rounds it is given, is
`ConfigurationsClosed`. The converse does not hold: an unreachable loop that only its own
jump enters is accepted whatever it reads.

**Coroutines.** `CoroutinesProofs` proves type correctness and `StackSound` for any number
of threads, nesting and activation limit and any programs. The invariant says of the
stack of resumes that each runs a thread of its own, called by the thread that the one
below runs, and that the parents a resume may still end are apart from the threads of
the resumes below it; without that last part an error in a child could end a thread of
another resume. `UnmixedUnlessRefused` proves `UnmixedSound`, for programs that only resume
and for programs that only call wrapped coroutines, as long as the activation limit
refuses no chain that is not a circle (`RefusesCircles`); `UnmixedStaysSound` that this
never happens where the limit admits as many activations as there are threads. The
invariant is `OneWay`. Without wrapped calls nobody awaits anybody and no result is under
way (`Resumed`). Without nested resumes there is one resume at a time and its chain is all
that is active; threads outside it that still await someone were left there by a circle
and await in vain (`Called`).
Without the condition it is false, which is a finding of section 3.

**Protected calls.** `ProtectedCallsProofs` proves `NestingAccounted`,
`OutcomesReachCallers` and `ClosingSound` for all limits, any number of values and any
number of moves of guest code. None is inductive, since they speak of the stack of Rust
activations without its shape. `Inv` says what each activation may stand on and at which level it
runs (`WellStacked`), that each counter is the number of the activations that raised it
(`Tally`), and what is asked for while something waits (`Waiting`). `Charged` adds that
every frame of the driver was charged a level more than the one before it, and that what
runs over the driver owes its frame's level; hence the bound on frames, until an
activation goes astray. `Labelled` says that every activation is addressed as what
lies below it waits for, including those that were only asked for; so an outcome
that comes back meets the call it belongs to.

`ValuesAreClosed` needs to know where scopes are kept while a protected call is under
way. `Places` lines them up from the outside in: the continuations in the driver's
frames, the one being handed over (`captured`), and the loops and message handlers on the
stack; a loop whose continuation was taken holds nothing any more (`Held`). `Listed` says
that every value on the list is in the scope of a holder and above its marker, that a
holder's values are still to be closed unless they are in `swept` or `Ending`, and that
what an outer holder owns is below the markers of the inner ones (`Nested`); so a pass
that closes down to a marker closes what is left behind and nothing else. A step changes
one place, moves what one place holds to another, or closes the newest value, and a lemma
for each keeps `Listed` (`Replaced`, `Moved`, `NewestClosed`). `Handed` says when there is
a captured continuation: between the loop that gave it up and the driver that stores it,
without a step of guest code in between. From `Labelled` comes that a loop which unwinds
for an activation has nothing to close.

The attempts to prove the bounds as first stated, without exceptions, failed for good
reasons: the last two findings about `ProtectedCalls` in section 3 are what TLC found
where the proofs got stuck. They also showed that a missing continuation has to be an
error for the first activation too (`vm.rs:5296`), which the model had left out.

Assumptions. Each module names those it makes of its constants, and TLC evaluates them
in the runs: `ConfigAssumption`, `TableAssumption` (keys other than positive
integers are told from them, nil is neither a key nor a value, entries have a width), `StoreAssumption`,
`ArenaAssumption`, `HeapAssumption`, `FamiliesAssumption` (the codes range over the
instructions of `Bytecode`; registers and counts are naturals, as they are unsigned in the
source), `CoroutineAssumption` (finitely many threads), `LimitsAssumption`.

Induction. The library's induction theorems take an operator and cannot be used; loops
over data of any size are proved from the least counterexample, which `SelectionLemmas`
derives from the well-foundedness of the naturals (`LeastNatural`), with `Upward` for
properties of numbers and `ListsEnumerated` for enumerations of finite sets.

Only model-checked: liveness under fairness, which the prover cannot express;
the properties of `Frames`, `Artifacts` (codec and dumps), `FrontEnd` and `Operations`.
Parser, compiler, evaluator, codec, pattern matcher and the resumption of sorts are
RECURSIVE operators and stay with TLC.

## 7. Not modelled

- Heap: heap-object limit, string accounting, step pacing of the collector, closing of
  IO handles; Luau's node placement, which is an opaque order.
- Coroutines and protected calls: Lua 5.5 self-close, close handlers of coroutines,
  coroutines inside protected calls, legacy frames, the Lua 5.5 warning path.
- Interpreter: arithmetic on numbers and its formatting, debug hooks, host interrupts.
  `Frames` has the profiles Lua 5.4 and 5.5, in which the error of a finalizer is ignored;
  in older ones it goes on through the collecting frame. Errors that pcall catches are in
  `ProtectedCalls` only; failing allocations are in neither. One of the writes of a list
  may collect, not each.
- Execution of compiled programs (`Execution`, `World`): errors. The functions of the
  compiler (`Internal`, `CloseValue`) succeed: a numeric for whose step is zero or whose
  control is no number (`vm.rs:18014`), a global that is declared twice (17960), a value that
  cannot be closed (17976) or whose `__close` fails (18223) end a run, and are not compared.
  How `prepare_iter` chooses between `__iter`, `__call` and `next` is left to the host.
- Operations: `table.find` compares numbers; `__eq` of two tables (25905), a guest callback, is left out; `table_next` gives the keys a table began with in one fixed order; a
  function as `__index` of gsub's replacement table (31545); the main thread's
  `sort_unstable_by` is taken to ask for every pair; the recognition of simple
  comparators is a flag; indexing of values other than tables; the limits on registers
  and string sizes; conversions of other values to integers; what `load` makes of its
  text, which is the engine's; `%g` and the capital letters of most classes.
- Libraries: math, os, io, utf8, bit32, debug, buffer and the other string functions are
  pure functions or host I/O.
- Bytecode: Luau chunks, their validator, translator and disassembler.
- Front end: characters (the parser reads lexemes), Luau types, line tables, the limits
  on nodes, depth, diagnostics and code sizes; the foreign Luau compiler.
- Engine and package codec: the engine is a facade over the parts above; the package
  codec has the shape of the artifact codec. Core types are data, and the conformance
  runner is a test tool.

## 8. Plan

1. Prove `FramesRestored` for `Frames`: root entries and depth follow the frames, on error
   exits, too.
2. Compose `ProtectedCalls` with `Coroutines`: yields across pcall and close handlers.
3. The package codec, host roots and typed handles.
4. A run for Lua 5.2's rule that an object is finalized once whatever metatable it gets:
   `FinalizersRunOnce` proves it, the run has Lua 5.4 only.
