-------------------------------- MODULE Heap --------------------------------
(***************************************************************************)
(* The garbage-collected heap (crates/blu-runtime/src/heap.rs, `Heap`) and *)
(* the VM's collection cycle (vm.rs, collect_internal): allocation into    *)
(* generational slots, the mark phase with weak and ephemeron tables,      *)
(* finalizer discovery and resurrection, weak-reference clearing, the      *)
(* sweep, and the finalizer calls that follow while guest code runs.       *)
(*                                                                         *)
(* The values of registers, globals and host roots are one set, `roots`.   *)
(* A table is its entries: array and hash part are module LuaTable's.      *)
(***************************************************************************)
EXTENDS Selection, SequencesExt, FiniteSetsExt

CONSTANTS
    GenerationModulus,  \* 2^32: generations are u32 and wrap
    MaxSlots,           \* bound: slots the heap may grow to
    Kinds,              \* the object kinds of the instance
    Modes,              \* the __mode strings it uses, as sets of letters
    KeyKinds,           \* the keys of its tables: "plain" ones, "heap" objects
    Profiles,           \* the semantic profiles whose code runs
    MaxOrder,           \* bound: finalizer registrations
    MaxWires,           \* bound: references and modes in live objects
    MaxDead             \* bound: objects that may have been swept

AllKinds == {"table", "closure", "upvalue", "thread", "userdata"}
AllProfiles == {"Blu", "Luau", "Lua51", "Lua52", "Lua53", "Lua54", "Lua55"}

ASSUME HeapAssumption ==
    /\ GenerationModulus \in Nat \ {0}
    /\ MaxSlots \in Nat /\ MaxOrder \in Nat
    /\ MaxWires \in Nat /\ MaxDead \in Nat
    /\ Kinds \subseteq AllKinds
    /\ Modes \subseteq SUBSET {"k", "v"}
    /\ Profiles \subseteq AllProfiles
    /\ KeyKinds \subseteq {"plain", "heap"}

VARIABLES
    slots,          \* the slots: a generation and an object or none
    free,           \* the free list, taken from the end
    live_indices,   \* the indices of live objects
    next_finalizer_order,
    roots,          \* the handles the VM passes to a collection
    gc_collecting,  \* a collection or one of its finalizers is running
    queue,          \* finalizers of the collection that are still to call
    calling,        \* the finalizer that is running, if any
    called,         \* history: the registrations called, with their target
    queued,         \* history: the registrations a collection picked
    dead, wrapped, peak   \* history, as in SlotArena

heapVars == <<slots, free, live_indices>>
batchVars == <<gc_collecting, queue, calling, called, queued>>
arenaHistory == <<dead, wrapped, peak>>
vars == <<heapVars, next_finalizer_order, roots, batchVars, arenaHistory>>

-----------------------------------------------------------------------------
(* Values.  A handle has an index of 1 or more; the others are values that *)
(* refer to no heap object.                                                *)

Nil    == [index |-> 0, generation |-> 0]
Plain  == [index |-> 0, generation |-> 1]   \* a string, number or boolean
Native == [index |-> 0, generation |-> 2]   \* a NativeFunction
GcName == [index |-> 0, generation |-> 3]   \* the string "__gc", as a key
IsHandle(v) == v.index > 0

Values == {Nil, Plain, Native, GcName} \cup
          [index : 1 .. MaxSlots, generation : 0 .. GenerationModulus - 1]

NoObject == [kind |-> "none"]
(* Objects.  refs: the upvalues and environment of a closure, the value of *)
(* an upvalue, the roots of a thread, the user values of a userdata.       *)
NewObject(kind, refs) ==
    [kind |-> kind, refs |-> refs, metatable |-> Nil, mode |-> {},
     entries |-> <<>>, armed |-> FALSE, done |-> FALSE, order |-> 0,
     profile |-> "none"]

Indices == 1 .. Len(slots)
Handle(i) == [index |-> i, generation |-> slots[i].generation]
Occupied == {i \in Indices : slots[i].object.kind # "none"}

(* object: the handle resolves to the object in its slot                   *)
Resolves(h) ==
    /\ h.index \in Indices
    /\ slots[h.index].generation = h.generation
    /\ slots[h.index].object.kind # "none"
Object(h) == slots[h.index].object

Entry(o, key) == IF key \in DOMAIN o.entries THEN o.entries[key] ELSE Nil

-----------------------------------------------------------------------------
(* Marking.  A set of marked slots grows along strong references; the      *)
(* value of an entry of an ephemeron table counts once its key is marked.  *)

(* table_weak_mode *)
WeakMode(o) ==
    IF o.kind = "table" /\ Resolves(o.metatable) THEN Object(o.metatable).mode
                                                 ELSE {}

(* value_is_marked, key_is_marked *)
(* Mutant: a value without a handle counts as dead. *)
IsMarkedHandlesOnly(v, marked) == Resolves(v) /\ v.index \in marked
IsMarked(v, marked) == IsHandle(v) => Resolves(v) /\ v.index \in marked

(* What the slot of object o enqueues when it is marked.                   *)
StrongValues(o) ==
    LET mode == WeakMode(o)
    IN  {o.metatable} \cup o.refs
          \cup (IF "k" \in mode THEN {} ELSE DOMAIN o.entries)
          \cup (IF mode # {} THEN {} ELSE {o.entries[key] : key \in DOMAIN o.entries})

IndicesOf(values) == {v.index : v \in {w \in values : Resolves(w)}}

Successors(marked) == IndicesOf(UNION {StrongValues(slots[i].object) : i \in marked})

(* The scan of marked ephemeron tables once the queue is empty.            *)
(* Mutant: the scan of ephemeron tables is left out. *)
EphemeronValuesNone(marked) == {}
EphemeronValues(marked) ==
    IndicesOf(UNION {
        LET o == slots[i].object
        IN  IF WeakMode(o) # {"k"} THEN {}
            ELSE {o.entries[key] : key \in {x \in DOMAIN o.entries : IsMarked(x, marked)}}
        : i \in marked})

(* The queue run empty, and the loop of draining and scanning until        *)
(* nothing is left: each round marks a slot or is the last.                *)
Drained(start) ==
    LET drain[marked \in SUBSET Indices] ==
            LET more == marked \cup Successors(marked)
            IN  IF more = marked THEN marked ELSE drain[more]
    IN  drain[start]
Marked(start) ==
    LET scan[marked \in SUBSET Indices] ==
            LET values == EphemeronValues(marked)
            IN  IF values \subseteq marked THEN marked
                ELSE scan[Drained(marked \cup values)]
    IN  scan[Drained(start)]

-----------------------------------------------------------------------------
(* Finalizers.  An object is armed by the metatable it is given; the       *)
(* callback is looked up only when the object is found unreachable.        *)

NoFinalizer == [target |-> Nil, callback |-> Nil, order |-> -1, profile |-> "none"]

Callback(o) ==
    IF Resolves(o.metatable) THEN Entry(Object(o.metatable), GcName) ELSE Nil
IsCallable(v) ==
    v = Native \/ (IsHandle(v) /\ Resolves(v) /\ Object(v).kind = "closure")

(* Mutant: finalizer_done is not looked at. *)
IsDueAgain(o) ==
    o.kind \in {"table", "userdata"} /\ o.armed /\ IsCallable(Callback(o))
IsDue(o) ==
    /\ o.kind \in {"table", "userdata"}
    /\ o.armed /\ ~o.done
    /\ IsCallable(Callback(o))

Finalizer(i) ==
    LET o == slots[i].object
    IN  [target |-> Handle(i), callback |-> Callback(o), order |-> o.order,
         profile |-> o.profile]

(* The finalizers a collection finds: latest registration first.  No two   *)
(* registrations have the same order.                                      *)
Found(marked) == {Finalizer(i) : i \in {j \in Occupied \ marked : IsDue(slots[j].object)}}
Finalizers(marked) ==
    LET orders == Ascending({-f.order : f \in Found(marked)})
    IN  [n \in DOMAIN orders |-> CHOOSE f \in Found(marked) : -f.order = orders[n]]

Targets(finalizers) == {f.target : f \in ToSet(finalizers)}

-----------------------------------------------------------------------------
Init ==
    /\ slots = <<>> /\ free = <<>> /\ live_indices = <<>>
    /\ next_finalizer_order = 0
    /\ roots = {}
    /\ gc_collecting = FALSE /\ queue = <<>> /\ calling = NoFinalizer
    /\ called = {} /\ queued = {}
    /\ dead = {} /\ wrapped = {} /\ peak = 0

(* Guest and host code runs unless the VM is between two finalizers.       *)
Running == gc_collecting => calling # NoFinalizer /\ IsCallable(calling.callback)

(* A reference that the running code holds.                                *)
Held == roots \cup {Nil}

(* allocate: the last free slot, or a new one when none is free.           *)
Allocate(kind, refs) ==
    LET object == NewObject(kind, refs)
        h == IF free = <<>> THEN [index |-> Len(slots) + 1, generation |-> 0]
                            ELSE Handle(Last(free))
    IN  /\ Running
        /\ h.index <= MaxSlots
        /\ slots' = IF free = <<>>
                    THEN Append(slots, [generation |-> 0, object |-> object])
                    ELSE [slots EXCEPT ![h.index].object = object]
        /\ free' = IF free = <<>> THEN free ELSE Front(free)
        /\ live_indices' = Append(live_indices, h.index)
        /\ roots' = roots \cup {h}
        /\ peak' = IF Len(live_indices') > peak THEN Len(live_indices') ELSE peak
        /\ UNCHANGED <<next_finalizer_order, batchVars, dead, wrapped>>

(* upvalue_set, closure_set_upvalue, closure_set_environment,              *)
(* thread_set_gc_roots, userdata_set_user_value                            *)
SetReference(h, value) ==
    /\ Running
    /\ Object(h).kind # "table"
    /\ slots' = [slots EXCEPT ![h.index].object.refs = {value} \ {Nil}]
    /\ UNCHANGED <<free, live_indices, next_finalizer_order, roots, batchVars, arenaHistory>>

(* table_set, for an ordinary key, "__gc" or a heap object                 *)
TableSet(h, key, value) ==
    /\ Running
    /\ Object(h).kind = "table"
    /\ slots' = [slots EXCEPT ![h.index].object.entries =
            IF value = Nil THEN [k \in DOMAIN @ \ {key} |-> @[k]]
            ELSE [k \in DOMAIN @ \cup {key} |-> IF k = key THEN value ELSE @[k]]]
    /\ UNCHANGED <<free, live_indices, next_finalizer_order, roots, batchVars, arenaHistory>>

(* table_set of "__mode" *)
SetMode(h, mode) ==
    /\ Running
    /\ Object(h).kind = "table"
    /\ slots' = [slots EXCEPT ![h.index].object.mode = mode]
    /\ UNCHANGED <<free, live_indices, next_finalizer_order, roots, batchVars, arenaHistory>>

(* The VM's set_table_metatable and set_userdata_metatable: the metatable  *)
(* and, by the active profile and the metatable's "__gc", the finalizer    *)
(* state.  In Lua 5.2 an object is finalized once and never armed again.   *)
Armed(o, metatable, profile, one_shot) ==
    /\ o.kind = "userdata" \/ profile \in {"Lua52", "Lua53", "Lua54", "Lua55"}
    /\ metatable # Nil
    /\ Entry(Object(metatable), GcName) # Nil
    /\ ~one_shot

WithMetatable(o, metatable, profile) ==
    LET one_shot == o.done /\ profile = "Lua52"
        armed == Armed(o, metatable, profile, one_shot)
    IN  [o EXCEPT !.metatable = metatable, !.armed = armed, !.done = one_shot,
                  !.order = IF armed THEN next_finalizer_order ELSE 0,
                  !.profile = IF armed THEN profile ELSE "none"]

SetMetatable(h, metatable, profile) ==
    LET object == WithMetatable(Object(h), metatable, profile)
    IN  /\ Running
        /\ Object(h).kind \in {"table", "userdata"}
        /\ metatable # Nil => Object(metatable).kind = "table"
        /\ next_finalizer_order < MaxOrder
        /\ slots' = [slots EXCEPT ![h.index].object = object]
        /\ next_finalizer_order' = next_finalizer_order + (IF object.armed THEN 1 ELSE 0)
        /\ UNCHANGED <<free, live_indices, roots, batchVars, arenaHistory>>

(* The code reads a reference of an object it holds, or forgets one.       *)
Load(h, value) ==
    /\ Running
    /\ IsHandle(value)
    /\ LET o == Object(h)
       IN  value \in {o.metatable} \cup o.refs \cup DOMAIN o.entries
                       \cup {o.entries[key] : key \in DOMAIN o.entries}
    /\ roots' = roots \cup {value}
    /\ UNCHANGED <<heapVars, next_finalizer_order, batchVars, arenaHistory>>

Forget(h) ==
    /\ Running
    /\ roots' = roots \ {h}
    /\ UNCHANGED <<heapVars, next_finalizer_order, batchVars, arenaHistory>>

-----------------------------------------------------------------------------
(* clear_weak_references, for one surviving table                          *)
(* Mutant: only the keys are cleared. *)
SurvivingEntriesKeepValues(o, marked) ==
    LET mode == WeakMode(o)
        kept == {key \in DOMAIN o.entries : "k" \in mode => IsMarked(key, marked)}
    IN  [key \in kept |-> o.entries[key]]
SurvivingEntries(o, marked) ==
    LET mode == WeakMode(o)
        kept == {key \in DOMAIN o.entries :
                    /\ "k" \in mode => IsMarked(key, marked)
                    /\ "v" \in mode => IsMarked(o.entries[key], marked)}
    IN  [key \in kept |-> o.entries[key]]

(* Mutant: the generation of a freed slot stays. *)
SweptUnbumped(slot, survives, marked, target) ==
    IF survives
    THEN [slot EXCEPT !.object.entries = SurvivingEntries(slot.object, marked),
                      !.object.done = @ \/ target]
    ELSE [slot EXCEPT !.object = NoObject]
Swept(slot, survives, marked, target) ==
    IF survives
    THEN [slot EXCEPT !.object.entries = SurvivingEntries(slot.object, marked),
                      !.object.done = @ \/ target]
    ELSE [object |-> NoObject,
          generation |-> (slot.generation + 1) % GenerationModulus]

(* The slots a collection keeps: what the roots reach, and then what the   *)
(* targets of finalizers reach, which are resurrected for their call.      *)
Kept(marked, finalizers) == Marked(marked \cup IndicesOf(Targets(finalizers)))

(* The sweep of the live indices, in their order; the finalizers that were *)
(* found are marked done here, before any of them is called.               *)
Sweep(finalizers, kept) ==
    LET targets == IndicesOf(Targets(finalizers))
        swept == Occupied \ kept
    IN  /\ slots' = [i \in Indices |-> IF i \in Occupied
                THEN Swept(slots[i], i \in kept, kept, i \in targets) ELSE slots[i]]
        /\ live_indices' = Selected(live_indices, kept)
        /\ free' = free \o Selected(live_indices, swept)
        /\ dead' = dead \cup {Handle(i) : i \in swept}
        /\ wrapped' = wrapped \cup {i \in swept : slots[i].generation = GenerationModulus - 1}
        /\ UNCHANGED peak

(* collect_internal: mark, find finalizers, resurrect, clear weak          *)
(* references, sweep; then the finalizers are called one by one.  Until    *)
(* they are through, another collection does nothing.                      *)
Collect ==
    /\ ~gc_collecting
    /\ \E reached \in {Marked(IndicesOf(roots))} :
         \E finalizers \in {Finalizers(reached)} :
           \E kept \in {Kept(reached, finalizers)} :
             /\ Sweep(finalizers, kept)
             /\ queue' = finalizers
             /\ gc_collecting' = (finalizers # <<>>)
             /\ queued' = queued \cup {f.order : f \in ToSet(finalizers)}
    /\ UNCHANGED <<next_finalizer_order, roots, calling, called>>

(* The finalizer loop of collect_internal_inner: call_value runs the       *)
(* callback on the target, or fails at once when the callback no longer    *)
(* resolves.                                                               *)
CallFinalizer ==
    LET f == Head(queue)
    IN  /\ gc_collecting /\ calling = NoFinalizer /\ queue # <<>>
        /\ calling' = f
        /\ queue' = Tail(queue)
        /\ called' = IF IsCallable(f.callback)
                     THEN called \cup {[order |-> f.order, target |-> f.target]}
                     ELSE called
        /\ roots' = roots \cup {f.target}
        /\ UNCHANGED <<heapVars, next_finalizer_order, gc_collecting, queued, arenaHistory>>

(* After a finalizer: the next one, or the end of the collection.          *)
(* Mutant: gc_collecting is not reset. *)
ResumeKeepsFlag(rest) == queue' = rest /\ calling' = NoFinalizer /\ UNCHANGED gc_collecting
Resume(rest) ==
    /\ queue' = rest
    /\ gc_collecting' = (rest # <<>>)
    /\ calling' = NoFinalizer

(* An error is dropped in Lua 5.4 and 5.5; elsewhere it ends the           *)
(* collection and the rest of the batch with it.                           *)
(* Mutant: every error ends the batch. *)
AfterErrorStops(f, rest) == <<>>
AfterError(f, rest) == IF f.profile \in {"Lua54", "Lua55"} THEN rest ELSE <<>>

FinalizerReturns ==
    /\ calling # NoFinalizer /\ IsCallable(calling.callback)
    /\ Resume(queue)
    /\ UNCHANGED <<heapVars, next_finalizer_order, roots, called, queued, arenaHistory>>

FinalizerFails ==
    /\ calling # NoFinalizer
    /\ Resume(AfterError(calling, queue))
    /\ UNCHANGED <<heapVars, next_finalizer_order, roots, called, queued, arenaHistory>>

-----------------------------------------------------------------------------
Finalizable == "userdata" \in Kinds \/ Profiles \ {"Blu", "Luau", "Lua51"} # {}
Keys == (IF "heap" \in KeyKinds THEN roots ELSE {})
          \cup (IF "plain" \in KeyKinds THEN {IF Finalizable THEN GcName ELSE Plain} ELSE {})
(* The bound on what live objects hold: at the bound only nil is written.  *)
Wires ==
    LET wires(i) == LET o == slots[i].object
                    IN  Cardinality(o.refs) + Cardinality(DOMAIN o.entries)
                          + Cardinality(o.mode) + (IF o.metatable = Nil THEN 0 ELSE 1)
    IN  MapThenSumSet(wires, Occupied)

Storable(key, values) ==
    IF key = GcName /\ values # {Nil}
    THEN {Nil, Plain, Native} \cup {h \in roots : Object(h).kind = "closure"}
    ELSE values

Write ==
    LET room == Wires < MaxWires
        values == IF room THEN Held ELSE {Nil}
    IN  \/ \E h \in roots, value \in values : SetReference(h, value)
        \/ \E h \in roots, key \in Keys :
              \E value \in Storable(key, values) : TableSet(h, key, value)
        \/ \E h \in roots, mode \in Modes :
              Wires + Cardinality(mode) <= MaxWires /\ SetMode(h, mode)
        \/ \E h \in roots, metatable \in values, profile \in Profiles :
              SetMetatable(h, metatable, profile)

Next ==
    \/ \E kind \in Kinds : Allocate(kind, {})
    \/ Write
    \/ \E h \in roots, value \in Values : Load(h, value)
    \/ \E h \in roots : Forget(h)
    \/ Collect /\ Cardinality(dead') <= MaxDead
    \/ CallFinalizer
    \/ FinalizerReturns
    \/ FinalizerFails

Spec == Init /\ [][Next]_vars

(* A finalizer runs under the VM's instruction limit, and the VM goes on   *)
(* with the batch when it ends.                                            *)
FairSpec == Spec /\ WF_vars(CallFinalizer)
                 /\ WF_vars(FinalizerReturns \/ FinalizerFails)

-----------------------------------------------------------------------------
(* The state keeps its shape, and the free list and the live indices split *)
(* the slots between them without repetition.                              *)
TypeOK ==
    /\ \A i \in Indices :
         /\ slots[i].generation \in 0 .. GenerationModulus - 1
         /\ i \in Occupied =>
              LET o == slots[i].object
              IN  /\ o.kind \in Kinds /\ o.mode \in Modes \cup {{}}
                  /\ o.refs \subseteq Values /\ o.metatable \in Values
                  /\ DOMAIN o.entries \subseteq Values
                  /\ o.armed \in BOOLEAN /\ o.done \in BOOLEAN
                  /\ o.order \in 0 .. MaxOrder
                  /\ o.profile \in Profiles \cup {"none"}
    /\ ToSet(live_indices) = Occupied /\ Len(live_indices) = Cardinality(Occupied)
    /\ ToSet(free) = Indices \ Occupied /\ Len(free) = Cardinality(Indices \ Occupied)
    /\ roots \subseteq Values
    /\ next_finalizer_order \in 0 .. MaxOrder
    /\ gc_collecting = (calling # NoFinalizer \/ queue # <<>>)

(* No dangling reference: every handle the VM holds, and every handle in a *)
(* live object -- weak tables included, once their dead entries have been  *)
(* cleared -- resolves.                                                    *)
NothingDangles ==
    /\ \A h \in roots : Resolves(h)
    /\ \A i \in Occupied :
         LET o == slots[i].object
         IN  \A v \in {o.metatable} \cup o.refs \cup DOMAIN o.entries
                        \cup {o.entries[key] : key \in DOMAIN o.entries} :
                IsHandle(v) => Resolves(v)

(* A finalizer that waits for its turn still has its target and callback:  *)
(* the ones before it run arbitrary code, which may ask for a collection.  *)
QueuedFinalizersResolve ==
    \A f \in ToSet(queue) \cup {calling} :
        \A v \in {f.target, f.callback} : IsHandle(v) => Resolves(v)

(* Every finalizer that a collection picked has been called or is about to *)
(* be: `finalizer_done` is set before the call, so one that is dropped     *)
(* from the batch is never called at all.                                  *)
NoFinalizerLost ==
    queued \subseteq {c.order : c \in called \cup {calling} \cup ToSet(queue)}

-----------------------------------------------------------------------------
(* Liveness of objects, by its definition: a set of slots is closed when   *)
(* it has what its members keep alive; an object stays when it is in every *)
(* closed set that has the roots and the targets of finalizers.            *)
KeepsAlive(o, v, S) ==
    LET mode == WeakMode(o)
    IN  \/ v = o.metatable \/ v \in o.refs
        \/ v \in DOMAIN o.entries /\ "k" \notin mode
        \/ \E key \in DOMAIN o.entries :
             /\ o.entries[key] = v /\ "v" \notin mode
             /\ "k" \in mode => (IsHandle(key) => key.index \in S)

IsClosed(S) ==
    \A i \in S, j \in Occupied \ S : ~KeepsAlive(slots[i].object, Handle(j), S)

MustStay(start) ==
    LET begin == start
        closed == {S \in SUBSET Occupied : begin \subseteq S /\ IsClosed(S)}
    IN  {i \in Occupied : \A S \in closed : i \in S}

(* A collection would keep exactly the objects that the roots and the      *)
(* targets of the finalizers it finds keep alive, through weak-keyed       *)
(* tables only as far as their keys are alive: nothing reachable is swept  *)
(* and no garbage cycle stays.                                             *)
CollectionIsExact ==
    LET reached == Marked(IndicesOf(roots))
        finalizers == Finalizers(reached)
    IN  Kept(reached, finalizers)
          = MustStay(IndicesOf(roots \cup Targets(finalizers)))

(* Clearing weak references removes no entry whose key and value survive.  *)
ClearsOnlyTheDead ==
    [][dead' # dead => \A i \in Occupied' :
          \A key \in DOMAIN slots[i].object.entries :
             (/\ IsHandle(key) => key.index \in Occupied'
              /\ LET v == slots[i].object.entries[key]
                 IN  IsHandle(v) => v.index \in Occupied')
             => key \in DOMAIN slots'[i].object.entries]_vars

(* A registration is finalized once, however often the object is           *)
(* resurrected; in Lua 5.2 that holds for the object, whatever metatable   *)
(* it is given afterwards.                                                 *)
FinalizedOnce ==
    [][calling' \notin {calling, NoFinalizer} =>
          \A c \in called :
             /\ c.order # calling'.order
             /\ Profiles = {"Lua52"} => c.target # calling'.target]_vars

(* The finalizers of one collection run in reverse registration order.     *)
ReverseOrder ==
    \A j \in 1 .. Len(queue) :
        /\ calling # NoFinalizer => calling.order > queue[j].order
        /\ j < Len(queue) => queue[j].order > queue[j + 1].order

(* While guest code runs between the finalizers of a batch, the rest of    *)
(* the batch keeps its objects, its order, and its turn.                   *)
BatchSound == QueuedFinalizersResolve /\ NoFinalizerLost /\ ReverseOrder

(* Whatever guest code does between two finalizers, neither the heap nor   *)
(* the batch is left with a handle that does not resolve, and the batch    *)
(* goes on in its order to its end.                                        *)
HeapAndBatchSound == NothingDangles /\ BatchSound

(* Every collection comes to its end.                                      *)
CollectionEnds == gc_collecting ~> ~gc_collecting

(* The heap keeps the arena's promise.                                     *)
Arena == INSTANCE SlotArena WITH
    size <- Len(slots),
    generation <- [i \in Indices |-> slots[i].generation],
    occupied <- Occupied,
    live <- Len(live_indices)
ImplementsArena == Arena!Spec
=============================================================================
