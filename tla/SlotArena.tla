----------------------------- MODULE SlotArena ------------------------------
(***************************************************************************)
(* What the heap's arena promises about handles (crates/blu-runtime/src/   *)
(* heap.rs, `Heap`: slots, free, live_indices, live).  An object lives in  *)
(* a slot; a handle is the slot's index with the generation the slot had   *)
(* when the object was put there.  A collection keeps some objects and     *)
(* sweeps the others: which ones is the collector's business (module       *)
(* Heap), and so is the order in which free slots are taken.               *)
(***************************************************************************)
EXTENDS Integers, FiniteSets

CONSTANTS
    GenerationModulus,  \* 2^32: generations are u32 and wrap
    MaxSlots            \* bound: slots the arena may grow to

ASSUME ArenaAssumption ==
    /\ GenerationModulus \in Nat \ {0}
    /\ MaxSlots \in Nat

VARIABLES
    size,       \* slots.len()
    generation, \* the generation of every slot
    occupied,   \* the indices of slots that hold an object
    live,       \* the number of live objects
    dead,       \* history: the handles of objects that were swept
    wrapped,    \* history: the slots whose generation has wrapped
    peak        \* history: the most objects that were live at once

arenaVars == <<size, generation, occupied, live, dead, wrapped, peak>>

Indices == 1 .. size

Resolves(h) == h.index \in occupied /\ generation[h.index] = h.generation

Init ==
    /\ size = 0 /\ generation = [i \in {} |-> 0] /\ occupied = {} /\ live = 0
    /\ dead = {} /\ wrapped = {} /\ peak = 0

-----------------------------------------------------------------------------
LiveGrows ==
    /\ live' = live + 1
    /\ peak' = IF peak < live + 1 THEN live + 1 ELSE peak
    /\ UNCHANGED <<dead, wrapped>>

(* allocate with a free slot *)
ReuseSlot ==
    /\ \E i \in Indices \ occupied : occupied' = occupied \cup {i}
    /\ LiveGrows
    /\ UNCHANGED <<size, generation>>

(* allocate with no free slot *)
(* Mutant: the free list is never used. *)
AddSlotAlways ==
    /\ size < MaxSlots
    /\ size' = size + 1
    /\ occupied' = occupied \cup {size + 1}
    /\ generation' = [i \in 1 .. size + 1 |-> IF i = size + 1 THEN 0 ELSE generation[i]]
    /\ LiveGrows
AddSlot ==
    /\ occupied = Indices
    /\ size < MaxSlots
    /\ size' = size + 1
    /\ occupied' = occupied \cup {size + 1}
    /\ generation' = [i \in 1 .. size + 1 |-> IF i = size + 1 THEN 0 ELSE generation[i]]
    /\ LiveGrows

(* wrapping_add *)
(* Mutant: the generation stays. *)
NextGenerationSame(g) == g
NextGeneration(g) == IF g + 1 = GenerationModulus THEN 0 ELSE g + 1

(* The sweep of a collection that keeps the objects in the slots keep.     *)
Sweep(keep) ==
    /\ occupied' = keep
    /\ live' = live - Cardinality(occupied \ keep)
    /\ generation' = [i \in Indices |->
            IF i \in occupied \ keep THEN NextGeneration(generation[i])
                                     ELSE generation[i]]
    /\ dead' = dead \cup {[index |-> i, generation |-> generation[i]] :
                            i \in occupied \ keep}
    /\ wrapped' = wrapped \cup {i \in occupied \ keep :
                                    generation[i] = GenerationModulus - 1}
    /\ UNCHANGED <<size, peak>>

Next ==
    \/ ReuseSlot
    \/ AddSlot
    \/ \E keep \in SUBSET occupied : Sweep(keep)

Spec == Init /\ [][Next]_arenaVars

-----------------------------------------------------------------------------
(* Sizes, indices and generations are in their ranges.                     *)
TypeOK ==
    /\ size \in 0 .. MaxSlots
    /\ generation \in [Indices -> 0 .. GenerationModulus - 1]
    /\ occupied \subseteq Indices
    /\ live \in 0 .. size
    /\ dead \subseteq [index : Indices, generation : 0 .. GenerationModulus - 1]
    /\ wrapped \subseteq Indices
    /\ peak \in 0 .. size

(* No use after free: the handle of a swept object never resolves again,   *)
(* however often its slot is reused (`object` compares generations), until *)
(* the slot's 32-bit generation has gone all the way round.                *)
StaleHandlesFail ==
    \A h \in dead : h.index \notin wrapped => ~Resolves(h)

(* The strengthening that makes StaleHandlesFail inductive: generations    *)
(* only grow until they wrap.                                              *)
DeadBelow ==
    \A h \in dead : h.index \notin wrapped => h.generation < generation[h.index]

(* The arena has exactly as many slots as objects were ever live at once:  *)
(* the charge for slots, which is never given back, is paid for the peak   *)
(* and not for the number of allocations (`try_new`'s comment).            *)
SlotsMatchPeak == size = peak /\ live = Cardinality(occupied)
=============================================================================
