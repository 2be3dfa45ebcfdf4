-------------------------- MODULE SlotArenaProofs ---------------------------
(***************************************************************************)
(* The handle discipline of the arena, for every generation width and      *)
(* every number of slots.                                                  *)
(***************************************************************************)
EXTENDS SlotArena, FiniteSetTheorems, TLAPS

Inv == TypeOK /\ DeadBelow /\ SlotsMatchPeak

(* A set of slot indices is finite, as large as the arena at most, and as  *)
(* large as the arena only when it is all of it.                           *)
LEMMA IndicesFinite ==
    ASSUME NEW n \in Nat, NEW S \in SUBSET (1 .. n)
    PROVE  /\ IsFiniteSet(S)
           /\ Cardinality(S) \in 0 .. n
           /\ S # 1 .. n => Cardinality(S) < n
           /\ S = 1 .. n => Cardinality(S) = n
<1>1. IsFiniteSet(1 .. n) /\ Cardinality(1 .. n) = n
  BY FS_Interval
<1>2. IsFiniteSet(S) /\ Cardinality(S) <= n /\ (S # 1 .. n => Cardinality(S) < n)
  <2> DEFINE All == 1 .. n
  <2>1. IsFiniteSet(All) /\ Cardinality(All) = n /\ S \in SUBSET All
    BY <1>1
  <2> HIDE DEF All
  <2>2. /\ IsFiniteSet(S) /\ Cardinality(S) <= Cardinality(All)
        /\ Cardinality(All) = Cardinality(S) => All = S
    BY <2>1, FS_Subset
  <2>3. Cardinality(S) \in Nat
    BY <2>2, FS_CardinalityType
  <2> QED BY <2>1, <2>2, <2>3 DEF All
<1>3. Cardinality(S) \in Nat
  BY <1>2, FS_CardinalityType
<1> QED BY <1>1, <1>2, <1>3

(* The next generation of a slot is a generation, and is larger than the   *)
(* present one unless it wraps to 0.                                       *)
LEMMA NextGenerationFacts ==
    ASSUME NEW g \in 0 .. GenerationModulus - 1
    PROVE  /\ NextGeneration(g) \in 0 .. GenerationModulus - 1
           /\ g # GenerationModulus - 1 => g < NextGeneration(g)
  BY ArenaAssumption DEF NextGeneration

LEMMA InitInv == Init => Inv
<1> SUFFICES ASSUME Init PROVE Inv
  OBVIOUS
<1>1. TypeOK
  BY ArenaAssumption DEF Init, TypeOK, Indices
<1>2. DeadBelow
  BY DEF Init, DeadBelow
<1>3. SlotsMatchPeak
  BY FS_EmptySet DEF Init, SlotsMatchPeak
<1> QED BY <1>1, <1>2, <1>3 DEF Inv

(* allocate reusing a free slot *)
LEMMA ReuseInv == Inv /\ ReuseSlot => Inv'
<1> SUFFICES ASSUME Inv, ReuseSlot PROVE Inv'
  OBVIOUS
<1> USE ArenaAssumption
<1>0. PICK i \in Indices \ occupied : occupied' = occupied \cup {i}
  BY DEF ReuseSlot
<1>a. size \in Nat /\ occupied \in SUBSET (1 .. size) /\ occupied # 1 .. size
  BY <1>0 DEF Inv, TypeOK, Indices
<1>b. /\ IsFiniteSet(occupied) /\ Cardinality(occupied) < size
      /\ Cardinality(occupied) \in Nat
  BY <1>a, IndicesFinite
<1>c. Cardinality(occupied') = Cardinality(occupied) + 1
  BY <1>0, <1>b, FS_AddElement
<1>1. TypeOK'
  BY <1>0, <1>b DEF Inv, TypeOK, Indices, ReuseSlot, LiveGrows, SlotsMatchPeak
<1>2. DeadBelow'
  BY DEF Inv, DeadBelow, ReuseSlot, LiveGrows
<1>3. SlotsMatchPeak'
  BY <1>b, <1>c DEF Inv, SlotsMatchPeak, ReuseSlot, LiveGrows, TypeOK
<1> QED BY <1>1, <1>2, <1>3 DEF Inv

(* allocate adding a slot *)
LEMMA AddInv == Inv /\ AddSlot => Inv'
<1> SUFFICES ASSUME Inv, AddSlot PROVE Inv'
  OBVIOUS
<1> USE ArenaAssumption
<1>a. size \in Nat /\ occupied = 1 .. size
  BY DEF Inv, TypeOK, AddSlot, Indices
<1>b. Cardinality(occupied) = size
  BY <1>a, IndicesFinite
<1>c. occupied' = 1 .. (size + 1)
  BY <1>a DEF AddSlot
<1>d. Cardinality(occupied') = size + 1
  BY <1>a, <1>c, IndicesFinite
<1>1. TypeOK'
  <2>1. size' \in 0 .. MaxSlots /\ occupied' \subseteq Indices'
    BY <1>a, <1>c DEF Inv, TypeOK, AddSlot, Indices
  <2>2. generation' \in [Indices' -> 0 .. GenerationModulus - 1]
    BY <1>a DEF Inv, TypeOK, AddSlot, Indices
  <2>3. live' \in 0 .. size' /\ peak' \in 0 .. size'
    BY <1>a DEF Inv, TypeOK, AddSlot, LiveGrows
  <2>4. /\ dead' \subseteq [index : Indices', generation : 0 .. GenerationModulus - 1]
        /\ wrapped' \subseteq Indices'
    BY <1>a DEF Inv, TypeOK, AddSlot, LiveGrows, Indices
  <2> QED BY <2>1, <2>2, <2>3, <2>4 DEF TypeOK
<1>2. DeadBelow'
  <2> SUFFICES ASSUME NEW h \in dead', h.index \notin wrapped'
               PROVE  h.generation < generation'[h.index]
    BY DEF DeadBelow
  <2>1. h \in dead /\ h.index \in 1 .. size /\ h.index \notin wrapped
    BY DEF Inv, TypeOK, AddSlot, LiveGrows, Indices
  <2>2. generation'[h.index] = generation[h.index]
    BY <1>a, <2>1 DEF AddSlot
  <2> QED BY <2>1, <2>2 DEF Inv, DeadBelow
<1>3. SlotsMatchPeak'
  BY <1>a, <1>b, <1>d DEF Inv, SlotsMatchPeak, AddSlot, LiveGrows, TypeOK
<1> QED BY <1>1, <1>2, <1>3 DEF Inv

(* The sweep bumps exactly the generations of the slots it empties, so     *)
(* every handle that dies is below its slot's generation from then on.     *)
LEMMA SweepInv ==
    ASSUME Inv, NEW keep \in SUBSET occupied, Sweep(keep)
    PROVE  Inv'
<1> USE ArenaAssumption
<1>a. size \in Nat /\ occupied \in SUBSET (1 .. size) /\ keep \in SUBSET (1 .. size)
  BY DEF Inv, TypeOK, Indices
<1>b. /\ IsFiniteSet(occupied) /\ IsFiniteSet(keep)
      /\ Cardinality(occupied) \in 0 .. size /\ Cardinality(keep) \in 0 .. size
  BY <1>a, IndicesFinite
<1>c. Cardinality(occupied \ keep) = Cardinality(occupied) - Cardinality(keep)
  <2>1. occupied \cap keep = keep
    OBVIOUS
  <2> QED BY <1>b, <2>1, FS_Difference
<1>d. live' = Cardinality(keep)
  BY <1>b, <1>c DEF Inv, SlotsMatchPeak, Sweep
<1>g. \A i \in Indices :
        /\ generation[i] \in 0 .. GenerationModulus - 1
        /\ NextGeneration(generation[i]) \in 0 .. GenerationModulus - 1
        /\ generation[i] # GenerationModulus - 1
             => generation[i] < NextGeneration(generation[i])
  BY NextGenerationFacts DEF Inv, TypeOK
<1>1. TypeOK'
  <2>1. generation' \in [Indices' -> 0 .. GenerationModulus - 1]
    BY <1>g DEF Inv, TypeOK, Sweep, Indices
  <2>2. dead' \subseteq [index : Indices', generation : 0 .. GenerationModulus - 1]
    BY <1>g, <1>a DEF Inv, TypeOK, Sweep, Indices
  <2>3. wrapped' \subseteq Indices' /\ occupied' \subseteq Indices'
    BY <1>a DEF Inv, TypeOK, Sweep, Indices
  <2>4. size' \in 0 .. MaxSlots /\ live' \in 0 .. size' /\ peak' \in 0 .. size'
    BY <1>b, <1>d DEF Inv, TypeOK, Sweep
  <2> QED BY <2>1, <2>2, <2>3, <2>4 DEF TypeOK
<1>2. DeadBelow'
  <2> SUFFICES ASSUME NEW h \in dead', h.index \notin wrapped'
               PROVE  h.generation < generation'[h.index]
    BY DEF DeadBelow
  <2>1. CASE h \in dead
    <3>1. h.index \in Indices /\ h.generation \in Int
      BY <2>1 DEF Inv, TypeOK
    <3>2. h.generation < generation[h.index]
      BY <2>1 DEF Inv, DeadBelow, Sweep
    <3>3. CASE h.index \in occupied \ keep
      <4>1. generation[h.index] # GenerationModulus - 1
        BY <3>3 DEF Sweep
      <4>2. generation'[h.index] = NextGeneration(generation[h.index])
        BY <3>1, <3>3 DEF Sweep
      <4> QED BY <3>1, <3>2, <4>1, <4>2, <1>g
    <3>4. CASE h.index \notin occupied \ keep
      BY <3>1, <3>2, <3>4 DEF Sweep
    <3> QED BY <3>3, <3>4
  <2>2. CASE h \notin dead
    <3>1. PICK i \in occupied \ keep : h = [index |-> i, generation |-> generation[i]]
      BY <2>2 DEF Sweep
    <3>2. i \in Indices /\ h.index = i /\ h.generation = generation[i]
      BY <3>1, <1>a DEF Indices
    <3>3. generation[i] # GenerationModulus - 1
      BY <3>1, <3>2 DEF Sweep
    <3>4. generation'[i] = NextGeneration(generation[i])
      BY <3>1, <3>2 DEF Sweep
    <3> QED BY <3>2, <3>3, <3>4, <1>g
  <2> QED BY <2>1, <2>2
<1>3. SlotsMatchPeak'
  BY <1>d DEF Inv, SlotsMatchPeak, Sweep
<1> QED BY <1>1, <1>2, <1>3 DEF Inv

LEMMA NextInv == Inv /\ [Next]_arenaVars => Inv'
<1> SUFFICES ASSUME Inv, [Next]_arenaVars PROVE Inv'
  OBVIOUS
<1>1. CASE ReuseSlot
  BY <1>1, ReuseInv
<1>2. CASE AddSlot
  BY <1>2, AddInv
<1>3. CASE \E keep \in SUBSET occupied : Sweep(keep)
  BY <1>3, SweepInv
<1>4. CASE UNCHANGED arenaVars
  BY <1>4 DEF Inv, TypeOK, DeadBelow, SlotsMatchPeak, Indices, arenaVars
<1> QED BY <1>1, <1>2, <1>3, <1>4 DEF Next

(* A handle below its slot's generation does not resolve.                  *)
LEMMA InvImplies == Inv => StaleHandlesFail
<1> SUFFICES ASSUME Inv, NEW h \in dead, h.index \notin wrapped
             PROVE  ~Resolves(h)
  BY DEF StaleHandlesFail
<1>1. h.generation \in Int /\ generation[h.index] \in Int
  BY DEF Inv, TypeOK
<1>2. h.generation < generation[h.index]
  BY DEF Inv, DeadBelow
<1> QED BY <1>1, <1>2 DEF Resolves

(* The arena's state stays in its ranges.                                  *)
THEOREM ArenaTypeCorrect == Spec => []TypeOK
<1>1. Inv => TypeOK
  BY DEF Inv
<1> QED BY InitInv, NextInv, <1>1, PTL DEF Spec

(* The handle of a swept object never resolves again (heap.rs, `object`),  *)
(* unless its slot's generation has wrapped.                               *)
THEOREM NoUseAfterFree == Spec => []StaleHandlesFail
  BY InitInv, NextInv, InvImplies, PTL DEF Spec

(* The arena never adds a slot it could have reused: it has as many as     *)
(* objects were ever live at once.                                         *)
THEOREM SlotsAreReused == Spec => []SlotsMatchPeak
<1>1. Inv => SlotsMatchPeak
  BY DEF Inv
<1> QED BY InitInv, NextInv, <1>1, PTL DEF Spec
=============================================================================
