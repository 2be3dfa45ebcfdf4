--------------------------- MODULE ValidatorProofs ---------------------------
(***************************************************************************)
(* Code that the validator accepts runs: for prototypes of every length,   *)
(* every number of registers and every way through their branches, no      *)
(* instruction reads a register that holds no value or takes the results   *)
(* of a call that was not made, wherever collections happen in between.    *)
(***************************************************************************)
EXTENDS Validator, SelectionLemmas

-----------------------------------------------------------------------------
(***************************************************************************)
(* Iteration and chains of sets.                                           *)
(***************************************************************************)

(* A step on V, repeated, is a function of how often.                      *)
IsStep(step, first, V) == first \in V /\ step \in [V -> V]

Iterates(f, step, first, V, n) ==
  /\ f \in [0 .. n -> V]
  /\ f[0] = first
  /\ \A k \in 1 .. n : f[k] = step[f[k - 1]]

LEMMA IterationExists ==
    ASSUME NEW V, NEW first, NEW step, NEW n \in Nat, IsStep(step, first, V)
    PROVE  \E f : Iterates(f, step, first, V, n)
<1> USE DEF IsStep
<1> DEFINE Runs(f, m) == /\ f \in [0 .. m -> V] /\ f[0] = first
                         /\ \A k \in 1 .. m : f[k] = step[f[k - 1]]
           I == {m \in Nat : \E f : Runs(f, m)}
<1>1. 0 \in I
  <2>1. Runs([k \in 0 .. 0 |-> first], 0)
    OBVIOUS
  <2> QED BY <2>1
<1>2. ASSUME NEW m \in 1 .. n, m - 1 \in I PROVE m \in I
  <2>1. PICK f : Runs(f, m - 1)
    BY <1>2
  <2> DEFINE g == [k \in 0 .. m |-> IF k = m THEN step[f[m - 1]] ELSE f[k]]
  <2>2. f[m - 1] \in V /\ step[f[m - 1]] \in V
    BY <2>1
  <2>3. g \in [0 .. m -> V]
    BY <2>1, <2>2
  <2>4. g[0] = first
    BY <2>1
  <2>5. \A k \in 1 .. m : g[k] = step[g[k - 1]]
    BY <2>1
  <2> HIDE DEF g
  <2>6. Runs(g, m)
    BY <2>3, <2>4, <2>5
  <2> QED BY <2>6
<1>3. n \in I
  <2> HIDE DEF I
  <2>1. \A k \in 0 + 1 .. n : k - 1 \in I => k \in I
    BY <1>2
  <2>2. \A k \in 0 .. n : k \in I
    BY <1>1, <2>1, Upward
  <2> QED BY <2>2
<1> QED BY <1>3 DEF Iterates

(* A growing chain of subsets of a set of n elements that stands still     *)
(* once it has repeated a set stands still after n steps.                  *)
LEMMA ChainStops ==
    ASSUME NEW D, NEW n \in Nat, IsFiniteSet(D), Cardinality(D) = n,
           NEW c \in [0 .. n + 1 -> SUBSET D],
           \A k \in 0 .. n : c[k] \subseteq c[k + 1],
           \A k \in 0 .. n - 1 : c[k] = c[k + 1] => c[k + 1] = c[k + 2]
    PROVE  c[n] = c[n + 1]
<1> SUFFICES ASSUME c[n] # c[n + 1] PROVE FALSE
  OBVIOUS
<1>1. \A k \in 0 .. n : c[k] # c[k + 1]
  <2> SUFFICES ASSUME NEW j \in 0 .. n, c[j] = c[j + 1] PROVE FALSE
    OBVIOUS
  <2> DEFINE I == {k \in 0 .. n : c[k] = c[k + 1]}
  <2>1. j \in I
    OBVIOUS
  <2>2. ASSUME NEW k \in j + 1 .. n, k - 1 \in I PROVE k \in I
    <3>1. k - 1 \in 0 .. n - 1 /\ k - 1 + 1 = k /\ k - 1 + 2 = k + 1
      OBVIOUS
    <3>2. c[k - 1] = c[k]
      BY <2>2, <3>1
    <3> QED BY <3>1, <3>2
  <2>3. n \in I
    <3> HIDE DEF I
    <3>1. \A k \in j + 1 .. n : k - 1 \in I => k \in I
      BY <2>2
    <3>2. j \in Nat
      OBVIOUS
    <3>3. \A k \in j .. n : k \in I
      BY <2>1, <3>1, <3>2, Upward
    <3> QED BY <3>3
  <2> QED BY <2>3
<1>2. \A k \in 0 .. n + 1 : IsFiniteSet(c[k]) /\ Cardinality(c[k]) \in 0 .. n
  <2> SUFFICES ASSUME NEW k \in 0 .. n + 1 PROVE IsFiniteSet(c[k]) /\ Cardinality(c[k]) \in 0 .. n
    OBVIOUS
  <2>1. c[k] \in SUBSET D
    OBVIOUS
  <2>2. IsFiniteSet(c[k]) /\ Cardinality(c[k]) <= n
    BY <2>1, FS_Subset
  <2>3. Cardinality(c[k]) \in Nat
    BY <2>2, FS_CardinalityType
  <2> QED BY <2>2, <2>3
<1> DEFINE I == {k \in 0 .. n + 1 : Cardinality(c[k]) >= k}
<1>3. 0 \in I
  BY <1>2
<1>4. ASSUME NEW k \in 1 .. n + 1, k - 1 \in I PROVE k \in I
  <2>1. k - 1 \in 0 .. n /\ k - 1 + 1 = k
    OBVIOUS
  <2>2. c[k - 1] \in SUBSET c[k] /\ c[k - 1] # c[k]
    BY <1>1, <2>1
  <2>3. IsFiniteSet(c[k]) /\ Cardinality(c[k]) \in 0 .. n /\ Cardinality(c[k - 1]) \in 0 .. n
    <3>1. k \in 0 .. n + 1 /\ k - 1 \in 0 .. n + 1
      BY <2>1
    <3> QED BY <1>2, <3>1, Zenon
  <2>4. Cardinality(c[k - 1]) <= Cardinality(c[k]) /\ Cardinality(c[k - 1]) # Cardinality(c[k])
    BY <2>2, <2>3, FS_Subset
  <2>5. Cardinality(c[k - 1]) >= k - 1
    BY <1>4
  <2> QED BY <2>3, <2>4, <2>5
<1>5. n + 1 \in I
  <2> HIDE DEF I
  <2>1. \A k \in 0 + 1 .. n + 1 : k - 1 \in I => k \in I
    BY <1>4
  <2>2. n + 1 \in Nat
    OBVIOUS
  <2>3. \A k \in 0 .. n + 1 : k \in I
    BY <1>3, <2>1, <2>2, Upward
  <2> QED BY <2>2, <2>3
<1> QED BY <1>2, <1>5

-----------------------------------------------------------------------------
(***************************************************************************)
(* The liveness masks.                                                     *)
(***************************************************************************)
Before(code, live, k) ==
  InstructionReads(code[k])
  \cup ((UNION {live[q] : q \in Successors(code, k)}) \ InstructionWrites(code[k]))

Pass(code, live) == [k \in DOMAIN code |-> Before(code, live, k)]

ReadAnywhere(code) == UNION {InstructionReads(code[k]) : k \in DOMAIN code}

Masks(code) == [DOMAIN code -> SUBSET ReadAnywhere(code)]

NoMasks(code) == [k \in DOMAIN code |-> {}]

(* The passes over a code, with one more than the virtual machine makes.   *)
IsIteration(code, P) ==
  /\ P \in [0 .. Len(code) + 1 -> Masks(code)]
  /\ P[0] = NoMasks(code)
  /\ \A k \in 1 .. Len(code) + 1 : P[k] = Pass(code, P[k - 1])
  /\ LiveRegisterMasks(code) = P[Len(code)]

LEMMA PassTyped ==
    ASSUME NEW code, NEW live \in Masks(code)
    PROVE  Pass(code, live) \in Masks(code)
<1>1. ASSUME NEW k \in DOMAIN code
      PROVE  Before(code, live, k) \in SUBSET ReadAnywhere(code)
  <2>1. InstructionReads(code[k]) \subseteq ReadAnywhere(code)
    BY DEF ReadAnywhere
  <2>2. \A q \in Successors(code, k) : live[q] \subseteq ReadAnywhere(code)
    BY DEF Successors, Masks
  <2> QED BY <2>1, <2>2 DEF Before
<1> QED BY <1>1 DEF Pass, Masks

LEMMA LivenessIterates ==
    ASSUME NEW A, NEW code \in Seq(A)
    PROVE  \E P : IsIteration(code, P)
<1> DEFINE n == Len(code)
           step == [live \in Masks(code) |-> Pass(code, live)]
           Recursive(f) == f = [k \in 0 .. n |-> IF k = 0 THEN NoMasks(code) ELSE Pass(code, f[k - 1])]
           P0 == CHOOSE f : Recursive(f)
           P == [k \in 0 .. n + 1 |-> IF k <= n THEN P0[k] ELSE Pass(code, P0[n])]
<1>1. n \in Nat /\ DOMAIN code = 1 .. n
  BY LenProperties
<1>2. NoMasks(code) \in Masks(code)
  BY DEF NoMasks, Masks
<1>3. step \in [Masks(code) -> Masks(code)]
  BY PassTyped
<1>4. PICK f : Iterates(f, step, NoMasks(code), Masks(code), n)
  <2>1. IsStep(step, NoMasks(code), Masks(code))
    BY <1>2, <1>3 DEF IsStep
  <2> HIDE DEF step, n
  <2> QED BY <1>1, <2>1, IterationExists
<1>5. \A k \in 1 .. n : f[k] = Pass(code, f[k - 1])
  <2> SUFFICES ASSUME NEW k \in 1 .. n PROVE f[k] = Pass(code, f[k - 1])
    OBVIOUS
  <2>1. k - 1 \in 0 .. n
    BY <1>1
  <2> QED BY <1>4, <2>1 DEF Iterates
<1> HIDE DEF step
<1>6. Recursive(f)
  <2>1. \A k \in 0 .. n : f[k] = IF k = 0 THEN NoMasks(code) ELSE Pass(code, f[k - 1])
    BY <1>1, <1>4, <1>5 DEF Iterates
  <2> QED BY <1>4, <2>1 DEF Iterates
<1>7. Recursive(P0)
  <2> HIDE DEF Recursive
  <2> QED BY <1>6, Zenon
<1>8. LiveRegisterMasks(code) = P0[n]
  BY Zenon DEF LiveRegisterMasks, Pass, Before, NoMasks
<1> HIDE DEF P0
<1>9. /\ P0[0] = NoMasks(code)
      /\ \A k \in 1 .. n : P0[k] = Pass(code, P0[k - 1])
  <2>1. \A k \in 0 .. n : P0[k] = IF k = 0 THEN NoMasks(code) ELSE Pass(code, P0[k - 1])
    <3>1. \A g : g = [k \in 0 .. n |-> IF k = 0 THEN NoMasks(code) ELSE Pass(code, P0[k - 1])]
                   => \A k \in 0 .. n : g[k] = IF k = 0 THEN NoMasks(code) ELSE Pass(code, P0[k - 1])
      OBVIOUS
    <3> QED BY <1>7, <3>1
  <2> QED BY <1>1, <2>1
<1>10. \A k \in 0 .. n : P0[k] \in Masks(code)
  <2> DEFINE I == {k \in 0 .. n : P0[k] \in Masks(code)}
  <2>1. 0 \in I
    BY <1>1, <1>2, <1>9
  <2>2. \A k \in 0 + 1 .. n : k - 1 \in I => k \in I
    BY <1>1, <1>9, PassTyped
  <2>3. \A k \in 0 .. n : k \in I
    <3> HIDE DEF I, n
    <3> QED BY <1>1, <2>1, <2>2, Upward
  <2> QED BY <2>3
<1>11. P \in [0 .. n + 1 -> Masks(code)]
  <2>1. Pass(code, P0[n]) \in Masks(code)
    BY <1>1, <1>10, PassTyped
  <2> QED BY <1>1, <1>10, <2>1
<1>12. P[0] = NoMasks(code) /\ P[n] = P0[n]
  BY <1>1, <1>9
<1>13. \A k \in 1 .. n + 1 : P[k] = Pass(code, P[k - 1])
  BY <1>1, <1>9
<1> HIDE DEF P
<1>14. IsIteration(code, P)
  BY <1>8, <1>11, <1>12, <1>13 DEF IsIteration
<1> QED BY <1>14

LEMMA PassIs ==
    ASSUME NEW code, NEW live, NEW k \in DOMAIN code, NEW r
    PROVE  r \in Pass(code, live)[k] <=>
             \/ r \in InstructionReads(code[k])
             \/ r \notin InstructionWrites(code[k]) /\ \E q \in Successors(code, k) : r \in live[q]
<1> DEFINE after == UNION {live[q] : q \in Successors(code, k)}
<1>1. r \in after <=> \E q \in Successors(code, k) : r \in live[q]
  OBVIOUS
<1>2. Pass(code, live)[k] = Before(code, live, k)
  BY DEF Pass
<1>3. Before(code, live, k) = InstructionReads(code[k]) \cup (after \ InstructionWrites(code[k]))
  BY DEF Before
<1> HIDE DEF after
<1> QED BY <1>1, <1>2, <1>3

(* A pass only adds registers, if the pass before did.                     *)
LEMMA PassGrows ==
    ASSUME NEW code, NEW live \in Masks(code), NEW more \in Masks(code),
           \A k \in DOMAIN code : live[k] \subseteq more[k]
    PROVE  \A k \in DOMAIN code : Pass(code, live)[k] \subseteq Pass(code, more)[k]
<1> SUFFICES ASSUME NEW k \in DOMAIN code, NEW r \in Pass(code, live)[k] PROVE r \in Pass(code, more)[k]
  OBVIOUS
<1>1. \A q \in Successors(code, k) : q \in DOMAIN code
  BY DEF Successors
<1> QED BY <1>1, PassIs

LEMMA IterationGrows ==
    ASSUME NEW A, NEW code \in Seq(A), NEW P, IsIteration(code, P)
    PROVE  \A j \in 0 .. Len(code) : \A k \in DOMAIN code : P[j][k] \subseteq P[j + 1][k]
<1> DEFINE n == Len(code)
           I == {j \in 0 .. n : \A k \in DOMAIN code : P[j][k] \subseteq P[j + 1][k]}
<1>1. n \in Nat
  BY LenProperties
<1>2. 0 \in I
  BY <1>1 DEF IsIteration, NoMasks
<1>3. ASSUME NEW j \in 0 + 1 .. n, j - 1 \in I PROVE j \in I
  <2>1. /\ j - 1 \in 0 .. n + 1 /\ j \in 1 .. n + 1 /\ j + 1 \in 1 .. n + 1
        /\ j - 1 + 1 = j /\ j + 1 - 1 = j /\ j \in 0 .. n + 1
    BY <1>1
  <2>2. P[j] = Pass(code, P[j - 1]) /\ P[j + 1] = Pass(code, P[j])
    BY <2>1 DEF IsIteration
  <2>3. P[j - 1] \in Masks(code) /\ P[j] \in Masks(code)
    BY <2>1 DEF IsIteration
  <2>4. \A k \in DOMAIN code : P[j - 1][k] \subseteq P[j][k]
    BY <1>3, <2>1
  <2>5. \A k \in DOMAIN code : P[j][k] \subseteq P[j + 1][k]
    BY <2>2, <2>3, <2>4, PassGrows
  <2> QED BY <2>1, <2>5
<1>4. \A j \in 0 .. n : j \in I
  <2> HIDE DEF I, n
  <2> QED BY <1>1, <1>2, <1>3, Upward
<1> QED BY <1>4

(* Every pass is below the last one.                                       *)
LEMMA PassesBelow ==
    ASSUME NEW A, NEW code \in Seq(A), NEW P, IsIteration(code, P)
    PROVE  \A j \in 0 .. Len(code) : \A k \in DOMAIN code : P[j][k] \subseteq LiveRegisterMasks(code)[k]
<1> SUFFICES ASSUME NEW j \in 0 .. Len(code)
             PROVE  \A k \in DOMAIN code : P[j][k] \subseteq LiveRegisterMasks(code)[k]
  OBVIOUS
<1> DEFINE n == Len(code)
           I == {m \in j .. n : \A k \in DOMAIN code : P[j][k] \subseteq P[m][k]}
<1>1. n \in Nat /\ j \in Nat
  BY LenProperties
<1>2. j \in I
  BY <1>1
<1>3. ASSUME NEW m \in j + 1 .. n, m - 1 \in I PROVE m \in I
  <2>1. m - 1 \in 0 .. n /\ m - 1 + 1 = m /\ m \in j .. n
    BY <1>1
  <2>2. \A k \in DOMAIN code : P[m - 1][k] \subseteq P[m][k]
    BY <2>1, IterationGrows
  <2> QED BY <1>3, <2>1, <2>2
<1>4. n \in I
  <2> HIDE DEF I, n
  <2>1. \A m \in j .. n : m \in I
    BY <1>1, <1>2, <1>3, Upward
  <2>2. n \in j .. n
    BY <1>1 DEF n
  <2> QED BY <2>1, <2>2
<1> QED BY <1>4 DEF IsIteration

(* The masks are where the passes stand still: another one adds nothing.   *)
LEMMA LivenessStable ==
    ASSUME NEW A, NEW code \in Seq(A), NEW P, IsIteration(code, P)
    PROVE  \A k \in DOMAIN code : P[Len(code) + 1][k] \subseteq P[Len(code)][k]
<1> DEFINE n == Len(code)
<1>1. n \in Nat /\ DOMAIN code = 1 .. n
  BY LenProperties
<1> SUFFICES ASSUME NEW r PROVE \A k \in DOMAIN code : r \in P[n + 1][k] => r \in P[n][k]
  OBVIOUS
<1> DEFINE c == [j \in 0 .. n + 1 |-> {k \in DOMAIN code : r \in P[j][k]}]
<1>2. IsFiniteSet(DOMAIN code) /\ Cardinality(DOMAIN code) = n
  <2>1. IsFiniteSet(1 .. n) /\ Cardinality(1 .. n) = IF 1 > n THEN 0 ELSE n - 1 + 1
    BY <1>1, FS_Interval
  <2> QED BY <1>1, <2>1
<1>3. c \in [0 .. n + 1 -> SUBSET DOMAIN code]
  OBVIOUS
<1>4. \A j \in 0 .. n : c[j] \subseteq c[j + 1]
  <2> SUFFICES ASSUME NEW j \in 0 .. n PROVE c[j] \subseteq c[j + 1]
    OBVIOUS
  <2>1. j \in 0 .. n + 1 /\ j + 1 \in 0 .. n + 1
    BY <1>1
  <2>2. \A k \in DOMAIN code : P[j][k] \subseteq P[j + 1][k]
    BY IterationGrows
  <2> QED BY <2>1, <2>2
<1>5. \A j \in 0 .. n - 1 : c[j] = c[j + 1] => c[j + 1] = c[j + 2]
  <2> SUFFICES ASSUME NEW j \in 0 .. n - 1, c[j] = c[j + 1] PROVE c[j + 1] = c[j + 2]
    OBVIOUS
  <2>1. /\ j \in 0 .. n + 1 /\ j + 1 \in 0 .. n + 1 /\ j + 2 \in 0 .. n + 1
        /\ j + 1 \in 1 .. n + 1 /\ j + 2 \in 1 .. n + 1 /\ j + 1 - 1 = j /\ j + 2 - 1 = j + 1
    BY <1>1
  <2>2. P[j + 1] = Pass(code, P[j]) /\ P[j + 2] = Pass(code, P[j + 1])
    BY <2>1 DEF IsIteration
  <2>3. \A k \in DOMAIN code : r \in P[j][k] <=> r \in P[j + 1][k]
    BY <2>1
  <2>4. \A k \in DOMAIN code : r \in Pass(code, P[j])[k] <=> r \in Pass(code, P[j + 1])[k]
    <3> SUFFICES ASSUME NEW k \in DOMAIN code
                 PROVE  r \in Pass(code, P[j])[k] <=> r \in Pass(code, P[j + 1])[k]
      OBVIOUS
    <3>1. \A q \in Successors(code, k) : q \in DOMAIN code
      BY DEF Successors
    <3>2. (\E q \in Successors(code, k) : r \in P[j][q]) <=> \E q \in Successors(code, k) : r \in P[j + 1][q]
      BY <2>3, <3>1
    <3> QED BY <3>2, PassIs
  <2> QED BY <2>1, <2>2, <2>4
<1>6. c[n] = c[n + 1]
  <2> DEFINE D == DOMAIN code
  <2>1. IsFiniteSet(D) /\ Cardinality(D) = n /\ c \in [0 .. n + 1 -> SUBSET D]
    BY <1>2, <1>3
  <2> HIDE DEF c, n, D
  <2> QED BY <1>1, <1>4, <1>5, <2>1, ChainStops
<1>7. n \in 0 .. n + 1 /\ n + 1 \in 0 .. n + 1
  BY <1>1
<1> QED BY <1>6, <1>7

(* What an instruction reads is live there, and what is live after it and  *)
(* not written by it is live before it.                                    *)
LEMMA LivenessFlows ==
    ASSUME NEW A, NEW code \in Seq(A), NEW k \in DOMAIN code
    PROVE  /\ InstructionReads(code[k]) \subseteq LiveRegisterMasks(code)[k]
           /\ \A q \in Successors(code, k) :
                LiveRegisterMasks(code)[q] \subseteq LiveRegisterMasks(code)[k] \cup InstructionWrites(code[k])
<1> DEFINE n == Len(code)
<1>1. n \in Nat /\ n + 1 \in 1 .. n + 1 /\ n + 1 - 1 = n
  BY LenProperties
<1>2. PICK P : IsIteration(code, P)
  BY LivenessIterates
<1>3. P[n + 1] = Pass(code, P[n]) /\ LiveRegisterMasks(code) = P[n]
  BY <1>1, <1>2 DEF IsIteration
<1>4. Pass(code, P[n])[k] \subseteq P[n][k]
  BY <1>2, <1>3, LivenessStable
<1>5. InstructionReads(code[k]) \subseteq Pass(code, P[n])[k]
  BY PassIs
<1>6. \A q \in Successors(code, k) : P[n][q] \subseteq Pass(code, P[n])[k] \cup InstructionWrites(code[k])
  BY PassIs
<1> HIDE DEF n
<1> QED BY <1>3, <1>4, <1>5, <1>6

(* A register is dead where no way on reads it before it writes it: in any *)
(* set S of places that do not read r and which only a write of r, or a    *)
(* branch to where r is dead, leaves.                                      *)
LEMMA LivenessIsNeed ==
    ASSUME NEW A, NEW code \in Seq(A), NEW r, NEW S \in SUBSET DOMAIN code,
           \A k \in S : r \notin InstructionReads(code[k]),
           \A k \in S : r \notin InstructionWrites(code[k]) =>
             \A q \in Successors(code, k) : r \in LiveRegisterMasks(code)[q] => q \in S
    PROVE  \A k \in S : r \notin LiveRegisterMasks(code)[k]
<1> DEFINE n == Len(code)
<1>1. n \in Nat
  BY LenProperties
<1>2. PICK P : IsIteration(code, P)
  BY LivenessIterates
<1> DEFINE I == {j \in 0 .. n : \A k \in S : r \notin P[j][k]}
<1>3. 0 \in I
  BY <1>1, <1>2 DEF IsIteration, NoMasks
<1>4. ASSUME NEW j \in 0 + 1 .. n, j - 1 \in I PROVE j \in I
  <2>1. j \in 1 .. n + 1 /\ j \in 0 .. n /\ j - 1 \in 0 .. n
    BY <1>1
  <2>2. P[j] = Pass(code, P[j - 1])
    BY <1>2, <2>1 DEF IsIteration
  <2>3. \A k \in DOMAIN code : P[j - 1][k] \subseteq LiveRegisterMasks(code)[k]
    BY <1>2, <2>1, PassesBelow
  <2>4. ASSUME NEW k \in S, r \in P[j][k] PROVE FALSE
    <3>1. k \in DOMAIN code /\ r \notin InstructionReads(code[k])
      OBVIOUS
    <3>2. PICK q \in Successors(code, k) : r \notin InstructionWrites(code[k]) /\ r \in P[j - 1][q]
      BY <2>2, <2>4, <3>1, PassIs
    <3>3. q \in DOMAIN code
      BY DEF Successors
    <3>4. r \in LiveRegisterMasks(code)[q]
      BY <2>3, <3>2, <3>3
    <3>5. q \in S
      BY <3>2, <3>4
    <3> QED BY <1>4, <3>2, <3>5
  <2> QED BY <2>1, <2>4
<1>5. n \in I
  <2> HIDE DEF I, n
  <2>1. \A j \in 0 .. n : j \in I
    BY <1>1, <1>3, <1>4, Upward
  <2>2. n \in 0 .. n
    BY <1>1
  <2> QED BY <2>1, <2>2
<1> QED BY <1>2, <1>5 DEF IsIteration

-----------------------------------------------------------------------------
(***************************************************************************)
(* The paths on which a register is not yet written.                       *)
(***************************************************************************)
Onward(code, r, seen) ==
  seen \cup UNION {Successors(code, q) : q \in {q \in seen : r \notin InstructionWrites(code[q])}}

LEMMA OnwardIs ==
    ASSUME NEW code, NEW r, NEW seen, NEW k
    PROVE  k \in Onward(code, r, seen) <=>
             k \in seen \/ \E q \in seen : r \notin InstructionWrites(code[q]) /\ k \in Successors(code, q)
BY DEF Onward

(* The steps over the paths, with one more than the validator makes.       *)
IsWalk(code, target, r, R) ==
  /\ R \in [0 .. Len(code) + 1 -> SUBSET DOMAIN code]
  /\ R[0] = {target}
  /\ \A k \in 1 .. Len(code) + 1 : R[k] = Onward(code, r, R[k - 1])
  /\ UnwrittenFrom(code, target, r) = R[Len(code)]

LEMMA WalkExists ==
    ASSUME NEW A, NEW code \in Seq(A), NEW target \in DOMAIN code, NEW r
    PROVE  \E R : IsWalk(code, target, r, R)
<1> DEFINE n == Len(code)
           V == SUBSET DOMAIN code
           step == [seen \in V |-> Onward(code, r, seen)]
           Recursive(f) == f = [k \in 0 .. n |-> IF k = 0 THEN {target} ELSE Onward(code, r, f[k - 1])]
           R0 == CHOOSE f : Recursive(f)
           R == [k \in 0 .. n + 1 |-> IF k <= n THEN R0[k] ELSE Onward(code, r, R0[n])]
<1>1. n \in Nat /\ DOMAIN code = 1 .. n
  BY LenProperties
<1>2. \A seen \in V : Onward(code, r, seen) \in V
  BY OnwardIs DEF Successors
<1>3. PICK f : Iterates(f, step, {target}, V, n)
  <2>1. IsStep(step, {target}, V)
    BY <1>2 DEF IsStep
  <2> HIDE DEF step, n, V
  <2> QED BY <1>1, <2>1, IterationExists
<1>4. \A k \in 1 .. n : f[k] = Onward(code, r, f[k - 1])
  <2> SUFFICES ASSUME NEW k \in 1 .. n PROVE f[k] = Onward(code, r, f[k - 1])
    OBVIOUS
  <2>1. k - 1 \in 0 .. n
    BY <1>1
  <2>2. f[k - 1] \in V /\ f[k] = step[f[k - 1]]
    BY <1>3, <2>1 DEF Iterates
  <2> QED BY <2>2
<1> HIDE DEF step
<1>5. Recursive(f)
  <2>1. \A k \in 0 .. n : f[k] = IF k = 0 THEN {target} ELSE Onward(code, r, f[k - 1])
    BY <1>1, <1>3, <1>4 DEF Iterates
  <2> QED BY <1>3, <2>1 DEF Iterates
<1>6. Recursive(R0)
  <2> HIDE DEF Recursive
  <2> QED BY <1>5, Zenon
<1>7. UnwrittenFrom(code, target, r) = R0[n]
  BY Zenon DEF UnwrittenFrom, Onward
<1> HIDE DEF R0
<1>8. /\ R0[0] = {target}
      /\ \A k \in 1 .. n : R0[k] = Onward(code, r, R0[k - 1])
  <2>1. \A k \in 0 .. n : R0[k] = IF k = 0 THEN {target} ELSE Onward(code, r, R0[k - 1])
    <3>1. \A g : g = [k \in 0 .. n |-> IF k = 0 THEN {target} ELSE Onward(code, r, R0[k - 1])]
                   => \A k \in 0 .. n : g[k] = IF k = 0 THEN {target} ELSE Onward(code, r, R0[k - 1])
      OBVIOUS
    <3> QED BY <1>6, <3>1
  <2> QED BY <1>1, <2>1
<1>9. \A k \in 0 .. n : R0[k] \in V
  <2> DEFINE I == {k \in 0 .. n : R0[k] \in V}
  <2>1. 0 \in I
    BY <1>1, <1>8
  <2>2. \A k \in 0 + 1 .. n : k - 1 \in I => k \in I
    <3> HIDE DEF V
    <3> QED BY <1>1, <1>2, <1>8
  <2>3. \A k \in 0 .. n : k \in I
    <3> HIDE DEF I, n
    <3> QED BY <1>1, <2>1, <2>2, Upward
  <2> QED BY <2>3
<1>10. R \in [0 .. n + 1 -> V]
  <2>1. Onward(code, r, R0[n]) \in V
    <3> HIDE DEF V
    <3> QED BY <1>1, <1>2, <1>9
  <2> QED BY <1>1, <1>9, <2>1
<1>11. R[0] = {target} /\ R[n] = R0[n]
  BY <1>1, <1>8
<1>12. \A k \in 1 .. n + 1 : R[k] = Onward(code, r, R[k - 1])
  BY <1>1, <1>8
<1> HIDE DEF R
<1>13. IsWalk(code, target, r, R)
  BY <1>7, <1>10, <1>11, <1>12 DEF IsWalk
<1> QED BY <1>13

(* The walk has come to an end: the places at which r may not have been    *)
(* written are closed under the steps that do not write it.                *)
LEMMA UnwrittenClosed ==
    ASSUME NEW A, NEW code \in Seq(A), NEW target \in DOMAIN code, NEW r
    PROVE  /\ target \in UnwrittenFrom(code, target, r)
           /\ UnwrittenFrom(code, target, r) \subseteq DOMAIN code
           /\ \A k \in UnwrittenFrom(code, target, r) :
                r \notin InstructionWrites(code[k]) => Successors(code, k) \subseteq UnwrittenFrom(code, target, r)
<1> DEFINE n == Len(code)
           D == DOMAIN code
<1>1. n \in Nat /\ DOMAIN code = 1 .. n
  BY LenProperties
<1>2. PICK R : IsWalk(code, target, r, R)
  BY WalkExists
<1>3. R \in [0 .. n + 1 -> SUBSET D]
  BY <1>2 DEF IsWalk
<1>4. \A j \in 0 .. n : R[j + 1] = Onward(code, r, R[j])
  <2> SUFFICES ASSUME NEW j \in 0 .. n PROVE R[j + 1] = Onward(code, r, R[j])
    OBVIOUS
  <2>1. j + 1 \in 1 .. n + 1 /\ j + 1 - 1 = j
    BY <1>1
  <2> QED BY <1>2, <2>1 DEF IsWalk
<1>5. \A j \in 0 .. n : R[j] \subseteq R[j + 1]
  BY <1>4, OnwardIs
<1>6. IsFiniteSet(D) /\ Cardinality(D) = n
  <2>1. IsFiniteSet(1 .. n) /\ Cardinality(1 .. n) = IF 1 > n THEN 0 ELSE n - 1 + 1
    BY <1>1, FS_Interval
  <2> QED BY <1>1, <2>1
<1>7. \A j \in 0 .. n - 1 : R[j] = R[j + 1] => R[j + 1] = R[j + 2]
  <2> SUFFICES ASSUME NEW j \in 0 .. n - 1, R[j] = R[j + 1] PROVE R[j + 1] = R[j + 2]
    OBVIOUS
  <2>1. j \in 0 .. n /\ j + 1 \in 0 .. n /\ j + 1 + 1 = j + 2
    BY <1>1
  <2>2. R[j + 1] = Onward(code, r, R[j]) /\ R[j + 2] = Onward(code, r, R[j + 1])
    BY <1>4, <2>1
  <2> QED BY <2>2
<1>8. R[n] = R[n + 1]
  <2> HIDE DEF n, D
  <2> QED BY <1>1, <1>3, <1>5, <1>6, <1>7, ChainStops
<1>9. R[n] = Onward(code, r, R[n]) /\ UnwrittenFrom(code, target, r) = R[n]
  BY <1>1, <1>2, <1>4, <1>8 DEF IsWalk
<1>10. \A k \in R[n] : r \notin InstructionWrites(code[k]) => Successors(code, k) \subseteq R[n]
  <2> SUFFICES ASSUME NEW k \in R[n], r \notin InstructionWrites(code[k]), NEW q \in Successors(code, k)
               PROVE  q \in R[n]
    OBVIOUS
  <2>1. q \in Onward(code, r, R[n])
    BY OnwardIs
  <2> QED BY <1>9, <2>1
<1>11. target \in R[n]
  <2> DEFINE I == {j \in 0 .. n : target \in R[j]}
  <2>1. 0 \in I
    BY <1>1, <1>2 DEF IsWalk
  <2>2. ASSUME NEW j \in 0 + 1 .. n, j - 1 \in I PROVE j \in I
    <3>1. j - 1 \in 0 .. n /\ j - 1 + 1 = j
      BY <1>1
    <3>2. R[j - 1] \subseteq R[j]
      BY <1>5, <3>1
    <3> QED BY <2>2, <3>2
  <2>3. \A j \in 0 .. n : j \in I
    <3> HIDE DEF I, n
    <3> QED BY <1>1, <2>1, <2>2, Upward
  <2>4. n \in 0 .. n
    BY <1>1
  <2> QED BY <2>3, <2>4
<1> QED BY <1>1, <1>3, <1>9, <1>10, <1>11

(* The virtual machine's liveness asks for no more than the validator: a   *)
(* register of the prototype that is live at a target is one that some     *)
(* path from there reads before it writes it.                              *)
LEMMA LiveIsRequired ==
    ASSUME NEW p, NEW A, p.code \in Seq(A), NEW target \in DOMAIN p.code
    PROVE  LiveRegisterMasks(p.code)[target] \cap RegisterFile(p) \subseteq BackwardBranchRequirements(p, target)
<1> SUFFICES ASSUME NEW r \in RegisterFile(p), r \notin BackwardBranchRequirements(p, target)
             PROVE  r \notin LiveRegisterMasks(p.code)[target]
  OBVIOUS
<1> DEFINE code == p.code
           S == UnwrittenFrom(code, target, r)
<1>1. code \in Seq(A) /\ target \in DOMAIN code
  OBVIOUS
<1>2. \A k \in S : r \notin InstructionReads(code[k])
  BY DEF BackwardBranchRequirements
<1>3. /\ target \in S /\ S \in SUBSET DOMAIN code
      /\ \A k \in S : r \notin InstructionWrites(code[k]) => Successors(code, k) \subseteq S
  <2> HIDE DEF code
  <2> QED BY <1>1, UnwrittenClosed
<1> HIDE DEF code, S
<1>4. \A k \in S : r \notin LiveRegisterMasks(code)[k]
  <2>1. \A k \in S : r \notin InstructionWrites(code[k]) =>
          \A q \in Successors(code, k) : r \in LiveRegisterMasks(code)[q] => q \in S
    BY <1>3
  <2> QED BY <1>1, <1>2, <1>3, <2>1, LivenessIsNeed
<1> QED BY <1>3, <1>4 DEF code

-----------------------------------------------------------------------------
(***************************************************************************)
(* The checks of one instruction.                                          *)
(***************************************************************************)
Instructions == UNION {f.alphabet \cup f.ends : f \in Families}

Prototypes == [code : Seq(Instructions), family : Families]

LEMMA InstructionTyped ==
    ASSUME NEW p \in Prototypes, NEW k \in DOMAIN p.code
    PROVE  p.code \in Seq(Instructions) /\ p.code[k].op \in Opcodes
<1>1. p.code \in Seq(Instructions) /\ p.code[k] \in Instructions
  BY ElementOfSeq, LenProperties DEF Prototypes
<1> QED BY <1>1, FamiliesAssumption DEF Instructions

LEMMA CheckIsBoolean ==
    ASSUME NEW p \in Prototypes, NEW k \in DOMAIN p.code, NEW init, NEW states
    PROVE  InstructionOK(p, k, init, states) \in BOOLEAN
<1> DEFINE i == p.code[k]
<1>1. i.op \in Opcodes
  BY InstructionTyped
<1>2. CallOK(p, k, init) \in BOOLEAN
  BY DEF CallOK, FixedCallOK, AllResultsOK, ListCallOK, ReturnCallOK
<1>3. ClosureOK(p, i, init) \in BOOLEAN
  <2>1. CASE i.op = "Closure"
    BY <2>1 DEF ClosureOK
  <2>2. CASE i.op # "Closure"
    <3>1. ClosureOK(p, i, init) = (i.from <= p.family.registers)
      BY <2>2 DEF ClosureOK
    <3> QED BY <3>1
  <2> QED BY <2>1, <2>2
<1>4. JumpOK(p, k, init, states) \in BOOLEAN
  BY DEF JumpOK
<1>5. JumpIfOK(p, k, init) \in BOOLEAN /\ ReturnOK(p, i, init) \in BOOLEAN /\ VarargsOK(p, i, init) \in BOOLEAN
      /\ LoadOK(p, i, init) \in BOOLEAN /\ OperatorOK(p, i, init) \in BOOLEAN
  BY DEF JumpIfOK, ReturnOK, VarargsOK, LoadOK, OperatorOK
<1>6. i.op \in Stores \cup {"SetTable", "SetListVarargs"} => TableOK(p, i, init) \in BOOLEAN
  <2>1. CASE i.op \in Stores
    <3>1. TableOK(p, i, init) = (i.s \in init)
      BY <2>1 DEF TableOK, Stores
    <3> QED BY <3>1
  <2>2. CASE i.op = "SetTable"
    BY <2>2 DEF TableOK, Stores
  <2>3. CASE i.op = "SetListVarargs"
    <3>1. TableOK(p, i, init) = (i.t \in init /\ (i.start > 0 \/ p.family.profile \in {"Blu", "Lua55"}))
      BY <2>3 DEF TableOK, Stores
    <3> QED BY <3>1
  <2> QED BY <2>1, <2>2, <2>3
<1> QED
  BY <1>1, <1>2, <1>3, <1>4, <1>5, <1>6
     DEF InstructionOK, Opcodes, Loads, Stores, Unaries, Binaries, Operators

(* An instruction that passes its check reads initialized registers only   *)
(* and writes registers of the prototype.                                  *)
LEMMA CheckedInstruction ==
    ASSUME NEW p \in Prototypes, NEW k \in DOMAIN p.code, NEW init, NEW states,
           InstructionOK(p, k, init, states)
    PROVE  /\ InstructionReads(p.code[k]) \subseteq init
           /\ InstructionWrites(p.code[k]) \subseteq RegisterFile(p)
<1> DEFINE i == p.code[k]
<1>1. i.op \in Opcodes
  BY InstructionTyped
<1>2. CASE i.op \in Loads
  BY <1>2 DEF InstructionOK, LoadOK, InstructionReads, InstructionWrites,
              Loads, Stores, Unaries, Binaries, Operators
<1>3. CASE i.op \in Stores \cup {"SetTable", "SetListVarargs"}
  BY <1>3 DEF InstructionOK, TableOK, InstructionReads, InstructionWrites,
              Loads, Stores, Unaries, Binaries, Operators
<1>4. CASE i.op \in Unaries \cup Binaries
  BY <1>4 DEF InstructionOK, OperatorOK, InstructionReads, InstructionWrites,
              Loads, Stores, Unaries, Binaries, Operators
<1>5. CASE i.op = "Call"
  BY <1>5 DEF InstructionOK, CallOK, FixedCallOK, AllResultsOK, ListCallOK, ReturnCallOK,
              InstructionReads, InstructionWrites, Loads, Stores, Unaries, Binaries, Operators
<1>6. CASE i.op \in {"Closure", "Close"}
  BY <1>6 DEF InstructionOK, ClosureOK, InstructionReads, InstructionWrites,
              Loads, Stores, Unaries, Binaries, Operators
<1>7. CASE i.op \in {"Varargs", "Return", "JumpIf", "Jump"}
  BY <1>7 DEF InstructionOK, VarargsOK, ReturnOK, JumpIfOK, JumpOK, InstructionReads, InstructionWrites,
              Loads, Stores, Unaries, Binaries, Operators
<1> QED
  BY <1>1, <1>2, <1>3, <1>4, <1>5, <1>6, <1>7 DEF Opcodes

-----------------------------------------------------------------------------
(***************************************************************************)
(* One step of the scan.                                                   *)
(***************************************************************************)
Written(p) == RegisterFile(p) \cup Parameters(p) \cup (UNION {InstructionWrites(p.code[k]) : k \in DOMAIN p.code})

Arrivals(p) == [DOMAIN p.code -> SUBSET SUBSET RegisterFile(p)]

ScanStates(p) ==
  [ok : BOOLEAN, reachable : BOOLEAN, init : SUBSET Written(p), incoming : Arrivals(p), states : Arrivals(p)]

LEMMA EntryTyped ==
    ASSUME NEW p, NEW s, NEW k
    PROVE  EntryState(p, s, k) = {} \/ \E at \in SUBSET RegisterFile(p) : EntryState(p, s, k) = {at}
BY DEF EntryState, Common, BackwardBranchRequirements

(* What the scan knows of the backward targets once it has passed k.       *)
Passed(p, s, k, at) == [s.states EXCEPT ![k] = IF k \in BackwardTargets(p.code) THEN {at} ELSE {}]

LEMMA StepTaken ==
    ASSUME NEW p, NEW s, NEW k, NEW at, s.ok, ~ConsumerMisplaced(p, s, k), EntryState(p, s, k) = {at}
    PROVE  ScanStep(p, s, k) =
             [ok |-> InstructionOK(p, k, at, Passed(p, s, k, at)),
              reachable |-> ~Leaves(p.code[k]) /\ p.code[k].op # "Jump",
              init |-> at \cup InstructionWrites(p.code[k]),
              incoming |-> Branch(p, [s.incoming EXCEPT ![k] = {}], k, at),
              states |-> Passed(p, s, k, at)]
<1>1. (CHOOSE e \in {at} : TRUE) = at
  OBVIOUS
<1> QED BY <1>1 DEF ScanStep, Passed

LEMMA StepSkipped ==
    ASSUME NEW p, NEW s, NEW k, s.ok, ~ConsumerMisplaced(p, s, k), EntryState(p, s, k) = {}
    PROVE  ScanStep(p, s, k) = [s EXCEPT !.ok = p.code[k].op = "Close"]
BY DEF ScanStep

LEMMA StepRefused ==
    ASSUME NEW p, NEW s, NEW k, ~s.ok \/ ConsumerMisplaced(p, s, k)
    PROVE  ScanStep(p, s, k) = [s EXCEPT !.ok = FALSE]
BY DEF ScanStep

LEMMA BranchTyped ==
    ASSUME NEW p, NEW incoming \in Arrivals(p), NEW k, NEW at
    PROVE  Branch(p, incoming, k, at) \in Arrivals(p)
<1>1. \A sets : {Common(p, sets)} \in SUBSET SUBSET RegisterFile(p)
  BY DEF Common
<1> QED BY <1>1 DEF Branch, Arrivals

LEMMA StepTyped ==
    ASSUME NEW p \in Prototypes, NEW k \in DOMAIN p.code, NEW s \in ScanStates(p)
    PROVE  ScanStep(p, s, k) \in ScanStates(p)
<1> DEFINE i == p.code[k]
<1>0. \A ok \in BOOLEAN : [s EXCEPT !.ok = ok] \in ScanStates(p)
  BY DEF ScanStates
<1>1. CASE ~s.ok \/ ConsumerMisplaced(p, s, k)
  <2>1. ScanStep(p, s, k) = [s EXCEPT !.ok = FALSE]
    BY <1>1, StepRefused
  <2> QED BY <1>0, <2>1
<1>2. CASE s.ok /\ ~ConsumerMisplaced(p, s, k) /\ EntryState(p, s, k) = {}
  <2>1. (i.op = "Close") \in BOOLEAN
    OBVIOUS
  <2>2. ScanStep(p, s, k) = [s EXCEPT !.ok = i.op = "Close"]
    BY <1>2, StepSkipped
  <2> QED BY <1>0, <2>1, <2>2
<1>3. ASSUME s.ok, ~ConsumerMisplaced(p, s, k), NEW at \in SUBSET RegisterFile(p), EntryState(p, s, k) = {at}
      PROVE  ScanStep(p, s, k) \in ScanStates(p)
  <2> DEFINE ok == InstructionOK(p, k, at, Passed(p, s, k, at))
             reachable == ~Leaves(i) /\ i.op # "Jump"
             init == at \cup InstructionWrites(i)
             incoming == Branch(p, [s.incoming EXCEPT ![k] = {}], k, at)
             states == Passed(p, s, k, at)
  <2>1. ok \in BOOLEAN
    BY CheckIsBoolean
  <2>2. reachable \in BOOLEAN
    OBVIOUS
  <2>3. init \in SUBSET Written(p)
    BY DEF Written
  <2>4. incoming \in Arrivals(p)
    <3>1. [s.incoming EXCEPT ![k] = {}] \in Arrivals(p)
      BY DEF ScanStates, Arrivals
    <3> QED BY <3>1, BranchTyped
  <2>5. states \in Arrivals(p)
    BY DEF Passed, ScanStates, Arrivals
  <2>6. ScanStep(p, s, k) = [ok |-> ok, reachable |-> reachable, init |-> init,
                             incoming |-> incoming, states |-> states]
    <3>1. s.ok /\ ~ConsumerMisplaced(p, s, k) /\ EntryState(p, s, k) = {at}
      BY <1>3
    <3>2. (CHOOSE e \in {at} : TRUE) = at
      OBVIOUS
    <3> QED BY <3>1, <3>2 DEF ScanStep, Passed
  <2> HIDE DEF ok, reachable, init, incoming, states
  <2> QED BY <2>1, <2>2, <2>3, <2>4, <2>5, <2>6 DEF ScanStates
<1> QED BY <1>1, <1>2, <1>3, EntryTyped

LEMMA StartTyped ==
    ASSUME NEW p
    PROVE  ScanStart(p) \in ScanStates(p)
<1> DEFINE ok == Parameters(p) \subseteq RegisterFile(p)
           none == [k \in DOMAIN p.code |-> {}]
<1>1. ok \in BOOLEAN /\ none \in Arrivals(p) /\ Parameters(p) \in SUBSET Written(p)
  BY DEF Arrivals, Written
<1>2. ScanStart(p) = [ok |-> ok, reachable |-> TRUE, init |-> Parameters(p), incoming |-> none, states |-> none]
  BY DEF ScanStart
<1> HIDE DEF ok, none
<1> QED BY <1>1, <1>2 DEF ScanStates

-----------------------------------------------------------------------------
(***************************************************************************)
(* The scan of a prototype.                                                *)
(***************************************************************************)
ScanOf(p) ==
  LET Scan[k \in 0 .. Len(p.code)] == IF k = 0 THEN ScanStart(p) ELSE ScanStep(p, Scan[k - 1], k)
  IN Scan

LEMMA ScanIterates ==
    ASSUME NEW p \in Prototypes
    PROVE  /\ ScanOf(p)[0] = ScanStart(p)
           /\ \A k \in 1 .. Len(p.code) : ScanOf(p)[k] = ScanStep(p, ScanOf(p)[k - 1], k)
           /\ \A k \in 0 .. Len(p.code) : ScanOf(p)[k] \in ScanStates(p)
<1> DEFINE n == Len(p.code)
           Scans(f, m) == /\ f \in [0 .. m -> ScanStates(p)] /\ f[0] = ScanStart(p)
                          /\ \A k \in 1 .. m : f[k] = ScanStep(p, f[k - 1], k)
           I == {m \in 0 .. n : \E f : Scans(f, m)}
           Recursive(f) == f = [k \in 0 .. n |-> IF k = 0 THEN ScanStart(p) ELSE ScanStep(p, f[k - 1], k)]
<1>1. n \in Nat /\ DOMAIN p.code = 1 .. n
  BY LenProperties DEF Prototypes
<1>2. 0 \in I
  <2> DEFINE g == [k \in 0 .. 0 |-> ScanStart(p)]
  <2>1. g \in [0 .. 0 -> ScanStates(p)] /\ g[0] = ScanStart(p) /\ 1 .. 0 = {}
    BY StartTyped
  <2> HIDE DEF g
  <2>2. Scans(g, 0)
    BY <2>1
  <2> QED BY <1>1, <2>2
<1>3. ASSUME NEW m \in 0 + 1 .. n, m - 1 \in I PROVE m \in I
  <2>1. PICK f : Scans(f, m - 1)
    BY <1>3
  <2> DEFINE g == [k \in 0 .. m |-> IF k = m THEN ScanStep(p, f[m - 1], m) ELSE f[k]]
  <2>2. m - 1 \in 0 .. m - 1 /\ m \in DOMAIN p.code
    BY <1>1
  <2>3. f[m - 1] \in ScanStates(p)
    BY <2>1, <2>2
  <2>4. ScanStep(p, f[m - 1], m) \in ScanStates(p)
    BY <2>2, <2>3, StepTyped
  <2>5. g \in [0 .. m -> ScanStates(p)]
    BY <1>1, <2>1, <2>4
  <2>6. g[0] = ScanStart(p)
    BY <1>1, <2>1
  <2>7. \A k \in 1 .. m : g[k] = ScanStep(p, g[k - 1], k)
    BY <1>1, <2>1
  <2> HIDE DEF g
  <2>8. Scans(g, m)
    BY <2>5, <2>6, <2>7
  <2> HIDE DEF Scans
  <2>9. m \in 0 .. n
    BY <1>1
  <2> QED BY <2>8, <2>9
<1>4. PICK f : Scans(f, n)
  <2> HIDE DEF I, n
  <2>1. \A m \in 0 .. n : m \in I
    BY <1>1, <1>2, <1>3, Upward
  <2>2. n \in I
    BY <1>1, <2>1
  <2> QED BY <2>2 DEF I
<1>5. Recursive(f)
  <2>1. \A k \in 0 .. n : f[k] = IF k = 0 THEN ScanStart(p) ELSE ScanStep(p, f[k - 1], k)
    BY <1>1, <1>4
  <2> QED BY <1>4, <2>1
<1>6. Recursive(ScanOf(p))
  <2> DEFINE g == CHOOSE g : Recursive(g)
  <2>1. Recursive(g)
    <3> HIDE DEF Recursive
    <3> QED BY <1>5, Zenon
  <2>2. ScanOf(p) = g
    BY Zenon DEF ScanOf
  <2> HIDE DEF g
  <2> QED BY <2>1, <2>2
<1> DEFINE S == ScanOf(p)
<1> HIDE DEF S
<1>7. \A k \in 0 .. n : S[k] = IF k = 0 THEN ScanStart(p) ELSE ScanStep(p, S[k - 1], k)
  <2>1. S = [k \in 0 .. n |-> IF k = 0 THEN ScanStart(p) ELSE ScanStep(p, S[k - 1], k)]
    BY <1>6 DEF S
  <2>2. \A g : g = [k \in 0 .. n |-> IF k = 0 THEN ScanStart(p) ELSE ScanStep(p, S[k - 1], k)]
                 => \A k \in 0 .. n : g[k] = IF k = 0 THEN ScanStart(p) ELSE ScanStep(p, S[k - 1], k)
    OBVIOUS
  <2> QED BY <2>1, <2>2
<1>8. S[0] = ScanStart(p) /\ \A k \in 1 .. n : S[k] = ScanStep(p, S[k - 1], k)
  BY <1>1, <1>7
<1>9. \A k \in 0 .. n : S[k] \in ScanStates(p)
  <2> DEFINE J == {k \in 0 .. n : S[k] \in ScanStates(p)}
  <2>1. 0 \in J
    BY <1>1, <1>8, StartTyped
  <2>2. ASSUME NEW k \in 0 + 1 .. n, k - 1 \in J PROVE k \in J
    <3>1. k \in 1 .. n /\ k \in DOMAIN p.code
      BY <1>1
    <3> QED BY <1>8, <2>2, <3>1, StepTyped
  <2>3. \A k \in 0 .. n : k \in J
    <3> HIDE DEF J, n
    <3> QED BY <1>1, <2>1, <2>2, Upward
  <2> QED BY <2>3
<1> QED BY <1>8, <1>9 DEF S

LEMMA AcceptedMeans ==
    ASSUME NEW p \in Prototypes, ValidatePrototype(p)
    PROVE  /\ ScanOf(p)[Len(p.code)].ok
           /\ Len(p.code) \in Nat \ {0}
           /\ DOMAIN p.code = 1 .. Len(p.code)
           /\ Leaves(p.code[Len(p.code)])
<1>1. Len(p.code) \in Nat /\ DOMAIN p.code = 1 .. Len(p.code) /\ p.code \in Seq(Instructions)
  BY LenProperties DEF Prototypes
<1>2. ScanOf(p)[Len(p.code)].ok
  BY Zenon DEF ValidatePrototype, ScanOf
<1>3. p.code # << >> /\ Leaves(p.code[Len(p.code)])
  BY DEF ValidatePrototype, Last
<1>4. Len(p.code) # 0
  BY <1>1, <1>3, EmptySeq
<1> QED BY <1>1, <1>2, <1>3, <1>4

(* The instructions that the scan takes for reachable, and the registers   *)
(* it knows to be initialized there.                                       *)
Entry(p, k) == EntryState(p, ScanOf(p)[k - 1], k)

Seen(p) == {k \in DOMAIN p.code : Entry(p, k) # {}}

At(p, k) == CHOOSE at : Entry(p, k) = {at}

LEMMA AtFacts ==
    ASSUME NEW p, NEW k \in Seen(p)
    PROVE  Entry(p, k) = {At(p, k)} /\ At(p, k) \subseteq RegisterFile(p)
<1>1. PICK at \in SUBSET RegisterFile(p) : Entry(p, k) = {at}
  BY EntryTyped DEF Entry, Seen
<1>2. Entry(p, k) = {At(p, k)}
  BY <1>1, Zenon DEF At
<1> QED BY <1>1, <1>2

LEMMA ScanStaysOK ==
    ASSUME NEW p \in Prototypes, ValidatePrototype(p)
    PROVE  \A k \in 0 .. Len(p.code) : ScanOf(p)[k].ok
<1> DEFINE n == Len(p.code)
           S == ScanOf(p)
<1>1. n \in Nat /\ DOMAIN p.code = 1 .. n /\ S[n].ok
  BY AcceptedMeans
<1> SUFFICES ASSUME NEW j \in 0 .. n, ~S[j].ok PROVE FALSE
  OBVIOUS
<1> DEFINE I == {k \in j .. n : ~S[k].ok}
<1>2. j \in I /\ j \in Nat
  BY <1>1
<1>3. ASSUME NEW k \in j + 1 .. n, k - 1 \in I PROVE k \in I
  <2>1. k \in 1 .. n /\ k - 1 \in 0 .. n /\ k \in j .. n
    BY <1>1
  <2>2. S[k] = [S[k - 1] EXCEPT !.ok = FALSE] /\ S[k - 1] \in ScanStates(p)
    <3>1. ~S[k - 1].ok
      BY <1>3
    <3>2. S[k] = ScanStep(p, S[k - 1], k) /\ S[k - 1] \in ScanStates(p)
      BY <2>1, ScanIterates
    <3> HIDE DEF S
    <3> QED BY <3>1, <3>2, StepRefused
  <2>3. ~S[k].ok
    BY <2>2 DEF ScanStates
  <2> QED BY <2>1, <2>3
<1>4. n \in I
  <2> HIDE DEF I, n, S
  <2>1. \A k \in j .. n : k \in I
    BY <1>1, <1>2, <1>3, Upward
  <2> QED BY <1>1, <2>1
<1> QED BY <1>1, <1>4

(* What the scan did at each instruction of an accepted prototype.         *)
LEMMA ScanSkipped ==
    ASSUME NEW p \in Prototypes, ValidatePrototype(p), NEW k \in DOMAIN p.code, k \notin Seen(p)
    PROVE  /\ p.code[k].op = "Close"
           /\ ScanOf(p)[k].incoming = ScanOf(p)[k - 1].incoming
           /\ ScanOf(p)[k].states = ScanOf(p)[k - 1].states
<1> DEFINE s == ScanOf(p)[k - 1]
           t == ScanOf(p)[k]
<1>1. k \in 1 .. Len(p.code) /\ k \in 0 .. Len(p.code) /\ k - 1 \in 0 .. Len(p.code)
  BY AcceptedMeans
<1>2. t = ScanStep(p, s, k) /\ s \in ScanStates(p) /\ t \in ScanStates(p) /\ s.ok /\ t.ok
  BY <1>1, ScanIterates, ScanStaysOK
<1>3. EntryState(p, s, k) = {}
  BY DEF Seen, Entry
<1> HIDE DEF s, t
<1>4. ~ConsumerMisplaced(p, s, k)
  <2> SUFFICES ASSUME ConsumerMisplaced(p, s, k) PROVE FALSE
    OBVIOUS
  <2>1. t = [s EXCEPT !.ok = FALSE]
    BY <1>2, StepRefused
  <2> QED BY <1>2, <2>1 DEF ScanStates
<1>5. t = [s EXCEPT !.ok = p.code[k].op = "Close"]
  BY <1>2, <1>3, <1>4, StepSkipped
<1>6. t.ok = (p.code[k].op = "Close") /\ t.incoming = s.incoming /\ t.states = s.states
  BY <1>2, <1>5 DEF ScanStates
<1> QED BY <1>2, <1>6 DEF s, t

LEMMA ScanTaken ==
    ASSUME NEW p \in Prototypes, ValidatePrototype(p), NEW k \in Seen(p)
    PROVE  /\ ~ConsumerMisplaced(p, ScanOf(p)[k - 1], k)
           /\ InstructionOK(p, k, At(p, k), ScanOf(p)[k].states)
           /\ ScanOf(p)[k].reachable <=> ~Leaves(p.code[k]) /\ p.code[k].op # "Jump"
           /\ ScanOf(p)[k].init = At(p, k) \cup InstructionWrites(p.code[k])
           /\ ScanOf(p)[k].incoming = Branch(p, [ScanOf(p)[k - 1].incoming EXCEPT ![k] = {}], k, At(p, k))
           /\ ScanOf(p)[k].states = Passed(p, ScanOf(p)[k - 1], k, At(p, k))
<1> DEFINE s == ScanOf(p)[k - 1]
           t == ScanOf(p)[k]
           at == At(p, k)
           ok == InstructionOK(p, k, at, Passed(p, s, k, at))
           reachable == ~Leaves(p.code[k]) /\ p.code[k].op # "Jump"
           init == at \cup InstructionWrites(p.code[k])
           incoming == Branch(p, [s.incoming EXCEPT ![k] = {}], k, at)
           states == Passed(p, s, k, at)
<1>1. k \in DOMAIN p.code /\ k \in 1 .. Len(p.code) /\ k \in 0 .. Len(p.code) /\ k - 1 \in 0 .. Len(p.code)
  BY AcceptedMeans DEF Seen
<1>2. t = ScanStep(p, s, k) /\ s \in ScanStates(p) /\ t \in ScanStates(p) /\ s.ok /\ t.ok
  BY <1>1, ScanIterates, ScanStaysOK
<1>3. EntryState(p, s, k) = {at}
  BY AtFacts DEF Entry
<1>4. ~ConsumerMisplaced(p, s, k)
  <2> HIDE DEF s, t
  <2> SUFFICES ASSUME ConsumerMisplaced(p, s, k) PROVE FALSE
    OBVIOUS
  <2>1. t = [s EXCEPT !.ok = FALSE]
    BY <1>2, StepRefused
  <2> QED BY <1>2, <2>1 DEF ScanStates
<1> HIDE DEF s, t, at
<1>5. t = [ok |-> ok, reachable |-> reachable, init |-> init, incoming |-> incoming, states |-> states]
  <2>1. (CHOOSE e \in {at} : TRUE) = at
    OBVIOUS
  <2> QED BY <1>2, <1>3, <1>4, <2>1 DEF ScanStep, Passed
<1>6. reachable \in BOOLEAN
  OBVIOUS
<1> HIDE DEF ok, reachable, init, incoming, states
<1>7. t.ok = ok /\ t.reachable = reachable /\ t.init = init /\ t.incoming = incoming /\ t.states = states
  BY <1>5
<1>8. ok
  BY <1>2, <1>7
<1>9. InstructionOK(p, k, at, t.states)
  BY <1>7, <1>8 DEF ok, states
<1>10. t.reachable <=> reachable
  BY <1>2, <1>6, <1>7 DEF ScanStates
<1> QED BY <1>4, <1>7, <1>9, <1>10 DEF s, t, at, init, incoming, states, reachable

(***************************************************************************)
(* What one instruction leaves for the next.                               *)
(***************************************************************************)

(* Whatever was initialized on one way to q bounds what is known at q.     *)
LEMMA Arrives ==
    ASSUME NEW p \in Prototypes, NEW q \in DOMAIN p.code,
           NEW e \in ScanOf(p)[q - 1].incoming[q]
                       \cup (IF ScanOf(p)[q - 1].reachable THEN {ScanOf(p)[q - 1].init} ELSE {})
    PROVE  q \in Seen(p) /\ At(p, q) \subseteq e
<1> DEFINE s == ScanOf(p)[q - 1]
           arrivals == s.incoming[q] \cup (IF s.reachable THEN {s.init} ELSE {})
<1>1. e \in arrivals
  OBVIOUS
<1>2. Entry(p, q) = IF arrivals # {} THEN {Common(p, arrivals)}
                    ELSE IF q \in BackwardTargets(p.code) THEN {BackwardBranchRequirements(p, q)} ELSE {}
  BY Zenon DEF Entry, EntryState
<1> HIDE DEF arrivals
<1>3. Entry(p, q) = {Common(p, arrivals)}
  BY <1>1, <1>2
<1>4. q \in Seen(p)
  BY <1>3 DEF Seen
<1>5. At(p, q) = Common(p, arrivals)
  BY <1>3, <1>4, AtFacts
<1>6. Common(p, arrivals) \subseteq e
  BY <1>1 DEF Common
<1> QED BY <1>4, <1>5, <1>6

LEMMA FallsThrough ==
    ASSUME NEW p \in Prototypes, ValidatePrototype(p), NEW k \in Seen(p),
           ~Leaves(p.code[k]), p.code[k].op # "Jump"
    PROVE  k + 1 \in Seen(p) /\ At(p, k + 1) \subseteq At(p, k) \cup InstructionWrites(p.code[k])
<1>1. /\ Len(p.code) \in Nat \ {0} /\ DOMAIN p.code = 1 .. Len(p.code)
      /\ Leaves(p.code[Len(p.code)]) /\ k \in DOMAIN p.code
  BY AcceptedMeans DEF Seen
<1>2. k # Len(p.code)
  BY <1>1
<1>3. k + 1 \in DOMAIN p.code /\ k + 1 - 1 = k
  BY <1>1, <1>2
<1>4. ScanOf(p)[k].reachable /\ ScanOf(p)[k].init = At(p, k) \cup InstructionWrites(p.code[k])
  BY ScanTaken
<1> DEFINE e == ScanOf(p)[k].init
           q == k + 1
<1>5. q - 1 = k /\ q \in DOMAIN p.code
  BY <1>1, <1>3
<1> HIDE DEF q
<1>6. e \in ScanOf(p)[q - 1].incoming[q]
              \cup (IF ScanOf(p)[q - 1].reachable THEN {ScanOf(p)[q - 1].init} ELSE {})
  BY <1>4, <1>5
<1> HIDE DEF e
<1>7. q \in Seen(p) /\ At(p, q) \subseteq e
  BY <1>5, <1>6, Arrives
<1> QED BY <1>4, <1>7 DEF e, q

(* A forward branch is remembered until the scan comes to its target.      *)
LEMMA BranchArrives ==
    ASSUME NEW p \in Prototypes, ValidatePrototype(p), NEW k \in Seen(p),
           p.code[k].op \in {"Jump", "JumpIf"}, NEW to \in k + 1 .. Len(p.code), p.code[k].to = to
    PROVE  /\ ScanOf(p)[to - 1].incoming[to] # {}
           /\ \A e \in ScanOf(p)[to - 1].incoming[to] : e \subseteq At(p, k)
<1> DEFINE n == Len(p.code)
           S == ScanOf(p)
           Remembers(j) == S[j].incoming[to] # {} /\ \A e \in S[j].incoming[to] : e \subseteq At(p, k)
           I == {j \in k .. to - 1 : Remembers(j)}
<1>1. /\ n \in Nat \ {0} /\ DOMAIN p.code = 1 .. n /\ k \in 1 .. n /\ to \in 1 .. n /\ to - 1 \in Nat
      /\ k \in Nat /\ k <= to - 1
  BY AcceptedMeans DEF Seen
<1>2. \A j \in 1 .. n : S[j - 1].incoming \in Arrivals(p)
  <2>1. \A j \in 1 .. n : j - 1 \in 0 .. n
    BY <1>1
  <2> QED BY <2>1, ScanIterates DEF ScanStates
<1> HIDE DEF S
<1>3. k \in I
  <2> DEFINE before == [S[k - 1].incoming EXCEPT ![k] = {}]
  <2>1. before \in Arrivals(p)
    BY <1>1, <1>2 DEF Arrivals
  <2>2. S[k].incoming = Branch(p, before, k, At(p, k))
    BY ScanTaken DEF S
  <2> HIDE DEF before
  <2>3. S[k].incoming[to] = {Common(p, before[to] \cup {At(p, k)})}
    <3>1. p.code[k].to > k /\ p.code[k].to <= Len(p.code)
      BY <1>1
    <3>2. S[k].incoming = [before EXCEPT ![to] = {Common(p, @ \cup {At(p, k)})}]
      BY <2>2, <3>1 DEF Branch
    <3>3. to \in DOMAIN before
      BY <1>1, <2>1 DEF Arrivals
    <3> QED BY <3>2, <3>3
  <2>4. Common(p, before[to] \cup {At(p, k)}) \subseteq At(p, k)
    BY DEF Common
  <2>5. Remembers(k)
    BY <2>3, <2>4
  <2> QED BY <1>1, <2>5
<1>4. ASSUME NEW j \in k + 1 .. to - 1, j - 1 \in I PROVE j \in I
  <2>1. j \in DOMAIN p.code /\ j \in 1 .. n /\ j # to /\ j \in k .. to - 1
    BY <1>1
  <2>2. Remembers(j - 1)
    BY <1>4
  <2>3. CASE j \notin Seen(p)
    <3>1. S[j].incoming = S[j - 1].incoming
      BY <2>1, <2>3, ScanSkipped DEF S
    <3> QED BY <2>1, <2>2, <3>1
  <2>4. CASE j \in Seen(p)
    <3> DEFINE before == [S[j - 1].incoming EXCEPT ![j] = {}]
    <3>1. before \in Arrivals(p) /\ before[to] = S[j - 1].incoming[to]
      BY <1>1, <1>2, <2>1 DEF Arrivals
    <3>2. S[j].incoming = Branch(p, before, j, At(p, j))
      BY <2>4, ScanTaken DEF S
    <3> HIDE DEF before
    <3>3. \/ S[j].incoming[to] = before[to]
          \/ S[j].incoming[to] = {Common(p, before[to] \cup {At(p, j)})}
      <4>1. to \in DOMAIN p.code
        BY <1>1
      <4> DEFINE after == Branch(p, before, j, At(p, j))
      <4>2. after[to] = before[to] \/ after[to] = {Common(p, before[to] \cup {At(p, j)})}
        <5>1. before \in Arrivals(p)
          BY <3>1
        <5> QED BY <4>1, <5>1 DEF Branch, Arrivals
      <4> HIDE DEF after
      <4>3. S[j].incoming = after
        BY <3>2 DEF after
      <4> QED BY <4>2, <4>3
    <3>4. Common(p, before[to] \cup {At(p, j)}) \subseteq At(p, k)
      <4>1. PICK e \in before[to] : e \subseteq At(p, k)
        BY <2>2, <3>1
      <4> QED BY <4>1 DEF Common
    <3>5. Remembers(j)
      BY <2>2, <3>1, <3>3, <3>4
    <3> QED BY <2>1, <3>5
  <2> QED BY <2>3, <2>4
<1>5. to - 1 \in I
  <2> HIDE DEF I, n
  <2>1. \A j \in k .. to - 1 : j \in I
    BY <1>1, <1>3, <1>4, Upward
  <2> QED BY <1>1, <2>1
<1> QED BY <1>5 DEF S

(* What is remembered of a backward target is what was known there.        *)
LEMMA TargetsRemembered ==
    ASSUME NEW p \in Prototypes, ValidatePrototype(p)
    PROVE  \A j \in 0 .. Len(p.code) : \A q \in DOMAIN p.code :
             ScanOf(p)[j].states[q] # {} => q \in Seen(p) /\ ScanOf(p)[j].states[q] = {At(p, q)}
<1> DEFINE n == Len(p.code)
           S == ScanOf(p)
           Known(j) == \A q \in DOMAIN p.code : S[j].states[q] # {} => q \in Seen(p) /\ S[j].states[q] = {At(p, q)}
           I == {j \in 0 .. n : Known(j)}
<1>1. n \in Nat \ {0} /\ DOMAIN p.code = 1 .. n
  BY AcceptedMeans
<1>2. \A j \in 1 .. n : S[j - 1].states \in Arrivals(p)
  <2>1. \A j \in 1 .. n : j - 1 \in 0 .. n
    BY <1>1
  <2> QED BY <2>1, ScanIterates DEF ScanStates
<1>3. 0 \in I
  <2>1. S[0].states = [k \in DOMAIN p.code |-> {}]
    <3>1. S[0] = ScanStart(p)
      BY ScanIterates
    <3> HIDE DEF S
    <3> QED BY <3>1 DEF ScanStart
  <2> QED BY <1>1, <2>1
<1> HIDE DEF S
<1>4. ASSUME NEW j \in 0 + 1 .. n, j - 1 \in I PROVE j \in I
  <2>1. j \in DOMAIN p.code /\ j \in 1 .. n /\ j \in 0 .. n
    BY <1>1
  <2>2. Known(j - 1)
    BY <1>4
  <2>3. CASE j \notin Seen(p)
    <3>1. S[j].states = S[j - 1].states
      BY <2>1, <2>3, ScanSkipped DEF S
    <3> QED BY <2>1, <2>2, <3>1
  <2>4. CASE j \in Seen(p)
    <3>1. S[j].states = [S[j - 1].states EXCEPT ![j] = IF j \in BackwardTargets(p.code) THEN {At(p, j)} ELSE {}]
      BY <2>4, ScanTaken DEF S, Passed
    <3>2. Known(j)
      <4> SUFFICES ASSUME NEW q \in DOMAIN p.code, S[j].states[q] # {}
                   PROVE  q \in Seen(p) /\ S[j].states[q] = {At(p, q)}
        OBVIOUS
      <4>1. S[j - 1].states \in Arrivals(p)
        BY <1>2, <2>1
      <4>2. CASE q = j
        BY <2>4, <3>1, <4>1, <4>2 DEF Arrivals
      <4>3. CASE q # j
        <5>1. S[j].states[q] = S[j - 1].states[q]
          BY <3>1, <4>1, <4>3 DEF Arrivals
        <5> QED BY <2>2, <5>1
      <4> QED BY <4>2, <4>3
    <3> QED BY <2>1, <3>2
  <2> QED BY <2>3, <2>4
<1>5. \A j \in 0 .. n : j \in I
  <2> HIDE DEF I, n
  <2> QED BY <1>1, <1>3, <1>4, Upward
<1> QED BY <1>5 DEF S

(* Along every edge of accepted code: the target was seen, too; what is    *)
(* known to be initialized at the target is initialized on this way to it, *)
(* on a way back at least as far as the code from there on needs it; and   *)
(* only the call before an instruction leads to one that takes results.    *)
LEMMA Edges ==
    ASSUME NEW p \in Prototypes, ValidatePrototype(p), NEW k \in Seen(p), NEW q \in Targets(p.code, k)
    PROVE  /\ q \in Seen(p)
           /\ Consumer(p.code[q]) => Producer(p.code[k])
           /\ \/ At(p, q) \subseteq At(p, k) \cup InstructionWrites(p.code[k])
              \/ BackwardBranchRequirements(p, q) \cap At(p, q) \subseteq At(p, k)
<1> DEFINE i == p.code[k]
           n == Len(p.code)
<1>1. n \in Nat \ {0} /\ DOMAIN p.code = 1 .. n /\ k \in 1 .. n
  BY AcceptedMeans DEF Seen
<1>2. InstructionOK(p, k, At(p, k), ScanOf(p)[k].states) /\ i.op \in Opcodes
  BY <1>1, ScanTaken, InstructionTyped
<1>3. ASSUME q \in Seen(p), Consumer(p.code[q])
      PROVE  /\ ScanOf(p)[q - 1].incoming[q] = {} /\ q \notin BackwardTargets(p.code)
             /\ Producer(p.code[q - 1])
  BY <1>3, ScanTaken DEF ConsumerMisplaced
<1>4. CASE q = k + 1 /\ ~Leaves(i) /\ i.op # "Jump"
  <2>1. q \in Seen(p) /\ At(p, q) \subseteq At(p, k) \cup InstructionWrites(i)
    BY <1>4, FallsThrough
  <2>2. q - 1 = k
    BY <1>1, <1>4
  <2> QED BY <1>3, <2>1, <2>2
<1>5. CASE i.op \in {"Jump", "JumpIf"} /\ i.to = q /\ q \in k + 1 .. n
  <2>1. /\ ScanOf(p)[q - 1].incoming[q] # {}
        /\ \A e \in ScanOf(p)[q - 1].incoming[q] : e \subseteq At(p, k)
    BY <1>5, BranchArrives
  <2>2. PICK e \in ScanOf(p)[q - 1].incoming[q] : e \subseteq At(p, k)
    BY <2>1
  <2>3. q \in DOMAIN p.code
    BY <1>1, <1>5
  <2>4. q \in Seen(p) /\ At(p, q) \subseteq e
    BY <2>2, <2>3, Arrives
  <2> QED BY <1>3, <2>1, <2>2, <2>4
<1>6. CASE i.op = "Jump" /\ i.to = q /\ q \in 1 .. n /\ q <= k
  <2>1. JumpOK(p, k, At(p, k), ScanOf(p)[k].states)
    BY <1>2, <1>6 DEF InstructionOK, Loads, Stores, Unaries, Binaries, Operators
  <2>2. /\ ScanOf(p)[k].states[q] # {}
        /\ \A target \in ScanOf(p)[k].states[q] : BackwardBranchRequirements(p, q) \cap target \subseteq At(p, k)
    BY <1>6, <2>1 DEF JumpOK
  <2>3. q \in Seen(p) /\ ScanOf(p)[k].states[q] = {At(p, q)}
    BY <1>1, <1>6, <2>2, TargetsRemembered
  <2>4. q \in BackwardTargets(p.code)
    BY <1>1, <1>6 DEF BackwardTargets
  <2> QED BY <1>3, <2>2, <2>3, <2>4
<1>7. i.op = "Jump" => i.to \in 1 .. n
  BY <1>2 DEF InstructionOK, JumpOK, Loads, Stores, Unaries, Binaries, Operators
<1>8. i.op = "JumpIf" => i.to \in k + 1 .. n
  BY <1>2 DEF InstructionOK, JumpIfOK, Loads, Stores, Unaries, Binaries, Operators
<1>9. CASE i.op = "Jump"
  <2>1. q = i.to
    BY <1>9 DEF Targets
  <2> QED BY <1>1, <1>5, <1>6, <1>7, <1>9, <2>1
<1>10. CASE i.op = "JumpIf"
  <2>1. q = i.to \/ q = k + 1
    BY <1>10 DEF Targets
  <2>2. ~Leaves(i)
    BY <1>10 DEF Leaves
  <2> QED BY <1>4, <1>5, <1>8, <1>10, <2>1, <2>2
<1>11. CASE i.op \notin {"Jump", "JumpIf"}
  <2>1. q = k + 1 /\ ~Leaves(i)
    BY <1>11 DEF Targets
  <2> QED BY <1>4, <1>11, <2>1
<1> QED BY <1>9, <1>10, <1>11

(* The first instruction is seen with the parameters initialized.          *)
LEMMA EntryPoint ==
    ASSUME NEW p \in Prototypes, ValidatePrototype(p)
    PROVE  1 \in Seen(p) /\ At(p, 1) \subseteq Parameters(p) /\ ~Consumer(p.code[1])
<1>1. 1 \in DOMAIN p.code /\ 1 - 1 = 0
  BY AcceptedMeans
<1>2. ScanOf(p)[0] = ScanStart(p)
  BY ScanIterates
<1>3. ScanOf(p)[0].reachable /\ ScanOf(p)[0].init = Parameters(p)
  BY <1>2 DEF ScanStart
<1> DEFINE q == 1
           e == Parameters(p)
<1>4. e \in ScanOf(p)[q - 1].incoming[q]
              \cup (IF ScanOf(p)[q - 1].reachable THEN {ScanOf(p)[q - 1].init} ELSE {})
  BY <1>1, <1>3
<1>5. q \in DOMAIN p.code
  BY <1>1
<1> HIDE DEF q, e
<1>6. q \in Seen(p) /\ At(p, q) \subseteq e
  BY <1>4, <1>5, Arrives
<1>7. ~Consumer(p.code[1])
  BY <1>6, ScanTaken DEF ConsumerMisplaced, q
<1> QED BY <1>6, <1>7 DEF q, e

(* A register that is live is initialized: the liveness of the virtual     *)
(* machine asks for nothing that the scan did not prove to be there.       *)
LEMMA LiveIsInitialized ==
    ASSUME NEW p \in Prototypes, ValidatePrototype(p), NEW k \in Seen(p)
    PROVE  LiveRegisterMasks(p.code)[k] \subseteq At(p, k)
<1> SUFFICES ASSUME NEW r, r \notin At(p, k) PROVE r \notin LiveRegisterMasks(p.code)[k]
  OBVIOUS
<1> DEFINE S == {j \in Seen(p) : r \notin At(p, j)}
<1>1. p.code \in Seq(Instructions) /\ S \in SUBSET DOMAIN p.code /\ k \in S
  BY DEF Prototypes, Seen
<1>2. \A j \in S : r \notin InstructionReads(p.code[j])
  <2> SUFFICES ASSUME NEW j \in S PROVE r \notin InstructionReads(p.code[j])
    OBVIOUS
  <2>1. j \in DOMAIN p.code /\ InstructionOK(p, j, At(p, j), ScanOf(p)[j].states)
    BY <1>1, ScanTaken
  <2>2. InstructionReads(p.code[j]) \subseteq At(p, j)
    BY <2>1, CheckedInstruction
  <2> QED BY <2>2
<1>3. ASSUME NEW j \in S, r \notin InstructionWrites(p.code[j]), NEW q \in Successors(p.code, j),
             r \in LiveRegisterMasks(p.code)[q]
      PROVE  q \in S
  <2>1. q \in Targets(p.code, j) /\ q \in DOMAIN p.code /\ j \in Seen(p)
    BY DEF Successors
  <2>2. /\ q \in Seen(p)
        /\ \/ At(p, q) \subseteq At(p, j) \cup InstructionWrites(p.code[j])
           \/ BackwardBranchRequirements(p, q) \cap At(p, q) \subseteq At(p, j)
    BY <2>1, Edges
  <2>3. ASSUME r \in At(p, q) PROVE FALSE
    <3>1. r \in RegisterFile(p)
      BY <2>2, <2>3, AtFacts
    <3>2. r \in BackwardBranchRequirements(p, q)
      BY <1>1, <1>3, <2>1, <3>1, LiveIsRequired
    <3> QED BY <1>3, <2>2, <2>3, <3>2
  <2> QED BY <2>2, <2>3
<1>4. \A j \in S : r \notin LiveRegisterMasks(p.code)[j]
  <2> DEFINE code == p.code
  <2>1. code \in Seq(Instructions) /\ S \in SUBSET DOMAIN code
    BY <1>1
  <2>2. \A j \in S : r \notin InstructionReads(code[j])
    BY <1>2
  <2>3. \A j \in S : r \notin InstructionWrites(code[j]) =>
          \A q \in Successors(code, j) : r \in LiveRegisterMasks(code)[q] => q \in S
    BY <1>3
  <2> HIDE DEF code, S
  <2>4. \A j \in S : r \notin LiveRegisterMasks(code)[j]
    BY <2>1, <2>2, <2>3, LivenessIsNeed
  <2> QED BY <2>4 DEF code
<1> QED BY <1>1, <1>4

-----------------------------------------------------------------------------
(***************************************************************************)
(* The configurations of a prototype: places and what was written on a way *)
(* there.                                                                  *)
(***************************************************************************)

(* What a prototype that is not Faulty has.                                *)
Tidy(p) ==
  /\ p \in Prototypes
  /\ p.code # << >>
  /\ Parameters(p) \subseteq RegisterFile(p)
  /\ \A k \in DOMAIN p.code : InstructionReads(p.code[k]) \cup InstructionWrites(p.code[k]) \subseteq RegisterFile(p)

LEMMA TidyFacts ==
    ASSUME NEW p, Tidy(p)
    PROVE  /\ p \in Prototypes /\ p.code \in Seq(Instructions)
           /\ Len(p.code) \in Nat \ {0} /\ DOMAIN p.code = 1 .. Len(p.code)
           /\ p.family.registers \in Nat /\ Parameters(p) \subseteq RegisterFile(p)
           /\ IsFiniteSet(RegisterFile(p)) /\ Cardinality(RegisterFile(p)) = p.family.registers
<1>1. p.code \in Seq(Instructions) /\ p.family \in Families
  BY DEF Tidy, Prototypes
<1>2. Len(p.code) \in Nat /\ DOMAIN p.code = 1 .. Len(p.code) /\ Len(p.code) # 0
  BY <1>1, LenProperties, EmptySeq DEF Tidy
<1> DEFINE n == p.family.registers
<1>3. n \in Nat
  BY <1>1, FamiliesAssumption
<1>4. /\ IsFiniteSet(0 .. n - 1)
      /\ Cardinality(0 .. n - 1) = IF 0 > n - 1 THEN 0 ELSE n - 1 - 0 + 1
  <2>1. n - 1 \in Int /\ 0 \in Int
    BY <1>3
  <2> HIDE DEF n
  <2> QED BY <2>1, FS_Interval
<1>5. Cardinality(0 .. n - 1) = n
  BY <1>3, <1>4
<1> QED BY <1>1, <1>2, <1>3, <1>4, <1>5 DEF Tidy, RegisterFile

Start(p) == <<1, Parameters(p)>>

Step(p, c, q) == <<q, c[2] \cup InstructionWrites(p.code[c[1]])>>

Further(p, seen) == seen \cup UNION {{Step(p, c, q) : q \in Successors(p.code, c[1])} : c \in seen}

LEMMA FurtherIs ==
    ASSUME NEW p, NEW seen, NEW x
    PROVE  x \in Further(p, seen) <=>
             x \in seen \/ \E c \in seen : \E q \in Successors(p.code, c[1]) : x = Step(p, c, q)
BY DEF Further

Cells(p) == (DOMAIN p.code) \X (SUBSET RegisterFile(p))

LEMMA StepStays ==
    ASSUME NEW p, Tidy(p), NEW c \in Cells(p), NEW q \in Successors(p.code, c[1])
    PROVE  Step(p, c, q) \in Cells(p) /\ Step(p, c, q)[1] = q
                                      /\ Step(p, c, q)[2] = c[2] \cup InstructionWrites(p.code[c[1]])
<1>1. c[1] \in DOMAIN p.code /\ c[2] \in SUBSET RegisterFile(p) /\ q \in DOMAIN p.code
  BY DEF Cells, Successors
<1> QED BY <1>1 DEF Tidy, Cells, Step

LEMMA FurtherStays ==
    ASSUME NEW p, Tidy(p), NEW seen \in SUBSET Cells(p)
    PROVE  Further(p, seen) \in SUBSET Cells(p)
<1> SUFFICES ASSUME NEW x \in Further(p, seen) PROVE x \in Cells(p)
  OBVIOUS
<1>1. CASE x \in seen
  BY <1>1
<1>2. CASE \E c \in seen : \E q \in Successors(p.code, c[1]) : x = Step(p, c, q)
  <2>1. PICK c \in seen : \E q \in Successors(p.code, c[1]) : x = Step(p, c, q)
    BY <1>2
  <2>2. PICK q \in Successors(p.code, c[1]) : x = Step(p, c, q)
    BY <2>1
  <2> QED BY <2>2, StepStays
<1> QED BY <1>1, <1>2, FurtherIs

Rounds(p) == Len(p.code) * (p.family.registers + 1)

(* The rounds of Configurations, with one more.                            *)
IsTour(p, R) ==
  /\ R \in [0 .. Rounds(p) + 1 -> SUBSET Cells(p)]
  /\ R[0] = {Start(p)}
  /\ \A k \in 0 .. Rounds(p) : R[k + 1] = Further(p, R[k])
  /\ Configurations(p) = R[Rounds(p)]

LEMMA RoundsFacts ==
    ASSUME NEW p, Tidy(p)
    PROVE  Rounds(p) \in Nat
<1>1. \A a, b \in Nat : a * (b + 1) \in Nat
  OBVIOUS
<1> QED BY <1>1, TidyFacts DEF Rounds

LEMMA TourExists ==
    ASSUME NEW p, Tidy(p)
    PROVE  \E R : IsTour(p, R)
<1> DEFINE n == Rounds(p)
           V == SUBSET Cells(p)
           first == {Start(p)}
           step == [seen \in V |-> Further(p, seen)]
           Recursive(f) == f = [k \in 0 .. n |-> IF k = 0 THEN first ELSE Further(p, f[k - 1])]
           R0 == CHOOSE f : Recursive(f)
           R == [k \in 0 .. n + 1 |-> IF k <= n THEN R0[k] ELSE Further(p, R0[n])]
<1>1. n \in Nat /\ first \in V
  <2>1. 1 \in DOMAIN p.code /\ Parameters(p) \in SUBSET RegisterFile(p)
    BY TidyFacts
  <2> QED BY <2>1, RoundsFacts DEF Start, Cells
<1>2. \A seen \in V : Further(p, seen) \in V
  BY FurtherStays
<1>3. PICK f : Iterates(f, step, first, V, n)
  <2>1. IsStep(step, first, V)
    BY <1>1, <1>2 DEF IsStep
  <2> HIDE DEF step, n, V, first
  <2> QED BY <1>1, <2>1, IterationExists
<1> HIDE DEF n, first
<1>4. \A k \in 1 .. n : f[k] = Further(p, f[k - 1])
  <2> SUFFICES ASSUME NEW k \in 1 .. n PROVE f[k] = Further(p, f[k - 1])
    OBVIOUS
  <2>1. k - 1 \in 0 .. n
    BY <1>1
  <2>2. f[k - 1] \in V /\ f[k] = step[f[k - 1]]
    BY <1>3, <2>1 DEF Iterates
  <2> QED BY <2>2
<1> HIDE DEF step
<1>5. Recursive(f)
  <2>1. \A k \in 0 .. n : f[k] = IF k = 0 THEN first ELSE Further(p, f[k - 1])
    BY <1>1, <1>3, <1>4 DEF Iterates
  <2> QED BY <1>3, <2>1 DEF Iterates
<1>6. Recursive(R0)
  <2> HIDE DEF Recursive
  <2> QED BY <1>5, Zenon
<1>7. Configurations(p) = R0[n]
  BY Zenon DEF Configurations, Further, Step, Start, Rounds, n, first
<1> HIDE DEF R0
<1>8. /\ R0[0] = first
      /\ \A k \in 1 .. n : R0[k] = Further(p, R0[k - 1])
  <2>1. \A k \in 0 .. n : R0[k] = IF k = 0 THEN first ELSE Further(p, R0[k - 1])
    <3>1. \A g : g = [k \in 0 .. n |-> IF k = 0 THEN first ELSE Further(p, R0[k - 1])]
                   => \A k \in 0 .. n : g[k] = IF k = 0 THEN first ELSE Further(p, R0[k - 1])
      OBVIOUS
    <3> QED BY <1>6, <3>1
  <2> QED BY <1>1, <2>1
<1>9. \A k \in 0 .. n : R0[k] \in V
  <2> DEFINE I == {k \in 0 .. n : R0[k] \in V}
  <2>1. 0 \in I
    BY <1>1, <1>8
  <2>2. \A k \in 0 + 1 .. n : k - 1 \in I => k \in I
    <3> HIDE DEF V
    <3> QED BY <1>1, <1>2, <1>8
  <2>3. \A k \in 0 .. n : k \in I
    <3> HIDE DEF I
    <3> QED BY <1>1, <2>1, <2>2, Upward
  <2> QED BY <2>3
<1> HIDE DEF V
<1>10. R \in [0 .. n + 1 -> V]
  BY <1>1, <1>2, <1>9
<1>11. R[0] = first /\ R[n] = R0[n]
  BY <1>1, <1>8
<1>12. \A k \in 0 .. n : R[k + 1] = Further(p, R[k])
  <2> SUFFICES ASSUME NEW k \in 0 .. n PROVE R[k + 1] = Further(p, R[k])
    OBVIOUS
  <2>1. CASE k = n
    BY <1>1, <2>1
  <2>2. CASE k # n
    <3>1. k + 1 \in 1 .. n /\ k + 1 - 1 = k /\ k + 1 \in 0 .. n + 1 /\ k \in 0 .. n + 1
      BY <1>1, <2>2
    <3>2. R[k + 1] = R0[k + 1] /\ R[k] = R0[k]
      BY <3>1
    <3> HIDE DEF R
    <3> QED BY <1>8, <3>1, <3>2
  <2> QED BY <2>1, <2>2
<1> HIDE DEF R
<1>13. IsTour(p, R)
  BY <1>7, <1>10, <1>11, <1>12 DEF IsTour, n, V, first
<1> QED BY <1>13

LEMMA TourGrows ==
    ASSUME NEW p, Tidy(p), NEW R, IsTour(p, R)
    PROVE  \A j \in 0 .. Rounds(p) : R[j] \subseteq R[j + 1] /\ R[j] \subseteq R[Rounds(p)]
<1> DEFINE n == Rounds(p)
<1>1. n \in Nat
  BY RoundsFacts
<1>2. \A j \in 0 .. n : R[j] \subseteq R[j + 1]
  BY FurtherIs DEF IsTour
<1> HIDE DEF n
<1>3. ASSUME NEW j \in 0 .. n PROVE R[j] \subseteq R[n]
  <2> DEFINE I == {m \in j .. n : R[j] \subseteq R[m]}
  <2>1. j \in I /\ j \in Nat
    BY <1>1
  <2>2. ASSUME NEW m \in j + 1 .. n, m - 1 \in I PROVE m \in I
    <3>1. m - 1 \in 0 .. n /\ m - 1 + 1 = m /\ m \in j .. n
      BY <1>1
    <3>2. R[m - 1] \subseteq R[m]
      BY <1>2, <3>1
    <3> QED BY <2>2, <3>1, <3>2
  <2>3. n \in I
    <3> HIDE DEF I
    <3>1. \A m \in j .. n : m \in I
      BY <1>1, <2>1, <2>2, Upward
    <3> QED BY <1>1, <3>1
  <2> QED BY <2>3
<1> QED BY <1>2, <1>3 DEF n

(* Nothing with m registers written or fewer is new after (m + 1) * n      *)
(* rounds: a way adds a register or goes on among the n places.            *)
Settled(p, R, m) ==
  \A w \in SUBSET RegisterFile(p) : Cardinality(w) < m =>
    \A j \in Len(p.code) * m .. Rounds(p) : \A k \in DOMAIN p.code :
      <<k, w>> \in R[j + 1] => <<k, w>> \in R[j]

(* Where the places at which w is written did not change in a round, they  *)
(* do not change in the next.                                              *)
LEMMA PlacesStay ==
    ASSUME NEW p, Tidy(p), NEW R, IsTour(p, R), NEW m \in Nat, Settled(p, R, m),
           NEW w \in SUBSET RegisterFile(p), Cardinality(w) <= m,
           NEW j \in Len(p.code) * m .. Rounds(p), j + 1 <= Rounds(p), j \in Nat,
           \A k \in DOMAIN p.code : <<k, w>> \in R[j + 1] => <<k, w>> \in R[j]
    PROVE  \A k \in DOMAIN p.code : <<k, w>> \in R[j + 2] => <<k, w>> \in R[j + 1]
<1> SUFFICES ASSUME NEW k \in DOMAIN p.code, <<k, w>> \in R[j + 2], <<k, w>> \notin R[j + 1]
             PROVE  FALSE
  OBVIOUS
<1>1. Rounds(p) \in Nat /\ j \in 0 .. Rounds(p) /\ j + 1 \in 0 .. Rounds(p) /\ j + 1 + 1 = j + 2
      /\ j + 1 \in 0 .. Rounds(p) + 1
  BY RoundsFacts
<1>2. R[j + 1] = Further(p, R[j]) /\ R[j + 2] = Further(p, R[j + 1]) /\ R[j + 1] \in SUBSET Cells(p)
  BY <1>1 DEF IsTour
<1>3. PICK c \in R[j + 1] : \E q \in Successors(p.code, c[1]) : <<k, w>> = Step(p, c, q)
  BY <1>2, FurtherIs
<1>4. PICK q \in Successors(p.code, c[1]) : <<k, w>> = Step(p, c, q)
  BY <1>3
<1>5. c \in Cells(p)
  BY <1>2
<1>6. /\ c = <<c[1], c[2]>> /\ c[1] \in DOMAIN p.code /\ c[2] \in SUBSET RegisterFile(p)
      /\ q = k /\ w = c[2] \cup InstructionWrites(p.code[c[1]])
  BY <1>4, <1>5 DEF Cells, Step
<1>7. c \in R[j]
  <2>1. CASE c[2] = w
    BY <1>6, <2>1
  <2>2. CASE c[2] # w
    <3>1. IsFiniteSet(w)
      BY TidyFacts, FS_Subset
    <3>2. c[2] \in SUBSET w
      BY <1>6
    <3>3. Cardinality(c[2]) <= Cardinality(w) /\ Cardinality(c[2]) # Cardinality(w) /\ IsFiniteSet(c[2])
      BY <2>2, <3>1, <3>2, FS_Subset
    <3>4. Cardinality(c[2]) \in Nat /\ Cardinality(w) \in Nat
      BY <3>1, <3>3, FS_CardinalityType
    <3>5. Cardinality(c[2]) < m
      BY <3>3, <3>4
    <3> QED BY <1>6, <3>5 DEF Settled
  <2> QED BY <2>1, <2>2
<1>8. <<k, w>> \in Further(p, R[j])
  BY <1>4, <1>7, FurtherIs
<1> QED BY <1>2, <1>8

LEMMA AllSettle ==
    ASSUME NEW p, Tidy(p), NEW R, IsTour(p, R), NEW m \in 0 .. p.family.registers, Settled(p, R, m)
    PROVE  Settled(p, R, m + 1)
<1> DEFINE n == Len(p.code)
           D == DOMAIN p.code
           N == Rounds(p)
           b == n * m
<1>1. n \in Nat /\ D = 1 .. n /\ N \in Nat /\ m \in Nat /\ p.family.registers \in Nat
  BY TidyFacts, RoundsFacts
<1>2. b \in Nat /\ n * (m + 1) = b + n /\ b + n <= N
  <2>1. \A x, y \in Nat : x * y \in Nat /\ x * (y + 1) = x * y + x
    OBVIOUS
  <2>2. \A x, y, z \in Nat : x * (y + z) = x * y + x * z
    OBVIOUS
  <2> DEFINE d == p.family.registers - m
  <2>3. d \in Nat /\ p.family.registers + 1 = m + 1 + d
    BY <1>1
  <2>4. m + 1 \in Nat
    BY <1>1
  <2> HIDE DEF d
  <2>5. N = n * (m + 1 + d)
    BY <2>3 DEF Rounds
  <2>6. n * d \in Nat /\ n * (m + 1) = b + n /\ b \in Nat
    BY <1>1, <2>1, <2>3
  <2> HIDE DEF b, n, N
  <2>7. n * (m + 1 + d) = n * (m + 1) + n * d
    BY <1>1, <2>2, <2>3, <2>4
  <2> DEFINE e == n * d
  <2>8. N = b + n + e /\ e \in Nat
    BY <2>5, <2>6, <2>7
  <2> HIDE DEF e
  <2> QED BY <1>1, <2>6, <2>8
<1> HIDE DEF b, N
<1> SUFFICES ASSUME NEW w \in SUBSET RegisterFile(p), Cardinality(w) < m + 1
             PROVE  \A j \in b + n .. N : \A k \in D : <<k, w>> \in R[j + 1] => <<k, w>> \in R[j]
  BY <1>2 DEF Settled, N
<1>3. Cardinality(w) <= m
  <2>1. IsFiniteSet(w)
    BY TidyFacts, FS_Subset
  <2>2. Cardinality(w) \in Nat
    BY <2>1, FS_CardinalityType
  <2> QED BY <1>1, <2>2
<1> DEFINE Still(j) == \A k \in D : <<k, w>> \in R[j + 1] => <<k, w>> \in R[j]
<1>4. ASSUME NEW j \in b .. N, j + 1 <= N, Still(j) PROVE Still(j + 1)
  <2>1. j \in Nat /\ j + 1 + 1 = j + 2
    BY <1>2
  <2>2. \A k \in D : <<k, w>> \in R[j + 2] => <<k, w>> \in R[j + 1]
    BY <1>1, <1>3, <1>4, <2>1, PlacesStay DEF b, N
  <2> QED BY <2>1, <2>2
<1>5. \A j \in 0 .. N : R[j] \subseteq R[j + 1]
  BY TourGrows DEF N
<1> DEFINE c == [i \in 0 .. n + 1 |-> {k \in D : <<k, w>> \in R[b + i]}]
<1>6. IsFiniteSet(D) /\ Cardinality(D) = n
  <2>1. n \in Int /\ 1 \in Int
    BY <1>1
  <2>2. IsFiniteSet(1 .. n) /\ Cardinality(1 .. n) = IF 1 > n THEN 0 ELSE n - 1 + 1
    <3> HIDE DEF n
    <3> QED BY <2>1, FS_Interval
  <2> QED BY <1>1, <2>2
<1>7. c \in [0 .. n + 1 -> SUBSET D]
  OBVIOUS
<1>8. \A i \in 0 .. n : c[i] \subseteq c[i + 1]
  <2> SUFFICES ASSUME NEW i \in 0 .. n PROVE c[i] \subseteq c[i + 1]
    OBVIOUS
  <2>1. i \in 0 .. n + 1 /\ i + 1 \in 0 .. n + 1 /\ b + i \in 0 .. N /\ b + i + 1 = b + (i + 1)
    BY <1>1, <1>2
  <2>2. R[b + i] \subseteq R[b + (i + 1)]
    BY <1>5, <2>1
  <2> QED BY <2>1, <2>2
<1>9. \A i \in 0 .. n - 1 : c[i] = c[i + 1] => c[i + 1] = c[i + 2]
  <2> SUFFICES ASSUME NEW i \in 0 .. n - 1, c[i] = c[i + 1] PROVE c[i + 1] = c[i + 2]
    OBVIOUS
  <2>1. /\ i \in 0 .. n + 1 /\ i + 1 \in 0 .. n + 1 /\ i + 2 \in 0 .. n + 1 /\ i + 1 \in 0 .. n
        /\ b + i \in b .. N /\ b + i + 1 <= N /\ b + i + 1 = b + (i + 1) /\ b + i + 1 + 1 = b + (i + 2)
        /\ i + 1 + 1 = i + 2
    BY <1>1, <1>2
  <2>2. Still(b + i)
    <3> SUFFICES ASSUME NEW k \in D, <<k, w>> \in R[b + (i + 1)] PROVE <<k, w>> \in R[b + i]
      BY <2>1
    <3>1. k \in c[i + 1]
      BY <2>1
    <3>2. k \in c[i]
      BY <3>1
    <3> QED BY <2>1, <3>2
  <2>3. Still(b + i + 1)
    BY <1>4, <2>1, <2>2
  <2>4. c[i + 2] \subseteq c[i + 1]
    BY <2>1, <2>3
  <2>5. c[i + 1] \subseteq c[i + 2]
    BY <1>8, <2>1
  <2> QED BY <2>4, <2>5
<1>10. c[n] = c[n + 1]
  <2> HIDE DEF c, n, D
  <2> QED BY <1>1, <1>6, <1>7, <1>8, <1>9, ChainStops
<1>11. Still(b + n)
  <2>1. n \in 0 .. n + 1 /\ n + 1 \in 0 .. n + 1 /\ b + n + 1 = b + (n + 1)
    BY <1>1, <1>2
  <2> SUFFICES ASSUME NEW k \in D, <<k, w>> \in R[b + (n + 1)] PROVE <<k, w>> \in R[b + n]
    BY <2>1
  <2>2. k \in c[n + 1]
    BY <2>1
  <2>3. k \in c[n]
    BY <1>10, <2>2
  <2> QED BY <2>1, <2>3
<1> DEFINE I == {j \in b + n .. N : Still(j)}
<1>12. b + n \in I /\ b + n \in Nat
  BY <1>1, <1>2, <1>11
<1>13. ASSUME NEW j \in b + n + 1 .. N, j - 1 \in I PROVE j \in I
  <2> DEFINE i == j - 1
  <2>1. i \in b .. N /\ i + 1 <= N /\ i + 1 = j /\ j \in b + n .. N
    BY <1>1, <1>2
  <2>2. Still(i)
    BY <1>13
  <2> HIDE DEF i, Still
  <2>3. Still(i + 1)
    BY <1>4, <2>1, <2>2
  <2> QED BY <2>1, <2>3
<1>14. \A j \in b + n .. N : j \in I
  <2> HIDE DEF I
  <2> QED BY <1>1, <1>12, <1>13, Upward
<1> QED BY <1>14

(* The configurations: the first, and those which one step leads to.       *)
LEMMA ConfigurationsClosed ==
    ASSUME NEW p, Tidy(p)
    PROVE  /\ Configurations(p) \subseteq Cells(p)
           /\ Start(p) \in Configurations(p)
           /\ \A c \in Configurations(p) : \A q \in Successors(p.code, c[1]) : Step(p, c, q) \in Configurations(p)
           /\ \A x \in Configurations(p) :
                \/ x = Start(p)
                \/ \E c \in Configurations(p) : \E q \in Successors(p.code, c[1]) : x = Step(p, c, q)
<1>1. PICK R : IsTour(p, R)
  BY TourExists
<1> DEFINE N == Rounds(p)
           last == p.family.registers + 1
<1>2. N \in Nat /\ last \in Nat /\ 0 \in 0 .. N /\ N \in 0 .. N + 1 /\ N \in 0 .. N
  BY RoundsFacts, TidyFacts
<1>3. Configurations(p) = R[N] /\ R[N] \subseteq Cells(p) /\ R[0] = {Start(p)} /\ R[N + 1] = Further(p, R[N])
  <2> HIDE DEF N
  <2> QED BY <1>1, <1>2 DEF IsTour, N
<1>4. R[0] \subseteq R[N]
  BY <1>1, <1>2, TourGrows
<1> DEFINE I == {m \in 0 .. last : Settled(p, R, m)}
<1>5. 0 \in I
  <2>1. \A w \in SUBSET RegisterFile(p) : Cardinality(w) \in Nat
    BY TidyFacts, FS_Subset, FS_CardinalityType
  <2>2. \A w \in SUBSET RegisterFile(p) : ~(Cardinality(w) < 0)
    BY <2>1
  <2>3. Settled(p, R, 0)
    BY <2>2 DEF Settled
  <2> QED BY <1>2, <2>3
<1>6. ASSUME NEW m \in 0 + 1 .. last, m - 1 \in I PROVE m \in I
  <2>1. m - 1 \in 0 .. p.family.registers /\ m - 1 + 1 = m /\ m \in 0 .. last
    BY <1>2, TidyFacts
  <2> DEFINE l == m - 1
  <2>2. Settled(p, R, l) /\ l \in 0 .. p.family.registers /\ l + 1 = m
    BY <1>6, <2>1
  <2> HIDE DEF l
  <2>3. Settled(p, R, m)
    BY <1>1, <2>2, AllSettle
  <2> QED BY <2>1, <2>3
<1>7. Settled(p, R, last)
  <2>1. \A m \in 0 .. last : m \in I
    <3> HIDE DEF I, last
    <3> QED BY <1>2, <1>5, <1>6, Upward
  <2>2. last \in 0 .. last
    BY <1>2
  <2> HIDE DEF last
  <2> QED BY <2>1, <2>2
<1>8. R[N + 1] \subseteq R[N]
  <2> SUFFICES ASSUME NEW x \in R[N + 1] PROVE x \in R[N]
    OBVIOUS
  <2>1. R[N + 1] \subseteq Cells(p)
    <3>1. N + 1 \in 0 .. N + 1
      BY <1>2
    <3> HIDE DEF N
    <3> QED BY <1>1, <3>1 DEF IsTour, N
  <2>2. x = <<x[1], x[2]>> /\ x[1] \in DOMAIN p.code /\ x[2] \in SUBSET RegisterFile(p)
    BY <2>1 DEF Cells
  <2>3. Cardinality(x[2]) < last
    <3>1. IsFiniteSet(x[2]) /\ Cardinality(x[2]) <= p.family.registers
      BY <2>2, TidyFacts, FS_Subset
    <3>2. Cardinality(x[2]) \in Nat
      BY <3>1, FS_CardinalityType
    <3> QED BY <3>1, <3>2, TidyFacts
  <2>4. N \in Len(p.code) * last .. Rounds(p)
    BY <1>2 DEF Rounds
  <2> HIDE DEF last, N
  <2>5. <<x[1], x[2]>> \in R[N + 1] => <<x[1], x[2]>> \in R[N]
    BY <1>7, <2>2, <2>3, <2>4 DEF Settled
  <2> QED BY <2>2, <2>5
<1>9. \A c \in R[N] : \A q \in Successors(p.code, c[1]) : Step(p, c, q) \in R[N]
  <2> SUFFICES ASSUME NEW c \in R[N], NEW q \in Successors(p.code, c[1]) PROVE Step(p, c, q) \in R[N]
    OBVIOUS
  <2>1. Step(p, c, q) \in Further(p, R[N])
    BY FurtherIs
  <2> QED BY <1>3, <1>8, <2>1
<1> DEFINE Comes(x) == x = Start(p) \/ \E c \in R[N] : \E q \in Successors(p.code, c[1]) : x = Step(p, c, q)
           J == {j \in 0 .. N : \A x \in R[j] : Comes(x)}
<1>10. 0 \in J
  BY <1>2, <1>3
<1>11. ASSUME NEW j \in 0 + 1 .. N, j - 1 \in J PROVE j \in J
  <2>1. j - 1 \in 0 .. N /\ j - 1 + 1 = j /\ j \in 0 .. N
    BY <1>2
  <2>2. R[j] = Further(p, R[j - 1])
    <3> HIDE DEF N
    <3> QED BY <1>1, <2>1 DEF IsTour, N
  <2>3. R[j - 1] \subseteq R[N]
    BY <1>1, <2>1, TourGrows
  <2>4. ASSUME NEW x \in R[j] PROVE Comes(x)
    <3>1. CASE x \in R[j - 1]
      BY <1>11, <3>1
    <3>2. CASE \E c \in R[j - 1] : \E q \in Successors(p.code, c[1]) : x = Step(p, c, q)
      BY <2>3, <3>2
    <3> QED BY <2>2, <3>1, <3>2, FurtherIs
  <2> QED BY <2>1, <2>4
<1>12. \A x \in R[N] : Comes(x)
  <2>1. \A j \in 0 .. N : j \in J
    <3> HIDE DEF J, N
    <3> QED BY <1>2, <1>10, <1>11, Upward
  <2> QED BY <1>2, <2>1
<1> HIDE DEF N
<1> QED BY <1>3, <1>4, <1>9, <1>12

-----------------------------------------------------------------------------
(***************************************************************************)
(* The validator accepts what no path and no instruction speaks against.   *)
(***************************************************************************)
Live(p, k) == LiveRegisterMasks(p.code)[k]

Branches(i) == i.op \in {"Jump", "JumpIf"}

Blameless(p) == p \in Prototypes /\ ~Faulty(p)

(* Some way leads to k. *)
OnSomeWay(p, k) == \E c \in Configurations(p) : c[1] = k

LEMMA BlamelessFacts ==
    ASSUME NEW p, Blameless(p)
    PROVE  /\ Tidy(p) /\ FeaturesDeclared(p) /\ Leaves(Last(p.code))
           /\ \A k \in DOMAIN p.code : ~Malformed(p, k)
           /\ \A k \in DOMAIN p.code : p.code[k].op = "Close" \/ OnSomeWay(p, k)
           /\ \A c \in Configurations(p) : InstructionReads(p.code[c[1]]) \subseteq c[2]
<1>1. /\ p \in Prototypes /\ FeaturesDeclared(p) /\ Parameters(p) \subseteq RegisterFile(p) /\ p.code # << >>
      /\ Leaves(Last(p.code))
      /\ \A k \in DOMAIN p.code : ~Malformed(p, k)
      /\ \A k \in DOMAIN p.code : ~(p.code[k].op # "Close" /\ \A c \in Configurations(p) : c[1] # k)
      /\ \A c \in Configurations(p) : InstructionReads(p.code[c[1]]) \subseteq c[2]
  BY DEF Blameless, Faulty
<1>2. \A k \in DOMAIN p.code : InstructionReads(p.code[k]) \cup InstructionWrites(p.code[k]) \subseteq RegisterFile(p)
  BY <1>1 DEF Malformed
<1> QED BY <1>1, <1>2 DEF Tidy, OnSomeWay

(* What is live where a way leads was written on it.                       *)
LEMMA WaysMeetNeeds ==
    ASSUME NEW p, Blameless(p), NEW c \in Configurations(p)
    PROVE  c[1] \in DOMAIN p.code /\ Live(p, c[1]) \subseteq c[2]
<1>1. Tidy(p) /\ p.code \in Seq(Instructions)
  BY BlamelessFacts, TidyFacts
<1>2. /\ Configurations(p) \subseteq Cells(p)
      /\ \A d \in Configurations(p) : \A q \in Successors(p.code, d[1]) : Step(p, d, q) \in Configurations(p)
  BY <1>1, ConfigurationsClosed
<1>3. c[1] \in DOMAIN p.code
  BY <1>2 DEF Cells
<1> SUFFICES ASSUME NEW r, r \notin c[2] PROVE r \notin LiveRegisterMasks(p.code)[c[1]]
  BY <1>3 DEF Live
<1> DEFINE code == p.code
           S == {k \in DOMAIN code : \E d \in Configurations(p) : d[1] = k /\ r \notin d[2]}
<1>4. \A k \in S : r \notin InstructionReads(code[k])
  BY BlamelessFacts
<1>5. \A k \in S : r \notin InstructionWrites(code[k]) =>
        \A q \in Successors(code, k) : r \in LiveRegisterMasks(code)[q] => q \in S
  <2> SUFFICES ASSUME NEW k \in S, r \notin InstructionWrites(code[k]), NEW q \in Successors(code, k)
               PROVE  q \in S
    OBVIOUS
  <2>1. PICK d \in Configurations(p) : d[1] = k /\ r \notin d[2]
    OBVIOUS
  <2>2. Step(p, d, q) \in Configurations(p)
    BY <1>2, <2>1
  <2>3. Step(p, d, q)[1] = q /\ Step(p, d, q)[2] = d[2] \cup InstructionWrites(code[k])
    BY <2>1 DEF Step
  <2>4. q \in DOMAIN code
    BY DEF Successors
  <2> QED BY <2>1, <2>2, <2>3, <2>4
<1>6. c[1] \in S /\ S \in SUBSET DOMAIN code /\ code \in Seq(Instructions)
  BY <1>1, <1>3
<1> HIDE DEF code, S
<1>7. \A k \in S : r \notin LiveRegisterMasks(code)[k]
  BY <1>4, <1>5, <1>6, LivenessIsNeed
<1> QED BY <1>6, <1>7 DEF code

(* What the validator requires at the target of a jump is live there: with *)
(* LiveIsRequired, the two analyses agree on the registers.                *)
LEMMA RequiredIsLive ==
    ASSUME NEW p, NEW A, p.code \in Seq(A), NEW target \in DOMAIN p.code
    PROVE  BackwardBranchRequirements(p, target) \subseteq Live(p, target)
<1> SUFFICES ASSUME NEW r \in BackwardBranchRequirements(p, target) PROVE r \in Live(p, target)
  OBVIOUS
<1> DEFINE code == p.code
           n == Len(code)
<1>1. n \in Nat /\ code \in Seq(A)
  BY LenProperties
<1>2. PICK at \in UnwrittenFrom(code, target, r) : r \in InstructionReads(code[at])
  BY DEF BackwardBranchRequirements
<1> HIDE DEF code
<1>3. PICK R : IsWalk(code, target, r, R)
  BY <1>1, WalkExists DEF code
<1> HIDE DEF n
<1>4. /\ R[0] = {target} /\ UnwrittenFrom(code, target, r) = R[n]
      /\ \A j \in 1 .. n + 1 : R[j] = Onward(code, r, R[j - 1])
      /\ \A j \in 0 .. n + 1 : R[j] \subseteq DOMAIN code
  BY <1>3 DEF IsWalk, n
<1> DEFINE I == {j \in 0 .. n : \A k \in R[j] : r \in Live(p, k) => r \in Live(p, target)}
<1>5. 0 \in I
  BY <1>1, <1>4
<1>6. ASSUME NEW j \in 0 + 1 .. n, j - 1 \in I PROVE j \in I
  <2>1. j \in 1 .. n + 1 /\ j - 1 \in 0 .. n + 1 /\ j \in 0 .. n
    BY <1>1
  <2>2. R[j] = Onward(code, r, R[j - 1]) /\ R[j - 1] \subseteq DOMAIN code
    BY <1>4, <2>1
  <2>3. ASSUME NEW k \in R[j], r \in Live(p, k) PROVE r \in Live(p, target)
    <3>1. CASE k \in R[j - 1]
      BY <1>6, <2>3, <3>1
    <3>2. ASSUME NEW q \in R[j - 1], r \notin InstructionWrites(code[q]), k \in Successors(code, q)
          PROVE  r \in Live(p, target)
      <4>1. q \in DOMAIN code
        BY <2>2
      <4>2. \A m \in Successors(code, q) :
              LiveRegisterMasks(code)[m] \subseteq LiveRegisterMasks(code)[q] \cup InstructionWrites(code[q])
        BY <1>1, <4>1, LivenessFlows
      <4>3. r \in Live(p, q)
        BY <2>3, <3>2, <4>2 DEF Live, code
      <4> QED BY <1>6, <4>3
    <3> QED BY <2>2, <3>1, <3>2, OnwardIs
  <2> QED BY <2>1, <2>3
<1>7. n \in I
  <2> HIDE DEF I
  <2>1. \A j \in 0 .. n : j \in I
    BY <1>1, <1>5, <1>6, Upward
  <2> QED BY <1>1, <2>1
<1>8. at \in DOMAIN code
  BY <1>1, <1>2, <1>4
<1>9. r \in Live(p, at)
  <2>1. InstructionReads(code[at]) \subseteq LiveRegisterMasks(code)[at]
    BY <1>1, <1>8, LivenessFlows
  <2> QED BY <1>2, <2>1 DEF Live, code
<1> QED BY <1>2, <1>4, <1>7, <1>9

LEMMA LiveFacts ==
    ASSUME NEW p, Tidy(p), NEW k \in DOMAIN p.code
    PROVE  /\ Live(p, k) \subseteq RegisterFile(p)
           /\ InstructionReads(p.code[k]) \subseteq Live(p, k)
           /\ \A q \in Successors(p.code, k) : Live(p, q) \subseteq Live(p, k) \cup InstructionWrites(p.code[k])
           /\ BackwardBranchRequirements(p, k) = Live(p, k)
<1>1. p.code \in Seq(Instructions) /\ Len(p.code) \in Nat
  BY TidyFacts
<1>2. /\ InstructionReads(p.code[k]) \subseteq Live(p, k)
      /\ \A q \in Successors(p.code, k) : Live(p, q) \subseteq Live(p, k) \cup InstructionWrites(p.code[k])
  BY <1>1, LivenessFlows DEF Live
<1>3. Live(p, k) \subseteq RegisterFile(p)
  <2>1. PICK P : IsIteration(p.code, P)
    BY <1>1, LivenessIterates
  <2> DEFINE n == Len(p.code)
  <2>2. n \in 0 .. n + 1
    BY <1>1
  <2> HIDE DEF n
  <2>3. LiveRegisterMasks(p.code) \in Masks(p.code)
    BY <2>1, <2>2 DEF IsIteration, n
  <2>4. ReadAnywhere(p.code) \subseteq RegisterFile(p)
    BY DEF ReadAnywhere, Tidy
  <2> QED BY <2>3, <2>4 DEF Masks, Live
<1>4. Live(p, k) \cap RegisterFile(p) \subseteq BackwardBranchRequirements(p, k)
  BY <1>1, LiveIsRequired DEF Live
<1>5. BackwardBranchRequirements(p, k) \subseteq Live(p, k)
  BY <1>1, RequiredIsLive
<1> QED BY <1>2, <1>3, <1>4, <1>5

(* An instruction in which nothing is wrong and whose operands are         *)
(* initialized passes its check.                                           *)
LEMMA HarmlessPasses ==
    ASSUME NEW p, Tidy(p), NEW k \in DOMAIN p.code, NEW init, NEW states, ~Malformed(p, k),
           InstructionReads(p.code[k]) \subseteq init,
           p.code[k].op = "Jump" /\ p.code[k].to <= k =>
             states[p.code[k].to] # {} /\ BackwardBranchRequirements(p, p.code[k].to) \subseteq init
    PROVE  InstructionOK(p, k, init, states)
<1> DEFINE i == p.code[k]
<1>1. k \in 1 .. Len(p.code) /\ Len(p.code) \in Nat /\ DOMAIN p.code = 1 .. Len(p.code)
      /\ p.family.registers \in Nat
  BY TidyFacts
<1>2. /\ i.op \in Opcodes /\ (i.op \in {"Varargs", "Call"} => i.n \in Nat)
      /\ (i.op = "SetListVarargs" => i.start \in Nat) /\ (i.op = "Close" => i.from \in Nat)
  <2>1. i \in Instructions
    BY <1>1, TidyFacts, ElementOfSeq
  <2> QED BY <2>1, FamiliesAssumption DEF Instructions
<1>3. InstructionReads(i) \subseteq init /\ InstructionReads(i) \cup InstructionWrites(i) \subseteq RegisterFile(p)
  BY DEF Tidy
<1>4. /\ ~(i.op = "Varargs" /\ i.n = 0) /\ ~(i.op = "Close" /\ i.from > p.family.registers)
      /\ ~(i.op = "SetListVarargs" /\ i.start = 0 /\ p.family.profile \notin {"Blu", "Lua55"})
      /\ ~(i.op = "Call" /\ i.out = "list" /\ i.n = 0)
      /\ ~(i.op \in {"Jump", "JumpIf"} /\ i.to \notin DOMAIN p.code)
      /\ ~(i.op = "JumpIf" /\ i.to <= k)
      /\ ~(Producer(i) /\ (k = Len(p.code) \/ ~Consumer(p.code[k + 1])))
  BY DEF Malformed
<1>5. i.op = "Jump" /\ i.to <= k =>
        states[i.to] # {} /\ BackwardBranchRequirements(p, i.to) \subseteq init
  OBVIOUS
<1> HIDE DEF i
<1>6. CASE i.op \in Loads
  BY <1>3, <1>6 DEF i, InstructionOK, LoadOK, InstructionWrites, Loads, Stores, Unaries, Binaries, Operators
<1>7. CASE i.op \in Stores
  BY <1>3, <1>7 DEF i, InstructionOK, TableOK, InstructionReads, Loads, Stores, Unaries, Binaries, Operators
<1>8. CASE i.op = "SetTable"
  BY <1>3, <1>8 DEF i, InstructionOK, TableOK, InstructionReads, Loads, Stores, Unaries, Binaries, Operators
<1>9. CASE i.op = "SetListVarargs"
  <2>1. i.start > 0 \/ p.family.profile \in {"Blu", "Lua55"}
    BY <1>2, <1>4, <1>9
  <2>2. i.t \in init
    BY <1>3, <1>9 DEF InstructionReads, Loads, Stores, Unaries, Binaries, Operators
  <2>3. TableOK(p, i, init)
    BY <1>9, <2>1, <2>2 DEF TableOK, Stores
  <2> QED BY <1>9, <2>3 DEF i, InstructionOK, Loads, Stores, Unaries, Binaries, Operators
<1>10. CASE i.op \in Unaries \cup Binaries
  BY <1>3, <1>10 DEF i, InstructionOK, OperatorOK, InstructionReads, InstructionWrites,
                     Loads, Stores, Unaries, Binaries, Operators
<1>11. CASE i.op = "Call"
  <2>1. {i.f} \cup Span(i.a, i.na) \subseteq init
    BY <1>3, <1>11 DEF InstructionReads, Loads, Stores, Unaries, Binaries, Operators
  <2>2. i.out = "fixed" => FixedCallOK(p, i, init)
    BY <1>3, <1>11 DEF FixedCallOK, InstructionWrites, Loads, Stores, Unaries, Binaries, Operators
  <2>3. i.out = "all" => AllResultsOK(p, k, init)
    <3>1. i.out = "all" => k # Len(p.code) /\ Consumer(p.code[k + 1])
      BY <1>4, <1>11 DEF Producer
    <3> QED BY <1>1, <3>1 DEF AllResultsOK
  <2>4. i.out = "list" => ListCallOK(p, i, init)
    <3>1. i.out = "list" => i.o \in init
      BY <1>3, <1>11 DEF InstructionReads, Loads, Stores, Unaries, Binaries, Operators
    <3>2. i.out = "list" => i.n > 0
      BY <1>2, <1>4, <1>11
    <3> QED BY <3>1, <3>2 DEF ListCallOK
  <2>5. ReturnCallOK(p, i, init)
    BY <1>3, <1>11 DEF ReturnCallOK, InstructionReads, Loads, Stores, Unaries, Binaries, Operators
  <2>6. CallOK(p, k, init)
    BY <2>1, <2>2, <2>3, <2>4, <2>5 DEF CallOK, i
  <2> QED BY <1>11, <2>6 DEF i, InstructionOK, Loads, Stores, Unaries, Binaries, Operators
<1>12. CASE i.op = "Closure"
  BY <1>3, <1>12 DEF i, InstructionOK, ClosureOK, InstructionReads, InstructionWrites,
                     Loads, Stores, Unaries, Binaries, Operators
<1>13. CASE i.op = "Close"
  <2>1. i.from <= p.family.registers
    BY <1>1, <1>2, <1>4, <1>13
  <2> QED BY <1>13, <2>1 DEF i, InstructionOK, ClosureOK, Loads, Stores, Unaries, Binaries, Operators
<1>14. CASE i.op = "Varargs"
  <2>1. i.n > 0
    BY <1>2, <1>4, <1>14
  <2>2. Span(i.d, i.n) \subseteq RegisterFile(p)
    BY <1>3, <1>14 DEF InstructionWrites, Loads, Stores, Unaries, Binaries, Operators
  <2> QED BY <1>14, <2>1, <2>2 DEF i, InstructionOK, VarargsOK, Loads, Stores, Unaries, Binaries, Operators
<1>15. CASE i.op = "Return"
  BY <1>3, <1>15 DEF i, InstructionOK, ReturnOK, InstructionReads, Loads, Stores, Unaries, Binaries, Operators
<1>16. CASE i.op = "JumpIf"
  <2>1. i.to \in k + 1 .. Len(p.code)
    BY <1>1, <1>4, <1>16
  <2>2. i.s \in init
    BY <1>3, <1>16 DEF InstructionReads, Loads, Stores, Unaries, Binaries, Operators
  <2> QED BY <1>16, <2>1, <2>2 DEF i, InstructionOK, JumpIfOK, Loads, Stores, Unaries, Binaries, Operators
<1>17. CASE i.op = "Jump"
  <2>1. i.to \in 1 .. Len(p.code)
    BY <1>1, <1>4, <1>17
  <2>2. JumpOK(p, k, init, states)
    BY <1>5, <1>17, <2>1 DEF JumpOK, i
  <2> QED BY <1>17, <2>2 DEF i, InstructionOK, Loads, Stores, Unaries, Binaries, Operators
<1> QED
  BY <1>2, <1>6, <1>7, <1>8, <1>9, <1>10, <1>11, <1>12, <1>13, <1>14, <1>15, <1>16, <1>17 DEF Opcodes

(* What the scan of a prototype without blame has found once it passed the *)
(* first j instructions: nothing wrong; what it knows to be initialized    *)
(* covers what is live where it, and every branch it remembers, goes on;   *)
(* and it has seen every instruction that a way leads to.                  *)
Holding(p, j) ==
  /\ ScanOf(p)[j].ok
  /\ ScanOf(p)[j].reachable /\ j < Len(p.code) => Live(p, j + 1) \subseteq ScanOf(p)[j].init
  /\ \A q \in DOMAIN p.code : \A e \in ScanOf(p)[j].incoming[q] : Live(p, q) \subseteq e
  /\ \A q \in DOMAIN p.code : ScanOf(p)[j].incoming[q] # {} =>
       \E k \in DOMAIN p.code : Branches(p.code[k]) /\ p.code[k].to = q
  /\ \A q \in DOMAIN p.code : q <= j /\ q \in BackwardTargets(p.code) => ScanOf(p)[j].states[q] # {}
  /\ \A q \in DOMAIN p.code : q <= j /\ OnSomeWay(p, q) => q \in Seen(p)
  /\ \A q \in Seen(p) : \A to \in DOMAIN p.code :
       q <= j /\ j < to /\ Branches(p.code[q]) /\ p.code[q].to = to => ScanOf(p)[j].incoming[to] # {}
  /\ j = 0 \/ (j \in Seen(p) /\ ~Leaves(p.code[j]) /\ p.code[j].op # "Jump") => ScanOf(p)[j].reachable

LEMMA HoldingStarts ==
    ASSUME NEW p, Blameless(p)
    PROVE  Holding(p, 0)
<1>1. Tidy(p) /\ p \in Prototypes
  BY BlamelessFacts, TidyFacts
<1>2. ScanOf(p)[0] = ScanStart(p)
  BY <1>1, ScanIterates
<1>3. /\ ScanOf(p)[0].ok = (Parameters(p) \subseteq RegisterFile(p))
      /\ ScanOf(p)[0].reachable /\ ScanOf(p)[0].init = Parameters(p)
      /\ \A q \in DOMAIN p.code : ScanOf(p)[0].incoming[q] = {}
  BY <1>2 DEF ScanStart
<1>4. Live(p, 0 + 1) \subseteq Parameters(p)
  <2>1. Start(p) \in Configurations(p)
    BY <1>1, ConfigurationsClosed
  <2>2. Start(p)[1] = 0 + 1 /\ Start(p)[2] = Parameters(p)
    BY DEF Start
  <2> QED BY <2>1, <2>2, WaysMeetNeeds
<1>5. \A q \in DOMAIN p.code : ~(q <= 0)
  BY <1>1, TidyFacts
<1>6. Seen(p) \subseteq DOMAIN p.code
  BY DEF Seen
<1> QED BY <1>1, <1>3, <1>4, <1>5, <1>6 DEF Holding, Tidy

LEMMA TargetsOf ==
    ASSUME NEW code, NEW k
    PROVE  /\ code[k].op = "Jump" => Targets(code, k) = {code[k].to}
           /\ code[k].op = "JumpIf" => Targets(code, k) = {code[k].to, k + 1}
BY DEF Targets, Leaves

(* A jump that leads back, and where it leads.                             *)
LEMMA BackwardJumps ==
    ASSUME NEW p, Blameless(p), NEW q \in DOMAIN p.code, NEW k \in Successors(p.code, q), k <= q
    PROVE  k \in BackwardTargets(p.code)
<1>1. Len(p.code) \in Nat /\ DOMAIN p.code = 1 .. Len(p.code)
  BY BlamelessFacts, TidyFacts
<1>2. p.code[q].op = "Jump" /\ p.code[q].to = k
  <2>1. ~(p.code[q].op = "JumpIf" /\ p.code[q].to <= q)
    BY BlamelessFacts DEF Malformed
  <2>2. k # q + 1
    BY <1>1
  <2> QED BY <2>1, <2>2 DEF Successors, Targets
<1> QED BY <1>2 DEF BackwardTargets

(* The scan sees an instruction that a way leads to.                       *)
LEMMA WaysAreSeen ==
    ASSUME NEW p, Blameless(p), NEW k \in DOMAIN p.code, Holding(p, k - 1), OnSomeWay(p, k)
    PROVE  k \in Seen(p)
<1>1. /\ Tidy(p) /\ Len(p.code) \in Nat /\ DOMAIN p.code = 1 .. Len(p.code)
      /\ p.code \in Seq(Instructions)
  BY BlamelessFacts, TidyFacts
<1> DEFINE s == ScanOf(p)[k - 1]
           arrivals == s.incoming[k] \cup (IF s.reachable THEN {s.init} ELSE {})
<1>2. Entry(p, k) = IF arrivals # {} THEN {Common(p, arrivals)}
                    ELSE IF k \in BackwardTargets(p.code) THEN {BackwardBranchRequirements(p, k)} ELSE {}
  BY Zenon DEF Entry, EntryState
<1> SUFFICES ASSUME k \notin Seen(p) PROVE FALSE
  OBVIOUS
<1> HIDE DEF arrivals
<1>3. k \notin BackwardTargets(p.code) /\ arrivals = {}
  BY <1>2 DEF Seen
<1>4. s.incoming[k] = {} /\ ~s.reachable
  BY <1>3 DEF arrivals
<1> HIDE DEF s
<1>5. PICK x \in Configurations(p) : x[1] = k
  BY DEF OnSomeWay
<1>6. CASE x = Start(p)
  <2>1. k = 1 /\ k - 1 = 0
    BY <1>5, <1>6 DEF Start
  <2>2. s.reachable
    BY <2>1 DEF Holding, s
  <2> QED BY <1>4, <2>2
<1>7. ASSUME NEW c \in Configurations(p), NEW q \in Successors(p.code, c[1]), x = Step(p, c, q) PROVE FALSE
  <2>1. q = k
    BY <1>5, <1>7 DEF Step
  <2> DEFINE from == c[1]
  <2>2. from \in DOMAIN p.code /\ OnSomeWay(p, from) /\ k \in Successors(p.code, from)
    BY <1>7, <2>1, WaysMeetNeeds DEF OnSomeWay
  <2> HIDE DEF from
  <2>3. ~(k <= from)
    BY <1>3, <2>2, BackwardJumps
  <2>4. from <= k - 1 /\ k - 1 < k
    BY <1>1, <2>2, <2>3
  <2>5. from \in Seen(p)
    BY <2>2, <2>4 DEF Holding
  <2>6. ~(Branches(p.code[from]) /\ p.code[from].to = k)
    BY <1>4, <2>4, <2>5 DEF Holding, s
  <2>7. k = from + 1 /\ ~Leaves(p.code[from]) /\ p.code[from].op # "Jump"
    <3>1. k \in Targets(p.code, from)
      BY <2>2 DEF Successors
    <3>2. CASE p.code[from].op = "Jump"
      BY <2>6, <3>1, <3>2 DEF Targets, Branches
    <3>3. CASE p.code[from].op = "JumpIf"
      BY <2>6, <3>1, <3>3 DEF Targets, Branches, Leaves
    <3>4. CASE p.code[from].op \notin {"Jump", "JumpIf"}
      BY <3>1, <3>4 DEF Targets
    <3> QED BY <3>2, <3>3, <3>4
  <2>8. k - 1 = from
    BY <1>1, <2>2, <2>7
  <2>9. s.reachable
    BY <2>5, <2>7, <2>8 DEF Holding, s
  <2> QED BY <1>4, <2>9
<1>8. x = Start(p) \/ \E c \in Configurations(p) : \E q \in Successors(p.code, c[1]) : x = Step(p, c, q)
  BY <1>1, ConfigurationsClosed
<1> QED BY <1>6, <1>7, <1>8

LEMMA NoneMisplaced ==
    ASSUME NEW p, Blameless(p), NEW k \in DOMAIN p.code, Holding(p, k - 1)
    PROVE  ~ConsumerMisplaced(p, ScanOf(p)[k - 1], k)
<1> SUFFICES ASSUME ConsumerMisplaced(p, ScanOf(p)[k - 1], k) PROVE FALSE
  OBVIOUS
<1>1. Consumer(p.code[k])
  BY DEF ConsumerMisplaced
<1>2. /\ ~(k = 1 \/ ~Producer(p.code[k - 1]))
      /\ \A q \in DOMAIN p.code : ~(p.code[q].op \in {"Jump", "JumpIf"} /\ p.code[q].to = k)
  BY <1>1, BlamelessFacts DEF Malformed
<1>3. ScanOf(p)[k - 1].incoming[k] = {}
  BY <1>2 DEF Holding, Branches
<1>4. k \notin BackwardTargets(p.code)
  BY <1>2 DEF BackwardTargets
<1> QED BY <1>2, <1>3, <1>4 DEF ConsumerMisplaced

(* What the scan knows where it comes to covers what is live there.        *)
LEMMA EntryCovers ==
    ASSUME NEW p, Blameless(p), NEW k \in Seen(p), Holding(p, k - 1)
    PROVE  Live(p, k) \subseteq At(p, k)
<1>1. /\ Tidy(p) /\ Len(p.code) \in Nat /\ DOMAIN p.code = 1 .. Len(p.code) /\ k \in DOMAIN p.code
  BY BlamelessFacts, TidyFacts DEF Seen
<1> DEFINE s == ScanOf(p)[k - 1]
           arrivals == s.incoming[k] \cup (IF s.reachable THEN {s.init} ELSE {})
<1>2. Entry(p, k) = IF arrivals # {} THEN {Common(p, arrivals)}
                    ELSE IF k \in BackwardTargets(p.code) THEN {BackwardBranchRequirements(p, k)} ELSE {}
  BY Zenon DEF Entry, EntryState
<1>3. Live(p, k) \subseteq RegisterFile(p) /\ BackwardBranchRequirements(p, k) = Live(p, k)
  BY <1>1, LiveFacts
<1>4. \A e \in arrivals : Live(p, k) \subseteq e
  <2>1. s.reachable => Live(p, k) \subseteq s.init
    <3>1. k - 1 < Len(p.code) /\ k - 1 + 1 = k
      BY <1>1
    <3> QED BY <3>1 DEF Holding
  <2>2. \A e \in s.incoming[k] : Live(p, k) \subseteq e
    BY <1>1 DEF Holding
  <2> HIDE DEF s
  <2> QED BY <2>1, <2>2
<1> HIDE DEF arrivals
<1>5. Entry(p, k) = {At(p, k)}
  BY AtFacts
<1>6. CASE arrivals # {}
  <2>1. At(p, k) = Common(p, arrivals)
    BY <1>2, <1>5, <1>6
  <2> QED BY <1>3, <1>4, <2>1 DEF Common
<1>7. CASE arrivals = {}
  <2>1. At(p, k) = BackwardBranchRequirements(p, k)
    BY <1>2, <1>5, <1>7
  <2> QED BY <1>3, <2>1
<1> QED BY <1>6, <1>7

LEMMA SkippedHolds ==
    ASSUME NEW p, Blameless(p), NEW k \in DOMAIN p.code, Holding(p, k - 1), k \notin Seen(p)
    PROVE  Holding(p, k)
<1> DEFINE s == ScanOf(p)[k - 1]
           t == ScanOf(p)[k]
<1>1. /\ p \in Prototypes /\ Len(p.code) \in Nat /\ DOMAIN p.code = 1 .. Len(p.code)
      /\ k \in 1 .. Len(p.code) /\ k - 1 \in 0 .. Len(p.code) /\ k # 0
  BY BlamelessFacts, TidyFacts
<1>2. t = ScanStep(p, s, k) /\ s \in ScanStates(p) /\ s.ok
  BY <1>1, ScanIterates DEF Holding
<1>3. Entry(p, k) = {}
  BY DEF Seen
<1>4. EntryState(p, s, k) = {} /\ ~ConsumerMisplaced(p, s, k)
  BY <1>3, NoneMisplaced DEF Entry
<1>5. ~s.reachable /\ k \notin BackwardTargets(p.code)
  <2> DEFINE arrivals == s.incoming[k] \cup (IF s.reachable THEN {s.init} ELSE {})
  <2>1. Entry(p, k) = IF arrivals # {} THEN {Common(p, arrivals)}
                      ELSE IF k \in BackwardTargets(p.code) THEN {BackwardBranchRequirements(p, k)} ELSE {}
    BY Zenon DEF Entry, EntryState
  <2> HIDE DEF arrivals
  <2>2. arrivals = {} /\ k \notin BackwardTargets(p.code)
    BY <1>3, <2>1
  <2> QED BY <2>2 DEF arrivals
<1>6. p.code[k].op = "Close" /\ ~OnSomeWay(p, k)
  BY BlamelessFacts, WaysAreSeen
<1> HIDE DEF s, t
<1>7. t = [s EXCEPT !.ok = p.code[k].op = "Close"]
  BY <1>2, <1>4, StepSkipped
<1>8. t.ok /\ t.reachable = s.reachable /\ t.incoming = s.incoming /\ t.states = s.states
  BY <1>2, <1>6, <1>7 DEF ScanStates
<1>9. \A q \in DOMAIN p.code : q <= k => q <= k - 1 \/ q = k
  BY <1>1
<1>10. \A q \in DOMAIN p.code : k < q => k - 1 < q
  BY <1>1
<1>11. Seen(p) \subseteq DOMAIN p.code
  BY DEF Seen
<1>12. /\ \A q \in DOMAIN p.code : \A e \in s.incoming[q] : Live(p, q) \subseteq e
       /\ \A q \in DOMAIN p.code : s.incoming[q] # {} =>
            \E j \in DOMAIN p.code : Branches(p.code[j]) /\ p.code[j].to = q
       /\ \A q \in DOMAIN p.code : q <= k - 1 /\ q \in BackwardTargets(p.code) => s.states[q] # {}
       /\ \A q \in DOMAIN p.code : q <= k - 1 /\ OnSomeWay(p, q) => q \in Seen(p)
       /\ \A q \in Seen(p) : \A to \in DOMAIN p.code :
            q <= k - 1 /\ k - 1 < to /\ Branches(p.code[q]) /\ p.code[q].to = to => s.incoming[to] # {}
  BY DEF Holding, s
<1>13. /\ t.ok /\ ~t.reachable
       /\ \A q \in DOMAIN p.code : \A e \in t.incoming[q] : Live(p, q) \subseteq e
       /\ \A q \in DOMAIN p.code : t.incoming[q] # {} =>
            \E j \in DOMAIN p.code : Branches(p.code[j]) /\ p.code[j].to = q
       /\ \A q \in DOMAIN p.code : q <= k /\ q \in BackwardTargets(p.code) => t.states[q] # {}
       /\ \A q \in DOMAIN p.code : q <= k /\ OnSomeWay(p, q) => q \in Seen(p)
       /\ \A q \in Seen(p) : \A to \in DOMAIN p.code :
            q <= k /\ k < to /\ Branches(p.code[q]) /\ p.code[q].to = to => t.incoming[to] # {}
  <2>1. \A q \in Seen(p) : \A to \in DOMAIN p.code :
            q <= k /\ k < to /\ Branches(p.code[q]) /\ p.code[q].to = to => t.incoming[to] # {}
    <3> SUFFICES ASSUME NEW q \in Seen(p), NEW to \in DOMAIN p.code, q <= k, k < to,
                        Branches(p.code[q]), p.code[q].to = to
                 PROVE  t.incoming[to] # {}
      OBVIOUS
    <3>1. q <= k - 1 /\ k - 1 < to
      BY <1>9, <1>10, <1>11
    <3> QED BY <1>8, <1>12, <3>1
  <2>2. \A q \in DOMAIN p.code : q <= k /\ OnSomeWay(p, q) => q \in Seen(p)
    BY <1>6, <1>9, <1>12
  <2>3. \A q \in DOMAIN p.code : q <= k /\ q \in BackwardTargets(p.code) => t.states[q] # {}
    BY <1>5, <1>8, <1>9, <1>12
  <2> QED BY <1>5, <1>8, <1>12, <2>1, <2>2, <2>3
<1> QED BY <1>1, <1>13 DEF Holding, t

(* What a branch leaves at the places it does not lead to, and at the one  *)
(* it does.                                                                *)
LeadsOn(p, k, q) == Branches(p.code[k]) /\ p.code[k].to = q /\ k < q

LEMMA BranchLeaves ==
    ASSUME NEW p, Tidy(p), NEW k \in DOMAIN p.code, NEW at, NEW before \in Arrivals(p), NEW q \in DOMAIN p.code
    PROVE  /\ LeadsOn(p, k, q) => Branch(p, before, k, at)[q] = {Common(p, before[q] \cup {at})}
           /\ ~LeadsOn(p, k, q) => Branch(p, before, k, at)[q] = before[q]
<1> USE DEF LeadsOn
<1>0. Len(p.code) \in Nat /\ DOMAIN p.code = 1 .. Len(p.code)
  BY TidyFacts
<1> DEFINE i == p.code[k]
<1>1. CASE Branches(i) /\ i.to > k /\ i.to <= Len(p.code)
  <2>1. Branch(p, before, k, at) = [before EXCEPT ![i.to] = {Common(p, @ \cup {at})}]
    BY <1>1 DEF Branch, Branches
  <2>2. CASE i.to = q
    BY <1>0, <1>1, <2>1, <2>2 DEF Arrivals
  <2>3. CASE i.to # q
    BY <2>1, <2>3 DEF Arrivals
  <2> QED BY <2>2, <2>3
<1>2. CASE ~(Branches(i) /\ i.to > k /\ i.to <= Len(p.code))
  <2>1. Branch(p, before, k, at) = before
    BY <1>2 DEF Branch, Branches
  <2> QED BY <1>0, <1>2, <2>1
<1> QED BY <1>1, <1>2

LEMMA TakenHolds ==
    ASSUME NEW p, Blameless(p), NEW k \in Seen(p), Holding(p, k - 1)
    PROVE  Holding(p, k)
<1> DEFINE s == ScanOf(p)[k - 1]
           t == ScanOf(p)[k]
           at == At(p, k)
           i == p.code[k]
           before == [s.incoming EXCEPT ![k] = {}]
<1>1. /\ p \in Prototypes /\ Tidy(p) /\ Len(p.code) \in Nat /\ DOMAIN p.code = 1 .. Len(p.code)
      /\ k \in DOMAIN p.code /\ k \in 1 .. Len(p.code) /\ k - 1 \in 0 .. Len(p.code) /\ k # 0
  BY BlamelessFacts, TidyFacts DEF Seen
<1>2. t = ScanStep(p, s, k) /\ s \in ScanStates(p) /\ s.ok
  BY <1>1, ScanIterates DEF Holding
<1>3. EntryState(p, s, k) = {at} /\ ~ConsumerMisplaced(p, s, k) /\ at \subseteq RegisterFile(p)
  BY <1>1, AtFacts, NoneMisplaced DEF Entry
<1>4. Live(p, k) \subseteq at
  BY EntryCovers
<1>5. /\ Live(p, k) \subseteq RegisterFile(p) /\ InstructionReads(i) \subseteq Live(p, k)
      /\ \A q \in Successors(p.code, k) : Live(p, q) \subseteq Live(p, k) \cup InstructionWrites(i)
  BY <1>1, LiveFacts
<1>6. /\ \A q \in DOMAIN p.code : \A e \in s.incoming[q] : Live(p, q) \subseteq e
      /\ \A q \in DOMAIN p.code : s.incoming[q] # {} =>
           \E j \in DOMAIN p.code : Branches(p.code[j]) /\ p.code[j].to = q
      /\ \A q \in DOMAIN p.code : q <= k - 1 /\ q \in BackwardTargets(p.code) => s.states[q] # {}
      /\ \A q \in DOMAIN p.code : q <= k - 1 /\ OnSomeWay(p, q) => q \in Seen(p)
      /\ \A q \in Seen(p) : \A to \in DOMAIN p.code :
           q <= k - 1 /\ k - 1 < to /\ Branches(p.code[q]) /\ p.code[q].to = to => s.incoming[to] # {}
  BY DEF Holding
<1> HIDE DEF s, t, at
<1>7. t = [ok |-> InstructionOK(p, k, at, Passed(p, s, k, at)),
           reachable |-> ~Leaves(i) /\ i.op # "Jump",
           init |-> at \cup InstructionWrites(i),
           incoming |-> Branch(p, before, k, at),
           states |-> Passed(p, s, k, at)]
  <2>1. (CHOOSE e \in {at} : TRUE) = at
    OBVIOUS
  <2> QED BY <1>2, <1>3, <2>1 DEF ScanStep, Passed
<1>8. /\ t.ok = InstructionOK(p, k, at, Passed(p, s, k, at)) /\ t.reachable = (~Leaves(i) /\ i.op # "Jump")
      /\ t.init = at \cup InstructionWrites(i) /\ t.incoming = Branch(p, before, k, at)
      /\ t.states = Passed(p, s, k, at)
  BY <1>7
<1>9. s.incoming \in Arrivals(p) /\ s.states \in Arrivals(p)
  BY <1>2 DEF ScanStates
<1>10. /\ before \in Arrivals(p) /\ before[k] = {}
       /\ \A q \in DOMAIN p.code : q # k => before[q] = s.incoming[q]
  BY <1>1, <1>9 DEF Arrivals
<1>11. \A q \in DOMAIN p.code :
         /\ LeadsOn(p, k, q) => t.incoming[q] = {Common(p, before[q] \cup {at})}
         /\ ~LeadsOn(p, k, q) => t.incoming[q] = before[q]
  <2> HIDE DEF before, i
  <2> SUFFICES ASSUME NEW q \in DOMAIN p.code
               PROVE  /\ LeadsOn(p, k, q) => t.incoming[q] = {Common(p, before[q] \cup {at})}
                      /\ ~LeadsOn(p, k, q) => t.incoming[q] = before[q]
    OBVIOUS
  <2>1. before \in Arrivals(p) /\ Tidy(p) /\ k \in DOMAIN p.code
    BY <1>1, <1>10
  <2>2. /\ LeadsOn(p, k, q) => Branch(p, before, k, at)[q] = {Common(p, before[q] \cup {at})}
        /\ ~LeadsOn(p, k, q) => Branch(p, before, k, at)[q] = before[q]
    <3>1. PICK b, e : b = before /\ e = at
      OBVIOUS
    <3>2. b \in Arrivals(p) /\ Tidy(p) /\ k \in DOMAIN p.code /\ q \in DOMAIN p.code
      BY <2>1, <3>1
    <3>3. /\ LeadsOn(p, k, q) => Branch(p, b, k, e)[q] = {Common(p, b[q] \cup {e})}
          /\ ~LeadsOn(p, k, q) => Branch(p, b, k, e)[q] = b[q]
      BY ONLY <3>2, BranchLeaves
    <3> QED BY <3>1, <3>3
  <2> QED BY <1>8, <2>2
<1> HIDE DEF before
<1>12. \A q \in DOMAIN p.code : q <= k => q <= k - 1 \/ q = k
  BY <1>1
<1>13. \A q \in DOMAIN p.code : k < q => k - 1 < q /\ q # k
  BY <1>1
<1>14. \A q \in DOMAIN p.code : q <= k /\ q \in BackwardTargets(p.code) => t.states[q] # {}
  <2>1. \A q \in DOMAIN p.code :
          t.states[q] = IF q = k THEN (IF k \in BackwardTargets(p.code) THEN {at} ELSE {}) ELSE s.states[q]
    BY <1>1, <1>8, <1>9 DEF Passed, Arrivals
  <2> QED BY <1>6, <1>12, <2>1
<1>15. t.ok
  <2>1. InstructionReads(i) \subseteq at /\ ~Malformed(p, k)
    BY <1>1, <1>4, <1>5, BlamelessFacts
  <2>2. ASSUME i.op = "Jump", i.to <= k
        PROVE  t.states[i.to] # {} /\ BackwardBranchRequirements(p, i.to) \subseteq at
    <3>1. i.to \in DOMAIN p.code
      BY <2>1, <2>2 DEF Malformed
    <3>2. i.to \in BackwardTargets(p.code) /\ i.to \in Successors(p.code, k)
      <4>1. Targets(p.code, k) = {i.to}
        BY <2>2, TargetsOf
      <4> QED BY <1>1, <2>2, <3>1, <4>1 DEF BackwardTargets, Successors
    <3>3. InstructionWrites(i) = {}
      BY <2>2 DEF InstructionWrites, Loads, Unaries, Binaries, Operators
    <3>4. BackwardBranchRequirements(p, i.to) = Live(p, i.to)
      BY <1>1, <3>1, LiveFacts
    <3>5. Live(p, i.to) \subseteq at
      BY <1>4, <1>5, <3>2, <3>3
    <3> QED BY <1>14, <2>2, <3>1, <3>2, <3>4, <3>5
  <2>3. InstructionOK(p, k, at, t.states)
    BY <1>1, <2>1, <2>2, HarmlessPasses
  <2> QED BY <1>8, <2>3
<1>16. t.reachable /\ k < Len(p.code) => Live(p, k + 1) \subseteq t.init
  <2> SUFFICES ASSUME t.reachable, k < Len(p.code) PROVE Live(p, k + 1) \subseteq t.init
    OBVIOUS
  <2>1. k + 1 \in DOMAIN p.code
    BY <1>1
  <2>2. ~Leaves(i) /\ i.op # "Jump"
    BY <1>8, Zenon
  <2>3. k + 1 \in Successors(p.code, k)
    BY <2>1, <2>2 DEF Successors, Targets
  <2> QED BY <1>4, <1>5, <1>8, <2>3
<1>17. \A q \in DOMAIN p.code : \A e \in t.incoming[q] : Live(p, q) \subseteq e
  <2> SUFFICES ASSUME NEW q \in DOMAIN p.code, NEW e \in t.incoming[q] PROVE Live(p, q) \subseteq e
    OBVIOUS
  <2>1. \A d \in before[q] : Live(p, q) \subseteq d
    BY <1>6, <1>10
  <2>2. CASE Branches(i) /\ i.to = q /\ k < q
    <3>1. e = Common(p, before[q] \cup {at})
      BY <1>11, <2>2 DEF LeadsOn
    <3>2. q \in Successors(p.code, k) /\ InstructionWrites(i) = {}
      <4>1. q \in Targets(p.code, k)
        <5>1. CASE i.op = "Jump"
          BY <2>2, <5>1, TargetsOf DEF Branches
        <5>2. CASE i.op = "JumpIf"
          BY <2>2, <5>2, TargetsOf DEF Branches
        <5> QED BY <2>2, <5>1, <5>2 DEF Branches
      <4>2. InstructionWrites(i) = {}
        BY <2>2 DEF Branches, InstructionWrites, Loads, Unaries, Binaries, Operators
      <4> QED BY <4>1, <4>2 DEF Successors
    <3>3. Live(p, q) \subseteq at
      BY <1>4, <1>5, <3>2
    <3>4. Live(p, q) \subseteq RegisterFile(p)
      BY <1>1, LiveFacts
    <3> QED BY <2>1, <3>1, <3>3, <3>4 DEF Common
  <2>3. CASE ~(Branches(i) /\ i.to = q /\ k < q)
    BY <1>11, <2>1, <2>3 DEF LeadsOn
  <2> QED BY <2>2, <2>3
<1>18. \A q \in DOMAIN p.code : t.incoming[q] # {} =>
         \E j \in DOMAIN p.code : Branches(p.code[j]) /\ p.code[j].to = q
  <2> SUFFICES ASSUME NEW q \in DOMAIN p.code, t.incoming[q] # {}
               PROVE  \E j \in DOMAIN p.code : Branches(p.code[j]) /\ p.code[j].to = q
    OBVIOUS
  <2>1. CASE Branches(i) /\ i.to = q
    BY <1>1, <2>1
  <2>2. CASE ~(Branches(i) /\ i.to = q)
    <3>1. before[q] # {}
      BY <1>11, <2>2 DEF LeadsOn
    <3>2. s.incoming[q] # {}
      BY <1>10, <3>1
    <3> QED BY <1>6, <3>2
  <2> QED BY <2>1, <2>2
<1>19. \A q \in DOMAIN p.code : q <= k /\ OnSomeWay(p, q) => q \in Seen(p)
  BY <1>6, <1>12
<1>20. \A q \in Seen(p) : \A to \in DOMAIN p.code :
         q <= k /\ k < to /\ Branches(p.code[q]) /\ p.code[q].to = to => t.incoming[to] # {}
  <2> SUFFICES ASSUME NEW q \in Seen(p), NEW to \in DOMAIN p.code, q <= k, k < to,
                      Branches(p.code[q]), p.code[q].to = to
               PROVE  t.incoming[to] # {}
    OBVIOUS
  <2>1. CASE q = k
    BY <1>11, <2>1 DEF LeadsOn
  <2>2. CASE q # k
    <3>1. q <= k - 1 /\ k - 1 < to /\ to # k
      BY <1>12, <1>13, <2>2 DEF Seen
    <3>2. before[to] # {}
      BY <1>6, <1>10, <3>1
    <3> QED BY <1>11, <3>2 DEF LeadsOn
  <2> QED BY <2>1, <2>2
<1>21. (k = 0 \/ (k \in Seen(p) /\ ~Leaves(i) /\ i.op # "Jump")) => t.reachable
  BY <1>1, <1>8
<1> HIDE DEF i
<1> QED BY <1>14, <1>15, <1>16, <1>17, <1>18, <1>19, <1>20, <1>21 DEF Holding, t, i

(* The validator (blu.rs) accepts a prototype that is not Faulty: its one  *)
(* pass over the code finds nothing that no path shows.                    *)
LEMMA BlamelessAccepted ==
    ASSUME NEW p, Blameless(p)
    PROVE  ValidatePrototype(p)
<1> DEFINE n == Len(p.code)
           I == {j \in 0 .. n : Holding(p, j)}
<1>1. n \in Nat /\ DOMAIN p.code = 1 .. n
  BY BlamelessFacts, TidyFacts
<1>2. 0 \in I
  BY <1>1, HoldingStarts
<1>3. ASSUME NEW k \in 0 + 1 .. n, k - 1 \in I PROVE k \in I
  <2>1. k \in DOMAIN p.code /\ k \in 0 .. n /\ Holding(p, k - 1)
    BY <1>1, <1>3
  <2>2. Holding(p, k)
    BY <2>1, SkippedHolds, TakenHolds
  <2> QED BY <2>1, <2>2
<1>4. Holding(p, n)
  <2> HIDE DEF I, n
  <2>1. \A j \in 0 .. n : j \in I
    BY <1>1, <1>2, <1>3, Upward
  <2>2. n \in I
    BY <1>1, <2>1
  <2> QED BY <2>2 DEF I
<1>5. FeaturesDeclared(p) /\ p.code # << >> /\ Leaves(Last(p.code))
  BY BlamelessFacts DEF Tidy
<1>6. ScanOf(p)[Len(p.code)].ok
  BY <1>4 DEF Holding
<1> QED BY <1>5, <1>6, Zenon DEF ValidatePrototype, ScanOf

-----------------------------------------------------------------------------
(***************************************************************************)
(* Accepted code runs.                                                     *)
(***************************************************************************)

(* The invariant: a rejected prototype did not pass the validator; an      *)
(* accepted one did, control is where the scan was, what is live there     *)
(* holds a value, and results are at hand if the instruction takes them.   *)
Secure ==
  /\ proto \in Prototypes
  /\ verdict = "pending" => pc = 1
  /\ verdict = "rejected" => ~ValidatePrototype(proto)
  /\ verdict = "accepted" =>
       /\ ValidatePrototype(proto)
       /\ pc # 0 =>
            /\ pc \in Seen(proto)
            /\ LiveRegisterMasks(proto.code)[pc] \subseteq written
            /\ Consumer(proto.code[pc]) => dynamic

LEMMA SecureInit == Init => Secure
<1> SUFFICES ASSUME Init PROVE Secure
  OBVIOUS
<1>1. PICK f \in Families : proto = [code |-> << >>, family |-> f]
  BY DEF Init
<1>2. << >> \in Seq(Instructions)
  BY EmptySeq
<1> QED BY <1>1, <1>2 DEF Init, Secure, Prototypes

LEMMA SecureRead == Secure /\ ReadInstruction => Secure'
<1> SUFFICES ASSUME Secure, ReadInstruction PROVE Secure'
  OBVIOUS
<1>1. PICK i \in Instructions : proto' = [proto EXCEPT !.code = Append(@, i)]
  <2>1. proto.family \in Families
    BY DEF Secure, Prototypes
  <2>2. PICK i \in proto.family.ends \cup proto.family.alphabet : proto' = [proto EXCEPT !.code = Append(@, i)]
    <3>1. CASE Len(proto.code) + 1 = proto.family.length
      BY <3>1 DEF ReadInstruction
    <3>2. CASE Len(proto.code) + 1 # proto.family.length
      BY <3>2 DEF ReadInstruction
    <3> QED BY <3>1, <3>2
  <2>3. i \in Instructions
    BY <2>1 DEF Instructions
  <2> QED BY <2>2, <2>3
<1>2. Append(proto.code, i) \in Seq(Instructions)
  BY AppendProperties DEF Secure, Prototypes
<1>3. proto' \in Prototypes
  BY <1>1, <1>2 DEF Secure, Prototypes
<1> QED BY <1>3 DEF Secure, ReadInstruction

LEMMA SecureValidate == Secure /\ Validate => Secure'
<1> SUFFICES ASSUME Secure, Validate PROVE Secure'
  OBVIOUS
<1>1. proto' = proto /\ pc' = pc /\ pc = 1 /\ written' = Parameters(proto) /\ proto \in Prototypes
  BY DEF Secure, Validate
<1>2. verdict' = IF ValidatePrototype(proto) THEN "accepted" ELSE "rejected"
  BY DEF Validate
<1>3. CASE ~ValidatePrototype(proto)
  BY <1>1, <1>2, <1>3 DEF Secure
<1>4. CASE ValidatePrototype(proto)
  <2>1. 1 \in Seen(proto) /\ At(proto, 1) \subseteq Parameters(proto) /\ ~Consumer(proto.code[1])
    BY <1>1, <1>4, EntryPoint
  <2>2. LiveRegisterMasks(proto.code)[1] \subseteq At(proto, 1)
    BY <1>1, <1>4, <2>1, LiveIsInitialized
  <2>3. proto' \in Prototypes /\ ValidatePrototype(proto)'
    BY <1>1, <1>4
  <2>4. /\ Seen(proto)' = Seen(proto) /\ LiveRegisterMasks(proto.code)' = LiveRegisterMasks(proto.code)
        /\ proto.code[pc]' = proto.code[1]
    BY <1>1
  <2> QED BY <1>1, <1>2, <1>4, <2>1, <2>2, <2>3, <2>4 DEF Secure
<1> QED BY <1>3, <1>4

LEMMA SecureRun == Secure /\ RunInstruction => Secure'
<1> SUFFICES ASSUME Secure, RunInstruction PROVE Secure'
  OBVIOUS
<1>1. /\ proto' = proto /\ verdict' = verdict /\ verdict = "accepted"
      /\ proto \in Prototypes /\ ValidatePrototype(proto)
      /\ written' = written \cup InstructionWrites(proto.code[pc])
      /\ dynamic' = Producer(proto.code[pc])
  BY DEF Secure, RunInstruction, Running, Here
<1>2. pc # 0
  <2>1. pc \in DOMAIN proto.code /\ DOMAIN proto.code = 1 .. Len(proto.code) /\ Len(proto.code) \in Nat
    BY <1>1, AcceptedMeans DEF RunInstruction, Running
  <2> QED BY <2>1
<1>3. pc \in Seen(proto) /\ LiveRegisterMasks(proto.code)[pc] \subseteq written
  BY <1>1, <1>2 DEF Secure
<1>4. proto' \in Prototypes /\ ValidatePrototype(proto)'
  BY <1>1
<1>5. CASE pc' = 0
  BY <1>1, <1>4, <1>5 DEF Secure
<1>6. CASE pc' # 0
  <2>1. pc' \in Targets(proto.code, pc)
    BY <1>6 DEF RunInstruction, Here
  <2>2. PICK q : q = pc'
    OBVIOUS
  <2>3. q \in Seen(proto) /\ (Consumer(proto.code[q]) => Producer(proto.code[pc]))
    BY <1>1, <1>3, <2>1, <2>2, Edges
  <2>4. LiveRegisterMasks(proto.code)[q] \subseteq written \cup InstructionWrites(proto.code[pc])
    <3>1. q \in Successors(proto.code, pc) /\ pc \in DOMAIN proto.code
      BY <1>3, <2>1, <2>2, <2>3 DEF Successors, Seen
    <3>2. proto.code \in Seq(Instructions)
      BY <1>1 DEF Prototypes
    <3>3. LiveRegisterMasks(proto.code)[q]
            \subseteq LiveRegisterMasks(proto.code)[pc] \cup InstructionWrites(proto.code[pc])
      BY <3>1, <3>2, LivenessFlows
    <3> QED BY <1>3, <3>3
  <2>5. /\ Seen(proto)' = Seen(proto) /\ LiveRegisterMasks(proto.code)' = LiveRegisterMasks(proto.code)
        /\ proto.code[pc]' = proto.code[q]
    BY <1>1, <2>2
  <2>6. Consumer(proto.code[pc])' => dynamic'
    <3>1. \A i : i = proto.code[q] => (Consumer(i) => dynamic')
      BY <1>1, <2>3
    <3>2. \A i : i = proto.code[q] => (Consumer(proto.code[pc])' <=> Consumer(i))
      BY <1>1, <2>2
    <3> QED BY <3>1, <3>2
  <2> QED BY <1>1, <1>4, <2>2, <2>3, <2>4, <2>5, <2>6 DEF Secure
<1> QED BY <1>5, <1>6

LEMMA SecureCollect == Secure /\ Collect => Secure'
<1> SUFFICES ASSUME Secure, Collect PROVE Secure'
  OBVIOUS
<1>1. /\ proto' = proto /\ verdict' = verdict /\ pc' = pc /\ dynamic' = dynamic
      /\ written' = written \cap LiveRegisterMasks(proto.code)[pc]
  BY DEF Collect
<1>2. LiveRegisterMasks(proto.code)[pc]' = LiveRegisterMasks(proto.code)[pc]
  BY <1>1
<1> QED BY <1>1, <1>2 DEF Secure

LEMMA SecureAlways == Spec => []Secure
<1>1. Secure /\ [Next]_vars => Secure'
  <2> SUFFICES ASSUME Secure, [Next]_vars PROVE Secure'
    OBVIOUS
  <2>1. CASE ReadInstruction
    BY <2>1, SecureRead
  <2>2. CASE Validate
    BY <2>2, SecureValidate
  <2>3. CASE RunInstruction
    BY <2>3, SecureRun
  <2>4. CASE Collect
    BY <2>4, SecureCollect
  <2>5. CASE UNCHANGED vars
    BY <2>5 DEF Secure, vars
  <2> QED BY <2>1, <2>2, <2>3, <2>4, <2>5 DEF Next
<1> QED BY <1>1, SecureInit, PTL DEF Spec

(* The theorem of the validator (blu.rs): code that it accepts never reads *)
(* a register that holds no value, takes results that are not at hand,     *)
(* writes past its registers or leaves its code, on any path, wherever a   *)
(* collection reclaims what the liveness masks (vm.rs) call dead.          *)
THEOREM AcceptedCodeIsSafe == Spec => []AcceptedCodeRuns
<1>1. Secure => AcceptedCodeRuns
  <2> SUFFICES ASSUME Secure, verdict = "accepted", pc # 0 PROVE AcceptedCodeRuns
    BY DEF AcceptedCodeRuns
  <2>1. /\ proto \in Prototypes /\ ValidatePrototype(proto) /\ pc \in Seen(proto)
        /\ LiveRegisterMasks(proto.code)[pc] \subseteq written /\ (Consumer(proto.code[pc]) => dynamic)
    BY DEF Secure
  <2>2. pc \in DOMAIN proto.code /\ proto.code \in Seq(Instructions)
    BY <2>1 DEF Seen, Prototypes
  <2>3. InstructionReads(proto.code[pc]) \subseteq LiveRegisterMasks(proto.code)[pc]
    BY <2>2, LivenessFlows
  <2>4. InstructionOK(proto, pc, At(proto, pc), ScanOf(proto)[pc].states)
    BY <2>1, ScanTaken
  <2>5. InstructionWrites(proto.code[pc]) \subseteq RegisterFile(proto)
    BY <2>1, <2>2, <2>4, CheckedInstruction
  <2> QED BY <2>1, <2>2, <2>3, <2>5 DEF AcceptedCodeRuns, Here
<1> QED BY <1>1, SecureAlways, PTL

(* The other half: code that the validator (blu.rs) rejects is wrong by    *)
(* its instructions or by a path through it.  Its single pass, which meets *)
(* loop heads before the jumps that lead back to them, is as good as       *)
(* following all paths.                                                    *)
THEOREM RejectedCodeHasFaults == Spec => []RejectedCodeIsWrong
<1>1. Secure => RejectedCodeIsWrong
  <2> SUFFICES ASSUME Secure, verdict = "rejected", ~Faulty(proto) PROVE FALSE
    BY DEF RejectedCodeIsWrong
  <2>1. Blameless(proto) /\ ~ValidatePrototype(proto)
    BY DEF Secure, Blameless
  <2> QED BY <2>1, BlamelessAccepted
<1> QED BY <1>1, SecureAlways, PTL
=============================================================================
