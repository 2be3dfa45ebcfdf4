----------------------------- MODULE HeapProofs -----------------------------
(***************************************************************************)
(* The collector: its marking is exact, no handle dangles, finalizers run  *)
(* once and in order, and its slots behave like the arena of SlotArena,    *)
(* for heaps of every size, weak tables of every kind and every width of   *)
(* generations.                                                            *)
(***************************************************************************)
EXTENDS Heap, SelectionLemmas

-----------------------------------------------------------------------------
(* A loop that makes a subset of D larger until it is in Stop: it ends, in *)
(* the least set that every step stays in.                                 *)

IsLoop(D, Stop, next) ==
    /\ IsFiniteSet(D)
    /\ next \in [SUBSET D -> SUBSET D]
    /\ \A m \in SUBSET D : m \notin Stop => m \subseteq next[m] /\ m # next[m]
Computes(f, D, Stop, next) ==
    \A m \in SUBSET D : f[m] = IF m \in Stop THEN m ELSE f[next[m]]
Reaches(result, start, D, Stop, next) ==
    /\ result \in Stop
    /\ \A P \in SUBSET SUBSET D :
         start \in P /\ (\A m \in P : m \notin Stop => next[m] \in P) => result \in P

(* Every step leaves less of D outside.                                    *)
LEMMA LoopShrinks ==
    ASSUME NEW D, IsFiniteSet(D), NEW m \in SUBSET D, NEW n \in SUBSET D
    PROVE  /\ Cardinality(D \ m) \in Nat /\ Cardinality(D \ m) <= Cardinality(D)
           /\ m \subseteq n /\ m # n => Cardinality(D \ n) < Cardinality(D \ m)
<1>1. IsFiniteSet(D \ m) /\ Cardinality(D \ m) <= Cardinality(D)
  BY FS_Subset
<1>2. Cardinality(D \ m) \in Nat
  BY <1>1, FS_CardinalityType
<1>3. ASSUME m \subseteq n, m # n PROVE Cardinality(D \ n) < Cardinality(D \ m)
  <2>1. (D \ n) \in SUBSET (D \ m) /\ D \ m # D \ n
    BY <1>3
  <2>2. /\ IsFiniteSet(D \ n) /\ Cardinality(D \ n) <= Cardinality(D \ m)
        /\ Cardinality(D \ n) # Cardinality(D \ m)
    BY <1>1, <2>1, FS_Subset
  <2>3. Cardinality(D \ n) \in Nat
    BY <2>2, FS_CardinalityType
  <2> QED BY <1>2, <2>2, <2>3
<1> QED BY <1>1, <1>2, <1>3

(* There is a function that the recursion defines.                         *)
LEMMA LoopExists ==
    ASSUME NEW D, NEW Stop, NEW next, IsLoop(D, Stop, next)
    PROVE  \E f \in [SUBSET D -> SUBSET D] : Computes(f, D, Stop, next)
<1> USE DEF IsLoop
<1> DEFINE size(m) == Cardinality(D \ m)
           Solves(f, k) == \A m \in SUBSET D : size(m) <= k =>
                              /\ f[m] \in SUBSET D
                              /\ f[m] = IF m \in Stop THEN m ELSE f[next[m]]
           Bad == {k \in Nat : ~\E f : Solves(f, k)}
<1>1. \A m \in SUBSET D : /\ size(m) \in Nat /\ size(m) <= Cardinality(D)
                          /\ m \notin Stop => size(next[m]) < size(m)
  BY LoopShrinks
<1> HIDE DEF size
<1>2. Bad = {}
  <2> SUFFICES ASSUME Bad # {} PROVE FALSE
    OBVIOUS
  <2>1. PICK k \in Bad : \A j \in Bad : k <= j
    <3>1. Bad \in SUBSET Nat
      OBVIOUS
    <3> HIDE DEF Bad
    <3> QED BY <3>1, LeastNatural
  <2>2. k \in Nat
    OBVIOUS
  <2>3. PICK g : \A m \in SUBSET D : size(m) < k =>
                    /\ g[m] \in SUBSET D
                    /\ g[m] = IF m \in Stop THEN m ELSE g[next[m]]
    <3>1. CASE k = 0
      BY <1>1, <3>1
    <3>2. CASE k # 0
      <4>1. k - 1 \in Nat /\ ~(k <= k - 1)
        BY <2>2, <3>2
      <4>2. PICK g : Solves(g, k - 1)
        BY <2>1, <4>1
      <4>3. \A m \in SUBSET D : size(m) < k => size(m) <= k - 1
        BY <1>1, <2>2
      <4> QED BY <4>2, <4>3
    <3> QED BY <3>1, <3>2
  <2> DEFINE h == [m \in SUBSET D |-> IF size(m) < k THEN g[m]
                                      ELSE IF m \in Stop THEN m ELSE g[next[m]]]
  <2>4. Solves(h, k)
    <3> SUFFICES ASSUME NEW m \in SUBSET D, size(m) <= k
                 PROVE  /\ h[m] \in SUBSET D
                        /\ h[m] = IF m \in Stop THEN m ELSE h[next[m]]
      OBVIOUS
    <3>1. m \notin Stop => next[m] \in SUBSET D /\ size(next[m]) < k
      BY <1>1, <2>2
    <3>2. m \notin Stop => h[next[m]] = g[next[m]]
      BY <3>1
    <3>3. h[m] = IF m \in Stop THEN m ELSE g[next[m]]
      BY <2>3
    <3>4. h[m] \in SUBSET D
      BY <2>3, <3>1, <3>3
    <3> QED BY <3>2, <3>3, <3>4
  <2> QED BY <2>4
<1>3. PICK g : Solves(g, Cardinality(D))
  <2>1. Cardinality(D) \in Nat
    BY FS_CardinalityType
  <2> QED BY <1>2, <2>1
<1> DEFINE f == [m \in SUBSET D |-> g[m]]
<1>4. f \in [SUBSET D -> SUBSET D]
  BY <1>1, <1>3
<1>5. \A m \in SUBSET D : f[m] = IF m \in Stop THEN m ELSE f[next[m]]
  BY <1>1, <1>3
<1> QED BY <1>4, <1>5 DEF Computes

(* What the loop computes: a set in Stop that has every property that      *)
(* start has and the steps keep.                                           *)
LEMMA LoopReaches ==
    ASSUME NEW D, NEW Stop, NEW next, IsLoop(D, Stop, next),
           NEW f, Computes(f, D, Stop, next), NEW start \in SUBSET D
    PROVE  Reaches(f[start], start, D, Stop, next)
<1> USE DEF IsLoop, Computes
<1> DEFINE size(m) == Cardinality(D \ m)
           Good(m) ==
             /\ f[m] \in Stop
             /\ \A P \in SUBSET SUBSET D :
                  m \in P /\ (\A l \in P : l \notin Stop => next[l] \in P) => f[m] \in P
           Bad == {size(m) : m \in {l \in SUBSET D : ~Good(l)}}
<1>1. \A m \in SUBSET D : /\ size(m) \in Nat
                          /\ m \notin Stop => size(next[m]) < size(m)
  BY LoopShrinks
<1> HIDE DEF size
<1>2. ASSUME NEW m \in SUBSET D, m \notin Stop => Good(next[m]) PROVE Good(m)
  <2>1. f[m] = IF m \in Stop THEN m ELSE f[next[m]]
    OBVIOUS
  <2>2. CASE m \in Stop
    BY <2>1, <2>2
  <2>3. CASE m \notin Stop
    BY <1>2, <2>1, <2>3
  <2> QED BY <2>2, <2>3
<1> HIDE DEF Good
<1>3. Bad = {}
  <2> SUFFICES ASSUME Bad # {} PROVE FALSE
    OBVIOUS
  <2>1. PICK k \in Bad : \A j \in Bad : k <= j
    <3>1. Bad \in SUBSET Nat
      BY <1>1
    <3> HIDE DEF Bad
    <3> QED BY <3>1, LeastNatural
  <2>2. PICK m \in SUBSET D : ~Good(m) /\ k = size(m)
    OBVIOUS
  <2>3. m \notin Stop /\ ~Good(next[m]) /\ next[m] \in SUBSET D
    BY <1>2, <2>2
  <2>4. size(next[m]) \in Bad /\ size(next[m]) < size(m)
    BY <1>1, <2>3
  <2>5. size(m) <= size(next[m]) /\ size(m) \in Nat /\ size(next[m]) \in Nat
    BY <1>1, <2>1, <2>2, <2>3, <2>4
  <2> QED BY <2>4, <2>5
<1>4. Good(start)
  BY <1>3
<1> QED BY <1>4 DEF Good, Reaches

-----------------------------------------------------------------------------
(* Marking: Marked(start) is the least set of slots with those of start    *)
(* that is closed under strong references and ephemeron entries.           *)
Closed(S) == Successors(S) \subseteq S /\ EphemeronValues(S) \subseteq S

LEMMA SuccessorsGrow ==
    /\ \A m : Successors(m) \subseteq Occupied /\ EphemeronValues(m) \subseteq Occupied
    /\ \A m, n : m \subseteq n => /\ Successors(m) \subseteq Successors(n)
                                  /\ EphemeronValues(m) \subseteq EphemeronValues(n)
<1>1. \A vs : IndicesOf(vs) \subseteq Occupied
  BY DEF IndicesOf, Resolves, Occupied
<1>2. \A vs, ws : vs \subseteq ws => IndicesOf(vs) \subseteq IndicesOf(ws)
  BY DEF IndicesOf
<1>3. \A m, n : m \subseteq n => Successors(m) \subseteq Successors(n)
  <2> SUFFICES ASSUME NEW m, NEW n, m \subseteq n PROVE Successors(m) \subseteq Successors(n)
    OBVIOUS
  <2>1. UNION {StrongValues(slots[i].object) : i \in m}
          \subseteq UNION {StrongValues(slots[i].object) : i \in n}
    OBVIOUS
  <2> QED BY <1>2, <2>1 DEF Successors
<1>4. \A m, n : m \subseteq n => EphemeronValues(m) \subseteq EphemeronValues(n)
  <2> SUFFICES ASSUME NEW m, NEW n, m \subseteq n
               PROVE  EphemeronValues(m) \subseteq EphemeronValues(n)
    OBVIOUS
  <2> DEFINE Values2(i, S) ==
               LET o == slots[i].object
               IN  IF WeakMode(o) # {"k"} THEN {}
                   ELSE {o.entries[key] : key \in {x \in DOMAIN o.entries : IsMarked(x, S)}}
  <2>1. \A v : IsMarked(v, m) => IsMarked(v, n)
    BY DEF IsMarked
  <2>2. \A i : Values2(i, m) \subseteq Values2(i, n)
    BY <2>1
  <2>3. EphemeronValues(m) = IndicesOf(UNION {Values2(i, m) : i \in m})
    BY DEF EphemeronValues
  <2>4. EphemeronValues(n) = IndicesOf(UNION {Values2(i, n) : i \in n})
    BY DEF EphemeronValues
  <2> HIDE DEF Values2
  <2>5. UNION {Values2(i, m) : i \in m} \subseteq UNION {Values2(i, n) : i \in n}
    BY <2>2
  <2> QED BY <1>2, <2>3, <2>4, <2>5
<1>5. \A m : Successors(m) \subseteq Occupied /\ EphemeronValues(m) \subseteq Occupied
  BY <1>1 DEF Successors, EphemeronValues
<1> QED BY <1>3, <1>4, <1>5

LEMMA IndicesFinite ==
    ASSUME Len(slots) \in Nat
    PROVE  IsFiniteSet(Indices) /\ Occupied \in SUBSET Indices
<1>1. IsFiniteSet(1 .. Len(slots))
  BY FS_Interval
<1> QED BY <1>1 DEF Indices, Occupied

LEMMA DrainedIsLeast ==
    ASSUME Len(slots) \in Nat, NEW start \in SUBSET Indices
    PROVE  /\ Drained(start) \in SUBSET Indices /\ start \subseteq Drained(start)
           /\ Successors(Drained(start)) \subseteq Drained(start)
           /\ \A S \in SUBSET Indices :
                start \subseteq S /\ Successors(S) \subseteq S => Drained(start) \subseteq S
<1> DEFINE Stop == {m \in SUBSET Indices : m \cup Successors(m) = m}
           next == [m \in SUBSET Indices |-> m \cup Successors(m)]
           drain[marked \in SUBSET Indices] ==
             LET more == marked \cup Successors(marked)
             IN  IF more = marked THEN marked ELSE drain[more]
<1>1. IsFiniteSet(Indices) /\ \A m : Successors(m) \subseteq Indices
  BY IndicesFinite, SuccessorsGrow
<1>2. next \in [SUBSET Indices -> SUBSET Indices]
  BY <1>1
<1>3. \A m \in SUBSET Indices : m \notin Stop => m \subseteq next[m] /\ m # next[m]
  OBVIOUS
<1>4. IsLoop(Indices, Stop, next)
  BY <1>1, <1>2, <1>3 DEF IsLoop
<1>5. \E f : f = [marked \in SUBSET Indices |->
                LET more == marked \cup Successors(marked)
                IN  IF more = marked THEN marked ELSE f[more]]
  <2>1. PICK f \in [SUBSET Indices -> SUBSET Indices] : Computes(f, Indices, Stop, next)
    <3> HIDE DEF Stop, next
    <3> QED BY <1>4, LoopExists
  <2>2. f = [marked \in SUBSET Indices |->
                LET more == marked \cup Successors(marked)
                IN  IF more = marked THEN marked ELSE f[more]]
    BY <2>1 DEF Computes
  <2> QED BY <2>2
<1>6. drain = [marked \in SUBSET Indices |->
                LET more == marked \cup Successors(marked)
                IN  IF more = marked THEN marked ELSE drain[more]]
  BY <1>5, Zenon
<1>7. Drained(start) = drain[start]
  BY DEF Drained
<1> HIDE DEF drain
<1>9. Reaches(drain[start], start, Indices, Stop, next)
  <2>1. Computes(drain, Indices, Stop, next)
    BY <1>6 DEF Computes
  <2> HIDE DEF Stop, next
  <2> QED BY <1>4, <2>1, LoopReaches
<1>10. start \subseteq drain[start]
  <2> DEFINE P == {m \in SUBSET Indices : start \subseteq m}
  <2>1. P \in SUBSET SUBSET Indices /\ start \in P /\ \A m \in P : next[m] \in P
    BY <1>1
  <2>2. drain[start] \in P
    <3> HIDE DEF P, Stop, next
    <3> QED BY <1>9, <2>1 DEF Reaches
  <2> QED BY <2>2
<1>11. ASSUME NEW S \in SUBSET Indices, start \subseteq S, Successors(S) \subseteq S
       PROVE  drain[start] \subseteq S
  <2>1. \A m \in SUBSET S : m \in SUBSET Indices /\ m \cup Successors(m) \in SUBSET S
    BY <1>11, SuccessorsGrow
  <2>2. /\ SUBSET S \in SUBSET SUBSET Indices /\ start \in SUBSET S
        /\ \A m \in SUBSET S : next[m] \in SUBSET S
    BY <1>11, <2>1
  <2>3. drain[start] \in SUBSET S
    <3> HIDE DEF Stop, next
    <3> QED BY <1>9, <2>2 DEF Reaches
  <2> QED BY <2>3
<1>12. drain[start] \in SUBSET Indices /\ Successors(drain[start]) \subseteq drain[start]
  BY <1>9 DEF Reaches
<1> QED BY <1>7, <1>10, <1>11, <1>12

LEMMA MarkedIsLeast ==
    ASSUME Len(slots) \in Nat, NEW start \in SUBSET Occupied
    PROVE  /\ Marked(start) \in SUBSET Occupied /\ start \subseteq Marked(start)
           /\ Closed(Marked(start))
           /\ \A S \in SUBSET Indices :
                start \subseteq S /\ Closed(S) => Marked(start) \subseteq S
<1> DEFINE DrainedSet(m) == m \in SUBSET Indices /\ Successors(m) \subseteq m
           Stop == {m \in SUBSET Indices : EphemeronValues(m) \subseteq m}
           next == [m \in SUBSET Indices |-> Drained(m \cup EphemeronValues(m))]
           scan[marked \in SUBSET Indices] ==
             LET values == EphemeronValues(marked)
             IN  IF values \subseteq marked THEN marked
                 ELSE scan[Drained(marked \cup values)]
<1>1. /\ IsFiniteSet(Indices) /\ start \in SUBSET Indices /\ Occupied \in SUBSET Indices
      /\ \A m \in SUBSET Indices : m \cup EphemeronValues(m) \in SUBSET Indices
  BY IndicesFinite, SuccessorsGrow
<1>2. \A m \in SUBSET Indices : /\ Drained(m) \in SUBSET Indices /\ m \subseteq Drained(m)
                                /\ Successors(Drained(m)) \subseteq Drained(m)
  BY DrainedIsLeast
<1>3. next \in [SUBSET Indices -> SUBSET Indices]
  BY <1>1, <1>2
<1>4. \A m \in SUBSET Indices : m \notin Stop => m \subseteq next[m] /\ m # next[m]
  <2> SUFFICES ASSUME NEW m \in SUBSET Indices, ~(EphemeronValues(m) \subseteq m)
               PROVE  m \subseteq next[m] /\ m # next[m]
    OBVIOUS
  <2>1. m \cup EphemeronValues(m) \subseteq Drained(m \cup EphemeronValues(m))
    BY <1>1, <1>2
  <2> QED BY <2>1
<1>5. IsLoop(Indices, Stop, next)
  BY <1>1, <1>3, <1>4 DEF IsLoop
<1>6. \E f : f = [marked \in SUBSET Indices |->
                LET values == EphemeronValues(marked)
                IN  IF values \subseteq marked THEN marked
                    ELSE f[Drained(marked \cup values)]]
  <2>1. PICK f \in [SUBSET Indices -> SUBSET Indices] : Computes(f, Indices, Stop, next)
    <3> HIDE DEF Stop, next
    <3> QED BY <1>5, LoopExists
  <2>2. f = [marked \in SUBSET Indices |->
                LET values == EphemeronValues(marked)
                IN  IF values \subseteq marked THEN marked
                    ELSE f[Drained(marked \cup values)]]
    BY <2>1 DEF Computes
  <2> QED BY <2>2
<1>7. scan = [marked \in SUBSET Indices |->
                LET values == EphemeronValues(marked)
                IN  IF values \subseteq marked THEN marked
                    ELSE scan[Drained(marked \cup values)]]
  BY <1>6, Zenon
<1>8. Marked(start) = scan[Drained(start)]
  BY DEF Marked
<1> HIDE DEF scan
<1>9. \A m \in SUBSET Indices : scan[m] = IF m \in Stop THEN m ELSE scan[next[m]]
  BY <1>7
<1> DEFINE begin == Drained(start)
<1>10. begin \in SUBSET Indices /\ start \subseteq begin /\ Successors(begin) \subseteq begin
  BY <1>1, <1>2
<1> HIDE DEF begin
<1>11. Reaches(scan[begin], begin, Indices, Stop, next)
  <2>1. Computes(scan, Indices, Stop, next)
    BY <1>9 DEF Computes
  <2> HIDE DEF Stop, next
  <2> QED BY <1>5, <1>10, <2>1, LoopReaches
<1>12. start \subseteq scan[begin] /\ Successors(scan[begin]) \subseteq scan[begin]
  <2> DEFINE P == {m \in SUBSET Indices : start \subseteq m /\ Successors(m) \subseteq m}
  <2>1. ASSUME NEW m \in P PROVE next[m] \in P
    BY <1>1, <1>2
  <2>2. P \in SUBSET SUBSET Indices /\ begin \in P
    BY <1>10
  <2>3. scan[begin] \in P
    <3> HIDE DEF P, Stop, next
    <3> QED BY <1>11, <2>1, <2>2 DEF Reaches
  <2> QED BY <2>3
<1>13. ASSUME NEW S \in SUBSET Indices, start \subseteq S, Closed(S)
       PROVE  scan[begin] \subseteq S
  <2>1. \A m \in SUBSET S : next[m] \in SUBSET S
    <3> SUFFICES ASSUME NEW m \in SUBSET S PROVE Drained(m \cup EphemeronValues(m)) \subseteq S
      OBVIOUS
    <3>1. m \cup EphemeronValues(m) \subseteq S
      BY <1>13, SuccessorsGrow DEF Closed
    <3> QED BY <1>1, <1>13, <3>1, DrainedIsLeast DEF Closed
  <2>2. SUBSET S \in SUBSET SUBSET Indices /\ begin \in SUBSET S
    BY <1>1, <1>13, DrainedIsLeast DEF Closed, begin
  <2>3. scan[begin] \in SUBSET S
    <3> HIDE DEF Stop, next
    <3> QED BY <1>11, <2>1, <2>2 DEF Reaches
  <2> QED BY <2>3
<1>14. Closed(scan[begin])
  BY <1>11, <1>12 DEF Closed, Reaches
<1>15. scan[begin] \subseteq Occupied
  <2>1. Closed(Occupied)
    BY SuccessorsGrow DEF Closed
  <2> QED BY <1>1, <1>13, <2>1
<1> QED BY <1>8, <1>12, <1>13, <1>14, <1>15 DEF begin

-----------------------------------------------------------------------------
(* The invariant.  First what TypeOK says, in full.                        *)
Tables == UNION {[K -> Values] : K \in SUBSET Values}
LiveObjects ==
    [kind : Kinds, refs : SUBSET Values, metatable : Values, mode : Modes \cup {{}},
     entries : Tables, armed : BOOLEAN, done : BOOLEAN, order : 0 .. MaxOrder,
     profile : Profiles \cup {"none"}]
Slots == [generation : 0 .. GenerationModulus - 1, object : LiveObjects \cup {NoObject}]
Registrations ==
    [target : Values, callback : Values, order : 0 .. MaxOrder,
     profile : Profiles \cup {"none"}]

Shape ==
    /\ slots \in Seq(Slots) /\ Len(slots) <= MaxSlots
    /\ Lists(live_indices, Occupied) /\ Lists(free, Indices \ Occupied)
    /\ roots \subseteq Values
    /\ next_finalizer_order \in 0 .. MaxOrder
    /\ queue \in Seq(Registrations) /\ calling \in Registrations \cup {NoFinalizer}
    /\ gc_collecting = (calling # NoFinalizer \/ queue # <<>>)

(* The values that an object holds.                                        *)
ValuesOf(o) ==
    {o.metatable} \cup o.refs \cup DOMAIN o.entries \cup {o.entries[key] : key \in DOMAIN o.entries}

(* The finalizers that wait for their call keep their targets.             *)
TargetsResolve == \A n \in 1 .. Len(queue) : Resolves(queue[n].target)

Sound == Shape /\ NothingDangles /\ TargetsResolve

LEMMA TablesFacts ==
    /\ \A e \in Tables : DOMAIN e \subseteq Values /\ \A key \in DOMAIN e : e[key] \in Values
    /\ \A K \in SUBSET Values : \A e \in [K -> Values] : e \in Tables
  BY DEF Tables

LEMMA NoObjectIsNone == NoObject.kind = "none" /\ "none" \notin Kinds
  BY HeapAssumption DEF NoObject, AllKinds

(* The fields of a slot that is in use.                                    *)
LEMMA ObjectTyped ==
    ASSUME NEW some \in Seq(Slots), NEW i \in 1 .. Len(some)
    PROVE  /\ some[i].generation \in 0 .. GenerationModulus - 1
           /\ some[i] \in Slots
           /\ some[i].object.kind # "none" =>
                /\ some[i].object \in LiveObjects
                /\ some[i].object.kind \in Kinds /\ some[i].object.refs \subseteq Values
                /\ some[i].object.metatable \in Values /\ some[i].object.mode \in Modes \cup {{}}
                /\ some[i].object.entries \in Tables
           /\ some[i].object \in LiveObjects => some[i].object.kind # "none"
<1>1. some[i] \in Slots
  BY ElementOfSeq
<1>2. some[i].generation \in 0 .. GenerationModulus - 1 /\ some[i].object \in LiveObjects \cup {NoObject}
  BY <1>1 DEF Slots
<1>3. some[i].object.kind # "none" => some[i].object \in LiveObjects
  BY <1>2, NoObjectIsNone
<1> HIDE DEF Slots
<1> QED BY <1>1, <1>2, <1>3, NoObjectIsNone DEF LiveObjects

(* A value resolves exactly when it is the handle of a slot in use.        *)
LEMMA HandleFacts ==
    ASSUME Shape
    PROVE  /\ Len(slots) \in Nat /\ Indices = 1 .. Len(slots)
           /\ \A v \in Values : Resolves(v) => v.index \in Occupied /\ v = Handle(v.index) /\ IsHandle(v)
           /\ \A i \in Indices : /\ Handle(i).index = i /\ Handle(i) \in Values /\ IsHandle(Handle(i))
                                 /\ i \in Occupied <=> Resolves(Handle(i))
<1>1. Len(slots) \in Nat /\ Indices = 1 .. Len(slots) /\ Len(slots) <= MaxSlots /\ MaxSlots \in Nat
  BY HeapAssumption, LenProperties DEF Shape, Indices
<1>2. \A i \in Indices : slots[i].generation \in 0 .. GenerationModulus - 1
  BY <1>1, ObjectTyped DEF Shape
<1>3. \A v \in Values : Resolves(v) => v.index \in Occupied /\ v = Handle(v.index) /\ IsHandle(v)
  <2> SUFFICES ASSUME NEW v \in Values, Resolves(v)
               PROVE  v.index \in Occupied /\ v = Handle(v.index) /\ IsHandle(v)
    OBVIOUS
  <2>1. /\ v.index \in Indices /\ slots[v.index].generation = v.generation
        /\ slots[v.index].object.kind # "none"
    BY DEF Resolves
  <2>2. v.index > 0
    BY <1>1, <2>1
  <2>3. v \in [index : 1 .. MaxSlots, generation : 0 .. GenerationModulus - 1]
    BY <2>2 DEF Values, Nil, Plain, Native, GcName
  <2> QED BY <2>1, <2>2, <2>3 DEF Handle, Occupied, IsHandle
<1>4. \A i \in Indices : /\ Handle(i).index = i /\ Handle(i) \in Values /\ IsHandle(Handle(i))
                         /\ i \in Occupied <=> Resolves(Handle(i))
  <2> SUFFICES ASSUME NEW i \in Indices
               PROVE  /\ Handle(i).index = i /\ Handle(i) \in Values /\ IsHandle(Handle(i))
                      /\ i \in Occupied <=> Resolves(Handle(i))
    OBVIOUS
  <2>1. i \in 1 .. MaxSlots /\ i > 0
    BY <1>1
  <2>2. Handle(i).index = i /\ Handle(i).generation = slots[i].generation
    BY DEF Handle
  <2>3. Handle(i) \in Values /\ IsHandle(Handle(i))
    BY <1>2, <2>1 DEF Handle, Values, IsHandle
  <2> QED BY <2>2, <2>3 DEF Resolves, Occupied
<1> QED BY <1>1, <1>3, <1>4

-----------------------------------------------------------------------------
(* Marking is exact.  First: closed under marking and closed by the        *)
(* definition of liveness are the same.                                    *)
LEMMA WeakModes ==
    ASSUME Shape, NEW i \in Occupied
    PROVE  LET mode == WeakMode(slots[i].object)
           IN  /\ mode \in SUBSET {"k", "v"}
               /\ "v" \notin mode <=> mode = {} \/ mode = {"k"}
<1>1. \A j \in Occupied : slots[j].object.mode \in Modes \cup {{}}
  BY HandleFacts, ObjectTyped DEF Shape, Occupied
<1>2. WeakMode(slots[i].object) \in SUBSET {"k", "v"}
  BY <1>1, HeapAssumption DEF WeakMode, Object, Resolves, Occupied
<1> QED BY <1>2

(* What an object in the set S adds to it, by marking and by definition.   *)
LEMMA KeepsAliveMeans ==
    ASSUME Sound, NEW S \in SUBSET Occupied, NEW i \in S, NEW j \in Occupied
    PROVE  LET o == slots[i].object
               entries == IF WeakMode(o) # {"k"} THEN {}
                          ELSE {o.entries[key] : key \in {x \in DOMAIN o.entries : IsMarked(x, S)}}
           IN  KeepsAlive(o, Handle(j), S) <=> Handle(j) \in StrongValues(o) \/ Handle(j) \in entries
<1> DEFINE o == slots[i].object
           mode == WeakMode(o)
           v == Handle(j)
<1>1. mode \in SUBSET {"k", "v"} /\ ("v" \notin mode <=> mode = {} \/ mode = {"k"})
  BY WeakModes DEF Sound
<1>2. \A key \in DOMAIN o.entries : IsHandle(key) => Resolves(key)
  BY DEF Sound, NothingDangles
<1>3. \A key \in DOMAIN o.entries : IsMarked(key, S) <=> (IsHandle(key) => key.index \in S)
  BY <1>2 DEF IsMarked
<1> HIDE DEF o, mode, v
<1>4. KeepsAlive(o, v, S) <=>
        \/ v = o.metatable \/ v \in o.refs
        \/ v \in DOMAIN o.entries /\ "k" \notin mode
        \/ \E key \in DOMAIN o.entries :
             o.entries[key] = v /\ "v" \notin mode /\ ("k" \in mode => IsMarked(key, S))
  BY <1>3 DEF KeepsAlive, mode
<1>5. v \in StrongValues(o) <=>
        \/ v = o.metatable \/ v \in o.refs
        \/ v \in DOMAIN o.entries /\ "k" \notin mode
        \/ \E key \in DOMAIN o.entries : o.entries[key] = v /\ mode = {}
  BY DEF StrongValues, mode
<1>6. (v \in IF mode # {"k"} THEN {}
             ELSE {o.entries[key] : key \in {x \in DOMAIN o.entries : IsMarked(x, S)}}) <=>
        \E key \in DOMAIN o.entries : o.entries[key] = v /\ mode = {"k"} /\ IsMarked(key, S)
  OBVIOUS
<1>7. "k" \in mode /\ "v" \notin mode <=> mode = {"k"}
  BY <1>1
<1> QED BY <1>1, <1>4, <1>5, <1>6, <1>7 DEF o, mode, v

LEMMA ClosedMeans ==
    ASSUME Sound, NEW S \in SUBSET Occupied
    PROVE  Closed(S) <=> IsClosed(S)
<1> DEFINE Entries(i) ==
             LET o == slots[i].object
             IN  IF WeakMode(o) # {"k"} THEN {}
                 ELSE {o.entries[key] : key \in {x \in DOMAIN o.entries : IsMarked(x, S)}}
           Marks(i) == StrongValues(slots[i].object) \cup Entries(i)
<1>1. \A i \in S, j \in Occupied : KeepsAlive(slots[i].object, Handle(j), S) <=> Handle(j) \in Marks(i)
  BY KeepsAliveMeans
<1>2. \A i \in S : Marks(i) \subseteq Values
  <2> SUFFICES ASSUME NEW i \in S PROVE Marks(i) \subseteq Values
    OBVIOUS
  <2>1. /\ slots[i].object.refs \subseteq Values /\ slots[i].object.metatable \in Values
        /\ slots[i].object.entries \in Tables
    BY HandleFacts, ObjectTyped DEF Sound, Shape, Occupied
  <2> QED BY <2>1, TablesFacts DEF StrongValues
<1>3. Closed(S) <=> IndicesOf(UNION {Marks(i) : i \in S}) \subseteq S
  <2>1. /\ Successors(S) = IndicesOf(UNION {StrongValues(slots[i].object) : i \in S})
        /\ EphemeronValues(S) = IndicesOf(UNION {Entries(i) : i \in S})
    BY DEF Successors, EphemeronValues
  <2> HIDE DEF Entries
  <2>2. IndicesOf(UNION {Marks(i) : i \in S}) =
          IndicesOf(UNION {StrongValues(slots[i].object) : i \in S})
            \cup IndicesOf(UNION {Entries(i) : i \in S})
    BY DEF IndicesOf
  <2> QED BY <2>1, <2>2 DEF Closed
<1> HIDE DEF Marks
<1>4. \A j : j \in IndicesOf(UNION {Marks(i) : i \in S}) <=>
               j \in Occupied /\ \E i \in S : Handle(j) \in Marks(i)
  <2> SUFFICES ASSUME NEW j
               PROVE  j \in IndicesOf(UNION {Marks(i) : i \in S}) <=>
                        j \in Occupied /\ \E i \in S : Handle(j) \in Marks(i)
    OBVIOUS
  <2>1. ASSUME j \in IndicesOf(UNION {Marks(i) : i \in S})
        PROVE  j \in Occupied /\ \E i \in S : Handle(j) \in Marks(i)
    <3>1. PICK i \in S : \E v \in Marks(i) : Resolves(v) /\ v.index = j
      BY <2>1 DEF IndicesOf
    <3> PICK v \in Marks(i) : Resolves(v) /\ v.index = j
      BY <3>1
    <3>2. v \in Values
      BY <1>2
    <3>3. j \in Occupied /\ v = Handle(j)
      BY <3>2, HandleFacts DEF Sound
    <3> QED BY <3>3
  <2>2. ASSUME j \in Occupied, NEW i \in S, Handle(j) \in Marks(i)
        PROVE  j \in IndicesOf(UNION {Marks(k) : k \in S})
    <3>1. Resolves(Handle(j)) /\ Handle(j).index = j
      BY <2>2, HandleFacts DEF Sound, Occupied
    <3> QED BY <2>2, <3>1 DEF IndicesOf
  <2> QED BY <2>1, <2>2
<1> QED BY <1>1, <1>3, <1>4 DEF IsClosed

(* A collection keeps the least closed set with what the roots refer to    *)
(* and the targets of the finalizers.                                      *)
LEMMA KeptIsLeast ==
    ASSUME Len(slots) \in Nat, NEW finalizers
    PROVE  LET reached == Marked(IndicesOf(roots))
               kept == Kept(reached, finalizers)
               targets == IndicesOf(Targets(finalizers))
           IN  /\ reached \in SUBSET Occupied /\ targets \in SUBSET Occupied
               /\ reached \subseteq kept /\ IndicesOf(roots) \subseteq kept /\ targets \subseteq kept
               /\ kept \in SUBSET Occupied /\ Closed(kept)
               /\ \A S \in SUBSET Occupied :
                    IndicesOf(roots) \subseteq S /\ targets \subseteq S /\ Closed(S) => kept \subseteq S
<1> DEFINE start == IndicesOf(roots)
           reached == Marked(start)
           targets == IndicesOf(Targets(finalizers))
           both == reached \cup targets
<1>1. start \in SUBSET Occupied /\ targets \in SUBSET Occupied /\ Occupied \in SUBSET Indices
  BY IndicesFinite DEF IndicesOf, Resolves, Occupied
<1> HIDE DEF start, targets
<1>2. /\ reached \in SUBSET Occupied /\ start \subseteq reached
      /\ \A S \in SUBSET Indices : start \subseteq S /\ Closed(S) => reached \subseteq S
  BY <1>1, MarkedIsLeast
<1> HIDE DEF reached
<1>3. both \in SUBSET Occupied
  BY <1>1, <1>2
<1> HIDE DEF both
<1>4. /\ Marked(both) \in SUBSET Occupied /\ both \subseteq Marked(both) /\ Closed(Marked(both))
      /\ \A S \in SUBSET Indices : both \subseteq S /\ Closed(S) => Marked(both) \subseteq S
  BY <1>3, MarkedIsLeast
<1>5. Kept(reached, finalizers) = Marked(both)
  BY DEF Kept, both, targets
<1>6. ASSUME NEW S \in SUBSET Occupied, start \subseteq S, targets \subseteq S, Closed(S)
      PROVE  Marked(both) \subseteq S
  <2>1. both \subseteq S /\ S \in SUBSET Indices
    BY <1>1, <1>2, <1>6 DEF both
  <2> QED BY <1>4, <1>6, <2>1
<1>7. reached \subseteq both /\ targets \subseteq both
  BY DEF both
<1> QED BY <1>1, <1>2, <1>4, <1>5, <1>6, <1>7 DEF reached, start, targets

LEMMA MarkingIsExact == Sound => CollectionIsExact
<1> SUFFICES ASSUME Sound PROVE CollectionIsExact
  OBVIOUS
<1> DEFINE reached == Marked(IndicesOf(roots))
           finalizers == Finalizers(reached)
           kept == Kept(reached, finalizers)
           targets == IndicesOf(Targets(finalizers))
           begin == IndicesOf(roots \cup Targets(finalizers))
<1>1. begin = IndicesOf(roots) \cup targets
  BY DEF IndicesOf
<1>2. /\ IndicesOf(roots) \subseteq kept /\ targets \subseteq kept
      /\ kept \in SUBSET Occupied /\ Closed(kept)
      /\ \A S \in SUBSET Occupied :
           IndicesOf(roots) \subseteq S /\ targets \subseteq S /\ Closed(S) => kept \subseteq S
  BY HandleFacts, KeptIsLeast DEF Sound
<1> HIDE DEF kept, targets, finalizers, begin
<1>3. IsClosed(kept) /\ begin \subseteq kept
  BY <1>1, <1>2, ClosedMeans
<1>4. \A S \in SUBSET Occupied : begin \subseteq S /\ IsClosed(S) => kept \subseteq S
  BY <1>1, <1>2, ClosedMeans
<1>5. kept = MustStay(begin)
  BY <1>2, <1>3, <1>4 DEF MustStay
<1> QED BY <1>5 DEF CollectionIsExact, kept, begin, finalizers

-----------------------------------------------------------------------------
(* No step but a collection takes an object from its slot.                 *)
SlotsStay(some, later) ==
    /\ Len(some) <= Len(later)
    /\ \A i \in 1 .. Len(some) :
         /\ later[i].generation = some[i].generation
         /\ some[i].object.kind # "none" => later[i].object.kind # "none"

ResolvesIn(h, some) ==
    /\ h.index \in 1 .. Len(some)
    /\ some[h.index].generation = h.generation
    /\ some[h.index].object.kind # "none"

LEMMA StillResolves ==
    ASSUME NEW some, NEW later, Len(some) \in Nat, Len(later) \in Nat, SlotsStay(some, later)
    PROVE  \A h : ResolvesIn(h, some) => ResolvesIn(h, later)
  BY DEF SlotsStay, ResolvesIn

(* NothingDangles and TargetsResolve, of given slots, roots and batch.     *)
NoneDangling(some, known, waiting) ==
    /\ \A h \in known : ResolvesIn(h, some)
    /\ \A i \in 1 .. Len(some) : some[i].object.kind # "none" =>
         \A v \in ValuesOf(some[i].object) : IsHandle(v) => ResolvesIn(v, some)
    /\ \A n \in 1 .. Len(waiting) : ResolvesIn(waiting[n].target, some)

LEMMA DanglingMeans ==
    NothingDangles /\ TargetsResolve <=> NoneDangling(slots, roots, queue)
  BY DEF NothingDangles, TargetsResolve, NoneDangling, ResolvesIn, Resolves, ValuesOf, Occupied, Indices

LEMMA DanglingMeansLater ==
    (NothingDangles /\ TargetsResolve)' <=> NoneDangling(slots', roots', queue')
  BY DEF NothingDangles, TargetsResolve, NoneDangling, ResolvesIn, Resolves, ValuesOf, Occupied, Indices

(* The writes: an object that the program holds gets other references.     *)
LEMMA WriteSound ==
    ASSUME Sound, NEW i \in Occupied, NEW o \in LiveObjects,
           slots' = [slots EXCEPT ![i].object = o],
           \A v \in ValuesOf(o) : IsHandle(v) => Resolves(v),
           next_finalizer_order' \in 0 .. MaxOrder,
           UNCHANGED <<free, live_indices, roots, gc_collecting, queue, calling>>
    PROVE  Sound' /\ Occupied' = Occupied /\ Indices' = Indices
<1>1. /\ slots \in Seq(Slots) /\ Len(slots) \in Nat /\ Len(slots) <= MaxSlots
      /\ i \in 1 .. Len(slots) /\ slots[i].object.kind # "none"
      /\ NoneDangling(slots, roots, queue)
  BY HandleFacts, DanglingMeans DEF Sound, Shape, Occupied, Indices
<1>2. slots[i] \in Slots /\ o.kind # "none"
  <2>1. o.kind # "none"
    BY NoObjectIsNone DEF LiveObjects
  <2> QED BY <1>1, <2>1, ElementOfSeq
<1>3. [slots[i] EXCEPT !.object = o] \in Slots
  <2>1. LiveObjects \subseteq LiveObjects \cup {NoObject}
    OBVIOUS
  <2> HIDE DEF LiveObjects
  <2> QED BY <1>2, <2>1 DEF Slots
<1>4. /\ slots' \in Seq(Slots) /\ Len(slots') = Len(slots)
      /\ \A j \in 1 .. Len(slots) : j # i => slots'[j] = slots[j]
      /\ slots'[i].generation = slots[i].generation /\ slots'[i].object = o
  <2>1. slots' = [slots EXCEPT ![i] = [slots[i] EXCEPT !.object = o]]
    OBVIOUS
  <2> HIDE DEF Slots
  <2>2. slots' \in Seq(Slots) /\ Len(slots') = Len(slots)
    BY <1>1, <1>3, <2>1, ExceptSeq
  <2>3. slots'[i] = [slots[i] EXCEPT !.object = o] /\ \A j \in 1 .. Len(slots) : j # i => slots'[j] = slots[j]
    BY <1>1, <2>1, LenProperties
  <2> QED BY <1>2, <2>2, <2>3 DEF Slots
<1>5. Indices' = Indices /\ Occupied' = Occupied
  BY <1>1, <1>2, <1>4 DEF Indices, Occupied
<1>6. SlotsStay(slots, slots')
  BY <1>1, <1>2, <1>4 DEF SlotsStay
<1>7. \A h : ResolvesIn(h, slots) => ResolvesIn(h, slots')
  BY <1>1, <1>4, <1>6, StillResolves
<1>8. \A v \in ValuesOf(o) : IsHandle(v) => ResolvesIn(v, slots)
  BY DEF Resolves, ResolvesIn, Indices
<1>9. NoneDangling(slots', roots', queue')
  <2>1. \A j \in 1 .. Len(slots') : slots'[j].object.kind # "none" =>
          \A v \in ValuesOf(slots'[j].object) : IsHandle(v) => ResolvesIn(v, slots')
    <3> SUFFICES ASSUME NEW j \in 1 .. Len(slots'), slots'[j].object.kind # "none",
                        NEW v \in ValuesOf(slots'[j].object), IsHandle(v)
                 PROVE  ResolvesIn(v, slots)
      BY <1>7
    <3>1. CASE j = i
      BY <1>4, <1>8, <3>1
    <3>2. CASE j # i
      BY <1>1, <1>4, <3>2 DEF NoneDangling
    <3> QED BY <3>1, <3>2
  <2> QED BY <1>1, <1>7, <2>1 DEF NoneDangling
<1>10. Shape'
  BY <1>1, <1>4, <1>5 DEF Sound, Shape
<1> QED BY <1>5, <1>9, <1>10, DanglingMeansLater DEF Sound

(* Steps that touch no object: roots, and the turn of the finalizers.      *)
LEMMA RootsSound ==
    ASSUME Sound, UNCHANGED <<slots, free, live_indices, next_finalizer_order>>,
           roots' \subseteq Values, \A h \in roots' : Resolves(h),
           queue' \in Seq(Registrations), calling' \in Registrations \cup {NoFinalizer},
           gc_collecting' = (calling' # NoFinalizer \/ queue' # <<>>),
           \A n \in 1 .. Len(queue') : Resolves(queue'[n].target)
    PROVE  Sound'
<1>1. NoneDangling(slots, roots, queue)
  BY DanglingMeans DEF Sound
<1>2. \A h : Resolves(h) <=> ResolvesIn(h, slots)
  BY DEF Resolves, ResolvesIn, Indices
<1>3. NoneDangling(slots', roots', queue')
  BY <1>1, <1>2 DEF NoneDangling
<1>4. Indices' = Indices /\ Occupied' = Occupied
  BY DEF Indices, Occupied
<1>5. Shape'
  BY <1>4 DEF Sound, Shape
<1> QED BY <1>3, <1>5, DanglingMeansLater DEF Sound

(* What the program may do with a handle it holds.                         *)
LEMMA HeldFacts ==
    ASSUME Sound
    PROVE  /\ \A h \in roots : /\ Resolves(h) /\ h \in Values /\ h.index \in Occupied
                               /\ Object(h) = slots[h.index].object /\ Object(h) \in LiveObjects
                               /\ \A v \in ValuesOf(Object(h)) : IsHandle(v) => Resolves(v)
           /\ \A v \in Held : v \in Values /\ (IsHandle(v) => Resolves(v))
           /\ Nil \in Values /\ ~IsHandle(Nil) /\ Plain \in Values /\ ~IsHandle(Plain)
           /\ Native \in Values /\ ~IsHandle(Native) /\ GcName \in Values /\ ~IsHandle(GcName)
<1>1. \A h \in roots : Resolves(h) /\ h \in Values
  BY DEF Sound, NothingDangles, Shape
<1>2. \A h \in roots : h.index \in Occupied
  BY <1>1 DEF Resolves, Occupied
<1>3. \A h \in roots : Object(h) = slots[h.index].object /\ Object(h) \in LiveObjects
  BY <1>2, HandleFacts, ObjectTyped DEF Sound, Shape, Object, Occupied
<1>4. \A h \in roots : \A v \in ValuesOf(Object(h)) : IsHandle(v) => Resolves(v)
  BY <1>2 DEF Sound, NothingDangles, Object, ValuesOf
<1>5. /\ Nil \in Values /\ ~IsHandle(Nil) /\ Plain \in Values /\ ~IsHandle(Plain)
      /\ Native \in Values /\ ~IsHandle(Native) /\ GcName \in Values /\ ~IsHandle(GcName)
  BY DEF Values, IsHandle, Nil, Plain, Native, GcName
<1>6. \A v \in Held : v \in Values /\ (IsHandle(v) => Resolves(v))
  BY <1>1, <1>5 DEF Held
<1> QED BY <1>1, <1>2, <1>3, <1>4, <1>5, <1>6

LEMMA SetReferenceSound ==
    ASSUME Sound, NEW h \in roots, NEW value \in Held, SetReference(h, value)
    PROVE  Sound' /\ Occupied' = Occupied /\ Indices' = Indices
<1> DEFINE o == Object(h)
           p == [o EXCEPT !.refs = {value} \ {Nil}]
<1>1. /\ h.index \in Occupied /\ o \in LiveObjects /\ o = slots[h.index].object
      /\ \A v \in ValuesOf(o) \cup {value} : IsHandle(v) => Resolves(v)
      /\ value \in Values
  BY HeldFacts
<1>2. slots' = [slots EXCEPT ![h.index].object = p]
  BY <1>1 DEF SetReference
<1> HIDE DEF o
<1>3. p \in LiveObjects /\ ValuesOf(p) \subseteq ValuesOf(o) \cup {value}
  BY <1>1 DEF LiveObjects, ValuesOf
<1> HIDE DEF p
<1> QED BY <1>1, <1>2, <1>3, WriteSound DEF SetReference, batchVars, Sound, Shape

LEMMA TableSetSound ==
    ASSUME Sound, NEW h \in roots, NEW key \in Values, NEW value \in Values, TableSet(h, key, value),
           IsHandle(key) => Resolves(key), IsHandle(value) => Resolves(value)
    PROVE  Sound' /\ Occupied' = Occupied /\ Indices' = Indices
<1> DEFINE o == Object(h)
           e == o.entries
           f == IF value = Nil THEN [k \in DOMAIN e \ {key} |-> e[k]]
                ELSE [k \in DOMAIN e \cup {key} |-> IF k = key THEN value ELSE e[k]]
           p == [o EXCEPT !.entries = f]
<1>1. /\ h.index \in Occupied /\ o \in LiveObjects /\ o = slots[h.index].object
      /\ \A v \in ValuesOf(o) \cup {key, value} : IsHandle(v) => Resolves(v)
  BY HeldFacts
<1>2. slots' = [slots EXCEPT ![h.index].object = p]
  BY <1>1 DEF TableSet
<1>3. e \in Tables /\ DOMAIN e \subseteq Values /\ \A k \in DOMAIN e : e[k] \in Values
  BY <1>1, TablesFacts DEF LiveObjects
<1>4. f \in Tables
  <2>1. f \in [DOMAIN f -> Values] /\ DOMAIN f \in SUBSET Values
    BY <1>3
  <2> HIDE DEF f
  <2> QED BY <2>1, TablesFacts
<1>5. /\ DOMAIN f \subseteq DOMAIN e \cup {key}
      /\ \A k \in DOMAIN f : f[k] = value \/ (k \in DOMAIN e /\ f[k] = e[k])
  OBVIOUS
<1> HIDE DEF o, f
<1>6. p \in LiveObjects /\ p.metatable = o.metatable /\ p.refs = o.refs /\ p.entries = f
  BY <1>1, <1>4 DEF LiveObjects
<1> HIDE DEF p
<1>7. ValuesOf(p) \subseteq ValuesOf(o) \cup {key, value}
  BY <1>5, <1>6 DEF ValuesOf
<1> QED BY <1>1, <1>2, <1>6, <1>7, WriteSound DEF TableSet, batchVars, Sound, Shape

LEMMA SetModeSound ==
    ASSUME Sound, NEW h \in roots, NEW mode \in Modes, SetMode(h, mode)
    PROVE  Sound' /\ Occupied' = Occupied /\ Indices' = Indices
<1> DEFINE o == Object(h)
           p == [o EXCEPT !.mode = mode]
<1>1. /\ h.index \in Occupied /\ o \in LiveObjects /\ o = slots[h.index].object
      /\ \A v \in ValuesOf(o) : IsHandle(v) => Resolves(v)
  BY HeldFacts
<1>2. slots' = [slots EXCEPT ![h.index].object = p]
  BY <1>1 DEF SetMode
<1> HIDE DEF o
<1>3. p \in LiveObjects /\ ValuesOf(p) = ValuesOf(o)
  BY <1>1 DEF LiveObjects, ValuesOf
<1> HIDE DEF p
<1> QED BY <1>1, <1>2, <1>3, WriteSound DEF SetMode, batchVars, Sound, Shape

LEMMA SetMetatableSound ==
    ASSUME Sound, NEW h \in roots, NEW metatable \in Held, NEW profile \in Profiles,
           SetMetatable(h, metatable, profile)
    PROVE  Sound' /\ Occupied' = Occupied /\ Indices' = Indices
<1> DEFINE o == Object(h)
           p == WithMetatable(o, metatable, profile)
<1>1. /\ h.index \in Occupied /\ o \in LiveObjects /\ o = slots[h.index].object
      /\ \A v \in ValuesOf(o) \cup {metatable} : IsHandle(v) => Resolves(v)
      /\ metatable \in Values
  BY HeldFacts
<1>2. /\ slots' = [slots EXCEPT ![h.index].object = p]
      /\ next_finalizer_order \in 0 .. MaxOrder /\ next_finalizer_order < MaxOrder
      /\ next_finalizer_order' = next_finalizer_order + (IF p.armed THEN 1 ELSE 0)
  BY <1>1 DEF SetMetatable, Sound, Shape
<1>3. next_finalizer_order' \in 0 .. MaxOrder
  BY <1>2, HeapAssumption
<1> HIDE DEF o
<1>4. p \in LiveObjects /\ ValuesOf(p) \subseteq ValuesOf(o) \cup {metatable}
  <2> DEFINE armed == Armed(o, metatable, profile, o.done /\ profile = "Lua52")
  <2>1. armed \in BOOLEAN /\ 0 \in 0 .. MaxOrder
    BY HeapAssumption DEF Armed
  <2>2. p = [o EXCEPT !.metatable = metatable, !.armed = armed,
                      !.done = (o.done /\ profile = "Lua52"),
                      !.order = IF armed THEN next_finalizer_order ELSE 0,
                      !.profile = IF armed THEN profile ELSE "none"]
    BY DEF WithMetatable
  <2> HIDE DEF armed, p
  <2>3. p \in LiveObjects /\ p.metatable = metatable /\ p.refs = o.refs /\ p.entries = o.entries
    BY <1>1, <1>2, <2>1, <2>2 DEF LiveObjects
  <2> QED BY <2>3 DEF ValuesOf
<1> HIDE DEF p
<1> QED BY <1>1, <1>2, <1>3, <1>4, WriteSound DEF SetMetatable, batchVars

LEMMA WriteKeepsSound ==
    ASSUME Sound, Write
    PROVE  Sound' /\ Occupied' = Occupied /\ Indices' = Indices
<1> DEFINE values == IF Wires < MaxWires THEN Held ELSE {Nil}
<1>1. values \subseteq Held
  BY DEF Held
<1>2. ASSUME NEW h \in roots, NEW value \in values, SetReference(h, value)
      PROVE  Sound' /\ Occupied' = Occupied /\ Indices' = Indices
  BY <1>1, <1>2, SetReferenceSound
<1>3. ASSUME NEW h \in roots, NEW key \in Keys, NEW value \in Storable(key, values), TableSet(h, key, value)
      PROVE  Sound' /\ Occupied' = Occupied /\ Indices' = Indices
  <2>1. key \in Values /\ (IsHandle(key) => Resolves(key))
    BY HeldFacts DEF Keys
  <2>2. value \in Values /\ (IsHandle(value) => Resolves(value))
    <3>1. value \in values \/ value \in {Nil, Plain, Native} \/ value \in roots
      BY DEF Storable
    <3> HIDE DEF values
    <3> QED BY <1>1, <3>1, HeldFacts
  <2> QED BY <1>3, <2>1, <2>2, TableSetSound
<1>4. ASSUME NEW h \in roots, NEW mode \in Modes, SetMode(h, mode)
      PROVE  Sound' /\ Occupied' = Occupied /\ Indices' = Indices
  BY <1>4, SetModeSound
<1>5. ASSUME NEW h \in roots, NEW metatable \in values, NEW profile \in Profiles,
             SetMetatable(h, metatable, profile)
      PROVE  Sound' /\ Occupied' = Occupied /\ Indices' = Indices
  BY <1>1, <1>5, SetMetatableSound
<1>6. \/ \E h \in roots, value \in values : SetReference(h, value)
      \/ \E h \in roots, key \in Keys : \E value \in Storable(key, values) : TableSet(h, key, value)
      \/ \E h \in roots, mode \in Modes : SetMode(h, mode)
      \/ \E h \in roots, metatable \in values, profile \in Profiles : SetMetatable(h, metatable, profile)
  BY DEF Write
<1> HIDE DEF values
<1> QED BY <1>2, <1>3, <1>4, <1>5, <1>6

(* allocate: the object goes to a free slot, which may be a new one.       *)
LEMMA NewObjectFacts ==
    ASSUME NEW kind \in Kinds
    PROVE  /\ NewObject(kind, {}) \in LiveObjects /\ NewObject(kind, {}).kind = kind /\ kind # "none"
           /\ ~NewObject(kind, {}).armed /\ ~NewObject(kind, {}).done
           /\ \A v \in ValuesOf(NewObject(kind, {})) : ~IsHandle(v)
<1>1. <<>> \in [{} -> Values] /\ DOMAIN <<>> = {}
  <2>1. <<>> \in Seq(Values) /\ Len(<<>>) = 0
    BY EmptySeq
  <2>2. <<>> \in [1 .. 0 -> Values]
    BY <2>1, LenProperties
  <2> QED BY <2>2
<1>2. <<>> \in Tables /\ Nil \in Values /\ ~IsHandle(Nil) /\ 0 \in 0 .. MaxOrder
  <2>1. {} \in SUBSET Values
    OBVIOUS
  <2>2. <<>> \in Tables
    BY <1>1, <2>1, TablesFacts
  <2>3. 0 \in 0 .. MaxOrder
    BY HeapAssumption
  <2> QED BY <2>2, <2>3 DEF Nil, Values, IsHandle
<1> DEFINE o == NewObject(kind, {})
<1>3. o \in LiveObjects
  BY <1>2 DEF NewObject, LiveObjects
<1>4. /\ o.kind = kind /\ ~o.armed /\ ~o.done /\ o.metatable = Nil /\ o.refs = {}
      /\ DOMAIN o.entries = {}
  BY <1>1 DEF NewObject
<1>5. kind # "none"
  BY NoObjectIsNone
<1> HIDE DEF o
<1> QED BY <1>2, <1>3, <1>4, <1>5 DEF ValuesOf, o

LEMMA AllocateFacts ==
    ASSUME Sound, NEW kind \in Kinds, Allocate(kind, {})
    PROVE  \E i \in 1 .. Len(slots) + 1 :
             /\ i \notin Occupied /\ Occupied' = Occupied \cup {i}
             /\ slots' \in Seq(Slots) /\ Len(slots') <= MaxSlots
             /\ \A j \in Occupied : slots'[j] = slots[j]
             /\ \A j \in Indices : slots'[j].generation = slots[j].generation
             /\ slots'[i].object = NewObject(kind, {})
             /\ live_indices' = Append(live_indices, i)
             /\ roots' = roots \cup {[index |-> i, generation |-> slots'[i].generation]}
             /\ \/ free = <<>> /\ i = Len(slots) + 1 /\ Len(slots') = Len(slots) + 1
                   /\ Indices = Occupied /\ free' = free /\ slots'[i].generation = 0
                \/ free # <<>> /\ Len(slots') = Len(slots) /\ i = Last(free) /\ i \in Indices
                   /\ free' = Front(free)
<1> DEFINE o == NewObject(kind, {})
<1>1. /\ slots \in Seq(Slots) /\ Len(slots) \in Nat /\ Len(slots) <= MaxSlots /\ MaxSlots \in Nat
      /\ Indices = 1 .. Len(slots) /\ Lists(free, Indices \ Occupied)
      /\ Occupied \subseteq Indices
  BY HandleFacts, HeapAssumption DEF Sound, Shape, Occupied
<1>2. o \in LiveObjects \cup {NoObject} /\ o.kind # "none" /\ 0 \in 0 .. GenerationModulus - 1
  BY NewObjectFacts, HeapAssumption
<1>3. \A j \in Occupied : j \in 1 .. Len(slots) /\ slots[j].object.kind # "none"
  BY <1>1 DEF Occupied
<1> HIDE DEF o
<1>4. CASE free = <<>>
  <2> DEFINE i == Len(slots) + 1
             new == [generation |-> 0, object |-> o]
  <2>1. Indices \ Occupied = {}
    <3>1. Len(free) = 0
      BY <1>4
    <3> QED BY <1>1, <3>1 DEF Lists
  <2>2. /\ i <= MaxSlots /\ slots' = Append(slots, new) /\ free' = free
        /\ live_indices' = Append(live_indices, i)
        /\ roots' = roots \cup {[index |-> i, generation |-> 0]}
    BY <1>4 DEF Allocate, o
  <2>3. new \in Slots /\ new.object = o /\ new.generation = 0
    BY <1>2 DEF Slots
  <2> HIDE DEF new
  <2>4. /\ slots' \in Seq(Slots) /\ Len(slots') = Len(slots) + 1
        /\ \A j \in 1 .. Len(slots) : slots'[j] = slots[j]
        /\ slots'[i] = new
    BY <1>1, <2>2, <2>3, AppendProperties
  <2>5. Indices' = 1 .. Len(slots) + 1
    BY <2>4 DEF Indices
  <2>6. Occupied' = Occupied \cup {i} /\ i \notin Occupied
    BY <1>1, <1>2, <2>3, <2>4, <2>5 DEF Occupied
  <2>7. \A j \in Occupied : slots'[j] = slots[j]
    BY <1>3, <2>4
  <2>8. \A j \in Indices : slots'[j].generation = slots[j].generation
    BY <1>1, <2>4
  <2>9. /\ roots' = roots \cup {[index |-> i, generation |-> slots'[i].generation]}
        /\ slots'[i].generation = 0 /\ slots'[i].object = o
    BY <2>2, <2>3, <2>4
  <2>10. i \in 1 .. Len(slots) + 1 /\ Len(slots') <= MaxSlots /\ Indices = Occupied
    <3>1. i \in 1 .. Len(slots) + 1 /\ Len(slots') <= MaxSlots
      BY <1>1, <2>2, <2>4
    <3> QED BY <1>1, <2>1, <3>1
  <2> HIDE DEF i
  <2>11. i = Len(slots) + 1
    BY DEF i
  <2> QED BY <1>4, <2>2, <2>4, <2>6, <2>7, <2>8, <2>9, <2>10, <2>11 DEF o
<1>5. CASE free # <<>>
  <2> DEFINE i == Last(free)
  <2>1. i \in Indices \ Occupied
    BY <1>1, <1>5, ListsFront
  <2>2. /\ Handle(i).index = i /\ Handle(i).generation = slots[i].generation
        /\ Handle(i) = [index |-> i, generation |-> slots[i].generation]
    BY DEF Handle
  <2>3. /\ slots' = [slots EXCEPT ![i].object = o]
        /\ live_indices' = Append(live_indices, i) /\ roots' = roots \cup {Handle(i)}
        /\ free' = Front(free)
    BY <1>5, <2>2 DEF Allocate, o
  <2> HIDE DEF i
  <2>4. slots[i] \in Slots
    BY <1>1, <2>1, ElementOfSeq
  <2>5. [slots[i] EXCEPT !.object = o] \in Slots
    BY <1>2, <2>4 DEF Slots
  <2>6. /\ slots' \in Seq(Slots) /\ Len(slots') = Len(slots)
        /\ \A j \in 1 .. Len(slots) : j # i => slots'[j] = slots[j]
        /\ slots'[i].generation = slots[i].generation /\ slots'[i].object = o
    <3>1. slots' = [slots EXCEPT ![i] = [slots[i] EXCEPT !.object = o]]
      BY <2>3
    <3>2. slots' \in Seq(Slots) /\ Len(slots') = Len(slots)
      BY <1>1, <2>1, <2>5, <3>1, ExceptSeq
    <3>3. /\ slots'[i] = [slots[i] EXCEPT !.object = o]
          /\ \A j \in 1 .. Len(slots) : j # i => slots'[j] = slots[j]
      BY <1>1, <2>1, <3>1, LenProperties
    <3> QED BY <2>4, <3>2, <3>3 DEF Slots
  <2>7. Indices' = Indices
    BY <2>6 DEF Indices
  <2>8. Occupied' = Occupied \cup {i} /\ i \notin Occupied
    BY <1>1, <1>2, <2>1, <2>6, <2>7 DEF Occupied
  <2>9. \A j \in Occupied : slots'[j] = slots[j]
    BY <1>3, <2>1, <2>6
  <2>10. \A j \in Indices : slots'[j].generation = slots[j].generation
    BY <1>1, <2>6
  <2>11. i \in 1 .. Len(slots) + 1 /\ i \in Indices
    BY <1>1, <2>1
  <2>12. roots' = roots \cup {[index |-> i, generation |-> slots'[i].generation]}
    BY <2>2, <2>3, <2>6
  <2>13. i = Last(free)
    BY DEF i
  <2> QED BY <1>1, <1>5, <2>3, <2>6, <2>8, <2>9, <2>10, <2>11, <2>12, <2>13 DEF o
<1> QED BY <1>4, <1>5

LEMMA AllocateSound ==
    ASSUME Sound, NEW kind \in Kinds, Allocate(kind, {})
    PROVE  Sound'
<1> PICK i \in 1 .. Len(slots) + 1 :
             /\ i \notin Occupied /\ Occupied' = Occupied \cup {i}
             /\ slots' \in Seq(Slots) /\ Len(slots') <= MaxSlots
             /\ \A j \in Occupied : slots'[j] = slots[j]
             /\ \A j \in Indices : slots'[j].generation = slots[j].generation
             /\ slots'[i].object = NewObject(kind, {})
             /\ live_indices' = Append(live_indices, i)
             /\ roots' = roots \cup {[index |-> i, generation |-> slots'[i].generation]}
             /\ \/ free = <<>> /\ i = Len(slots) + 1 /\ Len(slots') = Len(slots) + 1
                   /\ Indices = Occupied /\ free' = free /\ slots'[i].generation = 0
                \/ free # <<>> /\ Len(slots') = Len(slots) /\ i = Last(free) /\ i \in Indices
                   /\ free' = Front(free)
  BY AllocateFacts
<1> DEFINE h == [index |-> i, generation |-> slots'[i].generation]
<1>1. /\ Len(slots) \in Nat /\ Indices = 1 .. Len(slots) /\ Len(slots') \in Nat
      /\ Indices' = 1 .. Len(slots') /\ i \in 1 .. Len(slots') /\ Occupied \subseteq Indices
      /\ MaxSlots \in Nat
  BY HandleFacts, LenProperties, HeapAssumption DEF Sound, Indices, Occupied
<1>2. NoneDangling(slots, roots, queue) /\ UNCHANGED <<next_finalizer_order, gc_collecting, queue, calling>>
  BY DanglingMeans DEF Sound, Allocate, batchVars
<1>3. Lists(live_indices', Occupied')
  BY ListsAppend DEF Sound, Shape
<1>4. Lists(free', Indices' \ Occupied')
  <2>1. CASE free = <<>> /\ i = Len(slots) + 1 /\ Len(slots') = Len(slots) + 1
             /\ Indices = Occupied /\ free' = free
    <3>1. Indices' \ Occupied' = Indices \ Occupied
      BY <1>1, <2>1
    <3> QED BY <2>1, <3>1 DEF Sound, Shape
  <2>2. CASE free # <<>> /\ Len(slots') = Len(slots) /\ i = Last(free) /\ free' = Front(free)
    <3>1. Indices' \ Occupied' = (Indices \ Occupied) \ {Last(free)}
      BY <1>1, <2>2
    <3> QED BY <2>2, <3>1, ListsFront DEF Sound, Shape
  <2> QED BY <2>1, <2>2
<1>5. /\ slots'[i].object.kind # "none"
      /\ \A v \in ValuesOf(slots'[i].object) : ~IsHandle(v)
  BY NewObjectFacts
<1>6. SlotsStay(slots, slots')
  <2>1. \A j \in 1 .. Len(slots) : slots[j].object.kind # "none" => j \in Occupied
    BY <1>1 DEF Occupied
  <2> QED BY <1>1, <2>1 DEF SlotsStay
<1>7. \A v : ResolvesIn(v, slots) => ResolvesIn(v, slots')
  BY <1>1, <1>6, StillResolves
<1>8. h \in Values /\ ResolvesIn(h, slots')
  <2>1. slots'[i].generation \in 0 .. GenerationModulus - 1
    BY <1>1, ObjectTyped
  <2>2. i \in 1 .. MaxSlots
    BY <1>1
  <2> QED BY <1>1, <1>5, <2>1, <2>2 DEF Values, ResolvesIn
<1>9. NoneDangling(slots', roots', queue')
  <2>1. \A j \in 1 .. Len(slots') : slots'[j].object.kind # "none" => j \in Occupied \/ j = i
    BY <1>1 DEF Occupied
  <2>2. \A j \in Occupied : \A v \in ValuesOf(slots'[j].object) : IsHandle(v) => ResolvesIn(v, slots')
    BY <1>1, <1>2, <1>7 DEF NoneDangling, Occupied
  <2>3. \A j \in 1 .. Len(slots') : slots'[j].object.kind # "none" =>
          \A v \in ValuesOf(slots'[j].object) : IsHandle(v) => ResolvesIn(v, slots')
    BY <1>5, <2>1, <2>2
  <2>4. \A v \in roots' : ResolvesIn(v, slots')
    BY <1>2, <1>7, <1>8 DEF NoneDangling
  <2> QED BY <1>2, <1>7, <2>3, <2>4 DEF NoneDangling
<1>10. roots' \subseteq Values
  BY <1>8 DEF Sound, Shape
<1>11. Shape'
  BY <1>2, <1>3, <1>4, <1>10 DEF Sound, Shape
<1> QED BY <1>9, <1>11, DanglingMeansLater DEF Sound

-----------------------------------------------------------------------------
(* The finalizers of a collection: objects that it found, with the latest  *)
(* registration first.                                                     *)
LEMMA FoundFacts ==
    ASSUME Sound, NEW m
    PROVE  \A f \in Found(m) :
             \E i \in Occupied \ m :
               /\ f = Finalizer(i) /\ IsDue(slots[i].object)
               /\ f \in Registrations /\ f.target = Handle(i) /\ f.order = slots[i].object.order
               /\ f.callback = Callback(slots[i].object) /\ f.profile = slots[i].object.profile
<1> SUFFICES ASSUME NEW i \in Occupied \ m, IsDue(slots[i].object)
             PROVE  /\ Finalizer(i) \in Registrations /\ Finalizer(i).target = Handle(i)
                    /\ Finalizer(i).order = slots[i].object.order
                    /\ Finalizer(i).callback = Callback(slots[i].object)
                    /\ Finalizer(i).profile = slots[i].object.profile
  BY DEF Found
<1> DEFINE o == slots[i].object
<1>1. o \in LiveObjects /\ Handle(i) \in Values
  BY HandleFacts, ObjectTyped DEF Sound, Shape, Occupied
<1>2. Callback(o) \in Values
  <2>1. CASE Resolves(o.metatable)
    <3>1. o.metatable \in Values
      BY <1>1 DEF LiveObjects
    <3>2. o.metatable.index \in Occupied
      BY <2>1, <3>1, HandleFacts DEF Sound
    <3>3. Object(o.metatable) \in LiveObjects
      BY <3>2, HandleFacts, ObjectTyped DEF Sound, Shape, Occupied, Object
    <3>4. Object(o.metatable).entries \in Tables
      BY <3>3 DEF LiveObjects
    <3> QED BY <2>1, <3>4, TablesFacts, HeldFacts DEF Callback, Entry
  <2>2. CASE ~Resolves(o.metatable)
    BY <2>2, HeldFacts DEF Callback
  <2> QED BY <2>1, <2>2
<1>3. o.order \in 0 .. MaxOrder /\ o.profile \in Profiles \cup {"none"}
  BY <1>1 DEF LiveObjects
<1>4. Finalizer(i) = [target |-> Handle(i), callback |-> Callback(o), order |-> o.order,
                      profile |-> o.profile]
  BY DEF Finalizer
<1> HIDE DEF o
<1>5. Finalizer(i) \in Registrations
  BY <1>1, <1>2, <1>3, <1>4 DEF Registrations
<1> QED BY <1>4, <1>5 DEF o

LEMMA FinalizersFacts ==
    ASSUME Sound, NEW m
    PROVE  LET fs == Finalizers(m)
           IN  /\ fs \in Seq(Found(m)) /\ fs \in Seq(Registrations)
               /\ \A j, k \in 1 .. Len(fs) : j < k => fs[j].order > fs[k].order
               /\ \A f \in Found(m) : \E n \in 1 .. Len(fs) : fs[n].order = f.order
<1> DEFINE fs == Finalizers(m)
           N == {-f.order : f \in Found(m)}
           at == Ascending(N)
           c == Cardinality(N)
<1>1. \A f \in Found(m) : f \in Registrations /\ f.order \in Nat
  BY FoundFacts, HeapAssumption DEF Registrations
<1>2. N \in SUBSET Int /\ IsFiniteSet(N)
  <2> DEFINE S == {j \in Occupied \ m : IsDue(slots[j].object)}
             number == [i \in S |-> -Finalizer(i).order]
  <2>1. IsFiniteSet(S)
    <3>1. IsFiniteSet(Indices) /\ S \in SUBSET Indices
      BY IndicesFinite, HandleFacts DEF Sound
    <3> HIDE DEF S
    <3> QED BY <3>1, FS_Subset
  <2>2. number \in Surjection(S, N)
    BY DEF Found, Surjection
  <2> HIDE DEF S, number, N
  <2>3. IsFiniteSet(N)
    BY <2>1, <2>2, FS_Surjection
  <2> QED BY <1>1, <2>3 DEF N
<1>3. /\ c \in Nat /\ DOMAIN at = 1 .. c
      /\ \A n \in 1 .. c : at[n] \in N
      /\ \A j, k \in 1 .. c : j < k => at[j] < at[k]
      /\ \A k \in N : \E n \in 1 .. c : at[n] = k
  <2> HIDE DEF N
  <2> QED BY <1>2, AscendingFacts
<1>4. fs = [n \in 1 .. c |-> CHOOSE f \in Found(m) : -f.order = at[n]]
  BY <1>3 DEF Finalizers
<1> HIDE DEF fs, at, c
<1>5. \A n \in 1 .. c : fs[n] \in Found(m) /\ -fs[n].order = at[n]
  <2> SUFFICES ASSUME NEW n \in 1 .. c PROVE fs[n] \in Found(m) /\ -fs[n].order = at[n]
    OBVIOUS
  <2>1. \E f \in Found(m) : -f.order = at[n]
    BY <1>3
  <2> QED BY <1>4, <2>1
<1>6. fs \in Seq(Found(m)) /\ Len(fs) = c
  <2>1. fs \in [1 .. c -> Found(m)]
    BY <1>4, <1>5
  <2>2. fs \in Seq(Found(m))
    BY <1>3, <2>1, SeqDef
  <2> QED BY <1>3, <2>1, <2>2, LenProperties
<1>7. fs \in Seq(Registrations)
  <2>1. Found(m) \subseteq Registrations
    BY <1>1
  <2> QED BY <1>6, <2>1
<1>8. \A j, k \in 1 .. c : j < k => fs[j].order > fs[k].order
  <2> SUFFICES ASSUME NEW j \in 1 .. c, NEW k \in 1 .. c, j < k PROVE fs[j].order > fs[k].order
    OBVIOUS
  <2>1. -fs[j].order < -fs[k].order
    BY <1>3, <1>5
  <2>2. fs[j].order \in Nat /\ fs[k].order \in Nat
    BY <1>1, <1>5
  <2> QED BY <2>1, <2>2
<1>9. \A f \in Found(m) : \E n \in 1 .. c : fs[n].order = f.order
  <2> SUFFICES ASSUME NEW f \in Found(m) PROVE \E n \in 1 .. c : fs[n].order = f.order
    OBVIOUS
  <2>1. PICK n \in 1 .. c : at[n] = -f.order
    BY <1>3
  <2>2. -fs[n].order = -f.order /\ fs[n].order \in Nat /\ f.order \in Nat
    BY <1>1, <1>5, <2>1
  <2> QED BY <2>2
<1> QED BY <1>6, <1>7, <1>8, <1>9 DEF fs

(* What a collection leaves: the kept objects, without the weak entries    *)
(* that died, and empty slots with the next generation.                    *)
reachedNow == Marked(IndicesOf(roots))
finalizersNow == Finalizers(reachedNow)
keptNow == Kept(reachedNow, finalizersNow)
targetsNow == IndicesOf(Targets(finalizersNow))

SweptObject(o, kept, due) ==
    [o EXCEPT !.entries = SurvivingEntries(o, kept), !.done = @ \/ due]

LEMMA CollectMeans ==
    ASSUME Collect
    PROVE  /\ ~gc_collecting /\ Sweep(finalizersNow, keptNow)
           /\ queue' = finalizersNow /\ gc_collecting' = (finalizersNow # <<>>)
           /\ queued' = queued \cup {f.order : f \in ToSet(finalizersNow)}
           /\ UNCHANGED <<next_finalizer_order, roots, calling, called>>
  BY DEF Collect, reachedNow, finalizersNow, keptNow

LEMMA CollectFacts ==
    ASSUME Sound, Collect
    PROVE  /\ keptNow \in SUBSET Occupied /\ Closed(keptNow) /\ IndicesOf(roots) \subseteq keptNow
           /\ targetsNow \subseteq keptNow
           /\ slots' \in Seq(Slots) /\ Len(slots') = Len(slots) /\ Indices' = Indices
           /\ Occupied' = keptNow
           /\ \A i \in keptNow : /\ slots'[i].generation = slots[i].generation
                                 /\ slots'[i].object = SweptObject(slots[i].object, keptNow, i \in targetsNow)
           /\ \A i \in Occupied \ keptNow :
                 slots'[i].generation = (slots[i].generation + 1) % GenerationModulus
           /\ \A i \in Indices \ Occupied : slots'[i] = slots[i]
           /\ Lists(live_indices', keptNow) /\ Lists(free', Indices \ keptNow)
<1>1. /\ keptNow \in SUBSET Occupied /\ Closed(keptNow) /\ IndicesOf(roots) \subseteq keptNow
      /\ targetsNow \subseteq keptNow
  BY HandleFacts, KeptIsLeast DEF Sound, reachedNow, finalizersNow, keptNow, targetsNow
<1>2. /\ slots' = [i \in Indices |-> IF i \in Occupied
                THEN Swept(slots[i], i \in keptNow, keptNow, i \in targetsNow) ELSE slots[i]]
      /\ live_indices' = Selected(live_indices, keptNow)
      /\ free' = free \o Selected(live_indices, Occupied \ keptNow)
  BY CollectMeans DEF Sweep, targetsNow
<1>3. /\ Len(slots) \in Nat /\ Indices = 1 .. Len(slots) /\ Occupied \subseteq Indices
      /\ slots \in Seq(Slots)
      /\ \A i \in Indices : slots[i] \in Slots
      /\ \A i \in Occupied : slots[i].object \in LiveObjects /\ slots[i] \in Slots
  BY HandleFacts, ObjectTyped DEF Sound, Shape, Occupied
<1>4. \A o \in LiveObjects : \A kept, due :
         due \in BOOLEAN => SweptObject(o, kept, due) \in LiveObjects
  <2> SUFFICES ASSUME NEW o \in LiveObjects, NEW kept, NEW due \in BOOLEAN
               PROVE  SweptObject(o, kept, due) \in LiveObjects
    OBVIOUS
  <2> DEFINE e == SurvivingEntries(o, kept)
  <2>1. o.entries \in Tables
    BY DEF LiveObjects
  <2>2. e \in [DOMAIN e -> Values] /\ DOMAIN e \in SUBSET Values
    BY <2>1, TablesFacts DEF SurvivingEntries
  <2>3. e \in Tables
    <3> HIDE DEF e
    <3> QED BY <2>2, TablesFacts
  <2>4. o.done \in BOOLEAN
    BY DEF LiveObjects
  <2> HIDE DEF e
  <2> QED BY <2>3, <2>4 DEF SweptObject, LiveObjects, e
<1>5. \A i \in keptNow :
         slots'[i] = [slots[i] EXCEPT !.object = SweptObject(slots[i].object, keptNow, i \in targetsNow)]
  <2> SUFFICES ASSUME NEW i \in keptNow
               PROVE  slots'[i] = [slots[i] EXCEPT !.object =
                                     SweptObject(slots[i].object, keptNow, i \in targetsNow)]
    OBVIOUS
  <2>1. i \in Occupied /\ i \in Indices /\ slots[i] \in Slots /\ slots[i].object \in LiveObjects
    BY <1>1, <1>3
  <2>2. slots'[i] = Swept(slots[i], TRUE, keptNow, i \in targetsNow)
    BY <1>2, <2>1
  <2>3. slots'[i] = [slots[i] EXCEPT !.object.entries = SurvivingEntries(slots[i].object, keptNow),
                                     !.object.done = @ \/ i \in targetsNow]
    BY <2>2 DEF Swept
  <2> QED BY <2>1, <2>3 DEF SweptObject, Slots, LiveObjects
<1>6. \A i \in Occupied \ keptNow :
         slots'[i] = [object |-> NoObject, generation |-> (slots[i].generation + 1) % GenerationModulus]
  BY <1>2, <1>3 DEF Swept
<1>7. \A i \in Indices \ Occupied : slots'[i] = slots[i]
  BY <1>2
<1>8. \A i \in keptNow :
        /\ slots'[i] \in Slots /\ slots'[i].generation = slots[i].generation
        /\ slots'[i].object = SweptObject(slots[i].object, keptNow, i \in targetsNow)
        /\ slots'[i].object \in LiveObjects
  <2> SUFFICES ASSUME NEW i \in keptNow
               PROVE  /\ slots'[i] \in Slots /\ slots'[i].generation = slots[i].generation
                      /\ slots'[i].object = SweptObject(slots[i].object, keptNow, i \in targetsNow)
                      /\ slots'[i].object \in LiveObjects
    OBVIOUS
  <2> DEFINE o == SweptObject(slots[i].object, keptNow, i \in targetsNow)
  <2>0. slots[i] \in Slots /\ slots[i].object \in LiveObjects
    BY <1>1, <1>3
  <2>4. o \in LiveObjects
    <3>1. (i \in targetsNow) \in BOOLEAN
      OBVIOUS
    <3>2. \A kept, due : due \in BOOLEAN => SweptObject(slots[i].object, kept, due) \in LiveObjects
      BY <2>0, <1>4
    <3> HIDE DEF LiveObjects
    <3> QED BY <3>1, <3>2, Zenon
  <2>5. slots'[i] = [slots[i] EXCEPT !.object = o]
    BY <1>5
  <2>1. o \in LiveObjects /\ slots'[i] = [slots[i] EXCEPT !.object = o] /\ slots[i] \in Slots
    BY <2>0, <2>4, <2>5
  <2> HIDE DEF o, LiveObjects
  <2> QED BY <2>1 DEF Slots, o
<1>9. \A i \in Occupied \ keptNow : slots'[i] \in Slots /\ slots'[i].object.kind = "none"
  <2> SUFFICES ASSUME NEW i \in Occupied \ keptNow
               PROVE  slots'[i] \in Slots /\ slots'[i].object.kind = "none"
    OBVIOUS
  <2>1. slots[i].generation \in 0 .. GenerationModulus - 1
    BY <1>3 DEF Slots
  <2> DEFINE g == (slots[i].generation + 1) % GenerationModulus
  <2>2. g \in 0 .. GenerationModulus - 1
    BY <2>1, HeapAssumption
  <2>3. slots'[i] = [object |-> NoObject, generation |-> g]
    BY <1>6
  <2> HIDE DEF g
  <2> QED BY <2>2, <2>3, NoObjectIsNone DEF Slots
<1>10. slots' \in Seq(Slots) /\ Len(slots') = Len(slots)
  <2>1. \A i \in Indices : slots'[i] \in Slots
    BY <1>3, <1>7, <1>8, <1>9
  <2>2. slots' \in [1 .. Len(slots) -> Slots]
    BY <1>2, <1>3, <2>1
  <2>3. slots' \in Seq(Slots)
    BY <1>3, <2>2, SeqDef
  <2> QED BY <1>3, <2>2, <2>3, LenProperties
<1>11. Indices' = Indices /\ Occupied' = keptNow
  <2>1. Indices' = Indices
    BY <1>10 DEF Indices
  <2>2. \A i \in keptNow : slots'[i].object.kind # "none"
    BY <1>8, NoObjectIsNone DEF LiveObjects
  <2>3. \A i \in Indices \ Occupied : slots'[i].object.kind = "none"
    BY <1>7 DEF Occupied
  <2>4. \A i \in Indices : slots'[i].object.kind # "none" <=> i \in keptNow
    BY <1>1, <1>3, <1>9, <2>2, <2>3
  <2>5. Occupied' = {i \in Indices : slots'[i].object.kind # "none"}
    BY <2>1 DEF Occupied
  <2> QED BY <1>1, <1>3, <2>1, <2>4, <2>5
<1>12. Lists(live_indices', keptNow) /\ Lists(free', Indices \ keptNow)
  <2>1. Lists(live_indices, Occupied) /\ Lists(free, Indices \ Occupied)
    BY DEF Sound, Shape
  <2>2. Lists(Selected(live_indices, keptNow), Occupied \cap keptNow)
    BY <2>1, ListsSelected
  <2>3. Lists(Selected(live_indices, Occupied \ keptNow), Occupied \cap (Occupied \ keptNow))
    BY <2>1, ListsSelected
  <2>4. Occupied \cap keptNow = keptNow /\ Occupied \cap (Occupied \ keptNow) = Occupied \ keptNow
    BY <1>1
  <2>5. (Indices \ Occupied) \cap (Occupied \ keptNow) = {}
    OBVIOUS
  <2>6. (Indices \ Occupied) \cup (Occupied \ keptNow) = Indices \ keptNow
    BY <1>1, <1>3
  <2>7. Lists(Selected(live_indices, Occupied \ keptNow), Occupied \ keptNow)
    BY <2>3, <2>4
  <2>8. Lists(free \o Selected(live_indices, Occupied \ keptNow),
              (Indices \ Occupied) \cup (Occupied \ keptNow))
    BY <2>1, <2>5, <2>7, ListsConcat
  <2> QED BY <1>2, <2>2, <2>4, <2>6, <2>8
<1>13. \A i \in Occupied \ keptNow : slots'[i].generation = (slots[i].generation + 1) % GenerationModulus
  <2> SUFFICES ASSUME NEW i \in Occupied \ keptNow
               PROVE  slots'[i].generation = (slots[i].generation + 1) % GenerationModulus
    OBVIOUS
  <2> DEFINE g == (slots[i].generation + 1) % GenerationModulus
  <2>1. slots'[i] = [object |-> NoObject, generation |-> g]
    BY <1>6
  <2> HIDE DEF g
  <2>2. slots'[i].generation = g
    BY <2>1
  <2> QED BY <2>2 DEF g
<1> QED BY <1>1, <1>7, <1>8, <1>10, <1>11, <1>12, <1>13

(* What survives a collection refers to what survives only.                *)
LEMMA SurvivorsKeepSurvivors ==
    ASSUME Sound, NEW kept \in SUBSET Occupied, Closed(kept), NEW i \in kept, NEW due,
           NEW v \in ValuesOf(SweptObject(slots[i].object, kept, due)), IsHandle(v)
    PROVE  Resolves(v) /\ v.index \in kept
<1> DEFINE o == slots[i].object
           p == SweptObject(o, kept, due)
           mode == WeakMode(o)
<1>1. o \in LiveObjects /\ \A w \in ValuesOf(o) : IsHandle(w) => Resolves(w)
  BY HandleFacts, ObjectTyped DEF Sound, Shape, NothingDangles, ValuesOf, Occupied
<1>2. /\ mode \in SUBSET {"k", "v"} /\ ("v" \notin mode <=> mode = {} \/ mode = {"k"})
  BY WeakModes DEF Sound
<1>3. \A w \in StrongValues(o) : Resolves(w) => w.index \in kept
  <2>1. \A w \in StrongValues(o) : Resolves(w) => w.index \in Successors(kept)
    BY DEF Successors, IndicesOf
  <2> QED BY <2>1 DEF Closed
<1>4. \A key \in DOMAIN o.entries :
         mode = {"k"} /\ IsMarked(key, kept) /\ Resolves(o.entries[key]) => o.entries[key].index \in kept
  <2> SUFFICES ASSUME NEW key \in DOMAIN o.entries, mode = {"k"}, IsMarked(key, kept),
                      Resolves(o.entries[key])
               PROVE  o.entries[key].index \in EphemeronValues(kept)
    BY DEF Closed
  <2> DEFINE chosen(j) == LET x == slots[j].object
                          IN  IF WeakMode(x) # {"k"} THEN {}
                              ELSE {x.entries[k] : k \in {y \in DOMAIN x.entries : IsMarked(y, kept)}}
  <2>1. o.entries[key] \in chosen(i)
    OBVIOUS
  <2> HIDE DEF chosen
  <2>2. o.entries[key] \in UNION {chosen(j) : j \in kept}
    BY <2>1
  <2>3. o.entries[key].index \in IndicesOf(UNION {chosen(j) : j \in kept})
    BY <2>2 DEF IndicesOf
  <2> QED BY <2>3 DEF EphemeronValues, chosen
<1>5. /\ p.metatable = o.metatable /\ p.refs = o.refs /\ p.entries = SurvivingEntries(o, kept)
  BY <1>1 DEF SweptObject, LiveObjects
<1> HIDE DEF o, p, mode
<1>6. /\ DOMAIN p.entries \subseteq DOMAIN o.entries
      /\ \A key \in DOMAIN p.entries :
           /\ p.entries[key] = o.entries[key]
           /\ "k" \in mode => IsMarked(key, kept)
           /\ "v" \in mode => IsMarked(o.entries[key], kept)
  BY <1>5 DEF SurvivingEntries, mode
<1>7. v \in ValuesOf(o) /\ Resolves(v)
  <2>1. v \in ValuesOf(p)
    BY DEF p, o
  <2>2. ValuesOf(p) \subseteq ValuesOf(o)
    BY <1>5, <1>6 DEF ValuesOf
  <2> QED BY <1>1, <2>1, <2>2
<1>8. CASE v \in {o.metatable} \cup o.refs
  BY <1>3, <1>7, <1>8 DEF StrongValues
<1>9. CASE v \in DOMAIN p.entries
  <2>1. CASE "k" \in mode
    BY <1>6, <1>9, <2>1 DEF IsMarked
  <2>2. CASE "k" \notin mode
    <3>1. v \in StrongValues(o)
      BY <1>6, <1>9, <2>2 DEF StrongValues, mode
    <3> QED BY <1>3, <1>7, <3>1
  <2> QED BY <2>1, <2>2
<1>10. ASSUME NEW key \in DOMAIN p.entries, v = p.entries[key] PROVE v.index \in kept
  <2>1. key \in DOMAIN o.entries /\ v = o.entries[key]
    BY <1>6, <1>10
  <2>2. CASE "v" \in mode
    BY <1>6, <1>10, <2>2 DEF IsMarked
  <2>3. CASE mode = {}
    <3>1. v \in StrongValues(o)
      BY <2>1, <2>3 DEF StrongValues, mode
    <3> QED BY <1>3, <1>7, <3>1
  <2>4. CASE mode = {"k"}
    BY <1>4, <1>6, <1>7, <2>1, <2>4
  <2> QED BY <1>2, <2>2, <2>3, <2>4
<1>11. v \in ValuesOf(p)
  BY DEF p, o
<1> QED BY <1>5, <1>7, <1>8, <1>9, <1>10, <1>11 DEF ValuesOf

LEMMA CollectSound ==
    ASSUME Sound, Collect
    PROVE  Sound'
<1>1. /\ keptNow \in SUBSET Occupied /\ Closed(keptNow) /\ IndicesOf(roots) \subseteq keptNow
      /\ targetsNow \subseteq keptNow
      /\ slots' \in Seq(Slots) /\ Len(slots') = Len(slots) /\ Indices' = Indices
      /\ Occupied' = keptNow
      /\ \A i \in keptNow : /\ slots'[i].generation = slots[i].generation
                            /\ slots'[i].object = SweptObject(slots[i].object, keptNow, i \in targetsNow)
      /\ Lists(live_indices', keptNow) /\ Lists(free', Indices \ keptNow)
  BY CollectFacts
<1>2. /\ ~gc_collecting /\ queue' = finalizersNow /\ gc_collecting' = (finalizersNow # <<>>)
      /\ UNCHANGED <<next_finalizer_order, roots, calling, called>>
  BY CollectMeans
<1>3. \A v : Resolves(v) /\ v.index \in keptNow => ResolvesIn(v, slots')
  <2>1. \A i \in keptNow : i \in 1 .. Len(slots') /\ slots'[i].object.kind # "none"
    BY <1>1 DEF Occupied, Indices
  <2> QED BY <1>1, <2>1 DEF Resolves, ResolvesIn
<1>4. \A h \in roots : ResolvesIn(h, slots')
  <2>1. \A h \in roots : Resolves(h) /\ h.index \in IndicesOf(roots)
    BY DEF Sound, NothingDangles, IndicesOf
  <2> QED BY <1>1, <1>3, <2>1
<1>5. \A i \in 1 .. Len(slots') : slots'[i].object.kind # "none" =>
         \A v \in ValuesOf(slots'[i].object) : IsHandle(v) => ResolvesIn(v, slots')
  <2> SUFFICES ASSUME NEW i \in 1 .. Len(slots'), slots'[i].object.kind # "none",
                      NEW v \in ValuesOf(slots'[i].object), IsHandle(v)
               PROVE  ResolvesIn(v, slots')
    OBVIOUS
  <2>1. i \in keptNow
    BY <1>1 DEF Occupied, Indices
  <2>2. v \in ValuesOf(SweptObject(slots[i].object, keptNow, i \in targetsNow))
    BY <1>1, <2>1
  <2>3. Resolves(v) /\ v.index \in keptNow
    BY <1>1, <2>1, <2>2, SurvivorsKeepSurvivors
  <2> QED BY <1>3, <2>3
<1>6. /\ finalizersNow \in Seq(Registrations)
      /\ \A n \in 1 .. Len(finalizersNow) : ResolvesIn(finalizersNow[n].target, slots')
  <2>1. finalizersNow \in Seq(Found(reachedNow)) /\ finalizersNow \in Seq(Registrations)
    BY FinalizersFacts DEF finalizersNow
  <2>2. \A n \in 1 .. Len(finalizersNow) : finalizersNow[n] \in Found(reachedNow)
    BY <2>1, ElementOfSeq
  <2>3. \A n \in 1 .. Len(finalizersNow) :
           /\ Resolves(finalizersNow[n].target)
           /\ finalizersNow[n].target \in Targets(finalizersNow)
    <3> SUFFICES ASSUME NEW n \in 1 .. Len(finalizersNow)
                 PROVE  /\ Resolves(finalizersNow[n].target)
                        /\ finalizersNow[n].target \in Targets(finalizersNow)
      OBVIOUS
    <3>1. finalizersNow[n] \in ToSet(finalizersNow)
      BY <2>1, LenProperties DEF ToSet
    <3>2. PICK i \in Occupied : finalizersNow[n].target = Handle(i)
      BY <2>2, FoundFacts
    <3>3. Resolves(Handle(i))
      BY HandleFacts DEF Sound, Occupied
    <3> QED BY <3>1, <3>2, <3>3 DEF Targets
  <2>4. \A n \in 1 .. Len(finalizersNow) : finalizersNow[n].target.index \in targetsNow
    BY <2>3 DEF targetsNow, IndicesOf
  <2> QED BY <1>1, <1>3, <2>1, <2>3, <2>4
<1>7. NoneDangling(slots', roots', queue')
  BY <1>2, <1>4, <1>5, <1>6 DEF NoneDangling
<1>8. calling = NoFinalizer
  BY <1>2 DEF Sound, Shape
<1>9. Shape'
  <2>1. Lists(live_indices', Occupied') /\ Lists(free', Indices' \ Occupied')
    BY <1>1
  <2> QED BY <1>1, <1>2, <1>6, <1>8, <2>1 DEF Sound, Shape
<1> QED BY <1>7, <1>9, DanglingMeansLater DEF Sound

-----------------------------------------------------------------------------
LEMMA InitSound == Init => Sound
<1> SUFFICES ASSUME Init PROVE Sound
  OBVIOUS
<1>1. /\ slots = <<>> /\ free = <<>> /\ live_indices = <<>> /\ queue = <<>>
      /\ roots = {} /\ next_finalizer_order = 0 /\ gc_collecting = FALSE /\ calling = NoFinalizer
  BY DEF Init
<1>2. Len(<<>>) = 0 /\ <<>> \in Seq(Slots) /\ <<>> \in Seq(Registrations) /\ <<>> \in Seq({})
  BY EmptySeq
<1>3. Indices = {} /\ Occupied = {}
  BY <1>1, <1>2 DEF Indices, Occupied
<1>4. Lists(<<>>, {})
  BY <1>2 DEF Lists
<1>5. Shape
  <2>1. slots \in Seq(Slots) /\ Len(slots) = 0 /\ queue \in Seq(Registrations)
    BY <1>1, <1>2
  <2>2. Lists(live_indices, Occupied) /\ Lists(free, Indices \ Occupied)
    BY <1>1, <1>3, <1>4
  <2>3. Len(slots) <= MaxSlots /\ next_finalizer_order \in 0 .. MaxOrder
    BY <1>1, <2>1, HeapAssumption
  <2>4. roots \subseteq Values /\ calling \in Registrations \cup {NoFinalizer}
    BY <1>1
  <2>5. gc_collecting = (calling # NoFinalizer \/ queue # <<>>)
    BY <1>1
  <2> QED BY <2>1, <2>2, <2>3, <2>4, <2>5 DEF Shape
<1>6. NothingDangles /\ TargetsResolve
  BY <1>1, <1>2, <1>3 DEF NothingDangles, TargetsResolve
<1> QED BY <1>5, <1>6 DEF Sound

LEMMA LoadSound ==
    ASSUME Sound, NEW h \in roots, NEW value \in Values, Load(h, value)
    PROVE  Sound'
<1>1. value \in ValuesOf(Object(h)) /\ IsHandle(value)
  BY DEF Load, ValuesOf
<1>2. Resolves(value)
  BY <1>1, HeldFacts
<1>3. roots' = roots \cup {value} /\ UNCHANGED <<heapVars, next_finalizer_order, batchVars>>
  BY DEF Load
<1> QED BY <1>2, <1>3, RootsSound DEF Sound, Shape, NothingDangles, TargetsResolve, heapVars, batchVars

LEMMA ForgetSound ==
    ASSUME Sound, NEW h \in roots, Forget(h)
    PROVE  Sound'
<1>1. roots' = roots \ {h} /\ UNCHANGED <<heapVars, next_finalizer_order, batchVars>>
  BY DEF Forget
<1> QED BY <1>1, RootsSound DEF Sound, Shape, NothingDangles, TargetsResolve, heapVars, batchVars

(* The rest of a batch.                                                    *)
LEMMA TailFacts ==
    ASSUME Sound, queue # <<>>
    PROVE  /\ Head(queue) = queue[1] /\ Head(queue) \in Registrations /\ 1 \in 1 .. Len(queue)
           /\ Tail(queue) \in Seq(Registrations) /\ Len(Tail(queue)) = Len(queue) - 1
           /\ Len(queue) \in Nat
           /\ \A n \in 1 .. Len(Tail(queue)) : Tail(queue)[n] = queue[n + 1] /\ n + 1 \in 1 .. Len(queue)
<1>1. queue \in Seq(Registrations) /\ Len(queue) \in Nat
  BY LenProperties DEF Sound, Shape
<1>2. 1 \in 1 .. Len(queue)
  BY <1>1, EmptySeq
<1> QED BY <1>1, <1>2, HeadTailProperties

LEMMA CallFinalizerSound ==
    ASSUME Sound, CallFinalizer
    PROVE  Sound'
<1>1. /\ queue # <<>> /\ gc_collecting /\ calling' = Head(queue) /\ queue' = Tail(queue)
      /\ roots' = roots \cup {Head(queue).target}
      /\ UNCHANGED <<heapVars, next_finalizer_order, gc_collecting>>
  BY DEF CallFinalizer
<1>2. Head(queue) \in Registrations /\ Resolves(Head(queue).target) /\ Head(queue).target \in Values
  BY <1>1, TailFacts DEF Sound, TargetsResolve, Registrations
<1>3. Head(queue) # NoFinalizer
  BY <1>2 DEF Registrations, NoFinalizer
<1>4. \A n \in 1 .. Len(queue') : Resolves(queue'[n].target)
  BY <1>1, TailFacts DEF Sound, TargetsResolve
<1>5. queue' \in Seq(Registrations)
  BY <1>1, TailFacts
<1>6. roots' \subseteq Values /\ \A h \in roots' : Resolves(h)
  BY <1>1, <1>2 DEF Sound, Shape, NothingDangles
<1> QED BY <1>1, <1>2, <1>3, <1>4, <1>5, <1>6, RootsSound DEF heapVars

LEMMA ResumeSound ==
    ASSUME Sound, NEW rest \in {queue, <<>>}, Resume(rest),
           UNCHANGED <<heapVars, next_finalizer_order, roots>>
    PROVE  Sound'
<1>1. queue' = rest /\ gc_collecting' = (rest # <<>>) /\ calling' = NoFinalizer
  BY DEF Resume
<1>2. <<>> \in Seq(Registrations) /\ Len(<<>>) = 0
  BY EmptySeq
<1>3. queue' \in Seq(Registrations) /\ \A n \in 1 .. Len(queue') : Resolves(queue'[n].target)
  <2>1. CASE rest = queue
    BY <1>1, <2>1 DEF Sound, Shape, TargetsResolve
  <2>2. CASE rest = <<>>
    <3>1. queue' \in Seq(Registrations) /\ 1 .. Len(queue') = {}
      BY <1>1, <1>2, <2>2
    <3> QED BY <3>1
  <2> QED BY <2>1, <2>2
<1>4. roots' \subseteq Values /\ \A h \in roots' : Resolves(h)
  BY DEF Sound, Shape, NothingDangles
<1> QED BY <1>1, <1>3, <1>4, RootsSound DEF heapVars

LEMMA NextSound == Sound /\ [Next]_vars => Sound'
<1> SUFFICES ASSUME Sound, [Next]_vars PROVE Sound'
  OBVIOUS
<1>1. ASSUME NEW kind \in Kinds, Allocate(kind, {}) PROVE Sound'
  BY <1>1, AllocateSound
<1>2. CASE Write
  BY <1>2, WriteKeepsSound
<1>3. ASSUME NEW h \in roots, NEW value \in Values, Load(h, value) PROVE Sound'
  BY <1>3, LoadSound
<1>4. ASSUME NEW h \in roots, Forget(h) PROVE Sound'
  BY <1>4, ForgetSound
<1>5. CASE Collect
  BY <1>5, CollectSound
<1>6. CASE CallFinalizer
  BY <1>6, CallFinalizerSound
<1>7. CASE FinalizerReturns
  BY <1>7, ResumeSound DEF FinalizerReturns
<1>8. CASE FinalizerFails
  BY <1>8, ResumeSound DEF FinalizerFails, AfterError
<1>9. CASE UNCHANGED vars
  BY <1>9, RootsSound DEF Sound, Shape, NothingDangles, TargetsResolve, vars, heapVars, batchVars
<1> QED BY <1>1, <1>2, <1>3, <1>4, <1>5, <1>6, <1>7, <1>8, <1>9 DEF Next

(* The state keeps its shape, whatever the numbers of slots, references    *)
(* and registrations.                                                      *)
THEOREM HeapTypeCorrect == Spec => []TypeOK
<1>1. Sound => TypeOK
  <2> SUFFICES ASSUME Sound PROVE TypeOK
    OBVIOUS
  <2>1. /\ Len(slots) \in Nat /\ Indices = 1 .. Len(slots) /\ slots \in Seq(Slots)
        /\ Occupied \in SUBSET Indices
    BY HandleFacts DEF Sound, Shape, Occupied
  <2>2. \A i \in Indices : slots[i].generation \in 0 .. GenerationModulus - 1
    BY <2>1, ObjectTyped
  <2>3. \A i \in Occupied :
           LET o == slots[i].object
           IN  /\ o.kind \in Kinds /\ o.mode \in Modes \cup {{}}
               /\ o.refs \subseteq Values /\ o.metatable \in Values
               /\ DOMAIN o.entries \subseteq Values
               /\ o.armed \in BOOLEAN /\ o.done \in BOOLEAN
               /\ o.order \in 0 .. MaxOrder
               /\ o.profile \in Profiles \cup {"none"}
    <3> SUFFICES ASSUME NEW o \in LiveObjects
                 PROVE  /\ o.kind \in Kinds /\ o.mode \in Modes \cup {{}}
                        /\ o.refs \subseteq Values /\ o.metatable \in Values
                        /\ DOMAIN o.entries \subseteq Values
                        /\ o.armed \in BOOLEAN /\ o.done \in BOOLEAN
                        /\ o.order \in 0 .. MaxOrder
                        /\ o.profile \in Profiles \cup {"none"}
      BY <2>1, ObjectTyped DEF Occupied
    <3> QED BY TablesFacts DEF LiveObjects
  <2>4. IsFiniteSet(Indices) /\ IsFiniteSet(Occupied) /\ IsFiniteSet(Indices \ Occupied)
    BY <2>1, IndicesFinite, FS_Subset
  <2>5. ToSet(live_indices) = Occupied /\ Len(live_indices) = Cardinality(Occupied)
    BY <2>4, ListsSize DEF Sound, Shape
  <2>6. ToSet(free) = Indices \ Occupied /\ Len(free) = Cardinality(Indices \ Occupied)
    BY <2>4, ListsSize DEF Sound, Shape
  <2> QED BY <2>2, <2>3, <2>5, <2>6 DEF TypeOK, Sound, Shape
<1> QED BY <1>1, InitSound, NextSound, PTL DEF Spec

(* No handle that the program can reach is ever stale, through weak tables *)
(* included: what a collection sweeps, nothing that stays refers to.       *)
THEOREM NoDanglingHandles == Spec => []NothingDangles
<1>1. Sound => NothingDangles
  BY DEF Sound
<1> QED BY <1>1, InitSound, NextSound, PTL DEF Spec

(* A collection at any point keeps exactly what is alive by definition:    *)
(* the marking loops find the least set closed under references, for every *)
(* heap, with ephemeron chains of any length.                              *)
THEOREM CollectionsAreExact == Spec => []CollectionIsExact
<1> QED BY MarkingIsExact, InitSound, NextSound, PTL DEF Spec

(* What a write or a step of the batch leaves alone.                       *)
LEMMA WriteKeepsSlots ==
    ASSUME Sound, Write
    PROVE  /\ \A i \in Indices : slots'[i].generation = slots[i].generation
           /\ UNCHANGED <<live_indices, arenaHistory>>
<1> DEFINE Goal == /\ \A i \in Indices : slots'[i].generation = slots[i].generation
                   /\ UNCHANGED <<live_indices, arenaHistory>>
<1>1. /\ Len(slots) \in Nat /\ Indices = 1 .. Len(slots) /\ slots \in Seq(Slots)
      /\ slots \in [Indices -> Slots]
  BY HandleFacts, LenProperties DEF Sound, Shape
<1>2. ASSUME NEW k, NEW o, slots' = [slots EXCEPT ![k] = [slots[k] EXCEPT !.object = o]]
      PROVE  \A i \in Indices : slots'[i].generation = slots[i].generation
  <2> SUFFICES ASSUME NEW i \in Indices PROVE slots'[i].generation = slots[i].generation
    OBVIOUS
  <2>1. slots'[i] = IF i = k THEN [slots[k] EXCEPT !.object = o] ELSE slots[i]
    BY <1>1, <1>2
  <2>2. slots[i] \in Slots
    BY <1>1
  <2> QED BY <2>1, <2>2 DEF Slots
<1>3. ASSUME NEW h \in roots, NEW value, SetReference(h, value) PROVE Goal
  <2>1. \E o : slots' = [slots EXCEPT ![h.index] = [slots[h.index] EXCEPT !.object = o]]
    BY <1>3 DEF SetReference
  <2> QED BY <1>2, <1>3, <2>1 DEF SetReference
<1>4. ASSUME NEW h \in roots, NEW key, NEW value, TableSet(h, key, value) PROVE Goal
  <2>1. \E o : slots' = [slots EXCEPT ![h.index] = [slots[h.index] EXCEPT !.object = o]]
    BY <1>4 DEF TableSet
  <2> QED BY <1>2, <1>4, <2>1 DEF TableSet
<1>5. ASSUME NEW h \in roots, NEW mode, SetMode(h, mode) PROVE Goal
  <2>1. \E o : slots' = [slots EXCEPT ![h.index] = [slots[h.index] EXCEPT !.object = o]]
    BY <1>5 DEF SetMode
  <2> QED BY <1>2, <1>5, <2>1 DEF SetMode
<1>6. ASSUME NEW h \in roots, NEW metatable, NEW profile, SetMetatable(h, metatable, profile) PROVE Goal
  <2>1. \E o : slots' = [slots EXCEPT ![h.index] = [slots[h.index] EXCEPT !.object = o]]
    BY <1>6 DEF SetMetatable
  <2> QED BY <1>2, <1>6, <2>1 DEF SetMetatable
<1> HIDE DEF Goal
<1>7. Goal
  BY <1>3, <1>4, <1>5, <1>6 DEF Write
<1> QED BY <1>7 DEF Goal

(* A collection clears an entry of a weak table only when its key or its   *)
(* value is gone: an ephemeron whose value keeps its own key alive goes,   *)
(* and nothing else does.                                                  *)
THEOREM WeakReferencesClearedExactly == Spec => ClearsOnlyTheDead
<1> DEFINE Exact == dead' # dead => \A i \in Occupied' :
              \A key \in DOMAIN slots[i].object.entries :
                 (/\ IsHandle(key) => key.index \in Occupied'
                  /\ LET v == slots[i].object.entries[key]
                     IN  IsHandle(v) => v.index \in Occupied')
                 => key \in DOMAIN slots'[i].object.entries
<1>1. ASSUME Sound, Collect PROVE Exact
  <2> SUFFICES ASSUME NEW i \in keptNow, NEW key \in DOMAIN slots[i].object.entries,
                      IsHandle(key) => key.index \in keptNow,
                      IsHandle(slots[i].object.entries[key]) =>
                         slots[i].object.entries[key].index \in keptNow
               PROVE  key \in DOMAIN slots'[i].object.entries
    BY <1>1, CollectFacts
  <2> DEFINE o == slots[i].object
             e == SurvivingEntries(o, keptNow)
  <2>1. i \in Occupied /\ o \in LiveObjects
    BY <1>1, CollectFacts, HandleFacts, ObjectTyped DEF Sound, Shape, Occupied
  <2>2. slots'[i].object = SweptObject(o, keptNow, i \in targetsNow)
    BY <1>1, CollectFacts
  <2>3. slots'[i].object.entries = e
    <3> HIDE DEF o, e
    <3> QED BY <2>1, <2>2 DEF SweptObject, LiveObjects, e
  <2>4. IsMarked(key, keptNow) /\ IsMarked(o.entries[key], keptNow)
    <3>1. /\ IsHandle(key) => Resolves(key)
          /\ IsHandle(o.entries[key]) => Resolves(o.entries[key])
      BY <1>1, <2>1 DEF Sound, NothingDangles
    <3> QED BY <3>1 DEF IsMarked
  <2>5. key \in DOMAIN e
    BY <2>4 DEF SurvivingEntries
  <2> QED BY <2>3, <2>5
<1>2. Sound /\ [Next]_vars => [Exact]_vars
  <2> SUFFICES ASSUME Sound, Next, dead' # dead PROVE Exact
    BY DEF vars, arenaHistory
  <2>1. ~Write
    BY WriteKeepsSlots DEF arenaHistory
  <2>2. Collect
    BY <2>1 DEF Next, Allocate, Load, Forget, CallFinalizer, FinalizerReturns, FinalizerFails, arenaHistory
  <2> QED BY <1>1, <2>2
<1>3. Spec => []Sound
  BY InitSound, NextSound, PTL DEF Spec
<1> QED BY <1>2, <1>3, PTL DEF Spec, ClearsOnlyTheDead

-----------------------------------------------------------------------------
(* The refinement of the arena.                                            *)
LEMMA AllocateIsArenaStep ==
    ASSUME Sound, NEW kind \in Kinds, Allocate(kind, {})
    PROVE  Arena!ReuseSlot \/ Arena!AddSlot
<1> PICK i \in 1 .. Len(slots) + 1 :
             /\ i \notin Occupied /\ Occupied' = Occupied \cup {i}
             /\ slots' \in Seq(Slots) /\ Len(slots') <= MaxSlots
             /\ \A j \in Occupied : slots'[j] = slots[j]
             /\ \A j \in Indices : slots'[j].generation = slots[j].generation
             /\ slots'[i].object = NewObject(kind, {})
             /\ live_indices' = Append(live_indices, i)
             /\ roots' = roots \cup {[index |-> i, generation |-> slots'[i].generation]}
             /\ \/ free = <<>> /\ i = Len(slots) + 1 /\ Len(slots') = Len(slots) + 1
                   /\ Indices = Occupied /\ free' = free /\ slots'[i].generation = 0
                \/ free # <<>> /\ Len(slots') = Len(slots) /\ i = Last(free) /\ i \in Indices
                   /\ free' = Front(free)
  BY AllocateFacts
<1>1. /\ Len(slots) \in Nat /\ Indices = 1 .. Len(slots) /\ Indices' = 1 .. Len(slots')
  BY HandleFacts DEF Sound, Indices
<1>2. Len(live_indices') = Len(live_indices) + 1 /\ Len(live_indices) \in Nat
  BY ListsAppend, ListsSize DEF Sound, Shape
<1>3. Arena!LiveGrows
  <2>1. /\ peak' = IF Len(live_indices') > peak THEN Len(live_indices') ELSE peak
        /\ UNCHANGED <<dead, wrapped>>
    BY DEF Allocate
  <2> QED BY <1>2, <2>1 DEF Arena!LiveGrows
<1>4. CASE /\ i = Len(slots) + 1 /\ Len(slots') = Len(slots) + 1
           /\ Indices = Occupied /\ slots'[i].generation = 0
  <2>1. [j \in Indices |-> slots[j].generation]' =
          [j \in 1 .. Len(slots) + 1 |->
             IF j = Len(slots) + 1 THEN 0 ELSE [k \in Indices |-> slots[k].generation][j]]
    BY <1>1, <1>4
  <2>2. Len(slots) < MaxSlots
    BY <1>1, <1>4, HeapAssumption
  <2> QED BY <1>1, <1>3, <1>4, <2>1, <2>2 DEF Arena!AddSlot, Arena!Indices
<1>5. CASE Len(slots') = Len(slots) /\ i \in Indices
  <2>1. [j \in Indices |-> slots[j].generation]' = [j \in Indices |-> slots[j].generation]
    BY <1>1, <1>5
  <2> QED BY <1>1, <1>3, <1>5, <2>1 DEF Arena!ReuseSlot, Arena!Indices
<1> QED BY <1>4, <1>5

LEMMA CollectIsArenaStep ==
    ASSUME Sound, Collect
    PROVE  \E keep \in SUBSET Occupied : Arena!Sweep(keep)
<1>1. /\ keptNow \in SUBSET Occupied
      /\ Len(slots') = Len(slots) /\ Indices' = Indices /\ Occupied' = keptNow
      /\ \A i \in keptNow : slots'[i].generation = slots[i].generation
      /\ \A i \in Occupied \ keptNow :
            slots'[i].generation = (slots[i].generation + 1) % GenerationModulus
      /\ \A i \in Indices \ Occupied : slots'[i] = slots[i]
      /\ Lists(live_indices', keptNow)
  BY CollectFacts
<1>2. /\ Len(slots) \in Nat /\ Indices = 1 .. Len(slots) /\ Occupied \subseteq Indices
      /\ \A i \in Indices : slots[i].generation \in 0 .. GenerationModulus - 1
  BY HandleFacts, ObjectTyped DEF Sound, Shape, Occupied
<1>3. Len(live_indices') = Len(live_indices) - Cardinality(Occupied \ keptNow)
  <2>1. IsFiniteSet(Occupied) /\ Cardinality(Occupied) = Len(live_indices)
    BY ListsSize DEF Sound, Shape
  <2>2. Cardinality(keptNow) = Len(live_indices') /\ Len(live_indices') \in Nat
    BY <1>1, ListsSize
  <2>3. Cardinality(Occupied \ keptNow) = Cardinality(Occupied) - Cardinality(Occupied \cap keptNow)
    BY <2>1, FS_Difference
  <2>4. Occupied \cap keptNow = keptNow
    BY <1>1
  <2>5. Len(live_indices) \in Nat
    BY ListsSize DEF Sound, Shape
  <2>6. Cardinality(Occupied \cap keptNow) = Len(live_indices')
    BY <2>2, <2>4
  <2>7. Cardinality(Occupied \ keptNow) = Len(live_indices) - Len(live_indices')
    BY <2>1, <2>3, <2>6
  <2> QED BY <2>2, <2>5, <2>7
<1>4. \A g \in 0 .. GenerationModulus - 1 : (g + 1) % GenerationModulus = Arena!NextGeneration(g)
  <2> SUFFICES ASSUME NEW g \in 0 .. GenerationModulus - 1
               PROVE  (g + 1) % GenerationModulus = IF g + 1 = GenerationModulus THEN 0 ELSE g + 1
    BY DEF Arena!NextGeneration
  <2> QED BY HeapAssumption
<1>5. [j \in Indices |-> slots[j].generation]' =
        [j \in Indices |-> IF j \in Occupied \ keptNow
                           THEN Arena!NextGeneration([k \in Indices |-> slots[k].generation][j])
                           ELSE [k \in Indices |-> slots[k].generation][j]]
  <2>1. \A j \in Indices : slots'[j].generation =
          IF j \in Occupied \ keptNow THEN Arena!NextGeneration(slots[j].generation)
                                      ELSE slots[j].generation
    BY <1>1, <1>2, <1>4
  <2> QED BY <1>1, <2>1
<1>6. /\ dead' = dead \cup {Handle(i) : i \in Occupied \ keptNow}
      /\ wrapped' = wrapped \cup {i \in Occupied \ keptNow : slots[i].generation = GenerationModulus - 1}
      /\ UNCHANGED peak
  BY CollectMeans DEF Sweep
<1>7. dead' = dead \cup {[index |-> i, generation |-> [k \in Indices |-> slots[k].generation][i]] :
                            i \in Occupied \ keptNow}
  <2>1. \A i \in Occupied \ keptNow :
          Handle(i) = [index |-> i, generation |-> [k \in Indices |-> slots[k].generation][i]]
    BY <1>2 DEF Handle
  <2> QED BY <1>6, <2>1
<1>8. wrapped' = wrapped \cup {i \in Occupied \ keptNow :
                                 [k \in Indices |-> slots[k].generation][i] = GenerationModulus - 1}
  <2>1. \A i \in Occupied \ keptNow : [k \in Indices |-> slots[k].generation][i] = slots[i].generation
    BY <1>2
  <2> QED BY <1>6, <2>1
<1>9. Arena!Sweep(keptNow)
  <2>1. Arena!Indices = Indices
    BY <1>2 DEF Arena!Indices
  <2> DEFINE generations == [j \in Indices |-> slots[j].generation]
  <2>2. generations' = [j \in Arena!Indices |->
                          IF j \in Occupied \ keptNow THEN Arena!NextGeneration(generations[j])
                                                      ELSE generations[j]]
    BY <1>5, <2>1
  <2>3. Arena!Cardinality(Occupied \ keptNow) = Cardinality(Occupied \ keptNow)
    BY Zenon DEF Cardinality, Arena!Cardinality
  <2> QED BY <1>1, <1>3, <1>6, <1>7, <1>8, <2>2, <2>3 DEF Arena!Sweep
<1>10. \A keep : keep = keptNow => keep \in SUBSET Occupied /\ Arena!Sweep(keep)
  BY <1>1, <1>9 DEF Arena!Sweep
<1>11. \E keep : keep = keptNow
  OBVIOUS
<1> QED BY <1>10, <1>11

(* Free list, live list and sweep are an implementation of the arena, with *)
(* the wrap of the generation: the heap inherits what SlotArenaProofs      *)
(* proves, that no handle of a swept object resolves before it.            *)
THEOREM HeapImplementsArena == Spec => ImplementsArena
<1>1. Init => Arena!Init
  <2> SUFFICES ASSUME Init PROVE Arena!Init
    OBVIOUS
  <2>1. Len(slots) = 0 /\ Len(live_indices) = 0 /\ Indices = {} /\ Occupied = {}
    BY EmptySeq DEF Init, Indices, Occupied
  <2> QED BY <2>1 DEF Init, Arena!Init
<1>2. Sound /\ [Next]_vars => [Arena!Next]_(Arena!arenaVars)
  <2> SUFFICES ASSUME Sound, [Next]_vars PROVE [Arena!Next]_(Arena!arenaVars)
    OBVIOUS
  <2>1. ASSUME NEW kind \in Kinds, Allocate(kind, {}) PROVE Arena!Next
    BY <2>1, AllocateIsArenaStep DEF Arena!Next
  <2>2. ASSUME Collect PROVE Arena!Next
    BY <2>2, CollectIsArenaStep DEF Arena!Next
  <2>3. ASSUME /\ Indices' = Indices /\ Occupied' = Occupied
               /\ \A i \in Indices : slots'[i].generation = slots[i].generation
               /\ UNCHANGED <<live_indices, arenaHistory>>
        PROVE  UNCHANGED Arena!arenaVars
    <3>1. Len(slots) \in Nat /\ Len(slots') \in Nat
      BY NextSound, LenProperties DEF Sound, Shape
    <3>2. 1 .. Len(slots') = 1 .. Len(slots)
      BY <2>3 DEF Indices
    <3>3. Len(slots') = Len(slots)
      BY <3>1, <3>2
    <3>4. [j \in Indices |-> slots[j].generation]' = [j \in Indices |-> slots[j].generation]
      BY <2>3
    <3> QED BY <2>3, <3>3, <3>4 DEF Arena!arenaVars, arenaHistory
  <2>4. CASE Write
    BY <2>3, <2>4, WriteKeepsSound, WriteKeepsSlots
  <2>5. ASSUME UNCHANGED <<heapVars, arenaHistory>> PROVE UNCHANGED Arena!arenaVars
    BY <2>3, <2>5 DEF heapVars, Indices, Occupied
  <2>6. CASE \/ \E h \in roots, value \in Values : Load(h, value)
             \/ \E h \in roots : Forget(h)
             \/ CallFinalizer \/ FinalizerReturns \/ FinalizerFails \/ UNCHANGED vars
    BY <2>5, <2>6 DEF Load, Forget, CallFinalizer, FinalizerReturns, FinalizerFails, vars
  <2> QED BY <2>1, <2>2, <2>4, <2>6 DEF Next
<1>3. Spec => []Sound
  BY InitSound, NextSound, PTL DEF Spec
<1> QED BY <1>1, <1>2, <1>3, PTL DEF Spec, ImplementsArena, Arena!Spec

-----------------------------------------------------------------------------
(* Registrations.  What a step does to the registration of an object.      *)
SameRegistration(o, p) ==
    /\ p.kind = o.kind /\ p.armed = o.armed /\ p.done = o.done
    /\ p.order = o.order /\ p.profile = o.profile

LEMMA WriteRegistrations ==
    ASSUME Sound, Write
    PROVE  \E k :
             /\ \A i \in Occupied :
                  \/ SameRegistration(slots[i].object, slots'[i].object)
                  \/ /\ i = k /\ slots'[i].object.kind = slots[i].object.kind
                     /\ Profiles = {"Lua52"} => slots'[i].object.done = slots[i].object.done
                     /\ slots'[i].object.armed =>
                          /\ slots'[i].object.order = next_finalizer_order
                          /\ next_finalizer_order' = next_finalizer_order + 1
                          /\ slots'[i].object.profile \in Profiles
             /\ next_finalizer_order' \in {next_finalizer_order, next_finalizer_order + 1}
             /\ UNCHANGED <<queue, calling, called, queued, gc_collecting, wrapped>>
<1> DEFINE Fine(k) ==
             /\ \A i \in Occupied :
                  \/ SameRegistration(slots[i].object, slots'[i].object)
                  \/ /\ i = k /\ slots'[i].object.kind = slots[i].object.kind
                     /\ Profiles = {"Lua52"} => slots'[i].object.done = slots[i].object.done
                     /\ slots'[i].object.armed =>
                          /\ slots'[i].object.order = next_finalizer_order
                          /\ next_finalizer_order' = next_finalizer_order + 1
                          /\ slots'[i].object.profile \in Profiles
             /\ next_finalizer_order' \in {next_finalizer_order, next_finalizer_order + 1}
             /\ UNCHANGED <<queue, calling, called, queued, gc_collecting, wrapped>>
<1>1. /\ slots \in [Indices -> Slots] /\ Occupied \subseteq Indices
      /\ \A i \in Occupied : slots[i].object \in LiveObjects /\ slots[i] \in Slots
  BY HandleFacts, LenProperties, ObjectTyped DEF Sound, Shape, Occupied
<1>2. ASSUME NEW k \in Occupied, NEW p, slots' = [slots EXCEPT ![k] = [slots[k] EXCEPT !.object = p]]
      PROVE  slots'[k].object = p /\ \A i \in Occupied : i # k => slots'[i] = slots[i]
  <2>1. slots'[k] = [slots[k] EXCEPT !.object = p] /\ \A i \in Occupied : i # k => slots'[i] = slots[i]
    BY <1>1, <1>2
  <2> QED BY <1>1, <2>1 DEF Slots
<1>3. ASSUME NEW k \in Occupied, NEW p, slots' = [slots EXCEPT ![k] = [slots[k] EXCEPT !.object = p]],
             SameRegistration(slots[k].object, p),
             UNCHANGED <<next_finalizer_order, queue, calling, called, queued, gc_collecting, wrapped>>
      PROVE  Fine(k)
  <2>1. SameRegistration(slots[k].object, slots'[k].object)
    BY <1>2, <1>3
  <2>2. \A i \in Occupied : i # k => SameRegistration(slots[i].object, slots'[i].object)
    BY <1>2, <1>3 DEF SameRegistration
  <2> HIDE DEF SameRegistration
  <2> QED BY <1>3, <2>1, <2>2
<1>4. ASSUME NEW h \in roots, NEW value, SetReference(h, value) PROVE Fine(h.index)
  <2> DEFINE p == [slots[h.index].object EXCEPT !.refs = {value} \ {Nil}]
  <2>1. h.index \in Occupied /\ slots[h.index].object \in LiveObjects
    BY HeldFacts
  <2>2. SameRegistration(slots[h.index].object, p)
    BY <2>1 DEF SameRegistration, LiveObjects
  <2>3. slots' = [slots EXCEPT ![h.index] = [slots[h.index] EXCEPT !.object = p]]
    BY <1>4 DEF SetReference
  <2> HIDE DEF p, Fine
  <2> QED BY <1>3, <1>4, <2>1, <2>2, <2>3 DEF SetReference, batchVars, arenaHistory
<1>5. ASSUME NEW h \in roots, NEW key, NEW value, TableSet(h, key, value) PROVE Fine(h.index)
  <2> DEFINE e == slots[h.index].object.entries
             f == IF value = Nil THEN [k \in DOMAIN e \ {key} |-> e[k]]
                  ELSE [k \in DOMAIN e \cup {key} |-> IF k = key THEN value ELSE e[k]]
             p == [slots[h.index].object EXCEPT !.entries = f]
  <2>1. h.index \in Occupied /\ slots[h.index].object \in LiveObjects
    BY HeldFacts
  <2>2. slots' = [slots EXCEPT ![h.index] = [slots[h.index] EXCEPT !.object = p]]
    BY <1>5 DEF TableSet
  <2> HIDE DEF f
  <2>3. SameRegistration(slots[h.index].object, p)
    BY <2>1 DEF SameRegistration, LiveObjects
  <2> HIDE DEF p, Fine
  <2> QED BY <1>3, <1>5, <2>1, <2>2, <2>3 DEF TableSet, batchVars, arenaHistory
<1>6. ASSUME NEW h \in roots, NEW mode, SetMode(h, mode) PROVE Fine(h.index)
  <2> DEFINE p == [slots[h.index].object EXCEPT !.mode = mode]
  <2>1. h.index \in Occupied /\ slots[h.index].object \in LiveObjects
    BY HeldFacts
  <2>2. SameRegistration(slots[h.index].object, p)
    BY <2>1 DEF SameRegistration, LiveObjects
  <2>3. slots' = [slots EXCEPT ![h.index] = [slots[h.index] EXCEPT !.object = p]]
    BY <1>6 DEF SetMode
  <2> HIDE DEF p, Fine
  <2> QED BY <1>3, <1>6, <2>1, <2>2, <2>3 DEF SetMode, batchVars, arenaHistory
<1>7. ASSUME NEW h \in roots, NEW metatable, NEW profile \in Profiles, SetMetatable(h, metatable, profile)
      PROVE  Fine(h.index)
  <2> DEFINE k == h.index
             o == slots[k].object
             p == WithMetatable(o, metatable, profile)
  <2>1. k \in Occupied /\ o \in LiveObjects /\ Object(h) = o
    BY HeldFacts
  <2>2. slots' = [slots EXCEPT ![k] = [slots[k] EXCEPT !.object = p]]
    BY <1>7, <2>1 DEF SetMetatable
  <2>3. /\ p.kind = o.kind /\ p.done = (o.done /\ profile = "Lua52")
        /\ p.armed => p.order = next_finalizer_order /\ p.profile = profile
    BY <2>1 DEF WithMetatable, LiveObjects
  <2>4. /\ next_finalizer_order' = next_finalizer_order + (IF p.armed THEN 1 ELSE 0)
        /\ UNCHANGED <<queue, calling, called, queued, gc_collecting, wrapped>>
    BY <1>7, <2>1 DEF SetMetatable, batchVars, arenaHistory
  <2>5. next_finalizer_order \in 0 .. MaxOrder /\ MaxOrder \in Nat /\ o.done \in BOOLEAN
    BY <2>1, HeapAssumption DEF Sound, Shape, LiveObjects
  <2> HIDE DEF o, p, k
  <2>6. slots'[k].object = p /\ \A i \in Occupied : i # k => slots'[i] = slots[i]
    BY <1>2, <2>1, <2>2
  <2>7. \A i \in Occupied : i # k => SameRegistration(slots[i].object, slots'[i].object)
    BY <2>6 DEF SameRegistration
  <2>8. Profiles = {"Lua52"} => p.done = o.done
    BY <2>3, <2>5
  <2>9. next_finalizer_order' \in {next_finalizer_order, next_finalizer_order + 1}
    BY <2>4, <2>5
  <2>10. p.armed => next_finalizer_order' = next_finalizer_order + 1
    BY <2>4
  <2> QED BY <2>3, <2>4, <2>6, <2>7, <2>8, <2>9, <2>10 DEF k, o
<1> HIDE DEF Fine
<1>8. \E k : Fine(k)
  BY <1>4, <1>5, <1>6, <1>7 DEF Write
<1> QED BY <1>8 DEF Fine

(* The orders of registrations.  No two that are still to be found share   *)
(* one; one that was picked or called is below the counter and never found *)
(* again; a batch is in descending order.                                  *)
IsWaiting(i) == slots[i].object.armed /\ ~slots[i].object.done
Order(i) == slots[i].object.order

Orders ==
    /\ \A i \in Occupied : slots[i].object.armed => Order(i) < next_finalizer_order
    /\ \A i, j \in Occupied : IsWaiting(i) /\ IsWaiting(j) /\ Order(i) = Order(j) => i = j
    /\ \A i \in Occupied : IsWaiting(i) =>
         /\ \A n \in 1 .. Len(queue) : queue[n].order # Order(i)
         /\ \A c \in called : c.order # Order(i)
    /\ \A m, n \in 1 .. Len(queue) : m < n => queue[m].order > queue[n].order
    /\ \A n \in 1 .. Len(queue) :
         /\ queue[n].order < next_finalizer_order
         /\ \A c \in called : c.order # queue[n].order
         /\ calling # NoFinalizer => calling.order > queue[n].order
    /\ \A c \in called : c.order \in Nat /\ c.order < next_finalizer_order

(* Steps of the program: registrations stay or are new.                    *)
LEMMA OrdersStay ==
    ASSUME Sound, Sound', Orders, NEW k,
           \A i \in Occupied' : slots'[i].object.armed =>
             \/ /\ i \in Occupied /\ slots[i].object.armed /\ slots'[i].object.order = slots[i].object.order
                /\ slots[i].object.done => slots'[i].object.done
             \/ /\ i = k /\ slots'[i].object.order = next_finalizer_order
                /\ next_finalizer_order' = next_finalizer_order + 1,
           next_finalizer_order' \in {next_finalizer_order, next_finalizer_order + 1},
           UNCHANGED <<queue, calling, called>>
    PROVE  Orders'
<1>1. /\ next_finalizer_order \in Nat /\ next_finalizer_order' \in Nat
      /\ next_finalizer_order <= next_finalizer_order'
  BY HeapAssumption DEF Sound, Shape
<1>2. \A i \in Occupied : Order(i) \in Nat
  <2>1. \A i \in Occupied : slots[i].object \in LiveObjects
    BY HandleFacts, ObjectTyped DEF Sound, Shape, Occupied
  <2>2. \A o \in LiveObjects : o.order \in Nat
    BY HeapAssumption DEF LiveObjects
  <2> HIDE DEF LiveObjects
  <2> QED BY <2>1, <2>2 DEF Order
<1>3. /\ queue \in Seq(Registrations) /\ Len(queue) \in Nat
      /\ \A n \in 1 .. Len(queue) : queue[n].order \in Nat
  <2>1. queue \in Seq(Registrations) /\ Len(queue) \in Nat
    BY LenProperties DEF Sound, Shape
  <2>2. \A n \in 1 .. Len(queue) : queue[n] \in Registrations
    BY <2>1, ElementOfSeq
  <2> QED BY <2>1, <2>2, HeapAssumption DEF Registrations
<1>4. \A i \in Occupied' : slots'[i].object.armed =>
        \/ i \in Occupied /\ slots[i].object.armed /\ Order(i)' = Order(i)
           /\ (IsWaiting(i)' => IsWaiting(i))
        \/ i = k /\ Order(i)' = next_finalizer_order /\ next_finalizer_order' = next_finalizer_order + 1
  BY DEF Order, IsWaiting
<1>5. \A i \in Occupied' : IsWaiting(i)' => slots'[i].object.armed
  BY DEF IsWaiting
<1>6. \A i \in Occupied' : slots'[i].object.armed => Order(i)' < next_finalizer_order'
  <2> SUFFICES ASSUME NEW i \in Occupied', slots'[i].object.armed
               PROVE  Order(i)' < next_finalizer_order'
    OBVIOUS
  <2>1. CASE i \in Occupied /\ slots[i].object.armed /\ Order(i)' = Order(i)
    <3>1. Order(i) < next_finalizer_order
      BY <2>1 DEF Orders
    <3> QED BY <1>1, <1>2, <2>1, <3>1
  <2>2. CASE Order(i)' = next_finalizer_order /\ next_finalizer_order' = next_finalizer_order + 1
    BY <1>1, <2>2
  <2> QED BY <1>4, <2>1, <2>2
<1>7. \A i \in Occupied' : IsWaiting(i)' =>
        \/ i \in Occupied /\ IsWaiting(i) /\ Order(i)' = Order(i) /\ Order(i) < next_finalizer_order
        \/ i = k /\ Order(i)' = next_finalizer_order
  BY <1>4, <1>5 DEF Orders
<1>8. \A i, j \in Occupied' : IsWaiting(i)' /\ IsWaiting(j)' /\ Order(i)' = Order(j)' => i = j
  <2> SUFFICES ASSUME NEW i \in Occupied', NEW j \in Occupied',
                      IsWaiting(i)', IsWaiting(j)', Order(i)' = Order(j)', i # j
               PROVE  FALSE
    OBVIOUS
  <2>1. CASE i \in Occupied /\ IsWaiting(i) /\ Order(i)' = Order(i) /\ Order(i) < next_finalizer_order
    <3>1. CASE j \in Occupied /\ IsWaiting(j) /\ Order(j)' = Order(j)
      BY <2>1, <3>1 DEF Orders
    <3>2. CASE Order(j)' = next_finalizer_order
      <4>1. Order(i) = next_finalizer_order
        BY <2>1, <3>2
      <4>2. Order(i) \in Nat /\ Order(i) < next_finalizer_order
        BY <1>2, <2>1
      <4> QED BY <1>1, <4>1, <4>2
    <3> QED BY <1>7, <3>1, <3>2
  <2>2. CASE i = k /\ Order(i)' = next_finalizer_order
    <3>1. j \in Occupied /\ Order(j)' = Order(j) /\ Order(j) < next_finalizer_order
      BY <1>7, <2>2
    <3> QED BY <1>1, <1>2, <2>2, <3>1
  <2> QED BY <1>7, <2>1, <2>2
<1>9. \A i \in Occupied' : IsWaiting(i)' =>
         /\ \A n \in 1 .. Len(queue) : queue[n].order # Order(i)'
         /\ \A c \in called : c.order # Order(i)'
  <2> SUFFICES ASSUME NEW i \in Occupied', IsWaiting(i)'
               PROVE  /\ \A n \in 1 .. Len(queue) : queue[n].order # Order(i)'
                      /\ \A c \in called : c.order # Order(i)'
    OBVIOUS
  <2>1. CASE i \in Occupied /\ IsWaiting(i) /\ Order(i)' = Order(i)
    BY <2>1 DEF Orders
  <2>2. CASE Order(i)' = next_finalizer_order
    <3>1. \A n \in 1 .. Len(queue) : queue[n].order < next_finalizer_order
      BY DEF Orders
    <3>2. \A c \in called : c.order \in Nat /\ c.order < next_finalizer_order
      BY DEF Orders
    <3> QED BY <1>1, <1>3, <2>2, <3>1, <3>2
  <2> QED BY <1>7, <2>1, <2>2
<1>10. \A n \in 1 .. Len(queue) : queue[n].order < next_finalizer_order'
  <2>1. \A n \in 1 .. Len(queue) : queue[n].order < next_finalizer_order
    BY DEF Orders
  <2> QED BY <1>1, <1>3, <2>1
<1>11. \A c \in called : c.order \in Nat /\ c.order < next_finalizer_order'
  <2>1. \A c \in called : c.order \in Nat /\ c.order < next_finalizer_order
    BY DEF Orders
  <2> QED BY <1>1, <2>1
<1>12. queue' = queue /\ called' = called /\ calling' = calling
  OBVIOUS
<1> QED BY <1>6, <1>8, <1>9, <1>10, <1>11, <1>12 DEF Orders

LEMMA AllocateOrders ==
    ASSUME Sound, Sound', Orders, NEW kind \in Kinds, Allocate(kind, {})
    PROVE  Orders'
<1>1. \E i : /\ Occupied' = Occupied \cup {i}
             /\ \A j \in Occupied : slots'[j] = slots[j]
             /\ ~slots'[i].object.armed
  BY AllocateFacts, NewObjectFacts
<1>2. /\ \A i \in Occupied' : slots'[i].object.armed => i \in Occupied /\ slots'[i] = slots[i]
      /\ UNCHANGED <<queue, calling, called, next_finalizer_order>>
  BY <1>1 DEF Allocate, batchVars
<1> QED BY <1>2, OrdersStay

LEMMA WriteOrders ==
    ASSUME Sound, Sound', Orders, Write
    PROVE  Orders'
<1> PICK k :
      /\ \A i \in Occupied :
           \/ SameRegistration(slots[i].object, slots'[i].object)
           \/ /\ i = k /\ slots'[i].object.kind = slots[i].object.kind
              /\ Profiles = {"Lua52"} => slots'[i].object.done = slots[i].object.done
              /\ slots'[i].object.armed =>
                   /\ slots'[i].object.order = next_finalizer_order
                   /\ next_finalizer_order' = next_finalizer_order + 1
      /\ next_finalizer_order' \in {next_finalizer_order, next_finalizer_order + 1}
      /\ UNCHANGED <<queue, calling, called, queued, gc_collecting, wrapped>>
  BY WriteRegistrations
<1>1. Occupied' = Occupied
  BY WriteKeepsSound
<1> QED BY <1>1, OrdersStay DEF SameRegistration

(* A collection: what it finds is marked done and leaves the waiting ones. *)
LEMMA CollectOrders ==
    ASSUME Sound, Orders, Collect
    PROVE  Orders'
<1> DEFINE fs == finalizersNow
<1>1. /\ keptNow \in SUBSET Occupied /\ targetsNow \subseteq keptNow /\ Occupied' = keptNow
      /\ \A i \in keptNow :
            slots'[i].object = SweptObject(slots[i].object, keptNow, i \in targetsNow)
  BY CollectFacts
<1>2. /\ queue' = fs /\ calling = NoFinalizer
      /\ UNCHANGED <<next_finalizer_order, calling, called>>
  BY CollectMeans DEF Sound, Shape
<1>3. /\ fs \in Seq(Found(reachedNow))
      /\ \A j, n \in 1 .. Len(fs) : j < n => fs[j].order > fs[n].order
  BY FinalizersFacts DEF finalizersNow
<1> HIDE DEF fs
<1>4. \A n \in 1 .. Len(fs) :
        \E i \in Occupied : IsWaiting(i) /\ fs[n].order = Order(i) /\ i \in targetsNow
  <2> SUFFICES ASSUME NEW n \in 1 .. Len(fs)
               PROVE  \E i \in Occupied : IsWaiting(i) /\ fs[n].order = Order(i) /\ i \in targetsNow
    OBVIOUS
  <2>1. fs[n] \in Found(reachedNow)
    BY <1>3, ElementOfSeq
  <2>2. PICK i \in Occupied \ reachedNow :
           fs[n].target = Handle(i) /\ IsDue(slots[i].object) /\ fs[n].order = slots[i].object.order
    BY <2>1, FoundFacts
  <2>3. fs[n].target \in Targets(fs)
    BY <1>3, LenProperties DEF Targets, ToSet
  <2>4. Resolves(Handle(i)) /\ Handle(i).index = i
    BY HandleFacts DEF Sound, Occupied
  <2>5. i \in targetsNow
    BY <2>2, <2>3, <2>4 DEF targetsNow, IndicesOf, fs
  <2> QED BY <2>2, <2>5 DEF IsDue, IsWaiting, Order
<1>5. \A i \in keptNow :
        /\ slots'[i].object.armed = slots[i].object.armed /\ Order(i)' = Order(i)
        /\ IsWaiting(i)' => IsWaiting(i) /\ i \notin targetsNow
  <2> SUFFICES ASSUME NEW i \in keptNow
               PROVE  /\ slots'[i].object.armed = slots[i].object.armed /\ Order(i)' = Order(i)
                      /\ IsWaiting(i)' => IsWaiting(i) /\ i \notin targetsNow
    OBVIOUS
  <2> DEFINE o == slots[i].object
             p == SweptObject(o, keptNow, i \in targetsNow)
  <2>1. o \in LiveObjects
    BY <1>1, HandleFacts, ObjectTyped DEF Sound, Shape, Occupied
  <2>2. slots'[i].object = p
    BY <1>1
  <2>3. p.armed = o.armed /\ p.order = o.order /\ p.done = (o.done \/ i \in targetsNow)
    BY <2>1 DEF SweptObject, LiveObjects
  <2> HIDE DEF p
  <2> QED BY <2>2, <2>3 DEF IsWaiting, Order
<1>6. \A i \in Occupied' : slots'[i].object.armed => Order(i)' < next_finalizer_order
  BY <1>1, <1>5 DEF Orders
<1>7. \A i, j \in Occupied' : IsWaiting(i)' /\ IsWaiting(j)' /\ Order(i)' = Order(j)' => i = j
  BY <1>1, <1>5 DEF Orders
<1>8. \A i \in Occupied' : IsWaiting(i)' =>
         /\ \A n \in 1 .. Len(fs) : fs[n].order # Order(i)'
         /\ \A c \in called : c.order # Order(i)'
  <2> SUFFICES ASSUME NEW i \in Occupied', IsWaiting(i)'
               PROVE  /\ \A n \in 1 .. Len(fs) : fs[n].order # Order(i)'
                      /\ \A c \in called : c.order # Order(i)'
    OBVIOUS
  <2>1. i \in Occupied /\ IsWaiting(i) /\ i \notin targetsNow /\ Order(i)' = Order(i)
    BY <1>1, <1>5
  <2>2. \A j \in Occupied : IsWaiting(j) /\ Order(j) = Order(i) => j = i
    BY <2>1 DEF Orders
  <2>3. \A n \in 1 .. Len(fs) : fs[n].order # Order(i)
    BY <1>4, <2>1, <2>2
  <2> QED BY <2>1, <2>3 DEF Orders
<1>9. \A n \in 1 .. Len(fs) :
         /\ fs[n].order < next_finalizer_order
         /\ \A c \in called : c.order # fs[n].order
  BY <1>4 DEF Orders, IsWaiting
<1>10. \A c \in called : c.order \in Nat /\ c.order < next_finalizer_order
  BY DEF Orders
<1> QED BY <1>2, <1>3, <1>6, <1>7, <1>8, <1>9, <1>10 DEF Orders

LEMMA CallFinalizerOrders ==
    ASSUME Sound, Orders, CallFinalizer
    PROVE  Orders' /\ \A c \in called : c.order # calling'.order
<1>1. /\ queue # <<>> /\ calling' = Head(queue) /\ queue' = Tail(queue)
      /\ UNCHANGED <<slots, next_finalizer_order>>
      /\ called' \subseteq called \cup {[order |-> Head(queue).order, target |-> Head(queue).target]}
  BY DEF CallFinalizer, heapVars
<1>2. /\ Head(queue) = queue[1] /\ 1 \in 1 .. Len(queue) /\ Len(queue) \in Nat
      /\ queue[1].order \in Nat /\ Len(queue') = Len(queue) - 1
      /\ \A n \in 1 .. Len(queue') : queue'[n] = queue[n + 1] /\ n + 1 \in 1 .. Len(queue)
  BY <1>1, TailFacts, HeapAssumption DEF Registrations
<1>3. /\ \A c \in called' : c \in called \/ c.order = queue[1].order
      /\ calling' = queue[1]
  BY <1>1, <1>2
<1>4. /\ Occupied' = Occupied
      /\ \A i : Order(i)' = Order(i) /\ IsWaiting(i)' = IsWaiting(i)
  BY <1>1 DEF Order, IsWaiting, Occupied, Indices
<1>5. \A n \in 1 .. Len(queue') : queue[1].order > queue'[n].order
  <2> SUFFICES ASSUME NEW n \in 1 .. Len(queue') PROVE queue[1].order > queue[n + 1].order
    BY <1>2
  <2>1. n + 1 \in 1 .. Len(queue) /\ 1 < n + 1
    BY <1>2
  <2> QED BY <1>2, <2>1 DEF Orders
<1>6. \A m, n \in 1 .. Len(queue') : m < n => queue'[m].order > queue'[n].order
  <2> SUFFICES ASSUME NEW m \in 1 .. Len(queue'), NEW n \in 1 .. Len(queue'), m < n
               PROVE  queue[m + 1].order > queue[n + 1].order
    BY <1>2
  <2>1. m + 1 \in 1 .. Len(queue) /\ n + 1 \in 1 .. Len(queue) /\ m + 1 < n + 1
    BY <1>2
  <2> QED BY <2>1 DEF Orders
<1>7. \A n \in 1 .. Len(queue') :
         /\ queue'[n].order < next_finalizer_order'
         /\ \A c \in called' : c.order # queue'[n].order
         /\ calling' # NoFinalizer => calling'.order > queue'[n].order
  <2> SUFFICES ASSUME NEW n \in 1 .. Len(queue')
               PROVE  /\ queue'[n].order < next_finalizer_order
                      /\ \A c \in called' : c.order # queue'[n].order
                      /\ calling'.order > queue'[n].order
    BY <1>1
  <2>1. queue'[n] = queue[n + 1] /\ n + 1 \in 1 .. Len(queue)
    BY <1>2
  <2>2. queue[n + 1].order < next_finalizer_order /\ \A c \in called : c.order # queue[n + 1].order
    BY <2>1 DEF Orders
  <2>3. queue[n + 1].order \in Nat
    <3>1. queue[n + 1] \in Registrations
      BY <2>1, ElementOfSeq DEF Sound, Shape
    <3> QED BY <3>1, HeapAssumption DEF Registrations
  <2>4. queue[1].order > queue[n + 1].order
    BY <1>5, <2>1
  <2>5. queue[1].order # queue[n + 1].order
    BY <1>2, <2>3, <2>4
  <2> QED BY <1>3, <2>1, <2>2, <2>4, <2>5
<1>8. \A i \in Occupied : IsWaiting(i) =>
         /\ \A n \in 1 .. Len(queue') : queue'[n].order # Order(i)
         /\ \A c \in called' : c.order # Order(i)
  <2> SUFFICES ASSUME NEW i \in Occupied, IsWaiting(i)
               PROVE  /\ \A n \in 1 .. Len(queue') : queue'[n].order # Order(i)
                      /\ \A c \in called' : c.order # Order(i)
    OBVIOUS
  <2>1. /\ \A n \in 1 .. Len(queue) : queue[n].order # Order(i)
        /\ \A c \in called : c.order # Order(i)
    BY DEF Orders
  <2> QED BY <1>2, <1>3, <2>1
<1>9. \A c \in called' : c.order \in Nat /\ c.order < next_finalizer_order'
  <2>1. queue[1].order < next_finalizer_order /\ \A c \in called : c.order \in Nat /\ c.order < next_finalizer_order
    BY <1>2 DEF Orders
  <2> QED BY <1>1, <1>2, <1>3, <2>1
<1>10. \A c \in called : c.order # calling'.order
  BY <1>2, <1>3 DEF Orders
<1>11. Orders'
  <2>1. \A i \in Occupied' : slots'[i].object.armed => Order(i)' < next_finalizer_order'
    BY <1>1, <1>4 DEF Orders
  <2>2. \A i, j \in Occupied' : IsWaiting(i)' /\ IsWaiting(j)' /\ Order(i)' = Order(j)' => i = j
    BY <1>4 DEF Orders
  <2>3. \A i \in Occupied' : IsWaiting(i)' =>
         /\ \A n \in 1 .. Len(queue') : queue'[n].order # Order(i)'
         /\ \A c \in called' : c.order # Order(i)'
    BY <1>4, <1>8
  <2> QED BY <1>6, <1>7, <1>9, <2>1, <2>2, <2>3 DEF Orders
<1> QED BY <1>10, <1>11

LEMMA ResumeOrders ==
    ASSUME Orders, NEW rest \in {queue, <<>>}, Resume(rest),
           UNCHANGED <<slots, next_finalizer_order, called>>
    PROVE  Orders'
<1>1. queue' = rest /\ calling' = NoFinalizer
  BY DEF Resume
<1>2. /\ Occupied' = Occupied
      /\ \A i : Order(i)' = Order(i) /\ IsWaiting(i)' = IsWaiting(i)
  BY DEF Order, IsWaiting, Occupied, Indices
<1>3. CASE rest = queue
  <2>1. queue' = queue
    BY <1>1, <1>3
  <2> QED BY <1>1, <1>2, <2>1 DEF Orders
<1>4. CASE rest = <<>>
  <2>1. 1 .. Len(queue') = {}
    BY <1>1, <1>4, EmptySeq
  <2> QED BY <1>1, <1>2, <2>1 DEF Orders
<1> QED BY <1>3, <1>4

LEMMA OrdersInvariant ==
    /\ Init => Orders
    /\ Sound /\ Sound' /\ Orders /\ [Next]_vars => Orders'
<1>1. Init => Orders
  <2> SUFFICES ASSUME Init PROVE Orders
    OBVIOUS
  <2>1. 1 .. Len(queue) = {} /\ Occupied = {} /\ called = {}
    BY EmptySeq DEF Init, Occupied, Indices
  <2> QED BY <2>1 DEF Orders
<1>2. ASSUME Sound, Sound', Orders, [Next]_vars PROVE Orders'
  <2>1. ASSUME NEW kind \in Kinds, Allocate(kind, {}) PROVE Orders'
    BY <1>2, <2>1, AllocateOrders
  <2>2. CASE Write
    BY <1>2, <2>2, WriteOrders
  <2>3. CASE Collect
    BY <1>2, <2>3, CollectOrders
  <2>4. CASE CallFinalizer
    BY <1>2, <2>4, CallFinalizerOrders
  <2>5. CASE FinalizerReturns
    BY <1>2, <2>5, ResumeOrders DEF FinalizerReturns, heapVars
  <2>6. CASE FinalizerFails
    BY <1>2, <2>6, ResumeOrders DEF FinalizerFails, AfterError, heapVars
  <2>7. ASSUME UNCHANGED <<slots, next_finalizer_order, queue, calling, called>> PROVE Orders'
    <3>1. \A i \in Occupied' : i \in Occupied /\ slots'[i] = slots[i]
      BY <2>7 DEF Occupied, Indices
    <3> QED BY <1>2, <2>7, <3>1, OrdersStay
  <2>8. CASE \/ \E h \in roots, value \in Values : Load(h, value)
             \/ \E h \in roots : Forget(h)
             \/ UNCHANGED vars
    BY <2>7, <2>8 DEF Load, Forget, vars, heapVars, batchVars
  <2> QED BY <1>2, <2>1, <2>2, <2>3, <2>4, <2>5, <2>6, <2>8 DEF Next
<1> QED BY <1>1, <1>2

(* The finalizers of one collection run in reverse registration order,     *)
(* whatever the callbacks register meanwhile.                              *)
THEOREM BatchesRunInReverse == Spec => []ReverseOrder
<1>1. Sound /\ Orders => ReverseOrder
  <2> SUFFICES ASSUME Sound, Orders PROVE ReverseOrder
    OBVIOUS
  <2>1. Len(queue) \in Nat
    BY LenProperties DEF Sound, Shape
  <2> SUFFICES ASSUME NEW j \in 1 .. Len(queue)
               PROVE  /\ calling # NoFinalizer => calling.order > queue[j].order
                      /\ j < Len(queue) => queue[j].order > queue[j + 1].order
    BY DEF ReverseOrder
  <2>2. j < Len(queue) => j + 1 \in 1 .. Len(queue) /\ j < j + 1
    BY <2>1
  <2> QED BY <2>2 DEF Orders
<1> QED BY <1>1, InitSound, NextSound, OrdersInvariant, PTL DEF Spec

-----------------------------------------------------------------------------
(* Lua 5.2: an object, not only a registration, is finalized once.  What   *)
(* was picked is done for as long as it has its slot; a handle is told     *)
(* from the handles of later objects in the slot by its generation.        *)
Past(t) ==
    /\ t.index \in Indices /\ t.generation \in Nat
    /\ t.generation <= slots[t.index].generation
    /\ t.generation = slots[t.index].generation => t.index \in Occupied /\ slots[t.index].object.done

PickedOnce ==
    /\ \A c \in called : Past(c.target)
    /\ \A n \in 1 .. Len(queue) : Past(queue[n].target)
    /\ \A m, n \in 1 .. Len(queue) : queue[m].target = queue[n].target => m = n
    /\ \A n \in 1 .. Len(queue) : \A c \in called : c.target # queue[n].target

(* Every slot keeps its object and its done mark, or gets a later one.     *)
SlotsAge ==
    \A i \in Indices :
       /\ i \in Indices'
       /\ \/ slots'[i].generation > slots[i].generation
          \/ /\ slots'[i].generation = slots[i].generation
             /\ i \in Occupied => /\ i \in Occupied'
                                  /\ slots[i].object.done => slots'[i].object.done

LEMMA PastStays ==
    ASSUME Sound, Sound', SlotsAge
    PROVE  \A t : Past(t) => Past(t)'
<1> SUFFICES ASSUME NEW t, Past(t) PROVE Past(t)'
  OBVIOUS
<1> DEFINE i == t.index
<1>1. /\ i \in Indices /\ t.generation \in Nat /\ t.generation <= slots[i].generation
      /\ t.generation = slots[i].generation => i \in Occupied /\ slots[i].object.done
  BY DEF Past
<1>2. i \in Indices'
  BY <1>1 DEF SlotsAge
<1>3. slots[i].generation \in Nat /\ slots'[i].generation \in Nat
  <2>1. slots[i].generation \in 0 .. GenerationModulus - 1
    BY <1>1, ObjectTyped DEF Sound, Shape, Indices
  <2>2. slots'[i].generation \in 0 .. GenerationModulus - 1
    BY <1>2, ObjectTyped DEF Sound, Shape, Indices
  <2> QED BY <2>1, <2>2, HeapAssumption
<1>4. CASE slots'[i].generation > slots[i].generation
  BY <1>1, <1>2, <1>3, <1>4 DEF Past
<1>5. CASE /\ slots'[i].generation = slots[i].generation
           /\ i \in Occupied => i \in Occupied' /\ (slots[i].object.done => slots'[i].object.done)
  BY <1>1, <1>2, <1>3, <1>5 DEF Past
<1> QED BY <1>1, <1>4, <1>5 DEF SlotsAge

LEMMA NextAges ==
    ASSUME Sound, Sound', [Next]_vars, Profiles = {"Lua52"}, wrapped' = {}
    PROVE  SlotsAge
<1>1. ASSUME NEW kind \in Kinds, Allocate(kind, {}) PROVE SlotsAge
  <2>1. /\ Occupied \subseteq Occupied' /\ \A j \in Occupied : slots'[j] = slots[j]
        /\ \A j \in Indices : slots'[j].generation = slots[j].generation
        /\ Len(slots') = Len(slots) + 1 \/ Len(slots') = Len(slots)
    BY <1>1, AllocateFacts
  <2>2. Len(slots) \in Nat
    BY HandleFacts DEF Sound
  <2>3. \A i \in Indices : i \in Indices'
    BY <2>1, <2>2 DEF Indices
  <2> QED BY <2>1, <2>3 DEF SlotsAge
<1>2. CASE Write
  <2>1. /\ Occupied' = Occupied /\ Indices' = Indices
        /\ \A i \in Indices : slots'[i].generation = slots[i].generation
    BY <1>2, WriteKeepsSound, WriteKeepsSlots
  <2>2. \A i \in Occupied : slots'[i].object.done = slots[i].object.done
    BY <1>2, WriteRegistrations DEF SameRegistration
  <2> QED BY <2>1, <2>2 DEF SlotsAge
<1>3. CASE Collect
  <2>1. /\ Indices' = Indices /\ Occupied' = keptNow /\ keptNow \in SUBSET Occupied
        /\ \A i \in keptNow :
             /\ slots'[i].generation = slots[i].generation
             /\ slots'[i].object = SweptObject(slots[i].object, keptNow, i \in targetsNow)
        /\ \A i \in Occupied \ keptNow :
             slots'[i].generation = (slots[i].generation + 1) % GenerationModulus
        /\ \A i \in Indices \ Occupied : slots'[i] = slots[i]
    BY <1>3, CollectFacts
  <2>2. \A i \in Occupied \ keptNow : slots[i].generation # GenerationModulus - 1
    BY <1>3, CollectMeans DEF Sweep
  <2>3. \A i \in Indices : slots[i].generation \in 0 .. GenerationModulus - 1
    BY ObjectTyped DEF Sound, Shape, Indices
  <2>4. \A i \in Occupied : slots[i].object \in LiveObjects /\ i \in Indices
    BY HandleFacts, ObjectTyped DEF Sound, Shape, Occupied
  <2>5. ASSUME NEW i \in Occupied \ keptNow PROVE slots'[i].generation > slots[i].generation
    <3>1. slots[i].generation \in 0 .. GenerationModulus - 2
      BY <2>2, <2>3, <2>4, HeapAssumption
    <3>2. (slots[i].generation + 1) % GenerationModulus = slots[i].generation + 1
      BY <3>1, HeapAssumption
    <3> QED BY <2>1, <3>1, <3>2, HeapAssumption
  <2>6. ASSUME NEW i \in keptNow PROVE slots[i].object.done => slots'[i].object.done
    <3> DEFINE o == slots[i].object
    <3>1. o \in LiveObjects
      BY <2>1, <2>4
    <3>2. SweptObject(o, keptNow, i \in targetsNow).done = (o.done \/ i \in targetsNow)
      BY <3>1 DEF SweptObject, LiveObjects
    <3> QED BY <2>1, <3>2
  <2> QED BY <2>1, <2>5, <2>6 DEF SlotsAge
<1>4. ASSUME UNCHANGED slots PROVE SlotsAge
  BY <1>4 DEF SlotsAge, Indices, Occupied
<1> QED BY <1>1, <1>2, <1>3, <1>4 DEF Next, Load, Forget, CallFinalizer, FinalizerReturns,
                                      FinalizerFails, vars, heapVars

LEMMA CollectPicksOnce ==
    ASSUME Sound, Sound', Orders, PickedOnce, Collect, \A t : Past(t) => Past(t)'
    PROVE  PickedOnce'
<1> DEFINE fs == finalizersNow
<1>1. /\ keptNow \in SUBSET Occupied /\ targetsNow \subseteq keptNow /\ Occupied' = keptNow
      /\ Indices' = Indices
      /\ \A i \in keptNow :
            /\ slots'[i].generation = slots[i].generation
            /\ slots'[i].object = SweptObject(slots[i].object, keptNow, i \in targetsNow)
  BY CollectFacts
<1>2. queue' = fs /\ called' = called
  BY CollectMeans
<1>3. /\ fs \in Seq(Found(reachedNow)) /\ Len(fs) \in Nat
      /\ \A j, n \in 1 .. Len(fs) : j < n => fs[j].order > fs[n].order
      /\ \A n \in 1 .. Len(fs) : fs[n].order \in Nat
  <2>1. /\ fs \in Seq(Found(reachedNow)) /\ fs \in Seq(Registrations)
        /\ \A j, n \in 1 .. Len(fs) : j < n => fs[j].order > fs[n].order
    BY FinalizersFacts DEF finalizersNow
  <2>2. \A n \in 1 .. Len(fs) : fs[n] \in Registrations
    BY <2>1, ElementOfSeq
  <2> HIDE DEF fs
  <2> QED BY <2>1, <2>2, LenProperties, HeapAssumption DEF Registrations
<1> HIDE DEF fs
<1>4. ASSUME NEW n \in 1 .. Len(fs)
      PROVE  \E i \in Occupied : /\ fs[n].target = Handle(i) /\ Handle(i).index = i
                                 /\ Handle(i).generation = slots[i].generation
                                 /\ IsWaiting(i) /\ fs[n].order = Order(i) /\ i \in targetsNow
  <2>1. fs[n] \in Found(reachedNow)
    BY <1>3, ElementOfSeq
  <2>2. PICK i \in Occupied \ reachedNow :
           fs[n].target = Handle(i) /\ IsDue(slots[i].object) /\ fs[n].order = slots[i].object.order
    BY <2>1, FoundFacts
  <2>3. fs[n].target \in Targets(fs)
    BY <1>3, LenProperties DEF Targets, ToSet
  <2>4. Resolves(Handle(i)) /\ Handle(i).index = i /\ Handle(i).generation = slots[i].generation
    BY HandleFacts DEF Sound, Occupied, Handle
  <2>5. i \in targetsNow
    BY <2>2, <2>3, <2>4 DEF targetsNow, IndicesOf, fs
  <2> QED BY <2>2, <2>4, <2>5 DEF IsDue, IsWaiting, Order
<1>5. \A n \in 1 .. Len(fs) : \A t : t = fs[n].target => Past(t)'
  <2> SUFFICES ASSUME NEW n \in 1 .. Len(fs), NEW t, t = fs[n].target PROVE Past(t)'
    OBVIOUS
  <2>1. PICK i \in Occupied : /\ fs[n].target = Handle(i) /\ Handle(i).index = i
                              /\ Handle(i).generation = slots[i].generation
                              /\ IsWaiting(i) /\ fs[n].order = Order(i) /\ i \in targetsNow
    BY <1>4
  <2> DEFINE o == slots[i].object
  <2>2. o \in LiveObjects /\ i \in Indices /\ slots[i].generation \in 0 .. GenerationModulus - 1
    BY HandleFacts, ObjectTyped DEF Sound, Shape, Occupied
  <2>3. SweptObject(o, keptNow, i \in targetsNow).done = (o.done \/ i \in targetsNow)
    BY <2>2 DEF SweptObject, LiveObjects
  <2>4. i \in keptNow /\ slots'[i].object.done
    BY <1>1, <2>1, <2>3
  <2>5. t.index = i /\ t.generation = slots'[i].generation /\ t.generation \in Nat
    BY <1>1, <2>1, <2>2, <2>4, HeapAssumption
  <2> QED BY <1>1, <2>2, <2>4, <2>5 DEF Past
<1>6. \A n \in 1 .. Len(queue') : Past(queue[n].target)'
  BY <1>2, <1>5 DEF Past
<1>7. \A m, n \in 1 .. Len(fs) : fs[m].target = fs[n].target => m = n
  <2> SUFFICES ASSUME NEW m \in 1 .. Len(fs), NEW n \in 1 .. Len(fs), fs[m].target = fs[n].target
               PROVE  m = n
    OBVIOUS
  <2>1. fs[m].order = fs[n].order
    BY <1>4
  <2>2. ~(m < n) /\ ~(n < m)
    BY <1>3, <2>1
  <2> QED BY <1>3, <2>2
<1>8. \A n \in 1 .. Len(fs) : \A c \in called : c.target # fs[n].target
  <2> SUFFICES ASSUME NEW n \in 1 .. Len(fs), NEW c \in called, c.target = fs[n].target PROVE FALSE
    OBVIOUS
  <2>1. PICK i \in Occupied : /\ fs[n].target = Handle(i) /\ Handle(i).index = i
                              /\ Handle(i).generation = slots[i].generation /\ IsWaiting(i)
    BY <1>4
  <2>2. Past(c.target)
    BY DEF PickedOnce
  <2> QED BY <2>1, <2>2 DEF Past, IsWaiting
<1>9. \A c \in called' : Past(c.target)'
  <2>1. \A c \in called : Past(c.target)
    BY DEF PickedOnce
  <2> QED BY <1>2, <2>1
<1> QED BY <1>2, <1>6, <1>7, <1>8, <1>9 DEF PickedOnce

LEMMA CallPicksOnce ==
    ASSUME Sound, PickedOnce, CallFinalizer
    PROVE  PickedOnce' /\ \A c \in called : c.target # calling'.target
<1>1. /\ queue # <<>> /\ calling' = Head(queue) /\ queue' = Tail(queue) /\ slots' = slots
      /\ called' \subseteq called \cup {[order |-> Head(queue).order, target |-> Head(queue).target]}
  BY DEF CallFinalizer, heapVars
<1>2. /\ Head(queue) = queue[1] /\ 1 \in 1 .. Len(queue) /\ Len(queue) \in Nat
      /\ \A n \in 1 .. Len(queue') : queue'[n] = queue[n + 1] /\ n + 1 \in 1 .. Len(queue) /\ n + 1 # 1
  <2>1. /\ Head(queue) = queue[1] /\ 1 \in 1 .. Len(queue) /\ Len(queue) \in Nat
        /\ Len(queue') = Len(queue) - 1
        /\ \A n \in 1 .. Len(queue') : queue'[n] = queue[n + 1] /\ n + 1 \in 1 .. Len(queue)
    BY <1>1, TailFacts
  <2>2. \A n \in 1 .. Len(queue') : n + 1 # 1
    BY <2>1
  <2> QED BY <2>1, <2>2
<1>3. \A c \in called' : c \in called \/ c.target = queue[1].target
  BY <1>1, <1>2
<1>4. \A t : Past(t)' <=> Past(t)
  BY <1>1 DEF Past, Indices, Occupied
<1>5. \A c \in called' : Past(c.target)
  BY <1>2, <1>3 DEF PickedOnce
<1>6. \A c \in called' : Past(c.target)'
  BY <1>4, <1>5
<1>7. \A n \in 1 .. Len(queue') : Past(queue[n].target)'
  <2>1. \A n \in 1 .. Len(queue') : Past(queue'[n].target)
    BY <1>2 DEF PickedOnce
  <2> QED BY <1>1, <2>1 DEF Past, Indices, Occupied
<1>8. \A m, n \in 1 .. Len(queue') : queue'[m].target = queue'[n].target => m = n
  <2> SUFFICES ASSUME NEW m \in 1 .. Len(queue'), NEW n \in 1 .. Len(queue'),
                      queue'[m].target = queue'[n].target
               PROVE  m = n
    OBVIOUS
  <2>1. m + 1 = n + 1
    BY <1>2 DEF PickedOnce
  <2> QED BY <2>1
<1>9. \A n \in 1 .. Len(queue') : \A c \in called' : c.target # queue'[n].target
  BY <1>2, <1>3 DEF PickedOnce
<1>10. \A c \in called : c.target # calling'.target
  BY <1>1, <1>2 DEF PickedOnce
<1> QED BY <1>6, <1>7, <1>8, <1>9, <1>10 DEF PickedOnce

LEMMA PickedOnceInvariant ==
    ASSUME Profiles = {"Lua52"}
    PROVE  /\ Init => PickedOnce
           /\ Sound /\ Sound' /\ Orders /\ PickedOnce /\ [Next]_vars /\ wrapped' = {} => PickedOnce'
<1>1. Init => PickedOnce
  <2> SUFFICES ASSUME Init PROVE PickedOnce
    OBVIOUS
  <2>1. 1 .. Len(queue) = {} /\ called = {}
    BY EmptySeq DEF Init
  <2> QED BY <2>1 DEF PickedOnce
<1>2. ASSUME Sound, Sound', Orders, PickedOnce, [Next]_vars, wrapped' = {} PROVE PickedOnce'
  <2>1. \A t : Past(t) => Past(t)'
    BY <1>2, PastStays, NextAges
  <2>2. ASSUME queue' \in {queue, <<>>}, called' = called PROVE PickedOnce'
    <3>1. \A c \in called' : Past(c.target)'
      <4>1. \A c \in called : Past(c.target)
        BY <1>2 DEF PickedOnce
      <4> QED BY <2>1, <2>2, <4>1
    <3>2. CASE queue' = queue
      <4>1. \A n \in 1 .. Len(queue) : \A t : t = queue[n].target => Past(t)'
        BY <1>2, <2>1 DEF PickedOnce
      <4>2. \A n \in 1 .. Len(queue') : Past(queue[n].target)'
        BY <3>2, <4>1 DEF Past
      <4> QED BY <1>2, <2>2, <3>1, <3>2, <4>2 DEF PickedOnce
    <3>3. CASE queue' = <<>>
      <4>1. 1 .. Len(queue') = {}
        BY <3>3, EmptySeq
      <4> QED BY <3>1, <4>1 DEF PickedOnce
    <3> QED BY <2>2, <3>2, <3>3
  <2>3. CASE Write
    BY <1>2, <2>2, <2>3, WriteRegistrations
  <2>4. CASE Collect
    BY <1>2, <2>1, <2>4, CollectPicksOnce
  <2>5. CASE CallFinalizer
    BY <1>2, <2>5, CallPicksOnce
  <2>6. CASE FinalizerReturns
    BY <2>2, <2>6 DEF FinalizerReturns, Resume
  <2>7. CASE FinalizerFails
    BY <2>2, <2>7 DEF FinalizerFails, Resume, AfterError
  <2>8. CASE \/ \E kind \in Kinds : Allocate(kind, {})
             \/ \E h \in roots, value \in Values : Load(h, value)
             \/ \E h \in roots : Forget(h)
             \/ UNCHANGED vars
    BY <2>2, <2>8 DEF Allocate, Load, Forget, vars, batchVars
  <2> QED BY <1>2, <2>3, <2>4, <2>5, <2>6, <2>7, <2>8 DEF Next
<1> QED BY <1>1, <1>2

(* The step that starts a finalizer is CallFinalizer.                      *)
LEMMA CallingChanges ==
    ASSUME Next, Sound, calling' \notin {calling, NoFinalizer}
    PROVE  CallFinalizer
<1>1. ~Write
  BY WriteRegistrations
<1> QED BY <1>1, CollectMeans DEF Next, Allocate, Load, Forget, FinalizerReturns, FinalizerFails,
                                  Resume, batchVars

(* However often an object is resurrected or armed again, each of its      *)
(* registrations is finalized at most once; under the Lua 5.2 profile the  *)
(* object itself is.  A handle stands for the object until the generation  *)
(* of its slot has gone round, so the theorem is about runs of fewer than  *)
(* 2^32 reuses of a slot.                                                  *)
THEOREM FinalizersRunOnce == Spec /\ [](wrapped = {}) => FinalizedOnce
<1> DEFINE Inv == Sound /\ Orders
           Picked == Profiles = {"Lua52"} => PickedOnce
           Once == calling' \notin {calling, NoFinalizer} =>
                     \A c \in called :
                        /\ c.order # calling'.order
                        /\ Profiles = {"Lua52"} => c.target # calling'.target
<1>1. Init => Inv /\ Picked
  BY InitSound, OrdersInvariant, PickedOnceInvariant
<1>2. Inv /\ [Next]_vars => Inv'
  BY NextSound, OrdersInvariant
<1>3. Inv /\ Inv' /\ Picked /\ [Next]_vars /\ (wrapped = {})' => Picked'
  BY PickedOnceInvariant
<1>4. Inv /\ Picked /\ [Next]_vars => [Once]_vars
  <2> SUFFICES ASSUME Sound, Orders, Picked, Next, calling' \notin {calling, NoFinalizer}
               PROVE  \A c \in called :
                        /\ c.order # calling'.order
                        /\ Profiles = {"Lua52"} => c.target # calling'.target
    OBVIOUS
  <2>1. CallFinalizer
    BY CallingChanges
  <2> QED BY <2>1, CallFinalizerOrders, CallPicksOnce
<1> QED BY <1>1, <1>2, <1>3, <1>4, PTL DEF Spec, FinalizedOnce

(* For the other profiles nothing has to be said of generations.           *)
THEOREM RegistrationsRunOnce ==
    ASSUME Profiles # {"Lua52"}
    PROVE  Spec => FinalizedOnce
<1> DEFINE Inv == Sound /\ Orders
           Once == calling' \notin {calling, NoFinalizer} =>
                     \A c \in called :
                        /\ c.order # calling'.order
                        /\ Profiles = {"Lua52"} => c.target # calling'.target
<1>1. Init => Inv
  BY InitSound, OrdersInvariant
<1>2. Inv /\ [Next]_vars => Inv'
  BY NextSound, OrdersInvariant
<1>3. Inv /\ [Next]_vars => [Once]_vars
  BY CallingChanges, CallFinalizerOrders
<1> QED BY <1>1, <1>2, <1>3, PTL DEF Spec, FinalizedOnce

-----------------------------------------------------------------------------
(* The batch.  A callback stays with its target through the sweep when the *)
(* metatable that holds it is not weak in its values.                      *)
ObjectsStay ==
    \A i \in Occupied :
       /\ i \in Occupied' /\ i \in Indices' /\ slots'[i].generation = slots[i].generation
       /\ slots'[i].object.kind = slots[i].object.kind

LEMMA StayCallable ==
    ASSUME ObjectsStay
    PROVE  \A v : /\ Resolves(v) => Resolves(v)'
                  /\ IsCallable(v) => IsCallable(v)'
<1>1. \A v : Resolves(v) => Resolves(v)'
  BY DEF ObjectsStay, Resolves, Occupied
<1>2. \A v : IsCallable(v) => IsCallable(v)'
  <2> SUFFICES ASSUME NEW v, IsCallable(v) PROVE IsCallable(v)'
    OBVIOUS
  <2>1. CASE v = Native
    BY <2>1 DEF IsCallable
  <2>2. CASE IsHandle(v) /\ Resolves(v) /\ Object(v).kind = "closure"
    <3>1. v.index \in Occupied
      BY <2>2 DEF Resolves, Occupied
    <3>2. slots'[v.index].object.kind = "closure"
      BY <2>2, <3>1 DEF ObjectsStay, Object
    <3>3. Resolves(v)'
      BY <1>1, <2>2
    <3> QED BY <2>2, <3>2, <3>3 DEF IsCallable, Object
  <2> QED BY <2>1, <2>2 DEF IsCallable
<1> QED BY <1>1, <1>2

LEMMA NextStays ==
    ASSUME Sound, [Next]_vars, ~Collect
    PROVE  ObjectsStay
<1>1. ASSUME NEW kind \in Kinds, Allocate(kind, {}) PROVE ObjectsStay
  <2>1. /\ Occupied \subseteq Occupied' /\ \A j \in Occupied : slots'[j] = slots[j]
    BY <1>1, AllocateFacts
  <2> QED BY <2>1 DEF ObjectsStay, Occupied
<1>2. CASE Write
  <2>1. /\ Occupied' = Occupied /\ Indices' = Indices
        /\ \A i \in Indices : slots'[i].generation = slots[i].generation
    BY <1>2, WriteKeepsSound, WriteKeepsSlots
  <2>2. \A i \in Occupied : slots'[i].object.kind = slots[i].object.kind
    BY <1>2, WriteRegistrations DEF SameRegistration
  <2> QED BY <2>1, <2>2 DEF ObjectsStay, Occupied
<1>3. ASSUME UNCHANGED slots PROVE ObjectsStay
  BY <1>3 DEF ObjectsStay, Indices, Occupied
<1> QED BY <1>1, <1>2, <1>3 DEF Next, Load, Forget, CallFinalizer, FinalizerReturns,
                                FinalizerFails, vars, heapVars

(* The callback of a finalizer that a collection finds survives it.        *)
LEMMA CallbackSurvives ==
    ASSUME Sound, Collect, "closure" \notin Kinds \/ \A mode \in Modes : "v" \notin mode,
           NEW i \in targetsNow, IsDue(slots[i].object)
    PROVE  \A v : v = Callback(slots[i].object) => IsCallable(v)'
<1> SUFFICES ASSUME NEW v, v = Callback(slots[i].object) PROVE IsCallable(v)'
  OBVIOUS
<1> DEFINE o == slots[i].object
           m == o.metatable.index
           holder == slots[m].object
<1>1. /\ keptNow \in SUBSET Occupied /\ Closed(keptNow) /\ i \in keptNow
      /\ Occupied' = keptNow /\ Indices' = Indices
      /\ \A j \in keptNow :
            /\ slots'[j].generation = slots[j].generation
            /\ slots'[j].object = SweptObject(slots[j].object, keptNow, j \in targetsNow)
  BY CollectFacts
<1>2. v = Native \/ (IsHandle(v) /\ Resolves(v) /\ Object(v).kind = "closure")
  BY DEF IsDue, IsCallable
<1>3. CASE v = Native
  BY <1>3 DEF IsCallable
<1>4. CASE IsHandle(v) /\ Resolves(v) /\ Object(v).kind = "closure"
  <2>1. v.index \in Occupied
    BY <1>4 DEF Resolves, Occupied
  <2>2. slots[v.index].object \in LiveObjects /\ slots[v.index].object.kind = "closure"
    BY <1>4, <2>1, HandleFacts, ObjectTyped DEF Sound, Shape, Object, Occupied
  <2>3. "closure" \in Kinds
    BY <2>2 DEF LiveObjects
  <2>4. /\ Resolves(o.metatable) /\ v = Entry(holder, GcName) /\ v # Nil
    <3>1. v # Nil
      BY <1>4, HeldFacts
    <3> QED BY <3>1 DEF Callback, Object
  <2>5. GcName \in DOMAIN holder.entries /\ v = holder.entries[GcName]
    BY <2>4 DEF Entry
  <2>6. m \in keptNow
    <3>1. o.metatable \in StrongValues(o)
      BY DEF StrongValues
    <3>2. m \in Successors(keptNow)
      BY <1>1, <2>4, <3>1 DEF Successors, IndicesOf
    <3> QED BY <1>1, <3>2 DEF Closed
  <2> HIDE DEF m, o
  <2>7. WeakMode(holder) = {} \/ WeakMode(holder) = {"k"}
    <3>1. m \in Occupied
      BY <1>1, <2>6
    <3>2. \A j \in Occupied : slots[j].object.mode \in Modes \cup {{}}
      BY HandleFacts, ObjectTyped DEF Sound, Shape, Occupied
    <3>3. "v" \notin WeakMode(holder)
      BY <2>3, <3>2 DEF WeakMode, Object, Resolves, Occupied
    <3>4. "v" \notin WeakMode(holder) <=> WeakMode(holder) = {} \/ WeakMode(holder) = {"k"}
      BY <3>1, WeakModes DEF Sound
    <3> QED BY <3>3, <3>4
  <2>8. v.index \in keptNow
    <3>1. CASE WeakMode(holder) = {}
      <4>1. v \in StrongValues(holder)
        BY <2>5, <3>1 DEF StrongValues
      <4>2. v.index \in Successors(keptNow)
        BY <1>4, <2>6, <4>1 DEF Successors, IndicesOf
      <4> QED BY <1>1, <4>2 DEF Closed
    <3>2. CASE WeakMode(holder) = {"k"}
      <4>1. IsMarked(GcName, keptNow)
        BY DEF IsMarked, IsHandle, GcName
      <4>2. v \in {holder.entries[key] : key \in {x \in DOMAIN holder.entries : IsMarked(x, keptNow)}}
        BY <2>5, <4>1
      <4>3. v.index \in EphemeronValues(keptNow)
        BY <1>4, <2>6, <3>2, <4>2 DEF EphemeronValues, IndicesOf
      <4> QED BY <1>1, <4>3 DEF Closed
    <3> QED BY <2>7, <3>1, <3>2
  <2>9. slots'[v.index].object.kind = "closure"
    <3>1. SweptObject(slots[v.index].object, keptNow, v.index \in targetsNow).kind = "closure"
      BY <2>2 DEF SweptObject, LiveObjects
    <3> QED BY <1>1, <2>8, <3>1
  <2>10. Resolves(v)'
    BY <1>1, <1>4, <2>1, <2>8, <2>9 DEF Resolves, Occupied
  <2> QED BY <1>4, <2>9, <2>10 DEF IsCallable, Object
<1> QED BY <1>2, <1>3, <1>4

(* The invariant of a batch whose errors are dropped and whose callbacks   *)
(* stay: every finalizer in it can be called, and none has been lost.      *)
Batch ==
    /\ \A i \in Occupied : slots[i].object.armed => slots[i].object.profile \in Profiles
    /\ \A n \in 1 .. Len(queue) : queue[n].profile \in Profiles /\ IsCallable(queue[n].callback)
    /\ calling # NoFinalizer =>
         /\ calling.profile \in Profiles
         /\ Resolves(calling.target) /\ IsCallable(calling.callback)
         /\ calling.order \in {c.order : c \in called}
    /\ queued \subseteq {c.order : c \in called} \cup {queue[n].order : n \in 1 .. Len(queue)}

LEMMA BatchMeans == Sound /\ Orders /\ Batch => HeapAndBatchSound
<1> SUFFICES ASSUME Sound, Orders, Batch PROVE HeapAndBatchSound
  OBVIOUS
<1>1. ToSet(queue) = {queue[n] : n \in 1 .. Len(queue)} /\ Len(queue) \in Nat
  BY LenProperties DEF Sound, Shape, ToSet
<1>2. \A v : IsCallable(v) /\ IsHandle(v) => Resolves(v)
  BY HeldFacts DEF IsCallable
<1>3. QueuedFinalizersResolve
  <2>1. \A n \in 1 .. Len(queue) : Resolves(queue[n].target) /\ IsCallable(queue[n].callback)
    BY DEF Sound, TargetsResolve, Batch
  <2>2. calling # NoFinalizer => Resolves(calling.target) /\ IsCallable(calling.callback)
    BY DEF Batch
  <2>3. NoFinalizer.target = Nil /\ NoFinalizer.callback = Nil /\ ~IsHandle(Nil)
    BY HeldFacts DEF NoFinalizer
  <2> QED BY <1>1, <1>2, <2>1, <2>2, <2>3 DEF QueuedFinalizersResolve
<1>4. NoFinalizerLost
  <2>1. {queue[n].order : n \in 1 .. Len(queue)} \subseteq {c.order : c \in ToSet(queue)}
    BY <1>1
  <2> QED BY <2>1 DEF Batch, NoFinalizerLost
<1>5. ReverseOrder
  <2> SUFFICES ASSUME NEW j \in 1 .. Len(queue)
               PROVE  /\ calling # NoFinalizer => calling.order > queue[j].order
                      /\ j < Len(queue) => queue[j].order > queue[j + 1].order
    BY DEF ReverseOrder
  <2>1. j < Len(queue) => j + 1 \in 1 .. Len(queue) /\ j < j + 1
    BY <1>1
  <2> QED BY <2>1 DEF Orders
<1> QED BY <1>3, <1>4, <1>5 DEF HeapAndBatchSound, BatchSound, Sound

(* Steps of the program leave the batch alone.                             *)
LEMMA BatchStays ==
    ASSUME Batch, ObjectsStay, UNCHANGED <<queue, calling, called, queued>>,
           \A i \in Occupied' : slots'[i].object.armed =>
             \/ i \in Occupied /\ slots[i].object.armed /\ slots'[i].object.profile = slots[i].object.profile
             \/ slots'[i].object.profile \in Profiles
    PROVE  Batch'
<1>1. \A n \in 1 .. Len(queue) : \A v : v = queue[n].callback => IsCallable(v)'
  BY StayCallable DEF Batch
<1>2. \A n \in 1 .. Len(queue') : IsCallable(queue[n].callback)'
  BY <1>1 DEF IsCallable, Resolves, Object, Indices
<1>3. calling' # NoFinalizer => Resolves(calling.target)' /\ IsCallable(calling.callback)'
  <2>1. calling # NoFinalizer => \A v : /\ v = calling.callback => IsCallable(v)'
                                        /\ v = calling.target => Resolves(v)'
    BY StayCallable DEF Batch
  <2> QED BY <2>1 DEF IsCallable, Resolves, Object, Indices
<1>4. \A i \in Occupied' : slots'[i].object.armed => slots'[i].object.profile \in Profiles
  BY DEF Batch
<1> QED BY <1>2, <1>3, <1>4 DEF Batch

LEMMA CollectBatch ==
    ASSUME Sound, Sound', Batch, Collect,
           "closure" \notin Kinds \/ \A mode \in Modes : "v" \notin mode
    PROVE  Batch'
<1> DEFINE fs == finalizersNow
<1>1. /\ keptNow \in SUBSET Occupied /\ Occupied' = keptNow
      /\ \A i \in keptNow :
            slots'[i].object = SweptObject(slots[i].object, keptNow, i \in targetsNow)
  BY CollectFacts
<1>2. /\ queue' = fs /\ ~gc_collecting /\ called' = called /\ calling' = calling
      /\ queued' = queued \cup {f.order : f \in ToSet(fs)}
  BY CollectMeans
<1>3. calling = NoFinalizer /\ queue = <<>>
  BY <1>2 DEF Sound, Shape
<1>4. fs \in Seq(Found(reachedNow)) /\ Len(fs) \in Nat
  BY FinalizersFacts, LenProperties DEF finalizersNow
<1> HIDE DEF fs
<1>5. \A n \in 1 .. Len(fs) : fs[n].profile \in Profiles /\ \A v : v = fs[n].callback => IsCallable(v)'
  <2> SUFFICES ASSUME NEW n \in 1 .. Len(fs)
               PROVE  fs[n].profile \in Profiles /\ \A v : v = fs[n].callback => IsCallable(v)'
    OBVIOUS
  <2>1. fs[n] \in Found(reachedNow)
    BY <1>4, ElementOfSeq
  <2>2. PICK i \in Occupied \ reachedNow :
           /\ fs[n].target = Handle(i) /\ IsDue(slots[i].object)
           /\ fs[n].callback = Callback(slots[i].object) /\ fs[n].profile = slots[i].object.profile
    BY <2>1, FoundFacts
  <2>3. fs[n].target \in Targets(fs)
    BY <1>4 DEF Targets, ToSet
  <2>4. Resolves(Handle(i)) /\ Handle(i).index = i
    BY HandleFacts DEF Sound, Occupied
  <2>5. i \in targetsNow
    BY <2>2, <2>3, <2>4 DEF targetsNow, IndicesOf, fs
  <2>6. fs[n].profile \in Profiles
    BY <2>2 DEF IsDue, Batch
  <2>7. \A v : v = Callback(slots[i].object) => IsCallable(v)'
    BY <2>2, <2>5, CallbackSurvives
  <2> QED BY <2>2, <2>6, <2>7
<1>6. \A n \in 1 .. Len(queue') : queue'[n].profile \in Profiles /\ IsCallable(queue[n].callback)'
  BY <1>2, <1>5 DEF IsCallable, Resolves, Object, Indices
<1>7. queued' \subseteq {c.order : c \in called'} \cup {queue'[n].order : n \in 1 .. Len(queue')}
  <2>1. queued \subseteq {c.order : c \in called}
    <3>1. 1 .. Len(queue) = {}
      BY <1>3, EmptySeq
    <3> QED BY <3>1 DEF Batch
  <2>2. ToSet(fs) = {fs[n] : n \in 1 .. Len(fs)}
    BY <1>4, LenProperties DEF ToSet
  <2> QED BY <1>2, <2>1, <2>2
<1>8. \A i \in Occupied' : slots'[i].object.armed => slots'[i].object.profile \in Profiles
  <2> SUFFICES ASSUME NEW i \in keptNow, slots'[i].object.armed PROVE slots'[i].object.profile \in Profiles
    BY <1>1
  <2> DEFINE o == slots[i].object
             p == SweptObject(o, keptNow, i \in targetsNow)
  <2>1. o \in LiveObjects
    BY <1>1, HandleFacts, ObjectTyped DEF Sound, Shape, Occupied
  <2>2. p.armed = o.armed /\ p.profile = o.profile
    BY <2>1 DEF SweptObject, LiveObjects
  <2>3. slots'[i].object = p
    BY <1>1
  <2> HIDE DEF p
  <2> QED BY <1>1, <2>2, <2>3 DEF Batch
<1>9. calling' = NoFinalizer
  BY <1>2, <1>3
<1> QED BY <1>6, <1>7, <1>8, <1>9 DEF Batch

LEMMA CallFinalizerBatch ==
    ASSUME Sound, Batch, CallFinalizer
    PROVE  Batch'
<1>1. /\ queue # <<>> /\ calling' = Head(queue) /\ queue' = Tail(queue) /\ slots' = slots
      /\ called' = IF IsCallable(Head(queue).callback)
                   THEN called \cup {[order |-> Head(queue).order, target |-> Head(queue).target]}
                   ELSE called
      /\ queued' = queued
  BY DEF CallFinalizer, heapVars
<1>2. /\ Head(queue) = queue[1] /\ 1 \in 1 .. Len(queue) /\ Len(queue) \in Nat
      /\ Len(queue') = Len(queue) - 1
      /\ \A n \in 1 .. Len(queue') : queue'[n] = queue[n + 1] /\ n + 1 \in 1 .. Len(queue)
  BY <1>1, TailFacts
<1>3. called \subseteq called' /\ \E c \in called' : c.order = queue[1].order
  <2> DEFINE first == [order |-> queue[1].order, target |-> queue[1].target]
  <2>1. called' = called \cup {first}
    BY <1>1, <1>2 DEF Batch
  <2>2. first.order = queue[1].order
    OBVIOUS
  <2> HIDE DEF first
  <2> QED BY <2>1, <2>2
<1>4. /\ \A v : Resolves(v)' <=> Resolves(v)
      /\ \A v : IsCallable(v)' <=> IsCallable(v)
  BY <1>1 DEF IsCallable, Resolves, Object, Indices
<1>5. \A n \in 1 .. Len(queue') : queue'[n].profile \in Profiles /\ IsCallable(queue[n].callback)'
  <2>1. \A n \in 1 .. Len(queue') : queue'[n].profile \in Profiles /\ IsCallable(queue'[n].callback)
    BY <1>2 DEF Batch
  <2> QED BY <1>1, <2>1 DEF IsCallable, Resolves, Object, Indices
<1>6. /\ calling'.profile \in Profiles /\ Resolves(calling.target)' /\ IsCallable(calling.callback)'
      /\ calling'.order \in {c.order : c \in called'}
  <2>1. /\ queue[1].profile \in Profiles /\ Resolves(queue[1].target) /\ IsCallable(queue[1].callback)
    BY <1>2 DEF Batch, Sound, TargetsResolve
  <2>2. calling' = queue[1]
    BY <1>1, <1>2
  <2>3. Resolves(calling.target)' /\ IsCallable(calling.callback)'
    BY <1>1, <2>1, <2>2 DEF IsCallable, Resolves, Object, Indices
  <2>4. queue[1].order \in {c.order : c \in called'}
    BY <1>3
  <2> QED BY <2>1, <2>2, <2>3, <2>4
<1>7. queued' \subseteq {c.order : c \in called'} \cup {queue'[n].order : n \in 1 .. Len(queue')}
  <2> SUFFICES ASSUME NEW q \in queued, q \notin {c.order : c \in called'}
               PROVE  \E n \in 1 .. Len(queue') : q = queue'[n].order
    BY <1>1
  <2>1. PICK n \in 1 .. Len(queue) : q = queue[n].order
    BY <1>3 DEF Batch
  <2>2. n # 1
    BY <1>3, <2>1
  <2>3. n - 1 \in 1 .. Len(queue') /\ (n - 1) + 1 = n
    BY <1>2, <2>2
  <2> QED BY <1>2, <2>1, <2>3
<1>8. \A i \in Occupied' : slots'[i].object.armed => slots'[i].object.profile \in Profiles
  BY <1>1 DEF Batch, Occupied, Indices
<1> QED BY <1>5, <1>6, <1>7, <1>8 DEF Batch

LEMMA ResumeBatch ==
    ASSUME Batch, Resume(queue), UNCHANGED <<slots, called, queued>>
    PROVE  Batch'
<1>1. queue' = queue /\ calling' = NoFinalizer
  BY DEF Resume
<1>2. \A n \in 1 .. Len(queue') : IsCallable(queue[n].callback)'
  BY <1>1 DEF Batch, IsCallable, Resolves, Object, Indices
<1>3. Occupied' = Occupied
  BY DEF Occupied, Indices
<1> QED BY <1>1, <1>2, <1>3 DEF Batch

(* Where no error ends a batch (the Lua 5.4 and 5.5 profiles) and no       *)
(* callback can leave its metatable, every finalizer that a collection     *)
(* picked keeps its target and its callback and gets its turn, whatever    *)
(* the finalizers before it do.                                            *)
THEOREM BatchesComplete ==
    ASSUME Profiles \subseteq {"Lua54", "Lua55"},
           "closure" \notin Kinds \/ \A mode \in Modes : "v" \notin mode
    PROVE  Spec => []HeapAndBatchSound
<1>1. Init => Batch
  <2> SUFFICES ASSUME Init PROVE Batch
    OBVIOUS
  <2>1. 1 .. Len(queue) = {} /\ Occupied = {} /\ queued = {} /\ calling = NoFinalizer
    BY EmptySeq DEF Init, Occupied, Indices
  <2> QED BY <2>1 DEF Batch
<1>2. ASSUME Sound, Sound', Batch, [Next]_vars PROVE Batch'
  <2>1. ASSUME ~Collect, UNCHANGED <<queue, calling, called, queued>>,
               \A i \in Occupied' : slots'[i].object.armed =>
                 \/ i \in Occupied /\ slots[i].object.armed /\ slots'[i].object.profile = slots[i].object.profile
                 \/ slots'[i].object.profile \in Profiles
        PROVE  Batch'
    BY <1>2, <2>1, NextStays, BatchStays
  <2>2. CASE Collect
    BY <1>2, <2>2, CollectBatch
  <2>3. ASSUME ~Collect, NEW kind \in Kinds, Allocate(kind, {}) PROVE Batch'
    <3>1. \E i : /\ Occupied' = Occupied \cup {i}
                 /\ \A j \in Occupied : slots'[j] = slots[j]
                 /\ ~slots'[i].object.armed
      BY <1>2, <2>3, AllocateFacts, NewObjectFacts
    <3>2. \A i \in Occupied' : slots'[i].object.armed => i \in Occupied /\ slots'[i] = slots[i]
      BY <3>1
    <3> QED BY <2>1, <2>3, <3>2 DEF Allocate, batchVars
  <2>4. CASE ~Collect /\ Write
    <3>1. Occupied' = Occupied
      BY <1>2, <2>4, WriteKeepsSound
    <3>2. /\ UNCHANGED <<queue, calling, called, queued>>
          /\ \A i \in Occupied :
               \/ SameRegistration(slots[i].object, slots'[i].object)
               \/ slots'[i].object.armed => slots'[i].object.profile \in Profiles
      BY <1>2, <2>4, WriteRegistrations
    <3> QED BY <2>1, <2>4, <3>1, <3>2 DEF SameRegistration
  <2>5. CASE CallFinalizer
    BY <1>2, <2>5, CallFinalizerBatch
  <2>6. CASE FinalizerReturns
    BY <1>2, <2>6, ResumeBatch DEF FinalizerReturns, heapVars
  <2>7. CASE FinalizerFails
    <3>1. calling.profile \in Profiles
      BY <1>2, <2>7 DEF FinalizerFails, Batch
    <3>2. AfterError(calling, queue) = queue
      BY <3>1 DEF AfterError
    <3> QED BY <1>2, <2>7, <3>2, ResumeBatch DEF FinalizerFails, heapVars
  <2>8. ASSUME ~Collect, UNCHANGED <<slots, queue, calling, called, queued>> PROVE Batch'
    BY <2>1, <2>8 DEF Occupied, Indices
  <2>9. CASE /\ ~Collect
             /\ \/ \E h \in roots, value \in Values : Load(h, value)
                \/ \E h \in roots : Forget(h)
                \/ UNCHANGED vars
    BY <2>8, <2>9 DEF Load, Forget, vars, heapVars, batchVars
  <2> QED BY <1>2, <2>2, <2>3, <2>4, <2>5, <2>6, <2>7, <2>9 DEF Next
<1> DEFINE Inv == Sound /\ Orders
<1>3. Init => Inv
  BY InitSound, OrdersInvariant
<1>4. Inv /\ [Next]_vars => Inv'
  BY NextSound, OrdersInvariant
<1>5. Inv /\ Inv' /\ Batch /\ [Next]_vars => Batch'
  BY <1>2
<1>6. Inv /\ Batch => HeapAndBatchSound
  BY BatchMeans
<1> QED BY <1>1, <1>3, <1>4, <1>5, <1>6, PTL DEF Spec
=============================================================================
