----------------------------- MODULE TableProofs -----------------------------
(***************************************************************************)
(* Theorems of TableStore, for tables of every size, capacity, policy and  *)
(* weak mode, with any keys and values: reads see writes, the              *)
(* representation stays consistent, and predictions hold.                  *)
(***************************************************************************)
EXTENDS TableStore, SelectionLemmas

-----------------------------------------------------------------------------
(* Greatest and least numbers                                              *)

LEMMA LeastIn ==
    ASSUME NEW A \in SUBSET Nat, A # {}
    PROVE  Min(A) \in A /\ \A k \in A : Min(A) <= k
<1>1. \E m \in A : \A k \in A : m <= k
  BY LeastNatural
<1> QED BY <1>1 DEF Min

LEMMA GreatestIn ==
    ASSUME NEW n \in Nat, NEW A \in SUBSET (0 .. n), A # {}
    PROVE  Max(A) \in A /\ \A k \in A : k <= Max(A)
<1> DEFINE B == {j \in 0 .. n : n - j \in A}
<1>1. \A k \in A : n - k \in B
  <2>1. \A k \in A : k \in 0 .. n /\ n - k \in 0 .. n /\ n - (n - k) = k
    OBVIOUS
  <2> QED BY <2>1
<1>2. B \in SUBSET Nat /\ B # {}
  <2>1. PICK k \in A : TRUE
    OBVIOUS
  <2>2. n - k \in B
    BY <1>1, <2>1
  <2> QED BY <2>2
<1>3. PICK m \in B : \A j \in B : m <= j
  <2> HIDE DEF B
  <2> QED BY <1>2, LeastNatural
<1>4. n - m \in A /\ m \in 0 .. n
  BY <1>3
<1>5. \A k \in A : k <= n - m
  <2> SUFFICES ASSUME NEW k \in A PROVE k <= n - m
    OBVIOUS
  <2>1. m <= n - k /\ k \in 0 .. n
    BY <1>1, <1>3
  <2> QED BY <1>4, <2>1
<1>6. \E x \in A : \A y \in A : x >= y
  <2>1. \A y \in A : y \in Int /\ n - m \in Int
    BY <1>4
  <2> QED BY <1>4, <1>5, <2>1
<1>7. Max(A) \in A /\ \A y \in A : Max(A) >= y
  BY <1>6 DEF Max
<1> QED BY <1>7

(* The greater of a stored number and a new one.                           *)
LEMMA MaxOfTwo ==
    ASSUME NEW a \in Nat, NEW b \in Nat
    PROVE  Max({a, b}) = IF a >= b THEN a ELSE b
<1>1. \E x \in {a, b} : \A y \in {a, b} : x >= y
  OBVIOUS
<1>2. Max({a, b}) \in {a, b} /\ Max({a, b}) >= a /\ Max({a, b}) >= b
  BY <1>1 DEF Max
<1> QED BY <1>2

-----------------------------------------------------------------------------
(* Keys and values                                                         *)

LEMMA KeyFacts ==
    /\ MaxKey \in Nat \ {0}
    /\ \A key \in Keys : key \in Nat \ {0} <=> key \in IntKeys
    /\ \A key \in HeapKeys : key \in Keys /\ key \notin Nat \ {0}
    /\ MaxKey + 1 \notin Keys
    /\ Nil \notin Keys /\ Nil \notin LiveValues /\ Nil \in Slots
    /\ HeapValues \subseteq LiveValues
    /\ \A value \in Slots : value # Nil => value \in LiveValues
BY TableAssumption DEF Keys, IntKeys, LiveValues, Slots

(* What a table is made of.                                                *)
LEMMA TableFields ==
    ASSUME NEW u \in Table
    PROVE  /\ u.array \in Seq(Slots) /\ Len(u.array) \in Nat
           /\ \A i \in 1 .. Len(u.array) : u.array[i] \in Slots
           /\ u.array_capacity \in Nat /\ u.physical_capacity \in Nat
           /\ u.legacy_array_capacity \in Nat
           /\ u.tracks_legacy \in BOOLEAN /\ u.preallocated \in BOOLEAN
           /\ u.nil_write \in BOOLEAN
           /\ u.array_heap \in BOOLEAN /\ u.hash_heap_key \in BOOLEAN
           /\ u.hash_heap_value \in BOOLEAN
           /\ u.policy \in Policies /\ u.order_enabled \in BOOLEAN
           /\ DOMAIN u.hash \subseteq Keys /\ u.hash = [key \in DOMAIN u.hash |-> u.hash[key]]
           /\ \A key \in DOMAIN u.hash : u.hash[key] \in Slots
           /\ u.hash_capacity \in Nat /\ u.tombstones \in Nat
           /\ u.hash_order \in Seq(Keys) /\ u.hash_order_capacity \in Nat
           /\ u.frozen \in BOOLEAN
<1>1. /\ u.array \in Seq(Slots)
      /\ u.array_capacity \in Nat /\ u.physical_capacity \in Nat
      /\ u.legacy_array_capacity \in Nat
      /\ u.tracks_legacy \in BOOLEAN /\ u.preallocated \in BOOLEAN
      /\ u.nil_write \in BOOLEAN
      /\ u.array_heap \in BOOLEAN /\ u.hash_heap_key \in BOOLEAN
      /\ u.hash_heap_value \in BOOLEAN
      /\ u.policy \in Policies /\ u.order_enabled \in BOOLEAN
      /\ u.hash \in UNION {[S -> Slots] : S \in SUBSET Keys}
      /\ u.hash_capacity \in Nat /\ u.tombstones \in Nat
      /\ u.hash_order \in Seq(Keys) /\ u.hash_order_capacity \in Nat
      /\ u.frozen \in BOOLEAN
  BY DEF Table
<1>2. PICK S \in SUBSET Keys : u.hash \in [S -> Slots]
  BY <1>1
<1>3. Len(u.array) \in Nat /\ \A i \in 1 .. Len(u.array) : u.array[i] \in Slots
  BY <1>1, LenProperties, ElementOfSeq
<1> QED BY <1>1, <1>2, <1>3

LEMMA HashTyped ==
    ASSUME NEW f, DOMAIN f \subseteq Keys, f = [key \in DOMAIN f |-> f[key]],
           \A key \in DOMAIN f : f[key] \in Slots
    PROVE  f \in UNION {[S -> Slots] : S \in SUBSET Keys}
<1>1. f \in [DOMAIN f -> Slots]
  OBVIOUS
<1> QED BY <1>1

(* A positive integer in the hash part is one of 1 .. MaxKey.              *)
LEMMA LiveKeys ==
    ASSUME NEW u \in Table
    PROVE  /\ LiveHash(u) \subseteq Keys
           /\ \A key \in LiveHash(u) : key \in Nat \ {0} => key \in IntKeys
           /\ MaxKey + 1 \notin LiveHash(u)
<1>1. LiveHash(u) \subseteq Keys
  BY TableFields DEF LiveHash
<1> QED BY <1>1, KeyFacts

LEMMA RunEndFacts ==
    ASSUME NEW u \in Table, NEW index \in IntKeys
    PROVE  /\ RunEnd(u, index) \in index .. MaxKey
           /\ \A key \in index + 1 .. RunEnd(u, index) : key \in LiveHash(u)
           /\ RunEnd(u, index) + 1 \notin LiveHash(u)
<1> DEFINE A == {j \in index + 1 .. MaxKey + 1 : j \notin LiveHash(u)}
<1>1. MaxKey \in Nat \ {0} /\ index \in 1 .. MaxKey /\ MaxKey + 1 \notin LiveHash(u)
  BY KeyFacts, LiveKeys DEF IntKeys
<1>2. A \in SUBSET Nat /\ A # {}
  <2>1. MaxKey + 1 \in A
    BY <1>1
  <2> QED BY <1>1, <2>1
<1>3. Min(A) \in A /\ \A k \in A : Min(A) <= k
  <2> HIDE DEF A
  <2> QED BY <1>2, LeastIn
<1>4. RunEnd(u, index) = Min(A) - 1
  BY DEF RunEnd
<1> DEFINE m == Min(A)
<1>5. m \in index + 1 .. MaxKey + 1 /\ m \notin LiveHash(u) /\ m - 1 + 1 = m
  BY <1>1, <1>3
<1>6. \A key \in index + 1 .. m - 1 : key \in LiveHash(u)
  <2> SUFFICES ASSUME NEW key \in index + 1 .. m - 1, key \notin LiveHash(u) PROVE FALSE
    OBVIOUS
  <2>1. key \in A
    BY <1>1, <1>5
  <2>2. m <= key
    BY <1>3, <2>1
  <2> QED BY <1>1, <1>5, <2>2
<1> HIDE DEF m
<1> QED BY <1>1, <1>4, <1>5, <1>6 DEF m

-----------------------------------------------------------------------------
(* The invariant, of a table u in weak mode w                              *)

(* Where the live keys of the hash part are: never just past the array;    *)
(* beyond it and the legacy boundary, unless nil was written just past the *)
(* array.  In a strong table a stale entry below the end of the array is   *)
(* masked by a value, and growing over a hole swallows no entry, whatever  *)
(* was written.                                                            *)
Apart(u, w) ==
    /\ Len(u.array) + 1 \notin LiveHash(u)
    /\ ~u.nil_write =>
         \A key \in LiveHash(u) \intersect IntKeys :
            /\ key > Len(u.array) + 1
            /\ u.tracks_legacy => key > u.legacy_array_capacity + 1
    /\ w = {} =>
         /\ \A key \in LiveHash(u) \intersect IntKeys :
              /\ key \in 1 .. Len(u.array) => u.array[key] # Nil
              /\ u.tracks_legacy /\ key > Len(u.array) + 1 => key > u.legacy_array_capacity
         /\ ~u.tracks_legacy => u.legacy_array_capacity <= Len(u.array)

(* The hash part fits the capacities it is charged for, an order is        *)
(* tracked from the threshold on, and the tombstones are counted.          *)
Sized(u) ==
    /\ IsFiniteSet(DOMAIN u.hash)
    /\ Cardinality(DOMAIN u.hash) <= u.hash_capacity
    /\ u.hash_order_capacity # 0 => Cardinality(DOMAIN u.hash) <= u.hash_order_capacity
    /\ u.hash_order_capacity = 0 =>
         DOMAIN u.hash = {} \/ Cardinality(DOMAIN u.hash) < OrderThreshold
    /\ ~u.nil_write => u.tombstones = Cardinality(Tombstones(u))

(* A tracked order lists every key of the hash part, once; a hash part     *)
(* without one holds no object as a key.                                   *)
Ordered(u) ==
    /\ Lists(u.hash_order, ToSet(u.hash_order))
    /\ u.hash_order_capacity = 0 => u.hash_order = <<>>
    /\ u.hash_order_capacity # 0 => DOMAIN u.hash \subseteq ToSet(u.hash_order)
    /\ u.hash_order_capacity = 0 => DOMAIN u.hash \intersect HeapKeys = {}

Flagged(u) ==
    /\ (\E i \in 1 .. Len(u.array) : u.array[i] \in HeapValues) => u.array_heap
    /\ (\E key \in LiveHash(u) : u.hash[key] \in HeapValues) => u.hash_heap_value
    /\ LiveHash(u) \intersect HeapKeys # {} => u.hash_heap_key

Sound(u, w) ==
    /\ u \in Table /\ Len(u.array) <= MaxKey
    /\ Apart(u, w) /\ Sized(u) /\ Ordered(u) /\ Flagged(u)

(* An operation on u that leaves out.table is charged for what it took.    *)
Charged(u, out) ==
    /\ out.request \in Nat /\ out.replaced \in Nat
    /\ out.replaced <= DynamicBytes(u)
    /\ DynamicBytes(out.table) = DynamicBytes(u) + out.request - out.replaced

-----------------------------------------------------------------------------
(* Bytes                                                                   *)

LEMMA ProductsOrdered ==
    ASSUME NEW a \in Nat, NEW b \in Nat, NEW c \in Nat
    PROVE  /\ a * c \in Nat /\ b * c \in Nat
           /\ a <= b => a * c <= b * c
           /\ a < b /\ c # 0 => a * c < b * c
<1>1. a * c \in Nat /\ b * c \in Nat
  OBVIOUS
<1>2. a <= b => a * c <= b * c
  <2> SUFFICES ASSUME a <= b PROVE a * c <= b * c
    OBVIOUS
  <2>1. b * c - a * c = (b - a) * c
    OBVIOUS
  <2>2. b - a \in Nat
    OBVIOUS
  <2>3. (b - a) * c \in Nat
    BY <2>2
  <2> QED BY <1>1, <2>1, <2>3
<1>3. a < b /\ c # 0 => a * c < b * c
  <2> SUFFICES ASSUME a < b, c # 0 PROVE a * c < b * c
    OBVIOUS
  <2>1. b * c - a * c = (b - a) * c
    OBVIOUS
  <2>2. b - a - 1 \in Nat /\ (b - a) * c = (b - a - 1) * c + c
    OBVIOUS
  <2>3. (b - a - 1) * c \in Nat
    BY <2>2
  <2> QED BY <1>1, <2>1, <2>2, <2>3
<1> QED BY <1>1, <1>2, <1>3

LEMMA BytesFacts ==
    /\ \A n \in Nat : ArrayBytes(n) \in Nat
    /\ \A m, n \in Nat : m <= n => ArrayBytes(m) <= ArrayBytes(n)
    /\ \A n \in Nat \ {0} : ArrayBytes(n) # 0
    /\ \A h, o \in Nat : PartBytes(h, o) \in Nat
    /\ \A g, h, n, o \in Nat : g <= h /\ n <= o =>
          /\ PartBytes(g, n) <= PartBytes(h, o)
          /\ PartBytes(g, n) = PartBytes(h, o) => g = h /\ n = o
<1>1. ValueBytes \in Nat \ {0} /\ HashBytes \in Nat \ {0} /\ OrderBytes \in Nat \ {0}
  BY TableAssumption
<1>2. \A n \in Nat : ArrayBytes(n) \in Nat
  BY <1>1 DEF ArrayBytes
<1>3. \A m, n \in Nat : m <= n => ArrayBytes(m) <= ArrayBytes(n)
  BY <1>1, ProductsOrdered DEF ArrayBytes
<1>4. \A n \in Nat \ {0} : ArrayBytes(n) # 0
  <2> SUFFICES ASSUME NEW n \in Nat \ {0} PROVE n * ValueBytes # 0
    BY DEF ArrayBytes
  <2>1. 0 * ValueBytes < n * ValueBytes
    BY <1>1, ProductsOrdered
  <2> QED BY <1>1, <2>1
<1>5. \A h, o \in Nat : PartBytes(h, o) \in Nat
  BY <1>1 DEF PartBytes
<1>6. ASSUME NEW g \in Nat, NEW h \in Nat, NEW n \in Nat, NEW o \in Nat, g <= h, n <= o
      PROVE  /\ PartBytes(g, n) <= PartBytes(h, o)
             /\ PartBytes(g, n) = PartBytes(h, o) => g = h /\ n = o
  <2> DEFINE a == g * HashBytes
             b == h * HashBytes
             c == n * OrderBytes
             d == o * OrderBytes
  <2>1. a \in Nat /\ b \in Nat /\ a <= b /\ (g < h => a < b)
    BY <1>1, <1>6, ProductsOrdered
  <2>2. c \in Nat /\ d \in Nat /\ c <= d /\ (n < o => c < d)
    BY <1>1, <1>6, ProductsOrdered
  <2>3. PartBytes(g, n) = a + c /\ PartBytes(h, o) = b + d
    BY DEF PartBytes
  <2> HIDE DEF a, b, c, d
  <2>4. a + c <= b + d /\ (a + c = b + d => a = b /\ c = d)
    BY <2>1, <2>2
  <2> QED BY <1>6, <2>1, <2>2, <2>3, <2>4
<1> QED BY <1>2, <1>3, <1>4, <1>5, <1>6

LEMMA DynamicFacts ==
    ASSUME NEW u \in Table
    PROVE  /\ DynamicBytes(u) = ArrayBytes(u.array_capacity)
                                  + PartBytes(u.hash_capacity, u.hash_order_capacity)
           /\ ArrayBytes(u.array_capacity) \in Nat
           /\ PartBytes(u.hash_capacity, u.hash_order_capacity) \in Nat
           /\ DynamicBytes(u) \in Nat
<1>1. u.array_capacity \in Nat /\ u.hash_capacity \in Nat /\ u.hash_order_capacity \in Nat
  BY TableFields
<1>2. /\ ArrayBytes(u.array_capacity) \in Nat
      /\ PartBytes(u.hash_capacity, u.hash_order_capacity) \in Nat
  BY <1>1, BytesFacts
<1> QED BY <1>2 DEF DynamicBytes

(* An operation that reserves nothing and leaves the capacities alone.     *)
LEMMA FreeIsCharged ==
    ASSUME NEW u \in Table, NEW v,
           v.array_capacity = u.array_capacity, v.hash_capacity = u.hash_capacity,
           v.hash_order_capacity = u.hash_order_capacity
    PROVE  Charged(u, [table |-> v, request |-> 0, replaced |-> 0])
<1>1. DynamicBytes(v) = DynamicBytes(u) /\ DynamicBytes(u) \in Nat
  BY DynamicFacts DEF DynamicBytes
<1> QED BY <1>1 DEF Charged

-----------------------------------------------------------------------------
(* Growth                                                                  *)

LEMMA GrowArrayFacts ==
    ASSUME NEW u \in Table, NEW required \in Nat
    PROVE  LET g == GrowArray(u, required)
           IN  /\ g.table \in Table
               /\ g.table = [u EXCEPT !.array_capacity = g.table.array_capacity,
                                      !.physical_capacity = g.table.physical_capacity]
               /\ Charged(u, g)
<1> DEFINE g == GrowArray(u, required)
           b == ArrayBytes(u.array_capacity)
           c == ArrayBytes(required)
<1> SUFFICES /\ g.table \in Table
             /\ g.table = [u EXCEPT !.array_capacity = g.table.array_capacity,
                                    !.physical_capacity = g.table.physical_capacity]
             /\ Charged(u, g)
  OBVIOUS
<1>1. u.array_capacity \in Nat /\ u.physical_capacity \in Nat
  BY TableFields
<1>2. b \in Nat /\ c \in Nat /\ (u.array_capacity < required => b <= c)
  <2>1. b \in Nat /\ c \in Nat
    BY <1>1, BytesFacts
  <2>2. u.array_capacity <= required => b <= c
    BY <1>1, BytesFacts
  <2>3. u.array_capacity < required => u.array_capacity <= required
    BY <1>1
  <2> QED BY <2>1, <2>2, <2>3
<1>3. CASE required <= u.array_capacity
  <2>1. g.table = u /\ g = [table |-> u, request |-> 0, replaced |-> 0]
    BY <1>3 DEF GrowArray
  <2>2. Charged(u, g)
    BY <2>1, FreeIsCharged
  <2>3. u = [u EXCEPT !.array_capacity = u.array_capacity,
                      !.physical_capacity = u.physical_capacity]
    BY DEF Table
  <2> QED BY <2>1, <2>2, <2>3
<1>4. ASSUME NEW v, NEW p \in Nat, NEW request \in Nat, NEW replaced \in Nat,
             v = [u EXCEPT !.array_capacity = required, !.physical_capacity = p],
             g = [table |-> v, request |-> request, replaced |-> replaced],
             b + request - replaced = c, replaced <= b
      PROVE  /\ g.table \in Table
             /\ g.table = [u EXCEPT !.array_capacity = g.table.array_capacity,
                                    !.physical_capacity = g.table.physical_capacity]
             /\ Charged(u, g)
  <2>1. v \in Table /\ v.array_capacity = required /\ v.physical_capacity = p
        /\ v.hash_capacity = u.hash_capacity /\ v.hash_order_capacity = u.hash_order_capacity
    BY <1>4 DEF Table
  <2>2. g.table = v /\ g.request = request /\ g.replaced = replaced
    BY <1>4
  <2> DEFINE d == PartBytes(u.hash_capacity, u.hash_order_capacity)
  <2>3. DynamicBytes(u) = b + d /\ d \in Nat /\ DynamicBytes(v) = c + d
    BY <2>1, DynamicFacts DEF DynamicBytes
  <2> HIDE DEF b, c, d, g
  <2>4. Charged(u, g)
    BY <1>2, <1>4, <2>2, <2>3 DEF Charged
  <2> QED BY <1>4, <2>1, <2>2, <2>4
<1>5. CASE ~(required <= u.array_capacity) /\ required <= u.physical_capacity
  <2> DEFINE v == [u EXCEPT !.array_capacity = required]
  <2>1. g = [table |-> v, request |-> c - b, replaced |-> 0]
    BY <1>5 DEF GrowArray
  <2>2. v = [u EXCEPT !.array_capacity = required, !.physical_capacity = u.physical_capacity]
    BY DEF Table
  <2>3. c - b \in Nat /\ 0 \in Nat /\ b + (c - b) - 0 = c /\ 0 <= b
    BY <1>1, <1>2, <1>5
  <2> HIDE DEF g, b, c, v
  <2> QED BY <1>1, <1>4, <2>1, <2>2, <2>3
<1>6. CASE ~(required <= u.array_capacity) /\ ~(required <= u.physical_capacity)
  <2> DEFINE p == VecGrowth(u.physical_capacity, required)
             v == [u EXCEPT !.array_capacity = required, !.physical_capacity = p]
  <2>1. g = [table |-> v, request |-> c, replaced |-> b]
    BY <1>6 DEF GrowArray
  <2>2. p \in Nat
    <3> DEFINE n == 2 * u.physical_capacity + required + 4
               A == {2 * u.physical_capacity, required, 4}
    <3>1. n \in Nat /\ A \in SUBSET (0 .. n) /\ A # {}
      BY <1>1
    <3>2. Max(A) \in A
      <4> HIDE DEF A, n
      <4> QED BY <3>1, GreatestIn
    <3> QED BY <1>1, <3>2 DEF VecGrowth
  <2>3. b + c - b = c /\ b <= b
    BY <1>2
  <2> HIDE DEF g, b, c, v, p
  <2>4. v = [u EXCEPT !.array_capacity = required, !.physical_capacity = p]
    BY DEF v
  <2> QED BY <1>2, <1>4, <2>1, <2>2, <2>3, <2>4
<1> QED BY <1>1, <1>3, <1>5, <1>6

LEMMA OrderCapacityFacts ==
    ASSUME NEW u \in Table, NEW required \in Nat
    PROVE  /\ OrderCapacity(u, required) \in Nat
           /\ u.hash_order_capacity <= OrderCapacity(u, required)
           /\ OrderCapacity(u, required) # 0 => required <= OrderCapacity(u, required)
           /\ OrderCapacity(u, required) = 0 => required < OrderThreshold \/ required = 0
           /\ OrderCapacity(u, required) = 0 => ~u.order_enabled \/ required = 0
<1> DEFINE m == Max({u.hash_order_capacity, required})
<1>1. u.hash_order_capacity \in Nat /\ OrderThreshold \in Nat
  BY TableFields, TableAssumption
<1>2. m \in Nat /\ u.hash_order_capacity <= m /\ required <= m
  BY <1>1, MaxOfTwo
<1>3. OrderCapacity(u, required) =
        IF u.order_enabled \/ u.hash_order_capacity # 0 \/ required >= OrderThreshold
        THEN m ELSE 0
  BY DEF OrderCapacity
<1> HIDE DEF m
<1>4. OrderCapacity(u, required) = m
        \/ (/\ OrderCapacity(u, required) = 0
            /\ u.hash_order_capacity = 0 /\ ~(required >= OrderThreshold)
            /\ ~u.order_enabled)
  BY <1>3
<1> QED BY <1>1, <1>2, <1>4

(* Which key orders a growth may be given.                                 *)
Offered(u, required, keys) == StartsOrder(u, required) => Lists(keys, DOMAIN u.hash)

LEMMA GrowHashFacts ==
    ASSUME NEW u \in Table, NEW required \in Nat, NEW keys, Offered(u, required, keys)
    PROVE  LET g == GrowHash(u, required, keys)
           IN  /\ g.table \in Table
               /\ g.table = [u EXCEPT
                    !.hash_capacity = Max({u.hash_capacity, required}),
                    !.hash_order_capacity = OrderCapacity(u, required),
                    !.hash_order = IF StartsOrder(u, required) THEN @ \o keys ELSE @]
               /\ Charged(u, g)
<1> DEFINE g == GrowHash(u, required, keys)
           h == Max({u.hash_capacity, required})
           o == OrderCapacity(u, required)
           s == IF StartsOrder(u, required) THEN u.hash_order \o keys ELSE u.hash_order
           b == PartBytes(u.hash_capacity, u.hash_order_capacity)
           c == PartBytes(h, o)
           v == [u EXCEPT !.hash_capacity = h, !.hash_order_capacity = o, !.hash_order = s]
<1>1. /\ u.hash_capacity \in Nat /\ u.hash_order_capacity \in Nat
      /\ u.hash_order \in Seq(Keys) /\ DOMAIN u.hash \subseteq Keys
  BY TableFields
<1>2. h \in Nat /\ u.hash_capacity <= h /\ o \in Nat /\ u.hash_order_capacity <= o
  <2>1. h \in Nat /\ u.hash_capacity <= h
    BY <1>1, MaxOfTwo
  <2>2. o \in Nat /\ u.hash_order_capacity <= o
    BY OrderCapacityFacts
  <2> QED BY <2>1, <2>2
<1>3. s \in Seq(Keys)
  <2>1. StartsOrder(u, required) => keys \in Seq(Keys)
    <3> SUFFICES ASSUME StartsOrder(u, required) PROVE keys \in Seq(Keys)
      OBVIOUS
    <3>1. keys \in Seq(DOMAIN u.hash)
      BY DEF Offered, Lists
    <3> QED BY <1>1, <3>1
  <2> QED BY <1>1, <2>1, ConcatProperties
<1>4. /\ v \in Table /\ v.array_capacity = u.array_capacity
      /\ v.hash_capacity = h /\ v.hash_order_capacity = o
  <2> HIDE DEF h, o, s
  <2> QED BY <1>2, <1>3 DEF Table
<1>5. b \in Nat /\ c \in Nat
  BY <1>1, <1>2, BytesFacts
<1>6. /\ DynamicBytes(u) = ArrayBytes(u.array_capacity) + b
      /\ ArrayBytes(u.array_capacity) \in Nat
      /\ DynamicBytes(v) = ArrayBytes(u.array_capacity) + c
  <2> HIDE DEF h, o, s, v
  <2> QED BY <1>4, DynamicFacts DEF DynamicBytes
<1>7. CASE h = u.hash_capacity /\ o = u.hash_order_capacity
  <2>1. g = [table |-> u, request |-> 0, replaced |-> 0]
    BY <1>7 DEF GrowHash
  <2>2. ~StartsOrder(u, required) /\ s = u.hash_order
    BY <1>7 DEF StartsOrder
  <2>3. v = u
    <3> HIDE DEF h, o, s
    <3> QED BY <1>7, <2>2 DEF Table
  <2>4. Charged(u, g)
    BY <2>1, FreeIsCharged
  <2>5. g.table = v
    BY <2>1, <2>3
  <2> QED BY <1>4, <2>4, <2>5
<1>8. CASE ~(h = u.hash_capacity /\ o = u.hash_order_capacity)
  <2>1. g = [table |-> v, request |-> c, replaced |-> b]
    BY <1>8 DEF GrowHash
  <2> HIDE DEF g, b, c, h, o, s
  <2>2. g.table = v /\ g.request = c /\ g.replaced = b
    BY <2>1
  <2> HIDE DEF v
  <2>3. Charged(u, g)
    BY <1>5, <1>6, <2>2 DEF Charged
  <2> QED BY <1>4, <2>2, <2>3 DEF v, s, h, o, g
<1> QED BY <1>7, <1>8

-----------------------------------------------------------------------------
(* The hash part                                                           *)

LEMMA WithFacts ==
    ASSUME NEW u \in Table, NEW v \in Table, NEW key \in Keys, NEW value \in Slots,
           v.hash = With(u.hash, key, value)
    PROVE  /\ DOMAIN v.hash = DOMAIN u.hash \union {key} /\ v.hash[key] = value
           /\ \A k \in DOMAIN u.hash : k # key => v.hash[k] = u.hash[k]
           /\ value = Nil => /\ LiveHash(v) = LiveHash(u) \ {key}
                             /\ Tombstones(v) = Tombstones(u) \union {key}
           /\ value # Nil => /\ LiveHash(v) = LiveHash(u) \union {key}
                             /\ Tombstones(v) = Tombstones(u) \ {key}
<1>1. /\ DOMAIN v.hash = DOMAIN u.hash \union {key} /\ v.hash[key] = value
      /\ \A k \in DOMAIN u.hash : k # key => v.hash[k] = u.hash[k]
  BY DEF With
<1>2. value = Nil => /\ LiveHash(v) = LiveHash(u) \ {key}
                     /\ Tombstones(v) = Tombstones(u) \union {key}
  BY <1>1 DEF LiveHash, Tombstones
<1>3. value # Nil => /\ LiveHash(v) = LiveHash(u) \union {key}
                     /\ Tombstones(v) = Tombstones(u) \ {key}
  BY <1>1 DEF LiveHash, Tombstones
<1> QED BY <1>1, <1>2, <1>3

LEMMA WithTyped ==
    ASSUME NEW u \in Table, NEW key \in Keys, NEW value \in Slots
    PROVE  /\ With(u.hash, key, value) \in UNION {[S -> Slots] : S \in SUBSET Keys}
           /\ key \in DOMAIN u.hash => [u.hash EXCEPT ![key] = value] = With(u.hash, key, value)
<1> DEFINE f == With(u.hash, key, value)
<1>1. DOMAIN f = DOMAIN u.hash \union {key}
  BY DEF With
<1>2. /\ \A k \in DOMAIN f : f[k] \in Slots
      /\ f = [k \in DOMAIN f |-> f[k]]
  BY TableFields DEF With
<1>3. DOMAIN f \subseteq Keys
  BY <1>1, TableFields
<1>4. f \in UNION {[S -> Slots] : S \in SUBSET Keys}
  <2> HIDE DEF f
  <2> QED BY <1>2, <1>3, HashTyped
<1>5. key \in DOMAIN u.hash => [u.hash EXCEPT ![key] = value] = f
  <2> SUFFICES ASSUME key \in DOMAIN u.hash PROVE [u.hash EXCEPT ![key] = value] = f
    OBVIOUS
  <2>1. DOMAIN u.hash \union {key} = DOMAIN u.hash
    OBVIOUS
  <2>2. u.hash = [k \in DOMAIN u.hash |-> u.hash[k]]
    BY TableFields
  <2>3. [u.hash EXCEPT ![key] = value] = [k \in DOMAIN u.hash |-> IF k = key THEN value ELSE u.hash[k]]
    BY <2>2
  <2> QED BY <2>1, <2>3 DEF With
<1> QED BY <1>4, <1>5

LEMMA WithoutFacts ==
    ASSUME NEW u \in Table, NEW S
    PROVE  /\ Without(u.hash, S) \in UNION {[D -> Slots] : D \in SUBSET Keys}
           /\ \A v : v.hash = Without(u.hash, S) =>
                /\ DOMAIN v.hash = DOMAIN u.hash \ S
                /\ \A k \in DOMAIN u.hash \ S : v.hash[k] = u.hash[k]
                /\ LiveHash(v) = LiveHash(u) \ S
                /\ Tombstones(v) = Tombstones(u) \ S
<1> DEFINE f == Without(u.hash, S)
<1>1. /\ DOMAIN f = DOMAIN u.hash \ S
      /\ \A k \in DOMAIN f : f[k] = u.hash[k]
      /\ f = [k \in DOMAIN f |-> f[k]]
  BY DEF Without
<1>2. f \in UNION {[D -> Slots] : D \in SUBSET Keys}
  <2>1. DOMAIN f \subseteq Keys /\ \A k \in DOMAIN f : f[k] \in Slots
    BY <1>1, TableFields
  <2> HIDE DEF f
  <2> QED BY <1>1, <2>1, HashTyped
<1>3. ASSUME NEW v, v.hash = f
      PROVE  /\ DOMAIN v.hash = DOMAIN u.hash \ S
             /\ \A k \in DOMAIN u.hash \ S : v.hash[k] = u.hash[k]
             /\ LiveHash(v) = LiveHash(u) \ S
             /\ Tombstones(v) = Tombstones(u) \ S
  <2> HIDE DEF f
  <2> QED BY <1>1, <1>3 DEF LiveHash, Tombstones
<1> QED BY <1>2, <1>3

LEMMA TombstonesFinite ==
    ASSUME NEW u, IsFiniteSet(DOMAIN u.hash)
    PROVE  /\ IsFiniteSet(Tombstones(u)) /\ Cardinality(Tombstones(u)) \in Nat
           /\ Cardinality(DOMAIN u.hash) \in Nat
           /\ Cardinality(Tombstones(u)) <= Cardinality(DOMAIN u.hash)
<1>1. Tombstones(u) \in SUBSET (DOMAIN u.hash)
  BY DEF Tombstones
<1>2. IsFiniteSet(Tombstones(u)) /\ Cardinality(Tombstones(u)) <= Cardinality(DOMAIN u.hash)
  BY <1>1, FS_Subset
<1> QED BY <1>2, FS_CardinalityType

(* remove_hash_entry counts the tombstones that leave.                     *)
LEMMA RemoveHashFacts ==
    ASSUME NEW u \in Table, NEW S, IsFiniteSet(DOMAIN u.hash)
    PROVE  LET v == RemoveHash(u, S)
           IN  /\ v \in Table
               /\ v = [u EXCEPT !.hash = Without(u.hash, S), !.tombstones = v.tombstones]
               /\ DOMAIN v.hash = DOMAIN u.hash \ S
               /\ \A k \in DOMAIN u.hash \ S : v.hash[k] = u.hash[k]
               /\ LiveHash(v) = LiveHash(u) \ S
               /\ Tombstones(v) = Tombstones(u) \ S
               /\ u.tombstones = Cardinality(Tombstones(u))
                    => v.tombstones = Cardinality(Tombstones(v))
<1> DEFINE v == RemoveHash(u, S)
           n == Cardinality(S \intersect Tombstones(u))
           c == Cardinality(Tombstones(u))
           d == SaturatingDec(u.tombstones, n)
<1>1. /\ n \in Nat /\ c \in Nat /\ n <= c
      /\ Cardinality(Tombstones(u) \ S) = c - n
  <2>1. IsFiniteSet(Tombstones(u)) /\ c \in Nat
    BY TombstonesFinite
  <2>2. S \intersect Tombstones(u) \in SUBSET Tombstones(u)
        /\ Tombstones(u) \intersect S = S \intersect Tombstones(u)
    OBVIOUS
  <2>3. IsFiniteSet(S \intersect Tombstones(u)) /\ n <= c
    BY <2>1, <2>2, FS_Subset
  <2>4. n \in Nat
    BY <2>3, FS_CardinalityType
  <2>5. Cardinality(Tombstones(u) \ S) = c - Cardinality(Tombstones(u) \intersect S)
    BY <2>1, FS_Difference
  <2> QED BY <2>1, <2>2, <2>3, <2>4, <2>5
<1>2. d \in Nat /\ (u.tombstones = c => d = c - n)
  <2>1. u.tombstones \in Nat
    BY TableFields
  <2> HIDE DEF n, c
  <2> QED BY <1>1, <2>1 DEF SaturatingDec
<1>3. v = [u EXCEPT !.hash = Without(u.hash, S), !.tombstones = d]
  BY DEF RemoveHash
<1>4. Without(u.hash, S) \in UNION {[D -> Slots] : D \in SUBSET Keys}
  BY WithoutFacts
<1> HIDE DEF v, d
<1>5. v \in Table /\ v.hash = Without(u.hash, S) /\ v.tombstones = d
  <2> DEFINE f == Without(u.hash, S)
  <2> HIDE DEF f
  <2> QED BY <1>2, <1>3, <1>4 DEF Table, f
<1>6. /\ DOMAIN v.hash = DOMAIN u.hash \ S
      /\ \A k \in DOMAIN u.hash \ S : v.hash[k] = u.hash[k]
      /\ LiveHash(v) = LiveHash(u) \ S
      /\ Tombstones(v) = Tombstones(u) \ S
  <2>1. \A q : q.hash = Without(u.hash, S) =>
          /\ DOMAIN q.hash = DOMAIN u.hash \ S
          /\ \A k \in DOMAIN u.hash \ S : q.hash[k] = u.hash[k]
          /\ LiveHash(q) = LiveHash(u) \ S
          /\ Tombstones(q) = Tombstones(u) \ S
    BY WithoutFacts
  <2> QED BY <1>5, <2>1
<1>7. v.tombstones = Cardinality(Tombstones(v)) \/ u.tombstones # c
  BY <1>1, <1>2, <1>5, <1>6
<1> QED BY <1>3, <1>5, <1>6, <1>7 DEF v

(* What a grown hash part has: room for one more entry, and an order that  *)
(* lists the new key as well.                                              *)
Room(u, p, key) ==
    LET required == Cardinality(DOMAIN u.hash) + 1
    IN  /\ p \in Table
        /\ p = [u EXCEPT !.hash_capacity = p.hash_capacity,
                         !.hash_order_capacity = p.hash_order_capacity,
                         !.hash_order = p.hash_order]
        /\ required <= p.hash_capacity
        /\ p.hash_order_capacity # 0 => required <= p.hash_order_capacity
        /\ p.hash_order_capacity = 0 => /\ required < OrderThreshold
                                          /\ u.hash_order_capacity = 0 /\ ~u.order_enabled
        /\ Lists(p.hash_order, ToSet(p.hash_order))
        /\ p.hash_order_capacity = 0 => p.hash_order = <<>>
        /\ p.hash_order_capacity # 0 => DOMAIN u.hash \union {key} \subseteq ToSet(p.hash_order)

LEMMA GrowthMakesRoom ==
    ASSUME NEW u \in Table, NEW key \in Keys, NEW keys, Sized(u), Ordered(u),
           Offered(u, Cardinality(DOMAIN u.hash) + 1, keys)
    PROVE  LET g == GrowHash(u, Cardinality(DOMAIN u.hash) + 1, keys)
           IN  /\ Room(u, PushOrder(g.table, key), key)
               /\ Charged(u, g)
               /\ DynamicBytes(PushOrder(g.table, key)) = DynamicBytes(g.table)
<1> DEFINE required == Cardinality(DOMAIN u.hash) + 1
           g == GrowHash(u, required, keys)
           h == Max({u.hash_capacity, required})
           o == OrderCapacity(u, required)
           starts == StartsOrder(u, required)
           s == IF starts THEN u.hash_order \o keys ELSE u.hash_order
           q == g.table
           p == PushOrder(q, key)
<1>1. required \in Nat \ {0}
  BY FS_CardinalityType DEF Sized
<1>2. /\ q \in Table /\ Charged(u, g)
      /\ q = [u EXCEPT !.hash_capacity = h, !.hash_order_capacity = o, !.hash_order = s]
  <2>1. Offered(u, required, keys)
    OBVIOUS
  <2> HIDE DEF required
  <2> QED BY <1>1, <2>1, GrowHashFacts
<1>3. /\ h \in Nat /\ required <= h /\ o \in Nat /\ u.hash_order_capacity <= o
      /\ o # 0 => required <= o
      /\ o = 0 => /\ required < OrderThreshold
                  /\ u.hash_order_capacity = 0 /\ ~u.order_enabled
  <2>1. u.hash_capacity \in Nat
    BY TableFields
  <2> HIDE DEF required
  <2>2. h \in Nat /\ required <= h
    BY <1>1, <2>1, MaxOfTwo
  <2>3. /\ o \in Nat /\ u.hash_order_capacity <= o
        /\ o # 0 => required <= o
        /\ o = 0 => required < OrderThreshold \/ required = 0
        /\ o = 0 => ~u.order_enabled \/ required = 0
    BY <1>1, OrderCapacityFacts
  <2>4. u.hash_order_capacity \in Nat
    BY TableFields
  <2> HIDE DEF o
  <2> QED BY <1>1, <2>2, <2>3, <2>4
<1>4. starts <=> u.hash_order_capacity = 0 /\ o # 0
  BY DEF StartsOrder
<1>5. q.hash = u.hash /\ q.hash_order = s /\ q.hash_capacity = h /\ q.hash_order_capacity = o
      /\ q.array_capacity = u.array_capacity
  <2> HIDE DEF q, s, h, o
  <2> QED BY <1>2 DEF Table
<1>6. /\ Lists(s, ToSet(s))
      /\ o = 0 => s = <<>>
      /\ o # 0 => DOMAIN u.hash \subseteq ToSet(s)
  <2>1. CASE starts
    <3>1. u.hash_order = <<>> /\ Lists(keys, DOMAIN u.hash)
      BY <1>4, <2>1 DEF Ordered, Offered
    <3>2. s = keys
      <4>1. keys \in Seq(DOMAIN u.hash)
        BY <3>1 DEF Lists
      <4> QED BY <2>1, <3>1, <4>1, ConcatEmptySeq
    <3>3. ToSet(keys) = DOMAIN u.hash
      BY <3>1, ListsSize
    <3> QED BY <1>4, <2>1, <3>1, <3>2, <3>3
  <2>2. CASE ~starts
    <3>1. s = u.hash_order
      BY <2>2
    <3>2. o = 0 <=> u.hash_order_capacity = 0
      <4>1. u.hash_order_capacity \in Nat
        BY TableFields
      <4> HIDE DEF o, starts
      <4> QED BY <1>3, <1>4, <2>2, <4>1
    <3> HIDE DEF s, o
    <3> QED BY <3>1, <3>2 DEF Ordered
  <2> QED BY <2>1, <2>2
<1> HIDE DEF required, h, o, s, starts
<1>7. /\ p \in Table /\ p.hash_capacity = h /\ p.hash_order_capacity = o
      /\ p.array_capacity = u.array_capacity
      /\ p = [u EXCEPT !.hash_capacity = h, !.hash_order_capacity = o,
                       !.hash_order = p.hash_order]
      /\ Lists(p.hash_order, ToSet(p.hash_order))
      /\ o = 0 => p.hash_order = <<>>
      /\ o # 0 => DOMAIN u.hash \union {key} \subseteq ToSet(p.hash_order)
  <2>1. s \in Seq(Keys) /\ DOMAIN s = 1 .. Len(s) /\ Len(s) \in Nat
    <3>1. q.hash_order \in Seq(Keys)
      BY <1>2, TableFields
    <3> QED BY <1>5, <3>1, LenProperties
  <2>2. ToSet(s) = {s[i] : i \in 1 .. Len(s)}
    BY <2>1 DEF ToSet
  <2> HIDE DEF q, g
  <2>3. CASE o = 0 \/ \E i \in DOMAIN s : s[i] = key
    <3>1. p = q
      BY <1>5, <2>3 DEF PushOrder
    <3>2. o # 0 => key \in ToSet(s)
      BY <2>1, <2>2, <2>3
    <3> QED BY <1>2, <1>5, <1>6, <3>1, <3>2
  <2>4. CASE ~(o = 0 \/ \E i \in DOMAIN s : s[i] = key)
    <3> DEFINE a == Append(s, key)
    <3>1. p = [q EXCEPT !.hash_order = a]
      BY <1>5, <2>4 DEF PushOrder
    <3>2. key \notin ToSet(s)
      BY <2>1, <2>2, <2>4
    <3>3. Lists(a, ToSet(s) \union {key})
      BY <1>6, <3>2, ListsAppend
    <3>4. ToSet(a) = ToSet(s) \union {key}
      BY <3>3, ListsSize
    <3>5. a \in Seq(Keys)
      BY <2>1, AppendProperties
    <3> HIDE DEF a, p
    <3>6. p \in Table /\ p.hash_order = a /\ p.hash_capacity = h /\ p.hash_order_capacity = o
          /\ p.array_capacity = u.array_capacity
      BY <1>2, <1>5, <3>1, <3>5 DEF Table
    <3>7. p = [u EXCEPT !.hash_capacity = h, !.hash_order_capacity = o, !.hash_order = a]
      BY <1>2, <3>1, <3>6 DEF Table
    <3> QED BY <1>6, <2>4, <3>3, <3>4, <3>6, <3>7
  <2> QED BY <2>3, <2>4
<1>8. DynamicBytes(p) = DynamicBytes(q)
  <2> HIDE DEF p, q
  <2> QED BY <1>5, <1>7 DEF DynamicBytes
<1>9. Room(u, p, key)
  <2> HIDE DEF p, q, g
  <2> QED BY <1>3, <1>7 DEF Room, required
<1> QED BY <1>2, <1>8, <1>9 DEF required

LEMMA FewerKept ==
    ASSUME NEW u \in Table, NEW v \in Table, Sized(u), Ordered(u),
           DOMAIN v.hash \subseteq DOMAIN u.hash,
           v.hash_capacity = u.hash_capacity,
           v.hash_order_capacity = u.hash_order_capacity, v.hash_order = u.hash_order,
           ~v.nil_write => v.tombstones = Cardinality(Tombstones(v))
    PROVE  Sized(v) /\ Ordered(v)
<1>1. IsFiniteSet(DOMAIN u.hash) /\ Cardinality(DOMAIN u.hash) \in Nat
  BY FS_CardinalityType DEF Sized
<1>2. /\ IsFiniteSet(DOMAIN v.hash) /\ Cardinality(DOMAIN v.hash) \in Nat
      /\ Cardinality(DOMAIN v.hash) <= Cardinality(DOMAIN u.hash)
  <2>1. IsFiniteSet(DOMAIN v.hash) /\ Cardinality(DOMAIN v.hash) <= Cardinality(DOMAIN u.hash)
    BY <1>1, FS_Subset
  <2> QED BY <2>1, FS_CardinalityType
<1>3. u.hash_capacity \in Nat /\ u.hash_order_capacity \in Nat /\ OrderThreshold \in Nat
  BY TableFields, TableAssumption
<1>4. Sized(v)
  <2>1. DOMAIN u.hash = {} => DOMAIN v.hash = {}
    OBVIOUS
  <2> QED BY <1>1, <1>2, <1>3, <2>1 DEF Sized
<1>5. Ordered(v)
  BY DEF Ordered
<1> QED BY <1>4, <1>5

LEMMA OneMore ==
    ASSUME NEW u \in Table, NEW v \in Table, NEW p, NEW key \in Keys, NEW value \in Slots,
           Sized(u), Ordered(u), key \notin DOMAIN u.hash, Room(u, p, key),
           key \in HeapKeys => u.order_enabled,
           v.hash = With(u.hash, key, value), v.hash_capacity = p.hash_capacity,
           v.hash_order_capacity = p.hash_order_capacity, v.hash_order = p.hash_order,
           ~v.nil_write => v.tombstones = Cardinality(Tombstones(v))
    PROVE  Sized(v) /\ Ordered(v)
<1>1. DOMAIN v.hash = DOMAIN u.hash \union {key}
  BY DEF With
<1>2. /\ IsFiniteSet(DOMAIN v.hash)
      /\ Cardinality(DOMAIN v.hash) = Cardinality(DOMAIN u.hash) + 1
  BY <1>1, FS_AddElement DEF Sized
<1>3. Sized(v)
  BY <1>2 DEF Sized, Room
<1>4. Ordered(v)
  BY <1>1 DEF Ordered, Room
<1> QED BY <1>3, <1>4

(* The number of tombstones after one key gets a value.                    *)
LEMMA TombstoneCounts ==
    ASSUME NEW u \in Table, NEW v \in Table, NEW key \in Keys, NEW value \in Slots,
           v.hash = With(u.hash, key, value), IsFiniteSet(DOMAIN u.hash)
    PROVE  Cardinality(Tombstones(v)) =
             IF value = Nil
             THEN IF key \in Tombstones(u) THEN Cardinality(Tombstones(u))
                  ELSE Cardinality(Tombstones(u)) + 1
             ELSE IF key \in Tombstones(u) THEN Cardinality(Tombstones(u)) - 1
                  ELSE Cardinality(Tombstones(u))
<1>1. IsFiniteSet(Tombstones(u))
  BY TombstonesFinite
<1>2. CASE value = Nil
  <2>1. Tombstones(v) = Tombstones(u) \union {key}
    BY <1>2, WithFacts
  <2>2. key \in Tombstones(u) => Tombstones(v) = Tombstones(u)
    BY <2>1
  <2>3. key \notin Tombstones(u) => Cardinality(Tombstones(v)) = Cardinality(Tombstones(u)) + 1
    BY <1>1, <2>1, FS_AddElement
  <2> QED BY <1>2, <2>2, <2>3
<1>3. CASE value # Nil
  <2>1. Tombstones(v) = Tombstones(u) \ {key}
    BY <1>3, WithFacts
  <2>2. key \notin Tombstones(u) => Tombstones(v) = Tombstones(u)
    BY <2>1
  <2>3. key \in Tombstones(u) => Cardinality(Tombstones(v)) = Cardinality(Tombstones(u)) - 1
    BY <1>1, <2>1, FS_RemoveElement
  <2> QED BY <1>3, <2>2, <2>3
<1> QED BY <1>2, <1>3

-----------------------------------------------------------------------------
(* Writes                                                                  *)

(* What a write leaves, is charged and changes.                            *)
Stores(u, w, key, value, out) ==
    /\ Sound(out.table, w)
    /\ Charged(u, out)
    /\ u.nil_write => out.table.nil_write
    /\ w = {} \/ ~out.table.nil_write =>
         \A k \in Keys : Get(out.table, k) = IF k = key THEN value ELSE Get(u, k)

(* v is u with a value stored in the array, and without the key in the     *)
(* hash part.                                                              *)
InArrayNow(u, v, key, value) ==
    /\ v.array = [u.array EXCEPT ![key] = value]
    /\ v.array_heap = (u.array_heap \/ value \in HeapValues)
    /\ v.hash_heap_key = u.hash_heap_key /\ v.hash_heap_value = u.hash_heap_value
    /\ v.nil_write = u.nil_write /\ v.tracks_legacy = u.tracks_legacy
    /\ v.legacy_array_capacity = u.legacy_array_capacity
    /\ LiveHash(v) = LiveHash(u) \ {key}
    /\ \A k \in LiveHash(v) : v.hash[k] = u.hash[k]

StoresOne(u, v, w, key, value) ==
    /\ Sound(v, w)
    /\ \A k \in Keys : Get(v, k) = IF k = key THEN value ELSE Get(u, k)

LEMMA ArrayStored ==
    ASSUME NEW w, NEW u, NEW v \in Table, Sound(u, w), NEW key \in 1 .. Len(u.array),
           NEW value \in Slots, InArrayNow(u, v, key, value), Sized(v), Ordered(v)
    PROVE  StoresOne(u, v, w, key, value)
<1> USE DEF InArrayNow
<1>1. /\ u \in Table /\ Len(u.array) \in Nat /\ Len(u.array) <= MaxKey
      /\ u.array \in Seq(Slots)
  BY TableFields DEF Sound
<1>2. /\ Len(v.array) = Len(u.array)
      /\ \A i \in 1 .. Len(u.array) : v.array[i] = IF i = key THEN value ELSE u.array[i]
  BY <1>1, ExceptSeq
<1>3. Apart(v, w)
  <2>1. Apart(u, w)
    BY DEF Sound
  <2> QED BY <1>2, <2>1 DEF Apart
<1>4. Flagged(v)
  <2>1. Flagged(u)
    BY DEF Sound
  <2> QED BY <1>2, <2>1 DEF Flagged
<1>5. \A k \in Keys : Get(v, k) = IF k = key THEN value ELSE Get(u, k)
  <2> SUFFICES ASSUME NEW k \in Keys PROVE Get(v, k) = IF k = key THEN value ELSE Get(u, k)
    OBVIOUS
  <2>1. CASE k \in 1 .. Len(u.array)
    BY <1>2, <2>1 DEF Get, InArray
  <2>2. CASE k \notin 1 .. Len(u.array)
    <3>1. k # key /\ (k \in LiveHash(v) <=> k \in LiveHash(u))
      BY <2>2
    <3>2. Get(v, k) = IF k \in LiveHash(v) THEN v.hash[k] ELSE Nil
      BY <1>2, <2>2 DEF Get, InArray, InHash, LiveHash
    <3>3. Get(u, k) = IF k \in LiveHash(u) THEN u.hash[k] ELSE Nil
      BY <2>2 DEF Get, InArray, InHash, LiveHash
    <3> QED BY <3>1, <3>2, <3>3
  <2> QED BY <2>1, <2>2
<1> QED BY <1>1, <1>2, <1>3, <1>4, <1>5 DEF Sound, StoresOne

LEMMA SetArrayStores ==
    ASSUME NEW w, NEW u, Sound(u, w), NEW key \in 1 .. Len(u.array), NEW value \in Slots,
           NEW keys,
           value = Nil /\ u.array[key] # Nil /\ key \notin DOMAIN u.hash
             => Offered(u, Cardinality(DOMAIN u.hash) + 1, keys)
    PROVE  Stores(u, w, key, value, SetArray(u, key, value, keys))
<1> DEFINE out == SetArray(u, key, value, keys)
           a == [u.array EXCEPT ![key] = value]
           heap == u.array_heap \/ value \in HeapValues
<1> SUFFICES Stores(u, w, key, value, out)
  OBVIOUS
<1>1. /\ u \in Table /\ Len(u.array) \in Nat /\ Len(u.array) <= MaxKey
      /\ u.array \in Seq(Slots) /\ Sized(u) /\ Ordered(u) /\ Apart(u, w)
  BY TableFields DEF Sound
<1>2. key \in Keys /\ key \in IntKeys
  <2>1. MaxKey \in Nat
    BY KeyFacts
  <2> QED BY <1>1, <2>1 DEF Keys, IntKeys
<1>3. a \in Seq(Slots) /\ heap \in BOOLEAN
  BY <1>1, ExceptSeq, TableFields
<1>4. ASSUME NEW v \in Table, Charged(u, [table |-> v, request |-> out.request, replaced |-> out.replaced]),
             v.array = a, v.array_heap = heap,
             v.hash_heap_key = u.hash_heap_key, v.hash_heap_value = u.hash_heap_value,
             v.nil_write = u.nil_write, v.tracks_legacy = u.tracks_legacy,
             v.legacy_array_capacity = u.legacy_array_capacity,
             LiveHash(v) = LiveHash(u) \ {key},
             \A k \in LiveHash(v) : v.hash[k] = u.hash[k],
             Sized(v), Ordered(v), out.table = v
      PROVE  Stores(u, w, key, value, out)
  <2>1. StoresOne(u, v, w, key, value)
    <3>1. InArrayNow(u, v, key, value)
      <4>1. v.array = [u.array EXCEPT ![key] = value]
        BY <1>4, Zenon
      <4>2. v.array_heap = (u.array_heap \/ value \in HeapValues)
        BY <1>4, Zenon
      <4> HIDE DEF out, a, heap
      <4> QED BY <1>4, <4>1, <4>2 DEF InArrayNow
    <3>2. v \in Table /\ Sized(v) /\ Ordered(v)
      BY <1>4
    <3> HIDE DEF out, a, heap
    <3> QED BY <3>1, <3>2, ArrayStored
  <2>2. Charged(u, out)
    BY <1>4 DEF Charged
  <2> HIDE DEF out
  <2> QED BY <1>4, <2>1, <2>2 DEF Stores, StoresOne
<1>5. CASE value = Nil /\ u.array[key] # Nil /\ key \in DOMAIN u.hash
  <2> DEFINE v == [[u EXCEPT !.hash[key] = Nil] EXCEPT !.array[key] = value,
                                                      !.array_heap = @ \/ value \in HeapValues]
             f == With(u.hash, key, value)
  <2>1. out = [table |-> v, request |-> 0, replaced |-> 0]
    BY <1>5 DEF SetArray, InHash
  <2>2. f \in UNION {[S -> Slots] : S \in SUBSET Keys} /\ [u.hash EXCEPT ![key] = Nil] = f
    BY <1>1, <1>2, <1>5, WithTyped
  <2>3. v = [u EXCEPT !.hash = f, !.array = a, !.array_heap = heap]
    <3>1. v = [u EXCEPT !.hash = [u.hash EXCEPT ![key] = Nil], !.array = a, !.array_heap = heap]
      BY <1>1 DEF Table
    <3> QED BY <2>2, <3>1
  <2> HIDE DEF v, f, a, heap
  <2>4. /\ v \in Table /\ v.hash = f /\ v.array = a /\ v.array_heap = heap
        /\ v.hash_heap_key = u.hash_heap_key /\ v.hash_heap_value = u.hash_heap_value
        /\ v.nil_write = u.nil_write /\ v.tracks_legacy = u.tracks_legacy
        /\ v.legacy_array_capacity = u.legacy_array_capacity
        /\ v.array_capacity = u.array_capacity /\ v.hash_capacity = u.hash_capacity
        /\ v.hash_order_capacity = u.hash_order_capacity /\ v.hash_order = u.hash_order
        /\ v.tombstones = u.tombstones
    BY <1>1, <1>3, <2>2, <2>3 DEF Table
  <2>5. v.hash = With(u.hash, key, value)
    BY <2>4 DEF f
  <2>6. /\ DOMAIN v.hash = DOMAIN u.hash \union {key}
        /\ \A k \in DOMAIN u.hash : k # key => v.hash[k] = u.hash[k]
        /\ LiveHash(v) = LiveHash(u) \ {key}
    <3>1. /\ DOMAIN v.hash = DOMAIN u.hash \union {key} /\ v.hash[key] = value
          /\ \A k \in DOMAIN u.hash : k # key => v.hash[k] = u.hash[k]
      BY <2>5 DEF With
    <3> QED BY <1>5, <3>1 DEF LiveHash
  <2>7. ~v.nil_write => v.tombstones = Cardinality(Tombstones(v))
    <3> SUFFICES ASSUME ~v.nil_write PROVE v.tombstones = Cardinality(Tombstones(v))
      OBVIOUS
    <3>1. key \notin LiveHash(u)
      BY <1>1, <1>2, <2>4 DEF Apart
    <3>2. key \in Tombstones(u)
      BY <1>5, <3>1 DEF LiveHash, Tombstones
    <3>3. Cardinality(Tombstones(v)) = Cardinality(Tombstones(u))
      <4>1. IsFiniteSet(DOMAIN u.hash)
        BY <1>1 DEF Sized
      <4> QED BY <1>1, <1>2, <1>5, <2>4, <2>5, <3>2, <4>1, TombstoneCounts
    <3> QED BY <1>1, <2>4, <3>3 DEF Sized
  <2>8. Sized(v) /\ Ordered(v)
    <3>1. DOMAIN v.hash \subseteq DOMAIN u.hash
      BY <1>5, <2>6
    <3> QED BY <1>1, <2>4, <2>7, <3>1, FewerKept
  <2>9. out.table = v /\ out.request = 0 /\ out.replaced = 0
    BY <2>1
  <2>10. Charged(u, [table |-> v, request |-> out.request, replaced |-> out.replaced])
    BY <1>1, <2>4, <2>9, FreeIsCharged
  <2>11. \A k \in LiveHash(v) : v.hash[k] = u.hash[k]
    BY <2>6 DEF LiveHash
  <2> HIDE DEF out
  <2> QED BY <1>4, <2>4, <2>6, <2>8, <2>9, <2>10, <2>11 DEF a, heap
<1>6. CASE value = Nil /\ u.array[key] # Nil /\ key \notin DOMAIN u.hash
  <2> DEFINE g == GrowHash(u, Cardinality(DOMAIN u.hash) + 1, keys)
             p == PushOrder(g.table, key)
             v == [[p EXCEPT !.hash = With(@, key, Nil), !.tombstones = @ + 1]
                      EXCEPT !.array[key] = value,
                             !.array_heap = @ \/ value \in HeapValues]
             f == With(u.hash, key, value)
  <2>1. out = [g EXCEPT !.table = v]
    BY <1>6 DEF SetArray, InHash
  <2>2. Room(u, p, key) /\ Charged(u, g) /\ DynamicBytes(p) = DynamicBytes(g.table)
    BY <1>1, <1>2, <1>6, GrowthMakesRoom
  <2>3. f \in UNION {[S -> Slots] : S \in SUBSET Keys}
    BY <1>1, <1>2, WithTyped
  <2>4. \E T, R, P : g = [table |-> T, request |-> R, replaced |-> P]
    BY DEF GrowHash
  <2> HIDE DEF p, g
  <2>5. p \in Table
        /\ p = [u EXCEPT !.hash_capacity = p.hash_capacity,
                         !.hash_order_capacity = p.hash_order_capacity,
                         !.hash_order = p.hash_order]
    BY <2>2 DEF Room
  <2> DEFINE h == p.hash_capacity
             o == p.hash_order_capacity
             s == p.hash_order
  <2>6. h \in Nat /\ o \in Nat /\ s \in Seq(Keys)
    BY <2>5, TableFields
  <2>7. v = [u EXCEPT !.hash_capacity = h, !.hash_order_capacity = o, !.hash_order = s,
                      !.hash = f, !.tombstones = u.tombstones + 1,
                      !.array = a, !.array_heap = heap]
    <3>1. p = [u EXCEPT !.hash_capacity = h, !.hash_order_capacity = o, !.hash_order = s]
      BY <2>5
    <3>2. p.hash = u.hash /\ p.tombstones = u.tombstones /\ p.array = u.array
          /\ p.array_heap = u.array_heap
      <4> HIDE DEF h, o, s
      <4> QED BY <1>1, <3>1 DEF Table
    <3>3. v = [p EXCEPT !.hash = f, !.tombstones = u.tombstones + 1,
                        !.array = a, !.array_heap = heap]
      <4>1. v = [p EXCEPT !.hash = With(p.hash, key, Nil), !.tombstones = p.tombstones + 1,
                          !.array = [p.array EXCEPT ![key] = value],
                          !.array_heap = p.array_heap \/ value \in HeapValues]
        BY <2>5 DEF Table
      <4> QED BY <1>6, <3>2, <4>1
    <3> HIDE DEF f, a, heap, h, o, s, v
    <3> QED BY <1>1, <3>1, <3>3 DEF Table
  <2>8. u.tombstones + 1 \in Nat
    <3>1. u.tombstones \in Nat
      BY <1>1, TableFields
    <3> QED BY <3>1
  <2> HIDE DEF v, f, a, heap
  <2>9. /\ v \in Table /\ v.hash = f /\ v.array = a /\ v.array_heap = heap
        /\ v.hash_heap_key = u.hash_heap_key /\ v.hash_heap_value = u.hash_heap_value
        /\ v.nil_write = u.nil_write /\ v.tracks_legacy = u.tracks_legacy
        /\ v.legacy_array_capacity = u.legacy_array_capacity
        /\ v.array_capacity = u.array_capacity /\ v.hash_capacity = p.hash_capacity
        /\ v.hash_order_capacity = p.hash_order_capacity /\ v.hash_order = p.hash_order
        /\ v.tombstones = u.tombstones + 1
    <3> HIDE DEF h, o, s
    <3>1. /\ v \in Table /\ v.hash = f /\ v.array = a /\ v.array_heap = heap
          /\ v.hash_heap_key = u.hash_heap_key /\ v.hash_heap_value = u.hash_heap_value
          /\ v.nil_write = u.nil_write /\ v.tracks_legacy = u.tracks_legacy
          /\ v.legacy_array_capacity = u.legacy_array_capacity
          /\ v.array_capacity = u.array_capacity /\ v.hash_capacity = h
          /\ v.hash_order_capacity = o /\ v.hash_order = s
          /\ v.tombstones = u.tombstones + 1
      BY <1>1, <1>3, <2>3, <2>6, <2>7, <2>8 DEF Table
    <3> QED BY <3>1 DEF h, o, s
  <2>10. v.hash = With(u.hash, key, value)
    BY <2>9 DEF f
  <2>11. /\ DOMAIN v.hash = DOMAIN u.hash \union {key}
         /\ \A k \in DOMAIN u.hash : k # key => v.hash[k] = u.hash[k]
         /\ LiveHash(v) = LiveHash(u) \ {key}
    <3>1. /\ DOMAIN v.hash = DOMAIN u.hash \union {key} /\ v.hash[key] = value
          /\ \A k \in DOMAIN u.hash : k # key => v.hash[k] = u.hash[k]
      BY <2>10 DEF With
    <3> QED BY <1>6, <3>1 DEF LiveHash
  <2>12. ~v.nil_write => v.tombstones = Cardinality(Tombstones(v))
    <3>1. key \notin Tombstones(u) /\ IsFiniteSet(DOMAIN u.hash)
      BY <1>1, <1>6 DEF Tombstones, Sized
    <3>2. Cardinality(Tombstones(v)) = Cardinality(Tombstones(u)) + 1
      BY <1>1, <1>2, <1>6, <2>9, <2>10, <3>1, TombstoneCounts
    <3> QED BY <1>1, <2>9, <3>2 DEF Sized
  <2>13. Sized(v) /\ Ordered(v)
    <3>1. key \notin HeapKeys
      BY <1>2, KeyFacts DEF IntKeys
    <3> QED BY <1>1, <1>2, <1>6, <2>2, <2>9, <2>10, <2>12, <3>1, OneMore
  <2>14. out.table = v /\ out.request = g.request /\ out.replaced = g.replaced
    BY <2>1, <2>4
  <2>15. Charged(u, [table |-> v, request |-> out.request, replaced |-> out.replaced])
    <3>1. DynamicBytes(v) = DynamicBytes(p)
      <4>1. p.array_capacity = u.array_capacity
        BY <1>1, <2>5 DEF Table
      <4> QED BY <2>9, <4>1 DEF DynamicBytes
    <3> HIDE DEF out
    <3> QED BY <2>2, <2>14, <3>1 DEF Charged
  <2>16. \A k \in LiveHash(v) : v.hash[k] = u.hash[k]
    BY <2>11 DEF LiveHash
  <2> HIDE DEF out
  <2> QED BY <1>4, <2>9, <2>11, <2>13, <2>14, <2>15, <2>16 DEF a, heap
<1>7. CASE value # Nil
  <2> DEFINE r == RemoveHash(u, {key})
             v == [r EXCEPT !.array[key] = value, !.array_heap = @ \/ value \in HeapValues]
             f == Without(u.hash, {key})
  <2>1. out = [table |-> v, request |-> 0, replaced |-> 0]
    BY <1>7 DEF SetArray
  <2>2. /\ r \in Table
        /\ r = [u EXCEPT !.hash = f, !.tombstones = r.tombstones]
        /\ DOMAIN r.hash = DOMAIN u.hash \ {key}
        /\ \A k \in DOMAIN u.hash \ {key} : r.hash[k] = u.hash[k]
        /\ LiveHash(r) = LiveHash(u) \ {key}
        /\ u.tombstones = Cardinality(Tombstones(u))
             => r.tombstones = Cardinality(Tombstones(r))
    <3>1. IsFiniteSet(DOMAIN u.hash)
      BY <1>1 DEF Sized
    <3> QED BY <1>1, <3>1, RemoveHashFacts
  <2> HIDE DEF r, f
  <2>3. r.tombstones \in Nat
    BY <2>2, TableFields
  <2>4. r.array = u.array /\ r.array_heap = u.array_heap
    <3> DEFINE n == r.tombstones
    <3>1. r = [u EXCEPT !.hash = f, !.tombstones = n]
      BY <2>2
    <3> HIDE DEF n
    <3> QED BY <1>1, <3>1 DEF Table
  <2>5. v = [r EXCEPT !.array = a, !.array_heap = heap]
    BY <2>2, <2>4 DEF Table
  <2> HIDE DEF v, a, heap
  <2>6. /\ v \in Table /\ v.hash = r.hash /\ v.array = a /\ v.array_heap = heap
        /\ v.hash_heap_key = r.hash_heap_key /\ v.hash_heap_value = r.hash_heap_value
        /\ v.nil_write = r.nil_write /\ v.tracks_legacy = r.tracks_legacy
        /\ v.legacy_array_capacity = r.legacy_array_capacity
        /\ v.array_capacity = r.array_capacity /\ v.hash_capacity = r.hash_capacity
        /\ v.hash_order_capacity = r.hash_order_capacity /\ v.hash_order = r.hash_order
        /\ v.tombstones = r.tombstones
    BY <1>3, <2>2, <2>5 DEF Table
  <2>7. /\ r.hash_heap_key = u.hash_heap_key /\ r.hash_heap_value = u.hash_heap_value
        /\ r.nil_write = u.nil_write /\ r.tracks_legacy = u.tracks_legacy
        /\ r.legacy_array_capacity = u.legacy_array_capacity
        /\ r.array_capacity = u.array_capacity /\ r.hash_capacity = u.hash_capacity
        /\ r.hash_order_capacity = u.hash_order_capacity /\ r.hash_order = u.hash_order
    <3> DEFINE n == r.tombstones
    <3>1. r = [u EXCEPT !.hash = f, !.tombstones = n]
      BY <2>2
    <3> HIDE DEF n
    <3> QED BY <1>1, <3>1 DEF Table
  <2>8. LiveHash(v) = LiveHash(r) /\ Tombstones(v) = Tombstones(r)
    BY <2>6 DEF LiveHash, Tombstones
  <2>9. ~v.nil_write => v.tombstones = Cardinality(Tombstones(v))
    BY <1>1, <2>2, <2>6, <2>7, <2>8 DEF Sized
  <2>10. Sized(v) /\ Ordered(v)
    <3>1. DOMAIN v.hash \subseteq DOMAIN u.hash
      BY <2>2, <2>6
    <3> QED BY <1>1, <2>6, <2>7, <2>9, <3>1, FewerKept
  <2>11. out.table = v /\ out.request = 0 /\ out.replaced = 0
    BY <2>1
  <2>12. Charged(u, [table |-> v, request |-> out.request, replaced |-> out.replaced])
    BY <1>1, <2>6, <2>7, <2>11, FreeIsCharged
  <2>13. \A k \in LiveHash(v) : v.hash[k] = u.hash[k]
    <3>1. \A k \in LiveHash(v) : k \in DOMAIN u.hash \ {key}
      BY <2>2, <2>8 DEF LiveHash
    <3> QED BY <2>2, <2>6, <3>1
  <2> HIDE DEF out
  <2> QED BY <1>4, <2>2, <2>6, <2>7, <2>8, <2>10, <2>11, <2>12, <2>13 DEF a, heap
<1>8. CASE value = Nil /\ u.array[key] = Nil
  <2> DEFINE v == [u EXCEPT !.array[key] = value, !.array_heap = @ \/ value \in HeapValues]
  <2>1. out = [table |-> v, request |-> 0, replaced |-> 0]
    BY <1>8 DEF SetArray
  <2>2. a = u.array
    <3>1. u.array \in [1 .. Len(u.array) -> Slots]
      BY <1>1, LenProperties
    <3> QED BY <1>8, <3>1
  <2>3. heap = u.array_heap
    <3>1. value \notin HeapValues
      BY <1>8, KeyFacts
    <3> QED BY <1>1, <3>1, TableFields
  <2>4. v = u
    <3>1. v = [u EXCEPT !.array = a, !.array_heap = heap]
      BY <1>1 DEF Table
    <3> HIDE DEF a, heap, v
    <3> QED BY <1>1, <2>2, <2>3, <3>1 DEF Table
  <2> HIDE DEF v
  <2>5. Charged(u, out) /\ out.table = u
    BY <1>1, <2>1, <2>4, FreeIsCharged
  <2>6. Get(u, key) = Nil
    BY <1>8 DEF Get, InArray
  <2> HIDE DEF out
  <2> QED BY <1>8, <2>5, <2>6 DEF Stores
<1> QED BY <1>5, <1>6, <1>7, <1>8

(* A table that differs from u in neither part.                            *)
LEMMA SameParts ==
    ASSUME NEW u, NEW v, v.array = u.array, v.hash = u.hash
    PROVE  /\ LiveHash(v) = LiveHash(u) /\ Tombstones(v) = Tombstones(u)
           /\ \A k : Get(v, k) = Get(u, k)
BY DEF LiveHash, Tombstones, Get, InArray, InHash

LEMMA SetBoundaryNilStores ==
    ASSUME NEW w, NEW u, Sound(u, w), NEW key \in Keys, key = Len(u.array) + 1
    PROVE  Stores(u, w, key, Nil, SetBoundaryNil(u, key))
<1> DEFINE out == SetBoundaryNil(u, key)
           v == out.table
           moves == u.tracks_legacy \/ u.array # <<>>
           l == IF moves THEN Max({u.legacy_array_capacity, key}) ELSE u.legacy_array_capacity
           b == IF moves THEN TRUE ELSE u.tracks_legacy
<1> SUFFICES Stores(u, w, key, Nil, out)
  OBVIOUS
<1>1. /\ u \in Table /\ Len(u.array) \in Nat /\ Len(u.array) <= MaxKey
      /\ u.array \in Seq(Slots) /\ Sized(u) /\ Ordered(u) /\ Apart(u, w) /\ Flagged(u)
      /\ u.legacy_array_capacity \in Nat /\ u.tracks_legacy \in BOOLEAN
  BY TableFields DEF Sound
<1>2. key \in Nat \ {0} /\ key \in Nat
  BY <1>1
<1>3. /\ l \in Nat /\ b \in BOOLEAN
      /\ moves => /\ b = TRUE
                  /\ l = IF u.legacy_array_capacity >= key THEN u.legacy_array_capacity ELSE key
      /\ ~moves => b = u.tracks_legacy /\ l = u.legacy_array_capacity
  BY <1>1, <1>2, MaxOfTwo
<1>4. v = [u EXCEPT !.nil_write = TRUE, !.tracks_legacy = b, !.legacy_array_capacity = l]
      /\ out.request = 0 /\ out.replaced = 0
      /\ out = [table |-> v, request |-> 0, replaced |-> 0]
  <2> DEFINE noted == [u EXCEPT !.nil_write = TRUE]
  <2>1. out.request = 0 /\ out.replaced = 0 /\ out = [table |-> v, request |-> 0, replaced |-> 0]
    BY DEF SetBoundaryNil
  <2>2. v = IF moves THEN [noted EXCEPT !.tracks_legacy = TRUE,
                                        !.legacy_array_capacity = Max({@, key})]
            ELSE noted
    BY DEF SetBoundaryNil
  <2>3. CASE moves
    <3>1. v = [u EXCEPT !.nil_write = TRUE, !.tracks_legacy = TRUE,
                        !.legacy_array_capacity = Max({u.legacy_array_capacity, key})]
      BY <1>1, <2>2, <2>3 DEF Table
    <3> QED BY <2>1, <2>3, <3>1
  <2>4. CASE ~moves
    <3>1. v = noted
      BY <2>2, <2>4
    <3>2. l = u.legacy_array_capacity /\ b = u.tracks_legacy
      BY <2>4
    <3> HIDE DEF v, l, b, moves, out
    <3>3. v = [u EXCEPT !.nil_write = TRUE, !.tracks_legacy = b, !.legacy_array_capacity = l]
      BY <1>1, <3>1, <3>2 DEF Table
    <3> QED BY <2>1, <3>3
  <2> QED BY <2>3, <2>4
<1> HIDE DEF v, out, l, b
<1>5. /\ v \in Table /\ v.nil_write = TRUE /\ v.tracks_legacy = b
      /\ v.legacy_array_capacity = l
      /\ v.array = u.array /\ v.hash = u.hash
      /\ v.array_heap = u.array_heap
      /\ v.hash_heap_key = u.hash_heap_key /\ v.hash_heap_value = u.hash_heap_value
      /\ v.array_capacity = u.array_capacity /\ v.hash_capacity = u.hash_capacity
      /\ v.hash_order_capacity = u.hash_order_capacity /\ v.hash_order = u.hash_order
  BY <1>1, <1>3, <1>4 DEF Table
<1>6. LiveHash(v) = LiveHash(u) /\ \A k : Get(v, k) = Get(u, k)
  BY <1>5, SameParts
<1>7. Sized(v) /\ Ordered(v)
  BY <1>1, <1>5, FewerKept
<1>8. Flagged(v)
  BY <1>1, <1>5, <1>6 DEF Flagged
<1>9. Apart(v, w)
  <2>1. Len(v.array) + 1 \notin LiveHash(v)
    BY <1>1, <1>5, <1>6 DEF Apart
  <2>2. ASSUME w = {}, NEW k \in LiveHash(v) \intersect IntKeys
        PROVE  /\ k \in 1 .. Len(v.array) => v.array[k] # Nil
               /\ v.tracks_legacy /\ k > Len(v.array) + 1 => k > v.legacy_array_capacity
    <3>1. /\ k \in 1 .. Len(u.array) => u.array[k] # Nil
          /\ u.tracks_legacy /\ k > Len(u.array) + 1 => k > u.legacy_array_capacity
          /\ ~u.tracks_legacy => u.legacy_array_capacity <= Len(u.array)
      BY <1>1, <1>6, <2>2 DEF Apart
    <3>2. k \in Nat
      BY KeyFacts DEF IntKeys
    <3>3. CASE moves
      <4>1. l = IF u.legacy_array_capacity >= key THEN u.legacy_array_capacity ELSE key
        BY <1>3, <3>3
      <4> HIDE DEF moves
      <4> QED BY <1>1, <1>2, <1>5, <3>1, <3>2, <4>1
    <3>4. CASE ~moves
      BY <1>3, <1>5, <3>1, <3>4
    <3> QED BY <3>3, <3>4
  <2>3. w = {} /\ ~v.tracks_legacy => v.legacy_array_capacity <= Len(v.array)
    <3>1. w = {} /\ ~u.tracks_legacy => u.legacy_array_capacity <= Len(u.array)
      BY <1>1 DEF Apart
    <3> QED BY <1>3, <1>5, <3>1
  <2> QED BY <1>5, <2>1, <2>2, <2>3 DEF Apart
<1>10. Get(u, key) = Nil
  <2>1. key \notin 1 .. Len(u.array) /\ key \notin LiveHash(u)
    BY <1>1 DEF Apart
  <2> QED BY <2>1 DEF Get, InArray, InHash, LiveHash
<1>11. Charged(u, out)
  BY <1>1, <1>4, <1>5, FreeIsCharged
<1>12. Sound(v, w)
  BY <1>1, <1>5, <1>7, <1>8, <1>9 DEF Sound
<1> QED BY <1>5, <1>6, <1>10, <1>11, <1>12 DEF Stores, v

LEMMA SetHashNilStores ==
    ASSUME NEW w, NEW u, Sound(u, w), NEW key \in Keys, key \notin 1 .. Len(u.array)
    PROVE  Stores(u, w, key, Nil, SetHashNil(u, key))
<1> DEFINE out == SetHashNil(u, key)
<1> SUFFICES Stores(u, w, key, Nil, out)
  OBVIOUS
<1>1. /\ u \in Table /\ Len(u.array) \in Nat /\ Len(u.array) <= MaxKey
      /\ u.array \in Seq(Slots) /\ Sized(u) /\ Ordered(u) /\ Apart(u, w) /\ Flagged(u)
      /\ u.tombstones \in Nat /\ u.hash_heap_key \in BOOLEAN
  BY TableFields DEF Sound
<1>2. CASE key \notin DOMAIN u.hash
  <2>1. out = [table |-> u, request |-> 0, replaced |-> 0]
    BY <1>2 DEF SetHashNil, InHash
  <2>2. Get(u, key) = Nil
    BY <1>2 DEF Get, InArray, InHash
  <2>3. Charged(u, out) /\ out.table = u
    BY <1>1, <2>1, FreeIsCharged
  <2> HIDE DEF out
  <2> QED BY <2>2, <2>3 DEF Stores
<1>3. CASE key \in DOMAIN u.hash
  <2> DEFINE f == With(u.hash, key, Nil)
             n == IF u.hash[key] = Nil THEN u.tombstones ELSE u.tombstones + 1
             heap == u.hash_heap_key \/ key \in HeapKeys
             v == [u EXCEPT !.hash[key] = Nil, !.hash_heap_key = @ \/ key \in HeapKeys,
                            !.tombstones = IF u.hash[key] = Nil THEN @ ELSE @ + 1]
  <2>1. out = [table |-> v, request |-> 0, replaced |-> 0]
    BY <1>3 DEF SetHashNil, InHash
  <2>2. f \in UNION {[S -> Slots] : S \in SUBSET Keys} /\ [u.hash EXCEPT ![key] = Nil] = f
    BY <1>1, <1>3, KeyFacts, WithTyped
  <2>3. v = [u EXCEPT !.hash = f, !.hash_heap_key = heap, !.tombstones = n]
    <3>1. v = [u EXCEPT !.hash = [u.hash EXCEPT ![key] = Nil], !.hash_heap_key = heap,
                        !.tombstones = n]
      BY <1>1 DEF Table
    <3> HIDE DEF v, f, n, heap
    <3> QED BY <2>2, <3>1
  <2>4. n \in Nat /\ heap \in BOOLEAN
    BY <1>1
  <2> HIDE DEF v, f, heap
  <2>5. /\ v \in Table /\ v.hash = f /\ v.hash_heap_key = heap /\ v.tombstones = n
        /\ v.array = u.array /\ v.array_heap = u.array_heap
        /\ v.hash_heap_value = u.hash_heap_value
        /\ v.nil_write = u.nil_write /\ v.tracks_legacy = u.tracks_legacy
        /\ v.legacy_array_capacity = u.legacy_array_capacity
        /\ v.array_capacity = u.array_capacity /\ v.hash_capacity = u.hash_capacity
        /\ v.hash_order_capacity = u.hash_order_capacity /\ v.hash_order = u.hash_order
    <3> HIDE DEF n
    <3> QED BY <1>1, <2>2, <2>3, <2>4 DEF Table
  <2>6. v.hash = With(u.hash, key, Nil) /\ Nil \in Slots
    BY <2>5, KeyFacts DEF f
  <2>7. /\ DOMAIN v.hash = DOMAIN u.hash /\ v.hash[key] = Nil
        /\ \A k \in DOMAIN u.hash : k # key => v.hash[k] = u.hash[k]
        /\ LiveHash(v) = LiveHash(u) \ {key}
    <3>1. /\ DOMAIN v.hash = DOMAIN u.hash \union {key} /\ v.hash[key] = Nil
          /\ \A k \in DOMAIN u.hash : k # key => v.hash[k] = u.hash[k]
      BY <2>6 DEF With
    <3> QED BY <1>3, <3>1 DEF LiveHash
  <2>8. ~v.nil_write => v.tombstones = Cardinality(Tombstones(v))
    <3>1. IsFiniteSet(DOMAIN u.hash)
      BY <1>1 DEF Sized
    <3>2. key \in Tombstones(u) <=> u.hash[key] = Nil
      BY <1>3 DEF Tombstones
    <3>3. Cardinality(Tombstones(v)) =
            IF key \in Tombstones(u) THEN Cardinality(Tombstones(u))
            ELSE Cardinality(Tombstones(u)) + 1
      BY <1>1, <2>5, <2>6, <3>1, TombstoneCounts
    <3> QED BY <1>1, <2>5, <3>2, <3>3 DEF Sized
  <2>9. Sized(v) /\ Ordered(v)
    BY <1>1, <2>5, <2>7, <2>8, FewerKept
  <2>10. Flagged(v)
    BY <1>1, <2>4, <2>5, <2>7 DEF Flagged, LiveHash, heap
  <2>11. Apart(v, w)
    BY <1>1, <2>5, <2>7 DEF Apart
  <2>12. \A k \in Keys : Get(v, k) = IF k = key THEN Nil ELSE Get(u, k)
    BY <1>3, <2>5, <2>7 DEF Get, InArray, InHash
  <2>13. Charged(u, out)
    BY <1>1, <2>1, <2>5, FreeIsCharged
  <2>14. Sound(v, w) /\ out.table = v
    BY <1>1, <2>1, <2>5, <2>9, <2>10, <2>11 DEF Sound
  <2> HIDE DEF out
  <2> QED BY <2>5, <2>12, <2>13, <2>14 DEF Stores
<1> QED BY <1>2, <1>3

(* A function on 1 .. n is a sequence of length n.                         *)
LEMMA FunctionIsSeq ==
    ASSUME NEW S, NEW n \in Nat, NEW f \in [1 .. n -> S]
    PROVE  f \in Seq(S) /\ Len(f) = n
<1>1. f \in Seq(S)
  BY SeqDef
<1>2. DOMAIN f = 1 .. Len(f) /\ Len(f) \in Nat /\ DOMAIN f = 1 .. n
  BY <1>1, LenProperties
<1> QED BY <1>1, <1>2

(* The array after it grew to index, over a hole.                           *)
LEMMA HoleFilled ==
    ASSUME NEW a \in Seq(Slots), NEW index \in Nat, index > Len(a), NEW value \in Slots,
           NEW hole \in Seq(Slots), Len(hole) = index - Len(a) - 1,
           \A i \in 1 .. index - Len(a) - 1 : hole[i] = Nil
    PROVE  LET b == a \o hole \o <<value>>
           IN  /\ b \in Seq(Slots) /\ Len(b) = index
               /\ \A i \in 1 .. index : b[i] = IF i <= Len(a) THEN a[i]
                                               ELSE IF i < index THEN Nil ELSE value
<1> DEFINE n == Len(a)
           d == a \o hole
           b == d \o <<value>>
<1>1. n \in Nat /\ index - n - 1 \in Nat /\ Len(hole) = index - n - 1
  BY LenProperties
<1>2. /\ d \in Seq(Slots) /\ Len(d) = index - 1
      /\ \A i \in 1 .. index - 1 : d[i] = IF i <= n THEN a[i] ELSE Nil
  <2>1. /\ d \in Seq(Slots) /\ Len(d) = n + Len(hole)
        /\ \A i \in 1 .. n + Len(hole) : d[i] = IF i <= n THEN a[i] ELSE hole[i - n]
    BY ConcatProperties
  <2>2. n + Len(hole) = index - 1
    BY <1>1
  <2> HIDE DEF d
  <2>3. \A i \in 1 .. index - 1 : ~(i <= n) => i - n \in 1 .. index - n - 1
    BY <1>1
  <2> QED BY <2>1, <2>2, <2>3
<1> HIDE DEF d
<1>3. /\ b \in Seq(Slots) /\ Len(b) = index
      /\ \A i \in 1 .. index : b[i] = IF i <= index - 1 THEN d[i] ELSE value
  <2>1. b = Append(d, value)
    BY <1>2, AppendIsConcat
  <2> QED BY <1>1, <1>2, <2>1, AppendProperties
<1> HIDE DEF b
<1>4. ASSUME NEW i \in 1 .. index
      PROVE  b[i] = IF i <= n THEN a[i] ELSE IF i < index THEN Nil ELSE value
  <2>1. CASE i < index
    <3>1. i \in 1 .. index - 1 /\ i <= index - 1
      BY <1>1, <2>1
    <3> QED BY <1>2, <1>3, <2>1, <3>1
  <2>2. CASE i = index
    <3>1. ~(i <= index - 1) /\ ~(i <= n) /\ ~(i < index)
      BY <1>1, <2>2
    <3> QED BY <1>3, <2>2, <3>1
  <2> QED BY <1>1, <2>1, <2>2
<1> QED BY <1>3, <1>4 DEF b, d

(* What SetGrowing leaves, field by field.                                 *)
LEMMA SetGrowingResult ==
    ASSUME NEW u \in Table, IsFiniteSet(DOMAIN u.hash), NEW index \in IntKeys,
           index > Len(u.array), NEW value \in Slots
    PROVE  LET out == SetGrowing(u, index, value)
               v == out.table
               end == RunEnd(u, index)
               run == index + 1 .. end
           IN  /\ v \in Table
               /\ Len(v.array) = end
               /\ \A i \in 1 .. end :
                     v.array[i] = IF i <= Len(u.array) THEN u.array[i]
                                  ELSE IF i < index THEN Nil
                                  ELSE IF i = index THEN value ELSE u.hash[i]
               /\ v.hash = Without(u.hash, run)
               /\ u.tombstones = Cardinality(Tombstones(u))
                    => v.tombstones = Cardinality(Tombstones(v))
               /\ v.array_heap = (u.array_heap \/ value \in HeapValues
                                    \/ \E k \in run : u.hash[k] \in HeapValues)
               /\ v.legacy_array_capacity =
                    IF u.legacy_array_capacity >= end THEN u.legacy_array_capacity ELSE end
               /\ v.hash_heap_key = u.hash_heap_key /\ v.hash_heap_value = u.hash_heap_value
               /\ v.nil_write = u.nil_write /\ v.tracks_legacy = u.tracks_legacy
               /\ v.hash_capacity = u.hash_capacity
               /\ v.hash_order_capacity = u.hash_order_capacity
               /\ v.hash_order = u.hash_order
               /\ Charged(u, out)
<1> DEFINE out == SetGrowing(u, index, value)
           v == out.table
           end == RunEnd(u, index)
           run == index + 1 .. end
           g == GrowArray(u, end)
           q == g.table
           hole == [i \in 1 .. index - Len(u.array) - 1 |-> Nil]
           b == u.array \o hole \o <<value>>
           p == [q EXCEPT !.array = @ \o hole \o <<value>>,
                          !.array_heap = @ \/ value \in HeapValues]
           r == RemoveHash(p, run)
           tail == [i \in 1 .. end - index |-> u.hash[index + i]]
           c == b \o tail
           heap == u.array_heap \/ value \in HeapValues
           moved == \E k \in run : u.hash[k] \in HeapValues
<1>1. /\ Len(u.array) \in Nat /\ u.array \in Seq(Slots) /\ index \in Nat
      /\ u.array_heap \in BOOLEAN /\ u.legacy_array_capacity \in Nat
  <2>1. index \in 1 .. MaxKey /\ MaxKey \in Nat
    BY KeyFacts DEF IntKeys
  <2>2. index \in Nat
    BY <2>1
  <2> QED BY <2>2, TableFields
<1>2. /\ end \in index .. MaxKey /\ end \in Nat /\ index <= end
      /\ \A key \in run : key \in LiveHash(u)
  BY <1>1, RunEndFacts, KeyFacts
<1>3. /\ q \in Table /\ Charged(u, g)
      /\ q = [u EXCEPT !.array_capacity = q.array_capacity,
                       !.physical_capacity = q.physical_capacity]
      /\ \E T, R, P : g = [table |-> T, request |-> R, replaced |-> P]
  <2>1. \E T, R, P : g = [table |-> T, request |-> R, replaced |-> P]
    BY DEF GrowArray
  <2> HIDE DEF end
  <2> QED BY <1>2, <2>1, GrowArrayFacts
<1>4. /\ b \in Seq(Slots) /\ c \in Seq(Slots) /\ Len(c) = end
      /\ \A i \in 1 .. end : c[i] = IF i <= Len(u.array) THEN u.array[i]
                                    ELSE IF i < index THEN Nil
                                    ELSE IF i = index THEN value ELSE u.hash[i]
  <2>1. \A k \in index + 1 .. end : u.hash[k] \in Slots
    BY <1>2, TableFields DEF LiveHash
  <2> HIDE DEF end
  <2> DEFINE n == Len(u.array)
  <2>2. index - n - 1 \in Nat /\ end - index \in Nat /\ Nil \in Slots
    BY <1>1, <1>2, KeyFacts
  <2>3. /\ hole \in Seq(Slots) /\ Len(hole) = index - n - 1
        /\ \A i \in 1 .. index - n - 1 : hole[i] = Nil
    <3>1. hole \in [1 .. index - n - 1 -> Slots]
      BY <2>2
    <3> QED BY <2>2, <3>1, FunctionIsSeq
  <2>4. /\ tail \in Seq(Slots) /\ Len(tail) = end - index
        /\ \A i \in 1 .. end - index : tail[i] = u.hash[index + i]
    <3>1. \A i \in 1 .. end - index : index + i \in index + 1 .. end
      BY <1>1, <1>2
    <3>2. tail \in [1 .. end - index -> Slots]
      BY <2>1, <3>1
    <3> QED BY <2>2, <3>2, FunctionIsSeq
  <2> HIDE DEF hole, tail
  <2>5. /\ b \in Seq(Slots) /\ Len(b) = index
        /\ \A i \in 1 .. index : b[i] = IF i <= n THEN u.array[i]
                                        ELSE IF i < index THEN Nil ELSE value
    <3> DEFINE a == u.array
    <3>1. /\ a \in Seq(Slots) /\ index \in Nat /\ index > Len(a) /\ value \in Slots
          /\ hole \in Seq(Slots) /\ Len(hole) = index - Len(a) - 1
          /\ \A i \in 1 .. index - Len(a) - 1 : hole[i] = Nil
      BY <1>1, <2>3
    <3> HIDE DEF a
    <3>2. /\ a \o hole \o <<value>> \in Seq(Slots) /\ Len(a \o hole \o <<value>>) = index
      BY ONLY <3>1, HoleFilled
    <3>3. \A i \in 1 .. index :
            (a \o hole \o <<value>>)[i] = IF i <= Len(a) THEN a[i]
                                          ELSE IF i < index THEN Nil ELSE value
      BY ONLY <3>1, HoleFilled
    <3> QED BY <3>2, <3>3 DEF a
  <2> HIDE DEF b, n
  <2>6. /\ c \in Seq(Slots) /\ Len(c) = index + Len(tail)
        /\ \A i \in 1 .. index + Len(tail) : c[i] = IF i <= index THEN b[i] ELSE tail[i - index]
    BY <2>4, <2>5, ConcatProperties
  <2>7. index + Len(tail) = end
    BY <1>1, <1>2, <2>4
  <2> HIDE DEF c
  <2>8. ASSUME NEW i \in 1 .. end
        PROVE  c[i] = IF i <= n THEN u.array[i] ELSE IF i < index THEN Nil
                      ELSE IF i = index THEN value ELSE u.hash[i]
    <3>1. n \in Nat /\ n < index
      BY <1>1 DEF n
    <3>2. CASE i <= index
      <4>1. i \in 1 .. index
        BY <1>1, <3>2
      <4>2. c[i] = b[i]
        BY <2>6, <2>7, <3>2
      <4> QED BY <1>1, <2>5, <3>1, <3>2, <4>1, <4>2
    <3>3. CASE ~(i <= index)
      <4>1. i - index \in 1 .. end - index /\ index + (i - index) = i
        BY <1>1, <1>2, <3>3
      <4>2. c[i] = tail[i - index]
        BY <2>6, <2>7, <3>3
      <4> QED BY <1>1, <2>4, <3>1, <3>3, <4>1, <4>2
    <3> QED BY <3>2, <3>3
  <2> QED BY <2>5, <2>6, <2>7, <2>8 DEF n
<1> HIDE DEF end, g, q, b, c, hole, tail
<1>5. /\ q.hash = u.hash /\ q.array = u.array /\ q.array_heap = u.array_heap
      /\ q.tombstones = u.tombstones /\ q.legacy_array_capacity = u.legacy_array_capacity
      /\ q.hash_heap_key = u.hash_heap_key /\ q.hash_heap_value = u.hash_heap_value
      /\ q.nil_write = u.nil_write /\ q.tracks_legacy = u.tracks_legacy
      /\ q.hash_capacity = u.hash_capacity
      /\ q.hash_order_capacity = u.hash_order_capacity
      /\ q.hash_order = u.hash_order
  <2> DEFINE m == q.array_capacity
             n == q.physical_capacity
  <2>1. q = [u EXCEPT !.array_capacity = m, !.physical_capacity = n]
    BY <1>3
  <2> HIDE DEF m, n
  <2> QED BY <2>1 DEF Table
<1>6. heap \in BOOLEAN /\ moved \in BOOLEAN /\ (heap \/ moved) \in BOOLEAN
  BY <1>1
<1>7. p = [q EXCEPT !.array = b, !.array_heap = heap]
  BY <1>5 DEF b
<1> HIDE DEF p, heap
<1>8. /\ p \in Table /\ p.hash = u.hash /\ p.array = b /\ p.array_heap = heap
      /\ p.tombstones = u.tombstones /\ p.legacy_array_capacity = u.legacy_array_capacity
      /\ p.hash_heap_key = u.hash_heap_key /\ p.hash_heap_value = u.hash_heap_value
      /\ p.nil_write = u.nil_write /\ p.tracks_legacy = u.tracks_legacy
      /\ p.hash_capacity = u.hash_capacity
      /\ p.hash_order_capacity = u.hash_order_capacity
      /\ p.hash_order = u.hash_order
      /\ p.array_capacity = q.array_capacity
  BY <1>3, <1>4, <1>5, <1>6, <1>7 DEF Table
<1>9. LiveHash(p) = LiveHash(u) /\ Tombstones(p) = Tombstones(u)
  BY <1>8 DEF LiveHash, Tombstones
<1>10. /\ r \in Table
       /\ r = [p EXCEPT !.hash = Without(p.hash, run), !.tombstones = r.tombstones]
       /\ p.tombstones = Cardinality(Tombstones(p)) => r.tombstones = Cardinality(Tombstones(r))
  <2> HIDE DEF run
  <2> QED BY <1>8, RemoveHashFacts
<1> HIDE DEF run
<1> DEFINE x == [r EXCEPT !.array = @ \o [i \in 1 .. end - index |-> p.hash[index + i]],
                         !.array_heap = @ \/ \E k \in run : p.hash[k] \in HeapValues]
           y == [x EXCEPT !.legacy_array_capacity = Max({@, Len(x.array)})]
<1>11. v = y /\ out.request = g.request /\ out.replaced = g.replaced
  <2>1. out = [g EXCEPT !.table = y]
    BY Zenon DEF SetGrowing, Promote, r, p, q, g, hole, end, run
  <2> HIDE DEF y, out
  <2>2. out.table = y /\ out.request = g.request /\ out.replaced = g.replaced
    BY <1>3, <2>1
  <2> QED BY <2>2
<1> HIDE DEF r, v, out
<1>12. /\ r.hash = Without(u.hash, run) /\ r.array = b /\ r.array_heap = heap
       /\ r.legacy_array_capacity = u.legacy_array_capacity
       /\ r.hash_heap_key = u.hash_heap_key /\ r.hash_heap_value = u.hash_heap_value
       /\ r.nil_write = u.nil_write /\ r.tracks_legacy = u.tracks_legacy
       /\ r.hash_capacity = u.hash_capacity
       /\ r.hash_order_capacity = u.hash_order_capacity
       /\ r.hash_order = u.hash_order
       /\ r.array_capacity = q.array_capacity
  <2> DEFINE f == Without(p.hash, run)
             n == r.tombstones
  <2>1. r = [p EXCEPT !.hash = f, !.tombstones = n]
    BY <1>10
  <2>2. f = Without(u.hash, run)
    BY <1>8
  <2> HIDE DEF f, n
  <2> QED BY <1>8, <2>1, <2>2 DEF Table
<1> DEFINE l == Max({u.legacy_array_capacity, end})
           h == heap \/ moved
<1>13. v = [r EXCEPT !.array = c, !.array_heap = h, !.legacy_array_capacity = l]
  <2>1. r.array \o [i \in 1 .. end - index |-> p.hash[index + i]] = c
    BY <1>8, <1>12 DEF c, tail
  <2>2. (r.array_heap \/ \E k \in run : p.hash[k] \in HeapValues) = h
    BY <1>8, <1>12
  <2> HIDE DEF h, c, l
  <2>3. x = [r EXCEPT !.array = c, !.array_heap = h]
    BY <2>1, <2>2
  <2> HIDE DEF x
  <2>4. x.array = c /\ x.legacy_array_capacity = u.legacy_array_capacity
    BY <1>10, <1>12, <2>3 DEF Table
  <2>5. v = [x EXCEPT !.legacy_array_capacity = l]
    BY <1>4, <1>11, <2>4 DEF l
  <2> QED BY <1>10, <2>3, <2>5 DEF Table
<1>14. /\ l = IF u.legacy_array_capacity >= end THEN u.legacy_array_capacity ELSE end
       /\ l \in Nat /\ h \in BOOLEAN
  BY <1>1, <1>2, <1>6, MaxOfTwo
<1> HIDE DEF l, h
<1>15. /\ v \in Table /\ v.array = c /\ v.array_heap = h /\ v.legacy_array_capacity = l
       /\ v.hash = r.hash /\ v.tombstones = r.tombstones
       /\ v.hash_heap_key = r.hash_heap_key /\ v.hash_heap_value = r.hash_heap_value
       /\ v.nil_write = r.nil_write /\ v.tracks_legacy = r.tracks_legacy
       /\ v.hash_capacity = r.hash_capacity
       /\ v.hash_order_capacity = r.hash_order_capacity
       /\ v.hash_order = r.hash_order
       /\ v.array_capacity = r.array_capacity
  <2>1. r \in Table /\ c \in Seq(Slots) /\ l \in Nat /\ h \in BOOLEAN
    BY <1>4, <1>10, <1>14
  <2> HIDE DEF v, r, c
  <2> QED BY ONLY <2>1, <1>13 DEF Table
<1>16. u.tombstones = Cardinality(Tombstones(u)) => v.tombstones = Cardinality(Tombstones(v))
  <2>1. Tombstones(v) = Tombstones(r)
    BY <1>15 DEF Tombstones
  <2> QED BY <1>8, <1>9, <1>10, <1>15, <2>1
<1>17. Charged(u, out)
  <2>1. DynamicBytes(v) = DynamicBytes(q)
    BY <1>5, <1>12, <1>15 DEF DynamicBytes
  <2> QED BY <1>3, <1>11, <2>1 DEF Charged, v, q
<1>18. h = (u.array_heap \/ value \in HeapValues \/ \E k \in run : u.hash[k] \in HeapValues)
  BY DEF h, heap
<1> QED BY <1>4, <1>12, <1>14, <1>15, <1>16, <1>17, <1>18 DEF v, out, end, run

LEMMA SetGrowingStores ==
    ASSUME NEW w, NEW u, Sound(u, w), NEW index \in IntKeys, NEW value \in LiveValues,
           index = Len(u.array) + 1 \/ GrowsOverHole(u, index)
    PROVE  Stores(u, w, index, value, SetGrowing(u, index, value))
<1> DEFINE out == SetGrowing(u, index, value)
           v == out.table
           end == RunEnd(u, index)
           run == index + 1 .. end
           n == Len(u.array)
<1> SUFFICES Stores(u, w, index, value, out)
  OBVIOUS
<1>1. /\ u \in Table /\ n \in Nat /\ n <= MaxKey
      /\ u.array \in Seq(Slots) /\ Sized(u) /\ Ordered(u) /\ Apart(u, w) /\ Flagged(u)
      /\ u.legacy_array_capacity \in Nat /\ u.tracks_legacy \in BOOLEAN
      /\ u.array_heap \in BOOLEAN
  BY TableFields DEF Sound
<1>2. /\ index \in Nat /\ index > n /\ MaxKey \in Nat /\ value \in Slots /\ value # Nil
      /\ IntKeys = 1 .. MaxKey
  BY <1>1, KeyFacts DEF GrowsOverHole, IntKeys, Slots
<1>3. /\ end \in index .. MaxKey /\ end \in Nat /\ index <= end
      /\ \A k \in run : k \in LiveHash(u)
      /\ end + 1 \notin LiveHash(u)
  BY <1>1, <1>2, RunEndFacts
<1>4. /\ v \in Table
      /\ Len(v.array) = end
      /\ \A i \in 1 .. end :
            v.array[i] = IF i <= n THEN u.array[i]
                         ELSE IF i < index THEN Nil
                         ELSE IF i = index THEN value ELSE u.hash[i]
      /\ v.hash = Without(u.hash, run)
      /\ u.tombstones = Cardinality(Tombstones(u))
           => v.tombstones = Cardinality(Tombstones(v))
      /\ v.array_heap = (u.array_heap \/ value \in HeapValues
                           \/ \E k \in run : u.hash[k] \in HeapValues)
      /\ v.legacy_array_capacity =
           IF u.legacy_array_capacity >= end THEN u.legacy_array_capacity ELSE end
      /\ v.hash_heap_key = u.hash_heap_key /\ v.hash_heap_value = u.hash_heap_value
      /\ v.nil_write = u.nil_write /\ v.tracks_legacy = u.tracks_legacy
      /\ v.hash_capacity = u.hash_capacity
      /\ v.hash_order_capacity = u.hash_order_capacity
      /\ v.hash_order = u.hash_order
      /\ Charged(u, out)
  <2>1. IsFiniteSet(DOMAIN u.hash)
    BY <1>1 DEF Sized
  <2> QED BY <1>1, <1>2, <2>1, SetGrowingResult
<1> HIDE DEF v, out, end
<1>5. /\ DOMAIN v.hash = DOMAIN u.hash \ run
      /\ \A k \in DOMAIN u.hash \ run : v.hash[k] = u.hash[k]
      /\ LiveHash(v) = LiveHash(u) \ run
  <2>1. \A q : q.hash = Without(u.hash, run) =>
          /\ DOMAIN q.hash = DOMAIN u.hash \ run
          /\ \A k \in DOMAIN u.hash \ run : q.hash[k] = u.hash[k]
          /\ LiveHash(q) = LiveHash(u) \ run
          /\ Tombstones(q) = Tombstones(u) \ run
    BY <1>1, WithoutFacts
  <2> QED BY <1>4, <2>1
<1>6. Sized(v) /\ Ordered(v)
  <2>1. ~v.nil_write => v.tombstones = Cardinality(Tombstones(v))
    BY <1>1, <1>4 DEF Sized
  <2>2. DOMAIN v.hash \subseteq DOMAIN u.hash
    BY <1>5
  <2> HIDE DEF run
  <2> QED BY <1>1, <1>4, <2>1, <2>2, FewerKept
<1>7. Flagged(v)
  <2>1. ASSUME NEW i \in 1 .. Len(v.array), v.array[i] \in HeapValues PROVE v.array_heap
    <3>1. i \in 1 .. end
      BY <1>4, <2>1
    <3>2. CASE i <= n
      <4>1. i \in 1 .. n /\ u.array[i] \in HeapValues
        BY <1>4, <2>1, <3>1, <3>2
      <4> QED BY <1>1, <1>4, <4>1 DEF Flagged
    <3>3. CASE i > n /\ i < index
      <4>1. v.array[i] = Nil /\ Nil \notin HeapValues
        BY <1>1, <1>4, <3>1, <3>3, KeyFacts
      <4> QED BY <2>1, <4>1
    <3>4. CASE i = index
      <4>1. ~(i <= n) /\ ~(i < index)
        BY <1>1, <1>2, <3>4
      <4>2. value \in HeapValues
        BY <1>4, <2>1, <3>1, <3>4, <4>1
      <4> QED BY <1>4, <4>2
    <3>5. CASE i > index
      <4>1. i \in run /\ v.array[i] = u.hash[i]
        BY <1>1, <1>2, <1>3, <1>4, <3>1, <3>5
      <4> QED BY <1>4, <2>1, <4>1
    <3> QED BY <1>1, <1>2, <3>1, <3>2, <3>3, <3>4, <3>5
  <2>2. ASSUME NEW k \in LiveHash(v), v.hash[k] \in HeapValues PROVE v.hash_heap_value
    <3>1. k \in LiveHash(u) /\ v.hash[k] = u.hash[k]
      BY <1>5, <2>2 DEF LiveHash
    <3> QED BY <1>1, <1>4, <2>2, <3>1 DEF Flagged
  <2>3. LiveHash(v) \intersect HeapKeys # {} => v.hash_heap_key
    BY <1>1, <1>4, <1>5 DEF Flagged
  <2> QED BY <2>1, <2>2, <2>3 DEF Flagged
<1>8. Apart(v, w)
  <2>1. Len(v.array) + 1 \notin LiveHash(v)
    BY <1>3, <1>4, <1>5
  <2>2. ASSUME ~v.nil_write, NEW k \in LiveHash(v) \intersect IntKeys
        PROVE  /\ k > Len(v.array) + 1
               /\ v.tracks_legacy => k > v.legacy_array_capacity + 1
    <3>1. k \in LiveHash(u) /\ k \notin run /\ k \in Nat /\ k # end + 1
      BY <1>2, <1>3, <1>5, <2>2
    <3>2. k > n + 1 /\ (u.tracks_legacy => k > u.legacy_array_capacity + 1)
      BY <1>1, <1>4, <2>2, <3>1 DEF Apart
    <3>3. k > index
      BY <1>1, <1>2, <3>1, <3>2 DEF GrowsOverHole
    <3>4. k > end + 1
      BY <1>2, <1>3, <3>1, <3>3
    <3> QED BY <1>1, <1>3, <1>4, <3>1, <3>2, <3>4
  <2>3. ASSUME w = {}, NEW k \in LiveHash(v) \intersect IntKeys
        PROVE  /\ k \in 1 .. Len(v.array) => v.array[k] # Nil
               /\ v.tracks_legacy /\ k > Len(v.array) + 1 => k > v.legacy_array_capacity
    <3>1. k \in LiveHash(u) /\ k \notin run /\ k \in Nat /\ k # end + 1 /\ k # n + 1
      BY <1>1, <1>2, <1>3, <1>5, <2>3 DEF Apart
    <3>2. /\ k \in 1 .. n => u.array[k] # Nil
          /\ u.tracks_legacy /\ k > n + 1 => k > u.legacy_array_capacity
      BY <1>1, <2>3, <3>1 DEF Apart
    <3>3. k \in 1 .. end => v.array[k] # Nil
      <4> SUFFICES ASSUME k \in 1 .. end PROVE v.array[k] # Nil
        OBVIOUS
      <4>1. CASE k <= n
        BY <1>4, <3>2, <4>1
      <4>2. CASE k = index
        BY <1>1, <1>2, <1>4, <4>2
      <4>3. CASE k > n /\ k < index
        BY <1>1, <1>2, <3>1, <3>2, <4>3 DEF GrowsOverHole
      <4>4. CASE k > index
        BY <1>2, <1>3, <3>1, <4>4
      <4> QED BY <1>1, <1>2, <3>1, <4>1, <4>2, <4>3, <4>4
    <3>4. v.tracks_legacy /\ k > end + 1 => k > v.legacy_array_capacity
      BY <1>1, <1>2, <1>3, <1>4, <3>1, <3>2
    <3> QED BY <1>4, <3>3, <3>4
  <2>4. w = {} /\ ~v.tracks_legacy => v.legacy_array_capacity <= Len(v.array)
    <3>1. w = {} /\ ~u.tracks_legacy => u.legacy_array_capacity <= n
      BY <1>1 DEF Apart
    <3> QED BY <1>1, <1>2, <1>3, <1>4, <3>1
  <2> QED BY <2>1, <2>2, <2>3, <2>4 DEF Apart
<1>9. Sound(v, w)
  BY <1>3, <1>4, <1>6, <1>7, <1>8, <1>2 DEF Sound
<1>10. ASSUME w = {} \/ ~v.nil_write, NEW k \in Keys
       PROVE  Get(v, k) = IF k = index THEN value ELSE Get(u, k)
  <2>1. CASE k \in 1 .. n
    <3>1. k \in 1 .. end /\ k <= n /\ k # index
      BY <1>1, <1>2, <1>3, <2>1
    <3> QED BY <1>4, <2>1, <3>1 DEF Get, InArray
  <2>2. CASE k = index
    <3>1. k \in 1 .. end /\ ~(k <= n) /\ ~(k < index)
      BY <1>1, <1>2, <1>3, <2>2
    <3> QED BY <1>4, <2>2, <3>1 DEF Get, InArray
  <2>3. CASE k \in run
    <3>1. k \in 1 .. end /\ ~(k <= n) /\ ~(k < index) /\ k # index /\ k \in LiveHash(u)
          /\ k \notin 1 .. n
      BY <1>1, <1>2, <1>3, <2>3
    <3>2. Get(v, k) = u.hash[k]
      BY <1>4, <3>1 DEF Get, InArray
    <3>3. Get(u, k) = u.hash[k]
      BY <3>1 DEF Get, InArray, InHash, LiveHash
    <3> QED BY <3>1, <3>2, <3>3
  <2>4. CASE k \in n + 1 .. index - 1
    <3>1. k \in 1 .. end /\ ~(k <= n) /\ k < index /\ k # index /\ k \notin 1 .. n /\ k \in IntKeys
      BY <1>1, <1>2, <1>3, <2>4
    <3>2. Get(v, k) = Nil
      BY <1>4, <3>1 DEF Get, InArray
    <3>3. k \notin LiveHash(u)
      <4> SUFFICES ASSUME k \in LiveHash(u) PROVE FALSE
        OBVIOUS
      <4>1. k # n + 1 /\ k > n + 1
        BY <1>1, <2>4 DEF Apart
      <4>2. u.tracks_legacy /\ index <= u.legacy_array_capacity + 1
        BY <1>1, <1>2, <2>4, <4>1 DEF GrowsOverHole
      <4>3. k > u.legacy_array_capacity
        <5>1. CASE w = {}
          BY <1>1, <3>1, <4>1, <4>2, <5>1 DEF Apart
        <5>2. CASE ~v.nil_write
          <6>1. k > u.legacy_array_capacity + 1
            BY <1>1, <1>4, <3>1, <4>2, <5>2 DEF Apart
          <6> QED BY <1>1, <2>4, <6>1
        <5> QED BY <1>10, <5>1, <5>2
      <4> QED BY <1>1, <1>2, <2>4, <4>2, <4>3
    <3>4. Get(u, k) = Nil
      BY <3>1, <3>3 DEF Get, InArray, InHash, LiveHash
    <3> QED BY <3>1, <3>2, <3>4
  <2>5. CASE k \notin 1 .. end
    <3>1. k \notin 1 .. n /\ k # index /\ k \notin run
      BY <1>1, <1>2, <1>3, <2>5
    <3>2. Get(v, k) = IF k \in DOMAIN v.hash THEN v.hash[k] ELSE Nil
      BY <1>4, <2>5 DEF Get, InArray, InHash
    <3>3. Get(u, k) = IF k \in DOMAIN u.hash THEN u.hash[k] ELSE Nil
      BY <3>1 DEF Get, InArray, InHash
    <3> QED BY <1>5, <3>1, <3>2, <3>3
  <2> QED BY <1>1, <1>2, <1>3, <2>1, <2>2, <2>3, <2>4, <2>5
<1> QED BY <1>4, <1>9, <1>10 DEF Stores, v

(* What a write to the hash part does before it grows: flags, compaction.  *)
LEMMA BeforeHashGrowthFacts ==
    ASSUME NEW w, NEW u, Sound(u, w), NEW key \in Keys, NEW value \in Slots
    PROVE  LET v == BeforeHashGrowth(u, key, value)
           IN  /\ Sound(v, w)
               /\ \A k \in Keys : Get(v, k) = Get(u, k)
               /\ DOMAIN v.hash \subseteq DOMAIN u.hash /\ LiveHash(v) = LiveHash(u)
               /\ ~NeedsCompaction(u) \/ u.tombstones = 0 => DOMAIN v.hash = DOMAIN u.hash
               /\ v.hash_heap_key = (u.hash_heap_key \/ key \in HeapKeys)
               /\ v.hash_heap_value = (u.hash_heap_value \/ value \in HeapValues)
               /\ v.order_enabled = (u.order_enabled
                                       \/ (key \notin DOMAIN v.hash /\ OrdersBy(u, key)))
               /\ v.array = u.array /\ v.nil_write = u.nil_write
               /\ v.tracks_legacy = u.tracks_legacy
               /\ v.legacy_array_capacity = u.legacy_array_capacity
               /\ v.hash_capacity = u.hash_capacity /\ v.array_capacity = u.array_capacity
               /\ v.hash_order_capacity = u.hash_order_capacity
<1> DEFINE hk == u.hash_heap_key \/ key \in HeapKeys
           hv == u.hash_heap_value \/ value \in HeapValues
           x == [u EXCEPT !.hash_heap_key = hk, !.hash_heap_value = hv]
           y == IF NeedsCompaction(x) THEN CompactHash(x) ELSE x
           v == BeforeHashGrowth(u, key, value)
           oe == u.order_enabled \/ (key \notin DOMAIN v.hash /\ OrdersBy(u, key))
<1>1. /\ u \in Table /\ Len(u.array) \in Nat /\ Len(u.array) <= MaxKey
      /\ u.array \in Seq(Slots) /\ Sized(u) /\ Ordered(u) /\ Apart(u, w) /\ Flagged(u)
      /\ u.tombstones \in Nat /\ hk \in BOOLEAN /\ hv \in BOOLEAN
      /\ u.order_enabled \in BOOLEAN /\ oe \in BOOLEAN
      /\ DOMAIN u.hash \subseteq Keys
  BY TableFields DEF Sound
<1>2. v = IF key \in DOMAIN y.hash THEN y
          ELSE [y EXCEPT !.order_enabled = @ \/ OrdersBy(u, key)]
  <2>1. x = [u EXCEPT !.hash_heap_key = @ \/ key \in HeapKeys,
                      !.hash_heap_value = @ \/ value \in HeapValues]
    BY <1>1
  <2> HIDE DEF x
  <2> QED BY <2>1, Zenon DEF BeforeHashGrowth, InHash
<1> HIDE DEF hk, hv, x, v, oe
<1>3. /\ x \in Table /\ x.hash_heap_key = hk /\ x.hash_heap_value = hv
      /\ x.array = u.array /\ x.hash = u.hash /\ x.tombstones = u.tombstones
      /\ x.nil_write = u.nil_write /\ x.policy = u.policy
      /\ x.order_enabled = u.order_enabled
      /\ x.array_heap = u.array_heap /\ x.tracks_legacy = u.tracks_legacy
      /\ x.legacy_array_capacity = u.legacy_array_capacity
      /\ x.hash_capacity = u.hash_capacity /\ x.array_capacity = u.array_capacity
      /\ x.hash_order_capacity = u.hash_order_capacity /\ x.hash_order = u.hash_order
  BY <1>1 DEF Table, x
<1>4. /\ LiveHash(x) = LiveHash(u) /\ Tombstones(x) = Tombstones(u)
      /\ NeedsCompaction(x) <=> NeedsCompaction(u)
  BY <1>3 DEF LiveHash, Tombstones, NeedsCompaction
<1>5. /\ y \in Table /\ y.hash_heap_key = hk /\ y.hash_heap_value = hv
      /\ y.array = u.array /\ y.nil_write = u.nil_write
      /\ y.order_enabled = u.order_enabled
      /\ y.array_heap = u.array_heap /\ y.tracks_legacy = u.tracks_legacy
      /\ y.legacy_array_capacity = u.legacy_array_capacity
      /\ y.hash_capacity = u.hash_capacity /\ y.array_capacity = u.array_capacity
      /\ y.hash_order_capacity = u.hash_order_capacity
      /\ LiveHash(y) = LiveHash(u) /\ DOMAIN y.hash \subseteq DOMAIN u.hash
      /\ \A k \in LiveHash(u) : y.hash[k] = u.hash[k]
      /\ ~NeedsCompaction(u) \/ u.tombstones = 0 => DOMAIN y.hash = DOMAIN u.hash
      /\ Sized(y) /\ Ordered(y)
  <2>1. CASE ~NeedsCompaction(x) \/ x.tombstones = 0
    <3>1. y = x
      BY <2>1 DEF CompactHash
    <3>2. ~x.nil_write => x.tombstones = Cardinality(Tombstones(x))
      BY <1>1, <1>3, <1>4 DEF Sized
    <3>3. Sized(x) /\ Ordered(x)
      BY <1>1, <1>3, <3>2, FewerKept
    <3> HIDE DEF y
    <3> QED BY <1>1, <1>3, <1>4, <3>1, <3>3
  <2>2. CASE NeedsCompaction(x) /\ x.tombstones # 0
    <3> DEFINE f == Without(x.hash, Tombstones(x))
               s == IF x.hash_order_capacity # 0 THEN OrderOf(x, LiveHash(x)) ELSE x.hash_order
    <3>1. y = [KeepLive(x) EXCEPT !.hash_order =
                 IF x.hash_order_capacity # 0 THEN OrderOf(x, LiveHash(x)) ELSE @]
      BY <2>2 DEF CompactHash
    <3>2. /\ f \in UNION {[S -> Slots] : S \in SUBSET Keys}
          /\ DOMAIN f = DOMAIN u.hash \ Tombstones(u)
          /\ \A k \in DOMAIN u.hash \ Tombstones(u) : f[k] = u.hash[k]
      <4>1. f \in UNION {[S -> Slots] : S \in SUBSET Keys}
        BY <1>3, WithoutFacts
      <4>2. /\ DOMAIN f = DOMAIN u.hash \ Tombstones(u)
            /\ \A k \in DOMAIN u.hash \ Tombstones(u) : f[k] = u.hash[k]
        BY <1>3, <1>4 DEF Without
      <4> QED BY <4>1, <4>2
    <3>3. /\ Lists(s, ToSet(s)) /\ s \in Seq(Keys)
          /\ x.hash_order_capacity = 0 => s = <<>>
          /\ x.hash_order_capacity # 0 => ToSet(s) = LiveHash(u)
      <4>1. CASE x.hash_order_capacity = 0
        <5>1. s = <<>> /\ s = u.hash_order
          BY <1>1, <1>3, <4>1 DEF Ordered
        <5>2. s \in Seq(Keys)
          BY <1>1, <5>1, TableFields
        <5>3. Lists(s, ToSet(s))
          BY <1>1, <5>1 DEF Ordered
        <5> HIDE DEF s
        <5> QED BY <4>1, <5>1, <5>2, <5>3
      <4>2. CASE x.hash_order_capacity # 0
        <5> DEFINE O == ToSet(u.hash_order)
                   L == LiveHash(u)
        <5>1. Lists(u.hash_order, O) /\ DOMAIN u.hash \subseteq O
          BY <1>1, <1>3, <4>2 DEF Ordered
        <5>2. s = Selected(u.hash_order, L)
          BY <1>3, <1>4, <4>2 DEF OrderOf
        <5>3. L \subseteq O /\ O \cap L = L /\ L \subseteq Keys
          BY <1>1, <5>1 DEF LiveHash
        <5> HIDE DEF O, L, s
        <5>4. Lists(s, O \cap L)
          BY <5>1, <5>2, ListsSelected
        <5>5. Lists(s, L)
          BY <5>3, <5>4
        <5>6. ToSet(s) = L
          BY <5>5, ListsSize
        <5>7. s \in Seq(Keys)
          BY <5>3, <5>5 DEF Lists
        <5> QED BY <4>2, <5>5, <5>6, <5>7 DEF L
      <4> QED BY <4>1, <4>2
    <3> HIDE DEF f, s
    <3>4. y = [x EXCEPT !.hash = f, !.tombstones = 0, !.hash_order = s]
      <4>1. KeepLive(x) = [x EXCEPT !.hash = f, !.tombstones = 0]
        BY DEF KeepLive, f
      <4>2. KeepLive(x).hash_order = x.hash_order
        BY <1>3, <4>1 DEF Table
      <4>3. y = [KeepLive(x) EXCEPT !.hash_order = s]
        BY <3>1, <4>2 DEF s
      <4> HIDE DEF y
      <4> QED BY <1>3, <4>1, <4>3 DEF Table
    <3> HIDE DEF y
    <3>5. /\ y \in Table /\ y.hash_heap_key = x.hash_heap_key
          /\ y.hash_heap_value = x.hash_heap_value
          /\ y.array = x.array /\ y.nil_write = x.nil_write
          /\ y.order_enabled = x.order_enabled
          /\ y.array_heap = x.array_heap /\ y.tracks_legacy = x.tracks_legacy
          /\ y.legacy_array_capacity = x.legacy_array_capacity
          /\ y.hash_capacity = x.hash_capacity /\ y.array_capacity = x.array_capacity
          /\ y.hash_order_capacity = x.hash_order_capacity
          /\ y.hash = f /\ y.tombstones = 0 /\ y.hash_order = s
      BY <1>3, <3>2, <3>3, <3>4 DEF Table
    <3>6. LiveHash(y) = LiveHash(u) /\ Tombstones(y) = {} /\ DOMAIN y.hash = LiveHash(u)
          /\ \A k \in LiveHash(u) : y.hash[k] = u.hash[k]
      BY <3>2, <3>5 DEF LiveHash, Tombstones
    <3>7. LiveHash(u) \subseteq DOMAIN u.hash
      BY DEF LiveHash
    <3>8. Sized(y)
      <4> DEFINE q == [u EXCEPT !.hash = f, !.tombstones = 0]
      <4>1. /\ q \in Table /\ q.hash = f /\ q.tombstones = 0
            /\ q.hash_capacity = u.hash_capacity /\ q.hash_order = u.hash_order
            /\ q.hash_order_capacity = u.hash_order_capacity
        BY <1>1, <3>2 DEF Table
      <4>2. Tombstones(q) = {} /\ Cardinality({}) = 0
        BY <3>6, <4>1, <3>5, FS_EmptySet DEF Tombstones
      <4> HIDE DEF q
      <4>3. Sized(q)
        BY <1>1, <3>5, <3>6, <3>7, <4>1, <4>2, FewerKept
      <4> QED BY <1>3, <3>5, <3>6, <4>1, <4>2, <4>3 DEF Sized
    <3>9. Ordered(y)
      BY <1>1, <1>3, <3>3, <3>5, <3>6, <3>7 DEF Ordered
    <3>10. ~(~NeedsCompaction(u) \/ u.tombstones = 0)
      BY <1>3, <1>4, <2>2
    <3> QED BY <1>3, <3>5, <3>6, <3>7, <3>8, <3>9, <3>10
  <2> QED BY <2>1, <2>2
<1> HIDE DEF y
<1>6. /\ v \in Table /\ v.hash_heap_key = hk /\ v.hash_heap_value = hv
      /\ v.array = u.array /\ v.nil_write = u.nil_write
      /\ v.array_heap = u.array_heap /\ v.tracks_legacy = u.tracks_legacy
      /\ v.legacy_array_capacity = u.legacy_array_capacity
      /\ v.hash_capacity = u.hash_capacity /\ v.array_capacity = u.array_capacity
      /\ v.hash_order_capacity = u.hash_order_capacity
      /\ v.hash = y.hash /\ v.tombstones = y.tombstones /\ v.hash_order = y.hash_order
      /\ v.order_enabled = oe
  <2>1. CASE key \in DOMAIN y.hash
    <3>1. v = y
      BY <1>2, <2>1
    <3>2. oe = u.order_enabled
      BY <1>1, <2>1, <3>1 DEF oe
    <3> QED BY <1>5, <3>1, <3>2
  <2>2. CASE key \notin DOMAIN y.hash
    <3> DEFINE b == y.order_enabled \/ OrdersBy(u, key)
    <3>1. v = [y EXCEPT !.order_enabled = b]
      BY <1>2, <2>2
    <3>2. b \in BOOLEAN
      BY <1>1, <1>5
    <3> HIDE DEF b
    <3>3. /\ v \in Table /\ v.order_enabled = b /\ v.hash_heap_key = y.hash_heap_key
          /\ v.hash_heap_value = y.hash_heap_value
          /\ v.array = y.array /\ v.nil_write = y.nil_write
          /\ v.array_heap = y.array_heap /\ v.tracks_legacy = y.tracks_legacy
          /\ v.legacy_array_capacity = y.legacy_array_capacity
          /\ v.hash_capacity = y.hash_capacity /\ v.array_capacity = y.array_capacity
          /\ v.hash_order_capacity = y.hash_order_capacity
          /\ v.hash = y.hash /\ v.tombstones = y.tombstones /\ v.hash_order = y.hash_order
      BY <1>5, <3>1, <3>2 DEF Table
    <3>4. oe = b
      BY <1>5, <2>2, <3>3 DEF b, oe
    <3> QED BY <1>5, <3>3, <3>4
  <2> QED BY <2>1, <2>2
<1>7. LiveHash(v) = LiveHash(u) /\ Tombstones(v) = Tombstones(y)
  BY <1>5, <1>6 DEF LiveHash, Tombstones
<1>8. Sized(v) /\ Ordered(v)
  BY <1>5, <1>6, <1>7 DEF Sized, Ordered
<1>9. \A k \in LiveHash(u) : v.hash[k] = u.hash[k]
  BY <1>5, <1>6
<1>10. Apart(v, w)
  BY <1>1, <1>6, <1>7 DEF Apart
<1>11. Flagged(v)
  BY <1>1, <1>6, <1>7, <1>9 DEF Flagged, hk, hv
<1>12. \A k \in Keys : Get(v, k) = Get(u, k)
  <2> SUFFICES ASSUME NEW k \in Keys, k \notin 1 .. Len(u.array) PROVE Get(v, k) = Get(u, k)
    BY <1>6 DEF Get, InArray
  <2>1. Get(v, k) = IF k \in LiveHash(v) THEN v.hash[k] ELSE Nil
    BY <1>6 DEF Get, InArray, InHash, LiveHash
  <2>2. Get(u, k) = IF k \in LiveHash(u) THEN u.hash[k] ELSE Nil
    BY DEF Get, InArray, InHash, LiveHash
  <2> QED BY <1>7, <1>9, <2>1, <2>2
<1>13. Sound(v, w)
  BY <1>1, <1>6, <1>8, <1>10, <1>11 DEF Sound
<1> QED BY <1>5, <1>6, <1>7, <1>12, <1>13 DEF v, hk, hv, oe

(* A live value enters the hash part of a table r that is ready for it.    *)
(* v is r with the key's value in the hash part.                           *)
Enters(r, v, key, value) ==
    /\ v \in Table /\ key \in Keys /\ value \in LiveValues
    /\ key \notin 1 .. Len(r.array) /\ key # Len(r.array) + 1
    /\ ~GrowsOverHole(r, key) \/ key \notin IntKeys
    /\ r.hash_heap_key = TRUE \/ key \notin HeapKeys
    /\ r.hash_heap_value = TRUE \/ value \notin HeapValues
    /\ v.hash = With(r.hash, key, value) /\ v.array = r.array
    /\ v.array_heap = r.array_heap
    /\ v.hash_heap_key = r.hash_heap_key /\ v.hash_heap_value = r.hash_heap_value
    /\ v.nil_write = r.nil_write /\ v.tracks_legacy = r.tracks_legacy
    /\ v.legacy_array_capacity = r.legacy_array_capacity
    /\ Sized(v) /\ Ordered(v)

LEMMA HashEntered ==
    ASSUME NEW w, NEW r, NEW v, NEW key, NEW value, Sound(r, w), Enters(r, v, key, value)
    PROVE  /\ Sound(v, w)
           /\ \A k \in Keys : Get(v, k) = IF k = key THEN value ELSE Get(r, k)
<1> USE DEF Enters
<1>1. /\ r \in Table /\ Len(r.array) \in Nat /\ Len(r.array) <= MaxKey
      /\ Apart(r, w) /\ Flagged(r) /\ r.legacy_array_capacity \in Nat
      /\ MaxKey \in Nat /\ value \in Slots /\ value # Nil /\ IntKeys = 1 .. MaxKey
  BY TableFields, KeyFacts DEF Sound, IntKeys, Slots
<1>2. /\ DOMAIN v.hash = DOMAIN r.hash \union {key} /\ v.hash[key] = value
      /\ \A k \in DOMAIN r.hash : k # key => v.hash[k] = r.hash[k]
  BY DEF With
<1>3. LiveHash(v) = LiveHash(r) \union {key}
  BY <1>1, <1>2 DEF LiveHash
<1>4. key \in IntKeys => /\ key > Len(r.array) + 1
                         /\ r.tracks_legacy => key > r.legacy_array_capacity + 1
  BY <1>1 DEF GrowsOverHole
<1>5. Apart(v, w)
  <2>1. Len(v.array) + 1 \notin LiveHash(v)
    BY <1>1, <1>3 DEF Apart
  <2>2. ~v.nil_write =>
          \A k \in LiveHash(v) \intersect IntKeys :
             /\ k > Len(v.array) + 1
             /\ v.tracks_legacy => k > v.legacy_array_capacity + 1
    <3>1. ~r.nil_write =>
            \A k \in LiveHash(r) \intersect IntKeys :
               /\ k > Len(r.array) + 1
               /\ r.tracks_legacy => k > r.legacy_array_capacity + 1
      BY <1>1 DEF Apart
    <3> QED BY <1>3, <1>4, <3>1
  <2>3. w = {} =>
          /\ \A k \in LiveHash(v) \intersect IntKeys :
               /\ k \in 1 .. Len(v.array) => v.array[k] # Nil
               /\ v.tracks_legacy /\ k > Len(v.array) + 1 => k > v.legacy_array_capacity
          /\ ~v.tracks_legacy => v.legacy_array_capacity <= Len(v.array)
    <3>1. w = {} =>
            /\ \A k \in LiveHash(r) \intersect IntKeys :
                 /\ k \in 1 .. Len(r.array) => r.array[k] # Nil
                 /\ r.tracks_legacy /\ k > Len(r.array) + 1 => k > r.legacy_array_capacity
            /\ ~r.tracks_legacy => r.legacy_array_capacity <= Len(r.array)
      BY <1>1 DEF Apart
    <3>2. key \in IntKeys => /\ key \notin 1 .. Len(r.array)
                             /\ r.tracks_legacy => key > r.legacy_array_capacity
      BY <1>1, <1>4
    <3> QED BY <1>3, <3>1, <3>2
  <2> QED BY <2>1, <2>2, <2>3 DEF Apart
<1>6. Flagged(v)
  <2>1. ASSUME NEW k \in LiveHash(v), v.hash[k] \in HeapValues PROVE v.hash_heap_value
    <3>1. CASE k = key
      BY <1>2, <2>1, <3>1
    <3>2. CASE k # key
      <4>1. k \in LiveHash(r) /\ r.hash[k] \in HeapValues
        BY <1>2, <1>3, <2>1, <3>2 DEF LiveHash
      <4> QED BY <1>1, <4>1 DEF Flagged
    <3> QED BY <3>1, <3>2
  <2>2. LiveHash(v) \intersect HeapKeys # {} => v.hash_heap_key
    BY <1>1, <1>3 DEF Flagged
  <2>3. (\E i \in 1 .. Len(v.array) : v.array[i] \in HeapValues) => v.array_heap
    BY <1>1 DEF Flagged
  <2> QED BY <2>1, <2>2, <2>3 DEF Flagged
<1>7. \A k \in Keys : Get(v, k) = IF k = key THEN value ELSE Get(r, k)
  <2> SUFFICES ASSUME NEW k \in Keys PROVE Get(v, k) = IF k = key THEN value ELSE Get(r, k)
    OBVIOUS
  <2>1. CASE k \in 1 .. Len(r.array)
    BY <2>1 DEF Get, InArray
  <2>2. CASE k \notin 1 .. Len(r.array)
    <3>1. Get(v, k) = IF k \in DOMAIN v.hash THEN v.hash[k] ELSE Nil
      BY <2>2 DEF Get, InArray, InHash
    <3>2. Get(r, k) = IF k \in DOMAIN r.hash THEN r.hash[k] ELSE Nil
      BY <2>2 DEF Get, InArray, InHash
    <3> QED BY <1>2, <3>1, <3>2
  <2> QED BY <2>1, <2>2
<1> QED BY <1>1, <1>5, <1>6, <1>7 DEF Sound

LEMMA SetHashStores ==
    ASSUME NEW w, NEW u, Sound(u, w), NEW key \in Keys, NEW value \in LiveValues, NEW keys,
           key \notin 1 .. Len(u.array), key # Len(u.array) + 1, ~GrowsOverHole(u, key) \/ key \notin IntKeys,
           LET r == BeforeHashGrowth(u, key, value)
           IN  Offered(r, Cardinality(DOMAIN r.hash) + 1, keys)
    PROVE  Stores(u, w, key, value, SetHash(u, key, value, keys))
<1> DEFINE out == SetHash(u, key, value, keys)
           r == BeforeHashGrowth(u, key, value)
           g == GrowHash(r, Cardinality(DOMAIN r.hash) + 1, keys)
           p == PushOrder(g.table, key)
           f == With(r.hash, key, value)
<1> SUFFICES Stores(u, w, key, value, out)
  OBVIOUS
<1>1. u \in Table /\ value \in Slots /\ value # Nil
  BY KeyFacts DEF Sound, Slots
<1>2. /\ Sound(r, w)
      /\ \A k \in Keys : Get(r, k) = Get(u, k)
      /\ r.hash_heap_key = (u.hash_heap_key \/ key \in HeapKeys)
      /\ r.hash_heap_value = (u.hash_heap_value \/ value \in HeapValues)
      /\ r.order_enabled = (u.order_enabled
                              \/ (key \notin DOMAIN r.hash /\ OrdersBy(u, key)))
      /\ r.array = u.array /\ r.nil_write = u.nil_write
      /\ r.tracks_legacy = u.tracks_legacy
      /\ r.legacy_array_capacity = u.legacy_array_capacity
      /\ r.hash_capacity = u.hash_capacity /\ r.array_capacity = u.array_capacity
      /\ r.hash_order_capacity = u.hash_order_capacity
  BY <1>1, BeforeHashGrowthFacts
<1> DEFINE dec == IF r.hash[key] = Nil THEN SaturatingDec(r.tombstones, 1) ELSE r.tombstones
           va == [[r EXCEPT !.tombstones = IF r.hash[key] = Nil THEN SaturatingDec(@, 1) ELSE @]
                    EXCEPT !.hash = With(@, key, value)]
           vb == [p EXCEPT !.hash = With(@, key, value)]
<1>3. /\ key \in DOMAIN r.hash => out = [table |-> va, request |-> 0, replaced |-> 0]
      /\ key \notin DOMAIN r.hash => out = [g EXCEPT !.table = vb]
      /\ Offered(r, Cardinality(DOMAIN r.hash) + 1, keys)
      /\ \E T, R, P : g = [table |-> T, request |-> R, replaced |-> P]
  <2>1. \E T, R, P : g = [table |-> T, request |-> R, replaced |-> P]
    BY DEF GrowHash
  <2>2. key \in DOMAIN r.hash => out = [table |-> va, request |-> 0, replaced |-> 0]
    BY Zenon DEF SetHash, InHash
  <2>3. key \notin DOMAIN r.hash => out = [g EXCEPT !.table = vb]
    BY Zenon DEF SetHash, InHash
  <2> QED BY <2>1, <2>2, <2>3
<1> HIDE DEF r, out
<1>4. /\ r \in Table /\ Sized(r) /\ Ordered(r) /\ r.tombstones \in Nat
      /\ f \in UNION {[S -> Slots] : S \in SUBSET Keys}
      /\ IsFiniteSet(DOMAIN r.hash)
  <2>1. r \in Table /\ Sized(r) /\ Ordered(r)
    BY <1>2 DEF Sound
  <2> QED BY <1>1, <2>1, TableFields, WithTyped DEF Sized
<1>5. ~GrowsOverHole(r, key) \/ key \notin IntKeys
  BY <1>2 DEF GrowsOverHole
<1>6. r.hash_heap_key = TRUE \/ key \notin HeapKeys
  BY <1>2
<1>7. r.hash_heap_value = TRUE \/ value \notin HeapValues
  BY <1>2
<1>8. ASSUME NEW v \in Table, out.table = v, Charged(r, out),
             v.hash = f, v.array = r.array,
             v.array_heap = r.array_heap,
             v.hash_heap_key = r.hash_heap_key, v.hash_heap_value = r.hash_heap_value,
             v.nil_write = r.nil_write, v.tracks_legacy = r.tracks_legacy,
             v.legacy_array_capacity = r.legacy_array_capacity,
             Sized(v), Ordered(v)
      PROVE  Stores(u, w, key, value, out)
  <2>1. /\ Sound(v, w)
        /\ \A k \in Keys : Get(v, k) = IF k = key THEN value ELSE Get(r, k)
    <3>1. v.hash = With(r.hash, key, value)
      BY <1>8
    <3>2. Enters(r, v, key, value)
      BY <1>2, <1>5, <1>6, <1>7, <1>8, <3>1 DEF Enters
    <3> QED BY <1>2, <3>2, HashEntered
  <2>2. Charged(u, out)
    <3>1. DynamicBytes(r) = DynamicBytes(u)
      BY <1>2 DEF DynamicBytes
    <3> QED BY <1>8, <3>1 DEF Charged
  <2> QED BY <1>2, <1>8, <2>1, <2>2 DEF Stores
<1>9. CASE key \in DOMAIN r.hash
  <2>1. va = [r EXCEPT !.tombstones = dec, !.hash = f]
    BY <1>4 DEF Table
  <2>2. dec \in Nat
    BY <1>4 DEF SaturatingDec
  <2> HIDE DEF va, dec, f
  <2>3. /\ va \in Table /\ va.hash = f /\ va.tombstones = dec /\ va.array = r.array
        /\ va.array_heap = r.array_heap
        /\ va.hash_heap_key = r.hash_heap_key /\ va.hash_heap_value = r.hash_heap_value
        /\ va.nil_write = r.nil_write /\ va.tracks_legacy = r.tracks_legacy
        /\ va.legacy_array_capacity = r.legacy_array_capacity
        /\ va.array_capacity = r.array_capacity /\ va.hash_capacity = r.hash_capacity
        /\ va.hash_order_capacity = r.hash_order_capacity /\ va.hash_order = r.hash_order
    BY <1>4, <2>1, <2>2 DEF Table
  <2>4. out.table = va /\ Charged(r, out)
    BY <1>3, <1>4, <1>9, <2>3, FreeIsCharged
  <2>5. ~va.nil_write => va.tombstones = Cardinality(Tombstones(va))
    <3>1. va.hash = With(r.hash, key, value)
      BY <2>3 DEF f
    <3>2. key \in Tombstones(r) <=> r.hash[key] = Nil
      BY <1>9 DEF Tombstones
    <3>3. Cardinality(Tombstones(va)) =
            IF key \in Tombstones(r) THEN Cardinality(Tombstones(r)) - 1
            ELSE Cardinality(Tombstones(r))
      <4>1. Cardinality(Tombstones(va)) =
               IF value = Nil
               THEN IF key \in Tombstones(r) THEN Cardinality(Tombstones(r))
                    ELSE Cardinality(Tombstones(r)) + 1
               ELSE IF key \in Tombstones(r) THEN Cardinality(Tombstones(r)) - 1
                    ELSE Cardinality(Tombstones(r))
        BY <1>1, <1>4, <2>3, <3>1, TombstoneCounts
      <4> QED BY <1>1, <4>1
    <3>4. key \in Tombstones(r) => Cardinality(Tombstones(r)) \in Nat \ {0}
      BY <1>4, TombstonesFinite, FS_EmptySet
    <3>5. ~r.nil_write => r.tombstones = Cardinality(Tombstones(r))
      BY <1>4 DEF Sized
    <3> QED BY <1>4, <2>3, <3>2, <3>3, <3>4, <3>5 DEF dec, SaturatingDec
  <2>6. Sized(va) /\ Ordered(va)
    <3>1. DOMAIN va.hash \subseteq DOMAIN r.hash
      BY <1>9, <2>3 DEF f, With
    <3> QED BY <1>4, <2>3, <2>5, <3>1, FewerKept
  <2> QED BY <1>8, <2>3, <2>4, <2>6
<1>10. CASE key \notin DOMAIN r.hash
  <2>1. Room(r, p, key) /\ Charged(r, g) /\ DynamicBytes(p) = DynamicBytes(g.table)
    BY <1>3, <1>4, GrowthMakesRoom
  <2>2. out = [g EXCEPT !.table = vb]
    BY <1>3, <1>10
  <2> HIDE DEF g, p
  <2>3. p \in Table
        /\ p = [r EXCEPT !.hash_capacity = p.hash_capacity,
                         !.hash_order_capacity = p.hash_order_capacity,
                         !.hash_order = p.hash_order]
    BY <2>1 DEF Room
  <2>4. /\ p.hash = r.hash /\ p.tombstones = r.tombstones /\ p.array = r.array
        /\ p.array_heap = r.array_heap
        /\ p.hash_heap_key = r.hash_heap_key /\ p.hash_heap_value = r.hash_heap_value
        /\ p.nil_write = r.nil_write /\ p.tracks_legacy = r.tracks_legacy
        /\ p.legacy_array_capacity = r.legacy_array_capacity
    <3> DEFINE h == p.hash_capacity
               o == p.hash_order_capacity
               s == p.hash_order
    <3>1. p = [r EXCEPT !.hash_capacity = h, !.hash_order_capacity = o, !.hash_order = s]
      BY <2>3
    <3> HIDE DEF h, o, s
    <3> QED BY <1>4, <3>1 DEF Table
  <2>5. vb = [p EXCEPT !.hash = f]
    BY <2>4
  <2> HIDE DEF vb, f
  <2>6. /\ vb \in Table /\ vb.hash = f /\ vb.tombstones = p.tombstones /\ vb.array = p.array
        /\ vb.array_heap = p.array_heap
        /\ vb.hash_heap_key = p.hash_heap_key /\ vb.hash_heap_value = p.hash_heap_value
        /\ vb.nil_write = p.nil_write /\ vb.tracks_legacy = p.tracks_legacy
        /\ vb.legacy_array_capacity = p.legacy_array_capacity
        /\ vb.array_capacity = p.array_capacity /\ vb.hash_capacity = p.hash_capacity
        /\ vb.hash_order_capacity = p.hash_order_capacity /\ vb.hash_order = p.hash_order
    BY <1>4, <2>3, <2>5 DEF Table
  <2>7. vb.hash = With(r.hash, key, value)
    BY <2>6 DEF f
  <2>8. ~vb.nil_write => vb.tombstones = Cardinality(Tombstones(vb))
    <3>1. key \notin Tombstones(r)
      BY <1>10 DEF Tombstones
    <3>2. Cardinality(Tombstones(vb)) = Cardinality(Tombstones(r))
      <4>1. Cardinality(Tombstones(vb)) =
               IF value = Nil
               THEN IF key \in Tombstones(r) THEN Cardinality(Tombstones(r))
                    ELSE Cardinality(Tombstones(r)) + 1
               ELSE IF key \in Tombstones(r) THEN Cardinality(Tombstones(r)) - 1
                    ELSE Cardinality(Tombstones(r))
        BY <1>1, <1>4, <2>6, <2>7, TombstoneCounts
      <4> QED BY <1>1, <3>1, <4>1
    <3> QED BY <1>4, <2>4, <2>6, <3>2 DEF Sized
  <2>9. Sized(vb) /\ Ordered(vb)
    <3>1. key \in HeapKeys => r.order_enabled
      BY <1>2, <1>10 DEF OrdersBy
    <3> QED BY <1>1, <1>4, <1>10, <2>1, <2>6, <2>7, <2>8, <3>1, OneMore
  <2>10. out.table = vb /\ out.request = g.request /\ out.replaced = g.replaced
    <3>1. \E T, R, P : g = [table |-> T, request |-> R, replaced |-> P]
      BY <1>3 DEF g
    <3> QED BY <2>2, <3>1
  <2>11. Charged(r, out)
    <3>1. DynamicBytes(vb) = DynamicBytes(p)
      BY <2>6 DEF DynamicBytes
    <3> QED BY <2>1, <2>10, <3>1 DEF Charged
  <2> QED BY <1>8, <2>4, <2>6, <2>9, <2>10, <2>11
<1> QED BY <1>9, <1>10

(* The table that a write finds when it asks for memory.                   *)
Ready(u, key, value) == IF InArray(u, key) THEN u ELSE BeforeHashGrowth(u, key, value)

(* Every write stores its value under its key, whichever branch of         *)
(* Table::set it takes, and keeps the table sound.                         *)
LEMMA SetStores ==
    ASSUME NEW w, NEW u, Sound(u, w), NEW key \in Keys, NEW value \in Slots, NEW keys,
           LET r == Ready(u, key, value)
           IN  Offered(r, Cardinality(DOMAIN r.hash) + 1, keys)
    PROVE  Stores(u, w, key, value, Set(u, key, value, keys))
<1>1. value # Nil => value \in LiveValues
  BY KeyFacts
<1>2. CASE InArray(u, key)
  <2>1. Offered(u, Cardinality(DOMAIN u.hash) + 1, keys) /\ key \in 1 .. Len(u.array)
    BY <1>2 DEF Ready, InArray
  <2>2. Set(u, key, value, keys) = SetArray(u, key, value, keys)
    BY <1>2 DEF Set
  <2> QED BY <2>1, <2>2, SetArrayStores
<1>3. CASE ~InArray(u, key) /\ key = Len(u.array) + 1 /\ value = Nil
  <2>1. Set(u, key, value, keys) = SetBoundaryNil(u, key)
    BY <1>3 DEF Set
  <2> QED BY <1>3, <2>1, SetBoundaryNilStores
<1>4. CASE /\ ~InArray(u, key) /\ key \in IntKeys /\ value # Nil
           /\ key = Len(u.array) + 1 \/ GrowsOverHole(u, key)
  <2>1. Set(u, key, value, keys) = SetGrowing(u, key, value)
    BY <1>4 DEF Set
  <2> QED BY <1>1, <1>4, <2>1, SetGrowingStores
<1>5. CASE /\ ~InArray(u, key) /\ key # Len(u.array) + 1 /\ value = Nil
  <2>1. Set(u, key, value, keys) = SetHashNil(u, key) /\ key \notin 1 .. Len(u.array)
    BY <1>5 DEF Set, InArray
  <2> QED BY <1>5, <2>1, SetHashNilStores
<1>6. CASE /\ ~InArray(u, key) /\ value # Nil
           /\ ~(key \in IntKeys /\ (key = Len(u.array) + 1 \/ GrowsOverHole(u, key)))
  <2>1. Set(u, key, value, keys) = SetHash(u, key, value, keys) /\ key \notin 1 .. Len(u.array)
    BY <1>6 DEF Set, InArray
  <2>2. key # Len(u.array) + 1
    <3>1. Len(u.array) \in Nat
      BY TableFields DEF Sound
    <3> QED BY <1>6, <3>1, KeyFacts
  <2>3. LET r == BeforeHashGrowth(u, key, value)
        IN  Offered(r, Cardinality(DOMAIN r.hash) + 1, keys)
    BY <1>6 DEF Ready
  <2>4. ~GrowsOverHole(u, key) \/ key \notin IntKeys
    BY <1>6
  <2> QED BY <1>1, <1>6, <2>1, <2>2, <2>3, <2>4, SetHashStores
<1> QED BY <1>2, <1>3, <1>4, <1>5, <1>6

(* A refused write changes nothing that a read sees.                       *)
LEMMA SetRefusedKeeps ==
    ASSUME NEW w, NEW u, Sound(u, w), NEW key \in Keys, NEW value \in Slots
    PROVE  LET v == SetRefused(u, key, value)
           IN  /\ Sound(v, w) /\ v.nil_write = u.nil_write
               /\ DynamicBytes(v) = DynamicBytes(u)
               /\ \A k \in Keys : Get(v, k) = Get(u, k)
<1>1. CASE SetRefused(u, key, value) = u
  BY <1>1
<1>2. CASE SetRefused(u, key, value) = BeforeHashGrowth(u, key, value)
  <2> DEFINE v == BeforeHashGrowth(u, key, value)
  <2>1. /\ Sound(v, w) /\ v.nil_write = u.nil_write
        /\ \A k \in Keys : Get(v, k) = Get(u, k)
        /\ v.hash_capacity = u.hash_capacity /\ v.array_capacity = u.array_capacity
        /\ v.hash_order_capacity = u.hash_order_capacity
    BY BeforeHashGrowthFacts
  <2>2. DynamicBytes(v) = DynamicBytes(u)
    BY <2>1 DEF DynamicBytes
  <2> QED BY <1>2, <2>1, <2>2
<1> QED BY <1>1, <1>2 DEF SetRefused

-----------------------------------------------------------------------------
(* Empty tables, and the fields that reads do not look at                  *)

LEMMA EmptyIsSound ==
    ASSUME NEW w, NEW u \in Table, Len(u.array) <= MaxKey,
           \A i \in 1 .. Len(u.array) : u.array[i] = Nil,
           u.hash = <<>>, u.tombstones = 0, u.hash_order = <<>>,
           w = {} /\ ~u.tracks_legacy => u.legacy_array_capacity <= Len(u.array)
    PROVE  Sound(u, w) /\ \A k \in Keys : Get(u, k) = Nil
<1>1. DOMAIN u.hash = {} /\ LiveHash(u) = {} /\ Tombstones(u) = {}
  BY DEF LiveHash, Tombstones
<1>2. Apart(u, w)
  BY <1>1 DEF Apart
<1>3. Sized(u)
  <2>1. u.hash_capacity \in Nat /\ u.hash_order_capacity \in Nat
    BY TableFields
  <2> QED BY <1>1, <2>1, FS_EmptySet DEF Sized
<1>4. Ordered(u)
  <2>1. DOMAIN u.hash_order = {} /\ Len(u.hash_order) = 0
    OBVIOUS
  <2>2. ToSet(u.hash_order) = {}
    BY <2>1 DEF ToSet
  <2>3. u.hash_order \in Seq({})
    OBVIOUS
  <2> QED BY <1>1, <2>1, <2>2, <2>3 DEF Ordered, Lists
<1>5. Flagged(u)
  BY <1>1, KeyFacts DEF Flagged
<1>6. \A k \in Keys : Get(u, k) = Nil
  BY <1>1 DEF Get, InArray, InHash
<1> QED BY <1>2, <1>3, <1>4, <1>5, <1>6 DEF Sound

LEMMA NewTableSound ==
    ASSUME NEW w, NEW array \in Nat, NEW hash \in Nat, NEW policy \in Policies
    PROVE  LET u == NewTable(array, hash, policy)
           IN  /\ Sound(u, w) /\ ~u.nil_write
               /\ \A k \in Keys : Get(u, k) = Nil
<1> DEFINE u == NewTable(array, hash, policy)
<1>1. /\ u.array = <<>> /\ u.hash = <<>> /\ u.tombstones = 0 /\ u.hash_order = <<>>
      /\ ~u.tracks_legacy => array = 0
      /\ u.legacy_array_capacity = array
      /\ u.nil_write = FALSE
  <2> DEFINE b == array > 0 \/ hash > 0
  <2>1. /\ u.array = <<>> /\ u.hash = <<>> /\ u.tombstones = 0 /\ u.hash_order = <<>>
        /\ u.tracks_legacy = b /\ u.legacy_array_capacity = array
        /\ u.nil_write = FALSE
    BY DEF NewTable
  <2>2. b \/ array = 0
    OBVIOUS
  <2> HIDE DEF u, b
  <2> QED BY <2>1, <2>2
<1>2. u \in Table
  <2>1. <<>> \in [{} -> Slots] /\ {} \in SUBSET Keys
    OBVIOUS
  <2>2. <<>> \in UNION {[S -> Slots] : S \in SUBSET Keys}
    BY <2>1
  <2> QED BY <2>2 DEF NewTable, Table
<1>3. Len(u.array) = 0 /\ Len(u.array) <= MaxKey
  BY <1>1, KeyFacts
<1> HIDE DEF u
<1>4. Sound(u, w) /\ \A k \in Keys : Get(u, k) = Nil
  <2>1. \A i \in 1 .. Len(u.array) : u.array[i] = Nil
    BY <1>3
  <2>2. ~u.tracks_legacy => u.legacy_array_capacity <= Len(u.array)
    BY <1>1, <1>3
  <2> QED BY <1>1, <1>2, <1>3, <2>1, <2>2, EmptyIsSound
<1> QED BY <1>1, <1>4 DEF u

LEMMA ClearSound ==
    ASSUME NEW w, NEW u, Sound(u, w)
    PROVE  LET v == Clear(u)
           IN  /\ Sound(v, w) /\ v.nil_write = u.nil_write
               /\ DynamicBytes(v) = DynamicBytes(u)
               /\ \A k \in Keys : Get(v, k) = Nil
<1> DEFINE v == Clear(u)
           a == [i \in DOMAIN u.array |-> Nil]
           b == u.preallocated \/ u.array # <<>>
<1>1. /\ u \in Table /\ u.array \in Seq(Slots) /\ Len(u.array) \in Nat /\ Len(u.array) <= MaxKey
      /\ DOMAIN u.array = 1 .. Len(u.array)
      /\ b \in BOOLEAN
      /\ w = {} /\ ~u.tracks_legacy => u.legacy_array_capacity <= Len(u.array)
  BY TableFields, LenProperties DEF Sound, Apart
<1>2. /\ a \in Seq(Slots) /\ Len(a) = Len(u.array)
      /\ \A i \in 1 .. Len(u.array) : a[i] = Nil
  <2>1. a \in [1 .. Len(u.array) -> Slots]
    BY <1>1, KeyFacts
  <2>2. \A i \in 1 .. Len(u.array) : a[i] = Nil
    BY <1>1
  <2> HIDE DEF a
  <2> QED BY <1>1, <2>1, <2>2, FunctionIsSeq
<1>3. v = [u EXCEPT !.array = a, !.hash = <<>>, !.tombstones = 0, !.hash_order = <<>>,
                    !.order_enabled = FALSE, !.preallocated = b]
  BY DEF Clear
<1>4. <<>> \in UNION {[S -> Slots] : S \in SUBSET Keys}
  <2>1. <<>> \in [{} -> Slots] /\ {} \in SUBSET Keys
    OBVIOUS
  <2> QED BY <2>1
<1> HIDE DEF v, a, b
<1>5. /\ v \in Table
      /\ v.array = a /\ v.hash = <<>> /\ v.tombstones = 0 /\ v.hash_order = <<>>
      /\ v.tracks_legacy = u.tracks_legacy
      /\ v.legacy_array_capacity = u.legacy_array_capacity
      /\ v.nil_write = u.nil_write
      /\ v.array_capacity = u.array_capacity /\ v.hash_capacity = u.hash_capacity
      /\ v.hash_order_capacity = u.hash_order_capacity
  <2> DEFINE h == <<>>
             o == <<>>
             e == FALSE
             n == 0
  <2>1. v = [u EXCEPT !.array = a, !.hash = h, !.tombstones = n, !.hash_order = o,
                      !.order_enabled = e, !.preallocated = b]
    BY <1>3
  <2>2. /\ h \in UNION {[S -> Slots] : S \in SUBSET Keys} /\ o \in Seq(Keys)
        /\ e \in BOOLEAN /\ n \in Nat
    BY <1>4
  <2> HIDE DEF h, o, e, n
  <2>3. /\ v \in Table
        /\ v.array = a /\ v.hash = h /\ v.tombstones = n /\ v.hash_order = o
        /\ v.tracks_legacy = u.tracks_legacy
        /\ v.legacy_array_capacity = u.legacy_array_capacity
        /\ v.nil_write = u.nil_write
        /\ v.array_capacity = u.array_capacity /\ v.hash_capacity = u.hash_capacity
        /\ v.hash_order_capacity = u.hash_order_capacity
    BY <1>1, <1>2, <2>1, <2>2 DEF Table
  <2> QED BY <2>3 DEF h, o, n
<1>6. Sound(v, w) /\ \A k \in Keys : Get(v, k) = Nil
  BY <1>1, <1>2, <1>5, EmptyIsSound
<1>7. DynamicBytes(v) = DynamicBytes(u)
  BY <1>5 DEF DynamicBytes
<1> QED BY <1>5, <1>6, <1>7 DEF v

(* table_freeze and the preallocation mark.                                *)
LEMMA MarkedSound ==
    ASSUME NEW w, NEW u, Sound(u, w), NEW v \in Table, NEW p, NEW f,
           v = [u EXCEPT !.preallocated = p, !.frozen = f]
    PROVE  /\ Sound(v, w) /\ v.nil_write = u.nil_write
           /\ DynamicBytes(v) = DynamicBytes(u)
           /\ v.hash_order_capacity = u.hash_order_capacity /\ v.hash = u.hash
           /\ \A k \in Keys : Get(v, k) = Get(u, k)
<1>1. u \in Table
  BY DEF Sound
<1>2. /\ v.array = u.array /\ v.hash = u.hash /\ v.tombstones = u.tombstones
      /\ v.hash_order = u.hash_order
      /\ v.tracks_legacy = u.tracks_legacy
      /\ v.legacy_array_capacity = u.legacy_array_capacity
      /\ v.nil_write = u.nil_write /\ v.array_heap = u.array_heap
      /\ v.hash_heap_key = u.hash_heap_key /\ v.hash_heap_value = u.hash_heap_value
      /\ v.array_capacity = u.array_capacity /\ v.hash_capacity = u.hash_capacity
      /\ v.hash_order_capacity = u.hash_order_capacity
  BY <1>1 DEF Table
<1>3. /\ LiveHash(v) = LiveHash(u) /\ Tombstones(v) = Tombstones(u)
      /\ \A k \in Keys : Get(v, k) = Get(u, k)
  BY <1>2, SameParts
<1>4. Apart(v, w)
  BY <1>2, <1>3 DEF Sound, Apart
<1>5. Sized(v) /\ Ordered(v)
  BY <1>2, <1>3 DEF Sound, Sized, Ordered
<1>6. Flagged(v)
  BY <1>2, <1>3 DEF Sound, Flagged
<1>7. Len(v.array) <= MaxKey
  BY <1>2 DEF Sound
<1> QED BY <1>2, <1>3, <1>4, <1>5, <1>6, <1>7 DEF Sound, DynamicBytes

-----------------------------------------------------------------------------
(* The collector's clearing of a weak table                                *)

(* The elements of a listed order that are in L.                           *)
LEMMA OrderKept ==
    ASSUME NEW s, NEW L, Lists(s, ToSet(s)), L \subseteq ToSet(s), L \subseteq Keys
    PROVE  /\ Lists(Selected(s, L), L) /\ Selected(s, L) \in Seq(Keys)
           /\ ToSet(Selected(s, L)) = L
           /\ Len(Selected(s, L)) = Cardinality(L) /\ Cardinality(L) \in Nat
           /\ L = {} => Selected(s, L) = <<>>
<1> DEFINE O == ToSet(s)
           q == Selected(s, L)
<1>1. O \cap L = L
  OBVIOUS
<1> HIDE DEF O, q
<1>2. Lists(q, O \cap L)
  BY ListsSelected DEF O, q
<1>3. Lists(q, L)
  BY <1>1, <1>2
<1>4. ToSet(q) = L /\ Len(q) = Cardinality(L) /\ Len(q) \in Nat
  BY <1>3, ListsSize
<1>5. q \in Seq(Keys) /\ q \in Seq(L)
  BY <1>3 DEF Lists
<1>6. L = {} => q = <<>>
  <2>1. ASSUME L = {} PROVE Len(q) = 0
    BY <1>4, <2>1, FS_EmptySet
  <2> QED BY <1>5, <2>1, EmptySeq
<1> QED BY <1>3, <1>4, <1>5, <1>6 DEF q

LEMMA TrimHashFacts ==
    ASSUME NEW u \in Table, IsFiniteSet(DOMAIN u.hash), Ordered(u)
    PROVE  LET v == TrimHash(u)
           IN  /\ v \in Table /\ Ordered(v)
               /\ v.array = u.array /\ v.nil_write = u.nil_write
               /\ v.array_heap = u.array_heap
               /\ v.hash_heap_key = u.hash_heap_key /\ v.hash_heap_value = u.hash_heap_value
               /\ v.tracks_legacy = u.tracks_legacy
               /\ v.legacy_array_capacity = u.legacy_array_capacity
               /\ v.array_capacity = u.array_capacity
               /\ DOMAIN v.hash = LiveHash(u) /\ LiveHash(v) = LiveHash(u)
               /\ \A k \in LiveHash(u) : v.hash[k] = u.hash[k]
               /\ Tombstones(v) = {} /\ v.tombstones = 0
               /\ v.hash_capacity = Cardinality(LiveHash(u))
               /\ v.hash_order_capacity = IF u.hash_order_capacity = 0 THEN 0
                                          ELSE Cardinality(LiveHash(u))
<1> DEFINE v == TrimHash(u)
           L == LiveHash(u)
           c == Cardinality(L)
           f == Without(u.hash, Tombstones(u))
           q == Selected(u.hash_order, L)
           kept == KeepLive(u)
           trimmed == [kept EXCEPT !.hash_capacity = Cardinality(DOMAIN kept.hash)]
<1>1. /\ L \subseteq DOMAIN u.hash /\ L \subseteq Keys
      /\ DOMAIN u.hash \ Tombstones(u) = L
  BY LiveKeys DEF LiveHash, Tombstones
<1>2. c \in Nat
  <2>1. IsFiniteSet(L)
    BY <1>1, FS_Subset
  <2> QED BY <2>1, FS_CardinalityType
<1>3. /\ f \in UNION {[S -> Slots] : S \in SUBSET Keys}
      /\ DOMAIN f = L
      /\ \A k \in L : f[k] = u.hash[k]
  <2>1. f \in UNION {[S -> Slots] : S \in SUBSET Keys}
    BY WithoutFacts
  <2> QED BY <1>1, <2>1 DEF Without
<1>4. v = IF u.hash_order_capacity = 0 THEN trimmed
          ELSE [trimmed EXCEPT !.hash_order = q, !.hash_order_capacity = Len(q)]
  BY DEF TrimHash, OrderOf
<1>5. kept = [u EXCEPT !.hash = f, !.tombstones = 0]
  BY DEF KeepLive
<1> HIDE DEF v, q, f, kept
<1>6. kept.hash = f
  BY <1>3, <1>5 DEF Table
<1>7. trimmed = [u EXCEPT !.hash = f, !.tombstones = 0, !.hash_capacity = c]
  BY <1>3, <1>5, <1>6 DEF Table
<1> HIDE DEF trimmed, L, c
<1>8. /\ trimmed \in Table
      /\ trimmed.array = u.array /\ trimmed.nil_write = u.nil_write
      /\ trimmed.array_heap = u.array_heap
      /\ trimmed.hash_heap_key = u.hash_heap_key
      /\ trimmed.hash_heap_value = u.hash_heap_value
      /\ trimmed.tracks_legacy = u.tracks_legacy
      /\ trimmed.legacy_array_capacity = u.legacy_array_capacity
      /\ trimmed.array_capacity = u.array_capacity
      /\ trimmed.hash = f /\ trimmed.tombstones = 0 /\ trimmed.hash_capacity = c
      /\ trimmed.hash_order_capacity = u.hash_order_capacity
      /\ trimmed.hash_order = u.hash_order
  BY <1>2, <1>3, <1>7 DEF Table
<1>9. /\ v \in Table /\ Ordered(v)
      /\ v.array = u.array /\ v.nil_write = u.nil_write
      /\ v.array_heap = u.array_heap
      /\ v.hash_heap_key = u.hash_heap_key /\ v.hash_heap_value = u.hash_heap_value
      /\ v.tracks_legacy = u.tracks_legacy
      /\ v.legacy_array_capacity = u.legacy_array_capacity
      /\ v.array_capacity = u.array_capacity
      /\ v.hash = f /\ v.tombstones = 0 /\ v.hash_capacity = c
      /\ v.hash_order_capacity = IF u.hash_order_capacity = 0 THEN 0 ELSE c
  <2>1. CASE u.hash_order_capacity = 0
    <3>1. v = trimmed
      BY <1>4, <2>1
    <3>2. Ordered(v)
      BY <1>1, <1>3, <1>8, <2>1, <3>1 DEF Ordered
    <3> QED BY <1>8, <2>1, <3>1, <3>2
  <2>2. CASE u.hash_order_capacity # 0
    <3>1. Lists(u.hash_order, ToSet(u.hash_order)) /\ L \subseteq ToSet(u.hash_order)
      BY <1>1, <2>2 DEF Ordered
    <3>2. /\ Lists(q, L) /\ q \in Seq(Keys) /\ ToSet(q) = L /\ Len(q) = c
          /\ L = {} => q = <<>>
      BY <1>1, <3>1, OrderKept DEF q, c
    <3>3. v = [trimmed EXCEPT !.hash_order = q, !.hash_order_capacity = c]
      BY <1>4, <2>2, <3>2
    <3>4. /\ v \in Table
          /\ v.array = trimmed.array /\ v.nil_write = trimmed.nil_write
          /\ v.array_heap = trimmed.array_heap
          /\ v.hash_heap_key = trimmed.hash_heap_key
          /\ v.hash_heap_value = trimmed.hash_heap_value
          /\ v.tracks_legacy = trimmed.tracks_legacy
          /\ v.legacy_array_capacity = trimmed.legacy_array_capacity
          /\ v.array_capacity = trimmed.array_capacity
          /\ v.hash = trimmed.hash /\ v.tombstones = trimmed.tombstones
          /\ v.hash_capacity = trimmed.hash_capacity
          /\ v.hash_order_capacity = c /\ v.hash_order = q
      BY <1>2, <1>8, <3>2, <3>3 DEF Table
    <3>5. c = 0 => L = {}
      <4>1. IsFiniteSet(L)
        BY <3>2, ListsSize
      <4> QED BY <4>1, FS_EmptySet DEF c
    <3>6. Ordered(v)
      BY <1>3, <1>8, <3>2, <3>4, <3>5 DEF Ordered
    <3> QED BY <1>8, <2>2, <3>4, <3>6
  <2> QED BY <2>1, <2>2
<1>10. /\ DOMAIN v.hash = L /\ LiveHash(v) = L
       /\ \A k \in L : v.hash[k] = u.hash[k]
       /\ Tombstones(v) = {}
  BY <1>3, <1>9 DEF LiveHash, Tombstones, L
<1> QED BY <1>9, <1>10 DEF v, L, c

LEMMA LastLiveFacts ==
    ASSUME NEW u \in Table
    PROVE  /\ LastLive(u) \in 0 .. Len(u.array)
           /\ LastLive(u) # 0 => u.array[LastLive(u)] # Nil
           /\ \A i \in 1 .. Len(u.array) : i > LastLive(u) => u.array[i] = Nil
<1> DEFINE n == Len(u.array)
           A == {0} \union {i \in 1 .. n : u.array[i] # Nil}
<1>1. n \in Nat
  BY TableFields
<1>2. A \in SUBSET (0 .. n) /\ A # {}
  BY <1>1
<1>3. LastLive(u) = Max(A)
  BY DEF LastLive
<1>4. Max(A) \in A /\ \A k \in A : k <= Max(A)
  <2> HIDE DEF A, n
  <2> QED BY <1>1, <1>2, GreatestIn
<1> DEFINE m == Max(A)
<1>5. m \in A /\ m \in 0 .. n /\ \A k \in A : k <= m
  BY <1>2, <1>4
<1> HIDE DEF m
<1>6. m # 0 => u.array[m] # Nil
  BY <1>5
<1>7. \A i \in 1 .. n : i > m => u.array[i] = Nil
  <2> SUFFICES ASSUME NEW i \in 1 .. n, i > m, u.array[i] # Nil PROVE FALSE
    OBVIOUS
  <2>1. i <= m
    BY <1>5
  <2> QED BY <1>1, <1>5, <2>1
<1> QED BY <1>3, <1>5, <1>6, <1>7 DEF m

(* trim_array takes the keys above the last value out of both parts.       *)
LEMMA TrimArrayFacts ==
    ASSUME NEW u \in Table, IsFiniteSet(DOMAIN u.hash)
    PROVE  LET v == TrimArray(u)
               l == LastLive(u)
           IN  /\ v \in Table
               /\ Len(v.array) = l
               /\ \A i \in 1 .. l : v.array[i] = u.array[i]
               /\ DOMAIN v.hash = DOMAIN u.hash \ (l + 1 .. Len(u.array))
               /\ LiveHash(v) = LiveHash(u) \ (l + 1 .. Len(u.array))
               /\ \A k \in LiveHash(v) : v.hash[k] = u.hash[k]
               /\ v.nil_write = u.nil_write /\ v.array_heap = u.array_heap
               /\ v.hash_heap_key = u.hash_heap_key /\ v.hash_heap_value = u.hash_heap_value
               /\ v.tracks_legacy = u.tracks_legacy
               /\ v.legacy_array_capacity = u.legacy_array_capacity
               /\ v.array_capacity = u.array_capacity
               /\ v.hash_capacity = u.hash_capacity
               /\ v.hash_order_capacity = u.hash_order_capacity
               /\ v.hash_order = u.hash_order
<1> DEFINE v == TrimArray(u)
           l == LastLive(u)
           S == l + 1 .. Len(u.array)
           r == RemoveHash(u, S)
           f == Without(u.hash, S)
           d == r.tombstones
           a == SubSeq(u.array, 1, l)
<1>1. u.array \in Seq(Slots) /\ Len(u.array) \in Nat /\ l \in 0 .. Len(u.array) /\ l \in Nat
  <2>1. u.array \in Seq(Slots) /\ Len(u.array) \in Nat
    BY TableFields
  <2>2. l \in 0 .. Len(u.array)
    BY LastLiveFacts
  <2> QED BY <2>1, <2>2
<1>2. /\ r \in Table /\ r = [u EXCEPT !.hash = f, !.tombstones = d]
      /\ DOMAIN r.hash = DOMAIN u.hash \ S
      /\ \A k \in DOMAIN u.hash \ S : r.hash[k] = u.hash[k]
      /\ LiveHash(r) = LiveHash(u) \ S
  <2> HIDE DEF S
  <2> QED BY RemoveHashFacts DEF r, f, d
<1>3. /\ a \in Seq(Slots) /\ Len(a) = l
      /\ \A i \in 1 .. l : a[i] = u.array[i]
  <2>1. /\ a \in Seq(Slots) /\ Len(a) = IF 1 <= l THEN l - 1 + 1 ELSE 0
        /\ \A i \in 1 .. l - 1 + 1 : a[i] = u.array[1 + i - 1]
    <3> HIDE DEF l
    <3> QED BY <1>1, SubSeqProperties
  <2> HIDE DEF a, l
  <2> QED BY <1>1, <2>1
<1>4. v = [r EXCEPT !.array = SubSeq(r.array, 1, l)]
  BY DEF TrimArray
<1> HIDE DEF r, f, d, S, l, v
<1>5. /\ r.array = u.array /\ r.nil_write = u.nil_write /\ r.array_heap = u.array_heap
      /\ r.hash_heap_key = u.hash_heap_key /\ r.hash_heap_value = u.hash_heap_value
      /\ r.tracks_legacy = u.tracks_legacy
      /\ r.legacy_array_capacity = u.legacy_array_capacity
      /\ r.array_capacity = u.array_capacity
      /\ r.hash_capacity = u.hash_capacity
      /\ r.hash_order_capacity = u.hash_order_capacity
      /\ r.hash_order = u.hash_order
  BY <1>2 DEF Table
<1>6. v = [r EXCEPT !.array = a]
  BY <1>4, <1>5
<1> HIDE DEF a
<1>7. /\ v \in Table /\ v.array = a /\ v.hash = r.hash
      /\ v.nil_write = r.nil_write /\ v.array_heap = r.array_heap
      /\ v.hash_heap_key = r.hash_heap_key /\ v.hash_heap_value = r.hash_heap_value
      /\ v.tracks_legacy = r.tracks_legacy
      /\ v.legacy_array_capacity = r.legacy_array_capacity
      /\ v.array_capacity = r.array_capacity
      /\ v.hash_capacity = r.hash_capacity
      /\ v.hash_order_capacity = r.hash_order_capacity
      /\ v.hash_order = r.hash_order
  BY <1>2, <1>3, <1>6 DEF Table
<1>8. LiveHash(v) = LiveHash(r)
  BY <1>7 DEF LiveHash
<1>9. \A k \in LiveHash(v) : v.hash[k] = u.hash[k]
  BY <1>2, <1>7 DEF LiveHash
<1> QED BY <1>2, <1>3, <1>5, <1>7, <1>8, <1>9 DEF v, l, S

(* Clearing a weak table clears the array indices and the hash keys that   *)
(* it is given, gives back what the capacities shrink by, and keeps the    *)
(* table sound.                                                            *)
LEMMA ClearWeakSound ==
    ASSUME NEW w, w # {}, NEW u, Sound(u, w), NEW array, NEW hash \in SUBSET Keys
    PROVE  LET v == ClearWeak(u, array, hash)
           IN  /\ Sound(v, w) /\ v.nil_write = u.nil_write
               /\ WeakClearReleases(u, v) \in Nat
               /\ DynamicBytes(v) = DynamicBytes(u) - WeakClearReleases(u, v)
               /\ ~u.nil_write =>
                    \A k \in Keys :
                       Get(v, k) = IF k \in 1 .. Len(u.array)
                                   THEN IF k \in array THEN Nil ELSE u.array[k]
                                   ELSE IF k \in hash THEN Nil ELSE Get(u, k)
<1> DEFINE v == ClearWeak(u, array, hash)
           n == Len(u.array)
           a == [i \in DOMAIN u.array |-> IF i \in array THEN Nil ELSE u.array[i]]
           x == [u EXCEPT !.array = a]
           y == RemoveHash(x, hash)
           z == TrimArray(y)
           l == LastLive(y)
           removed == l + 1 .. n
           live == (LiveHash(u) \ hash) \ removed
<1>1. /\ u \in Table /\ n \in Nat /\ n <= MaxKey
      /\ u.array \in Seq(Slots) /\ DOMAIN u.array = 1 .. n
      /\ Sized(u) /\ Ordered(u) /\ Apart(u, w) /\ Flagged(u)
      /\ IsFiniteSet(DOMAIN u.hash)
  BY TableFields, LenProperties DEF Sound, Sized
<1>2. /\ a \in Seq(Slots) /\ Len(a) = n
      /\ \A i \in 1 .. n : a[i] = IF i \in array THEN Nil ELSE u.array[i]
  <2>1. \A i \in 1 .. n : u.array[i] \in Slots
    BY <1>1, TableFields
  <2>2. a \in [1 .. n -> Slots]
    BY <1>1, <2>1, KeyFacts
  <2>3. \A i \in 1 .. n : a[i] = IF i \in array THEN Nil ELSE u.array[i]
    BY <1>1
  <2> HIDE DEF a, n
  <2> QED BY <1>1, <2>2, <2>3, FunctionIsSeq
<1>3. v = TrimHash(z)
  BY DEF ClearWeak
<1> HIDE DEF a, v
<1>4. /\ x \in Table /\ x.array = a /\ x.hash = u.hash
      /\ x.nil_write = u.nil_write /\ x.array_heap = u.array_heap
      /\ x.hash_heap_key = u.hash_heap_key /\ x.hash_heap_value = u.hash_heap_value
      /\ x.tracks_legacy = u.tracks_legacy
      /\ x.legacy_array_capacity = u.legacy_array_capacity
      /\ x.array_capacity = u.array_capacity /\ x.hash_capacity = u.hash_capacity
      /\ x.hash_order_capacity = u.hash_order_capacity /\ x.hash_order = u.hash_order
  BY <1>1, <1>2 DEF Table
<1> HIDE DEF x
<1>5. LiveHash(x) = LiveHash(u)
  BY <1>4 DEF LiveHash
<1>6. /\ y \in Table /\ y = [x EXCEPT !.hash = Without(x.hash, hash), !.tombstones = y.tombstones]
      /\ DOMAIN y.hash = DOMAIN u.hash \ hash
      /\ \A k \in DOMAIN u.hash \ hash : y.hash[k] = u.hash[k]
      /\ LiveHash(y) = LiveHash(u) \ hash
  <2>1. /\ y \in Table
        /\ y = [x EXCEPT !.hash = Without(x.hash, hash), !.tombstones = y.tombstones]
        /\ DOMAIN y.hash = DOMAIN x.hash \ hash
        /\ \A k \in DOMAIN x.hash \ hash : y.hash[k] = x.hash[k]
        /\ LiveHash(y) = LiveHash(x) \ hash
    <3>1. x \in Table /\ IsFiniteSet(DOMAIN x.hash) /\ y = RemoveHash(x, hash)
      BY <1>1, <1>4
    <3> DEFINE r == RemoveHash(x, hash)
    <3>2. /\ r \in Table
          /\ r = [x EXCEPT !.hash = Without(x.hash, hash), !.tombstones = r.tombstones]
          /\ DOMAIN r.hash = DOMAIN x.hash \ hash
          /\ \A k \in DOMAIN x.hash \ hash : r.hash[k] = x.hash[k]
          /\ LiveHash(r) = LiveHash(x) \ hash
      BY <3>1, RemoveHashFacts, Zenon
    <3> HIDE DEF r
    <3>3. y = r
      BY DEF r
    <3> HIDE DEF y
    <3> QED BY <3>2, <3>3, Zenon
  <2> QED BY <1>4, <1>5, <2>1
<1> HIDE DEF y
<1>7. /\ y.array = a /\ y.nil_write = u.nil_write /\ y.array_heap = u.array_heap
      /\ y.hash_heap_key = u.hash_heap_key /\ y.hash_heap_value = u.hash_heap_value
      /\ y.tracks_legacy = u.tracks_legacy
      /\ y.legacy_array_capacity = u.legacy_array_capacity
      /\ y.array_capacity = u.array_capacity /\ y.hash_capacity = u.hash_capacity
      /\ y.hash_order_capacity = u.hash_order_capacity /\ y.hash_order = u.hash_order
  <2> DEFINE f == Without(x.hash, hash)
             d == y.tombstones
  <2>1. y = [x EXCEPT !.hash = f, !.tombstones = d]
    BY <1>6
  <2> HIDE DEF f, d
  <2>2. /\ y.array = x.array /\ y.nil_write = x.nil_write /\ y.array_heap = x.array_heap
        /\ y.hash_heap_key = x.hash_heap_key /\ y.hash_heap_value = x.hash_heap_value
        /\ y.tracks_legacy = x.tracks_legacy
        /\ y.legacy_array_capacity = x.legacy_array_capacity
        /\ y.array_capacity = x.array_capacity /\ y.hash_capacity = x.hash_capacity
        /\ y.hash_order_capacity = x.hash_order_capacity /\ y.hash_order = x.hash_order
    BY <1>4, <2>1 DEF Table
  <2> QED BY <1>4, <2>2
<1>8. /\ l \in 0 .. n
      /\ l # 0 => a[l] # Nil
      /\ \A i \in 1 .. n : i > l => a[i] = Nil
  BY <1>2, <1>6, <1>7, LastLiveFacts
<1>9. IsFiniteSet(DOMAIN y.hash) /\ DOMAIN y.hash \subseteq DOMAIN u.hash
  BY <1>1, <1>6, FS_Subset
<1>10. /\ z \in Table /\ Len(z.array) = l
       /\ \A i \in 1 .. l : z.array[i] = a[i]
       /\ DOMAIN z.hash = DOMAIN y.hash \ removed
       /\ LiveHash(z) = live
       /\ \A k \in live : z.hash[k] = u.hash[k]
       /\ z.nil_write = u.nil_write /\ z.array_heap = u.array_heap
       /\ z.hash_heap_key = u.hash_heap_key /\ z.hash_heap_value = u.hash_heap_value
       /\ z.tracks_legacy = u.tracks_legacy
       /\ z.legacy_array_capacity = u.legacy_array_capacity
       /\ z.array_capacity = u.array_capacity /\ z.hash_capacity = u.hash_capacity
       /\ z.hash_order_capacity = u.hash_order_capacity /\ z.hash_order = u.hash_order
  <2>1. /\ z \in Table
        /\ Len(z.array) = l
        /\ \A i \in 1 .. l : z.array[i] = y.array[i]
        /\ DOMAIN z.hash = DOMAIN y.hash \ (l + 1 .. Len(y.array))
        /\ LiveHash(z) = LiveHash(y) \ (l + 1 .. Len(y.array))
        /\ \A k \in LiveHash(z) : z.hash[k] = y.hash[k]
        /\ z.nil_write = y.nil_write /\ z.array_heap = y.array_heap
        /\ z.hash_heap_key = y.hash_heap_key /\ z.hash_heap_value = y.hash_heap_value
        /\ z.tracks_legacy = y.tracks_legacy
        /\ z.legacy_array_capacity = y.legacy_array_capacity
        /\ z.array_capacity = y.array_capacity
        /\ z.hash_capacity = y.hash_capacity
        /\ z.hash_order_capacity = y.hash_order_capacity
        /\ z.hash_order = y.hash_order
    BY <1>6, <1>9, TrimArrayFacts
  <2>2. Len(y.array) = n
    BY <1>2, <1>7
  <2>3. \A k \in LiveHash(y) : y.hash[k] = u.hash[k]
    BY <1>6 DEF LiveHash
  <2> HIDE DEF z, l
  <2> QED BY <1>6, <1>7, <2>1, <2>2, <2>3
<1> HIDE DEF z
<1>11. Ordered(z) /\ IsFiniteSet(DOMAIN z.hash) /\ DOMAIN z.hash \subseteq DOMAIN u.hash
  <2>1. DOMAIN z.hash \subseteq DOMAIN u.hash
    BY <1>9, <1>10
  <2>2. IsFiniteSet(DOMAIN z.hash)
    BY <1>1, <2>1, FS_Subset
  <2> QED BY <1>1, <1>10, <2>1, <2>2 DEF Ordered
<1> DEFINE c == Cardinality(live)
<1>12. /\ live \subseteq DOMAIN u.hash /\ c \in Nat
       /\ c <= Cardinality(DOMAIN u.hash) /\ Cardinality(DOMAIN u.hash) \in Nat
       /\ IsFiniteSet(live)
  <2>1. live \subseteq DOMAIN u.hash
    BY DEF LiveHash
  <2>2. IsFiniteSet(live) /\ c <= Cardinality(DOMAIN u.hash)
    BY <1>1, <2>1, FS_Subset
  <2> HIDE DEF live
  <2> QED BY <1>1, <2>1, <2>2, FS_CardinalityType
<1> HIDE DEF live
<1>13. /\ v \in Table /\ Ordered(v)
       /\ Len(v.array) = l
       /\ \A i \in 1 .. l : v.array[i] = a[i]
       /\ v.nil_write = u.nil_write /\ v.array_heap = u.array_heap
       /\ v.hash_heap_key = u.hash_heap_key /\ v.hash_heap_value = u.hash_heap_value
       /\ v.tracks_legacy = u.tracks_legacy
       /\ v.legacy_array_capacity = u.legacy_array_capacity
       /\ v.array_capacity = u.array_capacity
       /\ DOMAIN v.hash = live /\ LiveHash(v) = live
       /\ \A k \in live : v.hash[k] = u.hash[k]
       /\ Tombstones(v) = {} /\ v.tombstones = 0
       /\ v.hash_capacity = c
       /\ v.hash_order_capacity = IF u.hash_order_capacity = 0 THEN 0 ELSE c
  <2>1. /\ v \in Table /\ Ordered(v)
        /\ v.array = z.array /\ v.nil_write = z.nil_write
        /\ v.array_heap = z.array_heap
        /\ v.hash_heap_key = z.hash_heap_key /\ v.hash_heap_value = z.hash_heap_value
        /\ v.tracks_legacy = z.tracks_legacy
        /\ v.legacy_array_capacity = z.legacy_array_capacity
        /\ v.array_capacity = z.array_capacity
        /\ DOMAIN v.hash = LiveHash(z) /\ LiveHash(v) = LiveHash(z)
        /\ \A k \in LiveHash(z) : v.hash[k] = z.hash[k]
        /\ Tombstones(v) = {} /\ v.tombstones = 0
        /\ v.hash_capacity = Cardinality(LiveHash(z))
        /\ v.hash_order_capacity = IF z.hash_order_capacity = 0 THEN 0
                                   ELSE Cardinality(LiveHash(z))
    BY <1>3, <1>10, <1>11, TrimHashFacts
  <2> HIDE DEF l
  <2> QED BY <1>10, <2>1
<1>14. Sized(v)
  <2>1. /\ u.hash_order_capacity = 0 =>
             DOMAIN u.hash = {} \/ Cardinality(DOMAIN u.hash) < OrderThreshold
        /\ OrderThreshold \in Nat
    BY <1>1, TableAssumption DEF Sized
  <2>2. DOMAIN u.hash = {} => live = {}
    BY <1>12
  <2>3. u.hash_order_capacity # 0 /\ c = 0 => live = {}
    BY <1>12, FS_EmptySet
  <2>4. Cardinality({}) = 0
    BY FS_EmptySet
  <2> QED BY <1>12, <1>13, <2>1, <2>2, <2>3, <2>4 DEF Sized
<1>15. Apart(v, w)
  <2>1. l + 1 \notin live
    <3>1. n + 1 \notin LiveHash(u)
      BY <1>1 DEF Apart
    <3>2. l < n => l + 1 \in removed
      BY <1>1, <1>8
    <3>3. l < n \/ l = n
      BY <1>1, <1>8
    <3> QED BY <3>1, <3>2, <3>3 DEF live
  <2>2. ASSUME ~u.nil_write, NEW k \in live \intersect IntKeys
        PROVE  /\ k > l + 1
               /\ u.tracks_legacy => k > u.legacy_array_capacity + 1
    <3>1. /\ k > n + 1
          /\ u.tracks_legacy => k > u.legacy_array_capacity + 1
      BY <1>1, <2>2 DEF Apart, live
    <3>2. k \in Nat
      BY KeyFacts DEF IntKeys
    <3> QED BY <1>1, <1>8, <3>1, <3>2
  <2> QED BY <1>13, <2>1, <2>2 DEF Apart
<1>16. Flagged(v)
  <2>1. ASSUME NEW i \in 1 .. l, a[i] \in HeapValues PROVE u.array_heap
    <3>1. i \in 1 .. n /\ a[i] # Nil
      BY <1>1, <1>8, <2>1, KeyFacts
    <3> QED BY <1>1, <1>2, <2>1, <3>1 DEF Flagged
  <2>2. live \subseteq LiveHash(u)
    BY DEF live
  <2> QED BY <1>1, <1>13, <2>1, <2>2 DEF Flagged
<1>17. Len(v.array) <= MaxKey
  BY <1>1, <1>8, <1>13, KeyFacts
<1>18. /\ WeakClearReleases(u, v) \in Nat
       /\ DynamicBytes(v) = DynamicBytes(u) - WeakClearReleases(u, v)
  <2> DEFINE h == u.hash_capacity
             o == u.hash_order_capacity
             p == v.hash_order_capacity
             b == PartBytes(h, o)
             d == PartBytes(c, p)
             e == ArrayBytes(u.array_capacity)
  <2>1. h \in Nat /\ o \in Nat /\ p \in Nat /\ u.array_capacity \in Nat
    BY <1>1, <1>13, TableFields
  <2>2. c <= h /\ p <= o
    BY <1>1, <1>12, <1>13, <2>1 DEF Sized
  <2>3. b \in Nat /\ d \in Nat /\ d <= b /\ e \in Nat
    <3> HIDE DEF c, h, o, p
    <3> QED BY <1>12, <2>1, <2>2, BytesFacts
  <2>4. DynamicBytes(u) = e + b /\ DynamicBytes(v) = e + d
    BY <1>13 DEF DynamicBytes
  <2>5. WeakClearReleases(u, v) = IF b >= d THEN b - d ELSE 0
    BY <1>13 DEF WeakClearReleases, SaturatingDec
  <2> HIDE DEF b, d, e
  <2> QED BY <2>3, <2>4, <2>5
<1>19. ASSUME ~u.nil_write, NEW k \in Keys
       PROVE  Get(v, k) = IF k \in 1 .. n
                          THEN IF k \in array THEN Nil ELSE u.array[k]
                          ELSE IF k \in hash THEN Nil ELSE Get(u, k)
  <2>1. CASE k \in 1 .. l
    <3>1. k \in 1 .. n
      BY <1>1, <1>8, <2>1
    <3> QED BY <1>2, <1>13, <2>1, <3>1 DEF Get, InArray
  <2>2. CASE k \in 1 .. n /\ k \notin 1 .. l
    <3>1. k > l /\ a[k] = Nil
      BY <1>1, <1>8, <2>2
    <3>2. k \notin LiveHash(u)
      <4>1. k \in IntKeys /\ ~(k > n + 1)
        BY <1>1, <2>2, KeyFacts DEF IntKeys
      <4> QED BY <1>1, <1>19, <4>1 DEF Apart
    <3>3. Get(v, k) = Nil
      BY <1>13, <2>2, <3>2 DEF Get, InArray, InHash, live
    <3> QED BY <1>2, <2>2, <3>1, <3>3
  <2>3. CASE k \notin 1 .. n
    <3>1. k \notin 1 .. l /\ k \notin removed
      BY <1>1, <1>8, <2>3
    <3>2. Get(v, k) = IF k \in live THEN v.hash[k] ELSE Nil
      BY <1>13, <3>1 DEF Get, InArray, InHash
    <3>3. Get(u, k) = IF k \in LiveHash(u) THEN u.hash[k] ELSE Nil
      BY <2>3 DEF Get, InArray, InHash, LiveHash
    <3>4. k \in live <=> k \in LiveHash(u) /\ k \notin hash
      BY <3>1 DEF live
    <3> QED BY <1>13, <2>3, <3>2, <3>3, <3>4
  <2> QED BY <2>1, <2>2, <2>3
<1> QED BY <1>13, <1>14, <1>15, <1>16, <1>1, <1>17, <1>18, <1>19 DEF Sound, v

-----------------------------------------------------------------------------
(* The invariant of the specification                                      *)

(* The table is sound and paid for, and it holds what was written; in a    *)
(* weak table only as long as nil was never written just past the array.   *)
TableInv ==
    /\ weak_mode \in WeakModes
    /\ Sound(t, weak_mode)
    /\ used = DynamicBytes(t) /\ used \in Usize
    /\ map \in [Keys -> Slots]
    /\ weak_mode = {} \/ ~t.nil_write => \A key \in Keys : Get(t, key) = map[key]

(* The table that a write whose growth is refused would have left.         *)
Intended(key, value) == Set(t, key, value, SetToSeq(DOMAIN t.hash)).table

(* The opaque order of a running traversal lists the keys it ranges over.  *)
WalkInv ==
    /\ walk = [active |-> walk.active, cursor |-> walk.cursor, buckets |-> walk.buckets,
               seen |-> walk.seen, again |-> walk.again, stable |-> walk.stable,
               last |-> walk.last, shrunk |-> walk.shrunk,
               rehashed |-> walk.rehashed, compacted |-> walk.compacted]
    /\ walk.active \in BOOLEAN /\ walk.seen \subseteq Keys /\ walk.stable \subseteq Keys
    /\ walk.active /\ UsesBuckets(t) => Lists(walk.buckets, BucketKeys(t))

LEMMA AccountFacts ==
    ASSUME used \in Usize, NEW request \in Nat, NEW replaced \in Nat
    PROVE  /\ Replaced(Bytes, request, replaced).current = used + request - replaced
           /\ RolledBack(Reserved(Bytes, request), request).current = used
           /\ Released(Bytes, replaced).current = used - replaced
           /\ CanReserve(Bytes, request) => used + request <= UsizeMax
           /\ CanReserve(New, request) => request <= UsizeMax
<1>1. UsizeMax \in Nat /\ used \in 0 .. UsizeMax
  BY ConfigAssumption DEF Usize
<1>2. Bytes.current = used /\ New.current = 0
  BY DEF Bytes, New
<1> DEFINE g == New.next_gc
           m == Greatest(0, used + request)
<1>3. Bytes = [current |-> used, peak |-> 0, next_gc |-> g, collections |-> 0]
  BY DEF Bytes, New
<1> HIDE DEF g
<1> DEFINE c == used + request
           a == [current |-> c, peak |-> m, next_gc |-> g, collections |-> 0]
<1> HIDE DEF m
<1>4. Reserved(Bytes, request) = a
  <2>1. Reserved(Bytes, request) =
          [Bytes EXCEPT !.current = Bytes.current + request,
                        !.peak = Greatest(Bytes.peak, Bytes.current + request)]
    <3>1. [Bytes EXCEPT !.current = Bytes.current + request].peak = Bytes.peak
      BY <1>3
    <3> QED BY <3>1 DEF Reserved
  <2>2. Bytes.current + request = c /\ Greatest(Bytes.peak, Bytes.current + request) = m
    BY <1>3 DEF m
  <2>3. Reserved(Bytes, request) = [Bytes EXCEPT !.current = c, !.peak = m]
    BY <2>1, <2>2
  <2> HIDE DEF c
  <2> QED BY <1>3, <2>3
<1>5. /\ Replaced(Bytes, request, replaced).current = used + request - replaced
      /\ RolledBack(Reserved(Bytes, request), request).current = used + request - request
  <2> DEFINE x == [a EXCEPT !.current = a.current - replaced]
             y == [a EXCEPT !.current = a.current - request]
  <2>1. x.current = c - replaced /\ y.current = c - request
    OBVIOUS
  <2>2. Replaced(Bytes, request, replaced) = x
    BY <1>4, Zenon DEF Replaced, CommitReplacing
  <2>3. RolledBack(Reserved(Bytes, request), request) = y
    BY <1>4, Zenon DEF RolledBack
  <2>4. c - replaced = used + request - replaced /\ c - request = used + request - request
    BY <1>1
  <2> HIDE DEF x, y, c
  <2> QED BY <2>1, <2>2, <2>3, <2>4
<1>6. Released(Bytes, replaced).current = used - replaced
  BY <1>3 DEF Released
<1>7. CanReserve(Bytes, request) => used + request <= UsizeMax
  BY <1>1, <1>2 DEF CanReserve, ReserveError
<1>8. CanReserve(New, request) => request <= UsizeMax
  BY <1>1, <1>2 DEF CanReserve, ReserveError
<1> QED BY <1>1, <1>5, <1>6, <1>7, <1>8

(* The keys that the opaque order ranges over are finitely many.           *)
LEMMA BucketsFinite ==
    ASSUME NEW w, NEW u, Sound(u, w)
    PROVE  IsFiniteSet(BucketKeys(u)) /\ BucketKeys(u) \subseteq Keys
<1>1. IsFiniteSet(DOMAIN u.hash) /\ DOMAIN u.hash \subseteq Keys
  BY TableFields DEF Sound, Sized
<1>2. Lists(u.hash_order, ToSet(u.hash_order)) /\ u.hash_order \in Seq(Keys)
  BY TableFields DEF Sound, Ordered
<1>3. ToSet(u.hash_order) = {u.hash_order[i] : i \in DOMAIN u.hash_order}
  BY DEF ToSet
<1>4. IsFiniteSet(ToSet(u.hash_order))
  BY <1>2, ListsSize
<1>5. ToSet(u.hash_order) \subseteq Keys
  BY <1>2, <1>3, LenProperties, ElementOfSeq
<1> QED BY <1>1, <1>3, <1>4, <1>5 DEF BucketKeys

LEMMA KeyOrdersOffered ==
    ASSUME TableInv, WalkInv, NEW key \in Keys, NEW value \in Slots,
           NEW keys \in KeyOrders(key, value)
    PROVE  LET r == Ready(t, key, value)
           IN  Offered(r, Cardinality(DOMAIN r.hash) + 1, keys)
<1> DEFINE r == Ready(t, key, value)
           required == Cardinality(DOMAIN r.hash) + 1
<1> SUFFICES ASSUME StartsOrder(r, required) PROVE Lists(keys, DOMAIN r.hash)
  BY DEF Offered
<1>1. \/ keys = walk.buckets /\ walk.active /\ t.hash_order_capacity = 0
           /\ DOMAIN r.hash = BucketKeys(t)
      \/ keys \in SetToSeqs(DOMAIN r.hash)
  <2>1. r.hash_order_capacity = t.hash_order_capacity
    BY BeforeHashGrowthFacts DEF Ready, TableInv
  <2>2. t.hash_order_capacity = 0
    BY <2>1 DEF StartsOrder
  <2> QED BY <2>2 DEF KeyOrders, Ready
<1>2. IsFiniteSet(DOMAIN r.hash)
  <2>1. Sound(r, weak_mode)
    BY BeforeHashGrowthFacts DEF TableInv, Ready
  <2> QED BY <2>1 DEF Sound, Sized
<1> HIDE DEF r
<1>3. CASE keys \in SetToSeqs(DOMAIN r.hash)
  BY <1>2, <1>3, ListsEnumerated
<1>4. CASE keys = walk.buckets /\ walk.active /\ t.hash_order_capacity = 0
             /\ DOMAIN r.hash = BucketKeys(t)
  BY <1>4 DEF WalkInv, UsesBuckets
<1> QED BY <1>1, <1>3, <1>4

(* A finite set can be enumerated.                                         *)
LEMMA EnumerationExists ==
    ASSUME NEW S, IsFiniteSet(S)
    PROVE  \E s \in SetToSeqs(S) : TRUE
<1>1. Cardinality(S) \in Nat /\ ExistsBijection(1 .. Cardinality(S), S)
  BY FS_CardinalityType
<1>2. PICK f \in Bijection(1 .. Cardinality(S), S) : TRUE
  BY <1>1 DEF ExistsBijection
<1>3. f \in [1 .. Cardinality(S) -> S]
      /\ \A i, j \in 1 .. Cardinality(S) : i # j => f[i] # f[j]
  BY <1>2 DEF Bijection, Injection, IsInjective
<1> QED BY <1>3 DEF SetToSeqs

(* What a write asks for does not depend on the order of the keys.         *)
LEMMA SetRequests ==
    ASSUME NEW w, NEW u, Sound(u, w), NEW key \in Keys, NEW value \in Slots, NEW keys
    PROVE  Set(u, key, value, keys).request \in Nat
<1> DEFINE r == Ready(u, key, value)
<1>1. IsFiniteSet(DOMAIN r.hash)
  <2>1. Sound(r, w)
    BY BeforeHashGrowthFacts DEF Ready
  <2> QED BY <2>1 DEF Sound, Sized
<1>2. PICK s \in SetToSeqs(DOMAIN r.hash) : TRUE
  BY <1>1, EnumerationExists
<1>3. Lists(s, DOMAIN r.hash)
  <2> HIDE DEF r
  <2> QED BY <1>1, <1>2, ListsEnumerated
<1>4. Set(u, key, value, s).request \in Nat
  <2>1. Stores(u, w, key, value, Set(u, key, value, s))
    BY <1>3, SetStores DEF Offered
  <2> QED BY <2>1 DEF Stores, Charged
<1>5. Set(u, key, value, keys).request = Set(u, key, value, s).request
  <2>1. \A v, required : GrowHash(v, required, keys).request = GrowHash(v, required, s).request
    BY DEF GrowHash
  <2>2. \A v, required : /\ \E T, R, P : GrowHash(v, required, keys) = [table |-> T, request |-> R, replaced |-> P]
                         /\ \E T, R, P : GrowHash(v, required, s) = [table |-> T, request |-> R, replaced |-> P]
    <3>1. ASSUME NEW v, NEW required, NEW order
          PROVE  \E T, R, P : GrowHash(v, required, order) = [table |-> T, request |-> R, replaced |-> P]
      BY Zenon DEF GrowHash
    <3> QED BY <3>1
  <2>3. SetArray(u, key, value, keys).request = SetArray(u, key, value, s).request
    BY <2>1, <2>2 DEF SetArray
  <2>4. SetHash(u, key, value, keys).request = SetHash(u, key, value, s).request
    BY <2>1, <2>2 DEF SetHash
  <2> QED BY <2>3, <2>4 DEF Set
<1> QED BY <1>4, <1>5

LEMMA TableSetKeeps ==
    ASSUME TableInv, WalkInv, NEW key \in Keys, NEW value \in Slots, TableSet(key, value)
    PROVE  TableInv'
<1>1. PICK keys \in KeyOrders(key, value) :
        LET out == Set(t, key, value, keys)
        IN  /\ CanReserve(Bytes, out.request)
            /\ t' = out.table
            /\ used' = Replaced(Bytes, out.request, out.replaced).current
  BY DEF TableSet
<1> DEFINE out == Set(t, key, value, keys)
<1>2. LET r == Ready(t, key, value)
      IN  Offered(r, Cardinality(DOMAIN r.hash) + 1, keys)
  BY KeyOrdersOffered
<1>3. Stores(t, weak_mode, key, value, out)
  BY <1>2, SetStores DEF TableInv
<1>4. map' = [map EXCEPT ![key] = value] /\ weak_mode' = weak_mode
  BY DEF TableSet, Promise!Put
<1> HIDE DEF out
<1>5. Sound(t', weak_mode')
  BY <1>1, <1>3, <1>4 DEF Stores, out
<1>6. used' = DynamicBytes(t') /\ used' \in Usize
  <2>1. /\ out.request \in Nat /\ out.replaced \in Nat
        /\ out.replaced <= DynamicBytes(t)
        /\ DynamicBytes(t') = DynamicBytes(t) + out.request - out.replaced
    BY <1>1, <1>3 DEF Stores, Charged, out
  <2>2. used \in Usize /\ used = DynamicBytes(t)
    BY DEF TableInv
  <2>3. used' = used + out.request - out.replaced /\ used + out.request <= UsizeMax
    BY <1>1, <2>1, <2>2, AccountFacts DEF out
  <2>4. UsizeMax \in Nat
    BY ConfigAssumption
  <2> QED BY <2>1, <2>2, <2>3, <2>4 DEF Usize
<1>7. map' \in [Keys -> Slots]
  BY <1>4 DEF TableInv
<1>8. ASSUME weak_mode' = {} \/ ~t'.nil_write, NEW k \in Keys
      PROVE  Get(t', k) = map'[k]
  <2>1. Get(t', k) = IF k = key THEN value ELSE Get(t, k)
    BY <1>1, <1>3, <1>4, <1>8 DEF Stores, out
  <2>2. Get(t, k) = map[k]
    BY <1>1, <1>3, <1>4, <1>8 DEF Stores, out, TableInv
  <2>3. map'[k] = IF k = key THEN value ELSE map[k]
    BY <1>4 DEF TableInv
  <2> QED BY <2>1, <2>2, <2>3
<1> QED BY <1>4, <1>5, <1>6, <1>7, <1>8 DEF TableInv

(* A step that changes nothing a read sees, and no charge.                 *)
LEMMA QuietKeeps ==
    ASSUME TableInv, Sound(t', weak_mode), weak_mode' = weak_mode, t'.nil_write = t.nil_write,
           DynamicBytes(t') = DynamicBytes(t), used' = used, map' = map,
           \A k \in Keys : Get(t', k) = Get(t, k)
    PROVE  TableInv'
BY DEF TableInv

LEMMA TableSetFailsKeeps ==
    ASSUME TableInv, NEW key \in Keys, NEW value \in Slots, TableSetFails(key, value)
    PROVE  TableInv'
<1> DEFINE out == Set(t, key, value, SetToSeq(DOMAIN t.hash))
           v == SetRefused(t, key, value)
<1>1. /\ t' = v /\ map' = map /\ weak_mode' = weak_mode
      /\ used' = IF CanReserve(Bytes, out.request)
                 THEN RolledBack(Reserved(Bytes, out.request), out.request).current
                 ELSE used
  BY DEF TableSetFails
<1> HIDE DEF out, v
<1>2. used' = used
  <2>1. out.request \in Nat
    BY SetRequests DEF out, TableInv
  <2> QED BY <1>1, <2>1, AccountFacts DEF TableInv
<1>3. /\ Sound(v, weak_mode) /\ v.nil_write = t.nil_write
      /\ DynamicBytes(v) = DynamicBytes(t)
      /\ \A k \in Keys : Get(v, k) = Get(t, k)
  BY SetRefusedKeeps DEF v, TableInv
<1> QED BY <1>1, <1>2, <1>3, QuietKeeps

LEMMA TableClearKeeps ==
    ASSUME TableInv, TableClear
    PROVE  TableInv'
<1>1. /\ t' = Clear(t) /\ used' = used /\ weak_mode' = weak_mode
      /\ map' = [key \in Keys |-> Nil]
  BY DEF TableClear, Promise!Clear
<1>2. /\ Sound(t', weak_mode) /\ DynamicBytes(t') = DynamicBytes(t)
      /\ \A k \in Keys : Get(t', k) = Nil
  BY <1>1, ClearSound DEF TableInv
<1>3. map' \in [Keys -> Slots] /\ \A k \in Keys : map'[k] = Nil
  BY <1>1, KeyFacts
<1> QED BY <1>1, <1>2, <1>3 DEF TableInv

LEMMA MarksKeep ==
    ASSUME TableInv, MarkPreallocated \/ TableFreeze
    PROVE  /\ TableInv'
           /\ t'.hash = t.hash /\ t'.hash_order_capacity = t.hash_order_capacity
           /\ t'.policy = t.policy /\ t'.hash_order = t.hash_order
           /\ walk' = walk
<1>1. PICK p \in BOOLEAN, f \in BOOLEAN :
         /\ t' = [t EXCEPT !.preallocated = p, !.frozen = f]
         /\ used' = used /\ map' = map /\ walk' = walk /\ weak_mode' = weak_mode
  <2>1. t \in Table
    BY DEF TableInv, Sound
  <2>2. t.frozen \in BOOLEAN /\ t.preallocated \in BOOLEAN
    BY <2>1, TableFields
  <2>3. CASE MarkPreallocated
    <3>1. t' = [t EXCEPT !.preallocated = TRUE]
      BY <2>3 DEF MarkPreallocated
    <3>2. [t EXCEPT !.preallocated = TRUE] = [t EXCEPT !.preallocated = TRUE, !.frozen = t.frozen]
      BY <2>1 DEF Table
    <3> QED BY <2>2, <2>3, <3>1, <3>2 DEF MarkPreallocated
  <2>4. CASE TableFreeze
    <3>1. t' = [t EXCEPT !.frozen = TRUE]
      BY <2>4 DEF TableFreeze
    <3>2. [t EXCEPT !.frozen = TRUE] = [t EXCEPT !.preallocated = t.preallocated, !.frozen = TRUE]
      BY <2>1 DEF Table
    <3> QED BY <2>2, <2>4, <3>1, <3>2 DEF TableFreeze
  <2> QED BY <2>3, <2>4
<1>2. t \in Table /\ Sound(t, weak_mode)
  BY DEF TableInv, Sound
<1>3. /\ t' \in Table
      /\ t'.hash = t.hash /\ t'.hash_order_capacity = t.hash_order_capacity
      /\ t'.policy = t.policy /\ t'.hash_order = t.hash_order
  BY <1>1, <1>2 DEF Table
<1>4. /\ Sound(t', weak_mode) /\ t'.nil_write = t.nil_write
      /\ DynamicBytes(t') = DynamicBytes(t)
      /\ \A k \in Keys : Get(t', k) = Get(t, k)
  <2>1. /\ Sound(t, weak_mode) /\ p \in BOOLEAN /\ f \in BOOLEAN
        /\ t' = [t EXCEPT !.preallocated = p, !.frozen = f]
        /\ t' \in Table
    BY <1>1, <1>2, <1>3
  <2> QED BY ONLY <2>1, MarkedSound
<1> QED BY <1>1, <1>3, <1>4, QuietKeeps

LEMMA WeakCollectKeeps ==
    ASSUME TableInv, NEW deadKeys \in SUBSET Promise!WeakKeys, NEW deadValues \in SUBSET Promise!WeakValues,
           WeakCollect(deadKeys, deadValues)
    PROVE  TableInv'
<1> DEFINE array == {i \in 1 .. Len(t.array) : t.array[i] \in deadValues}
           hash == {key \in DOMAIN t.hash : t.hash[key] \in deadValues \/ key \in deadKeys}
           gone == {key \in Keys : key \in deadKeys \/ map[key] \in deadValues}
           u == ClearWeak(t, array, hash)
<1>1. /\ array # {} \/ hash # {}
      /\ t' = u /\ used' = Released(Bytes, WeakClearReleases(t, u)).current
      /\ map' = [key \in Keys |->
                   IF key \in deadKeys \/ map[key] \in deadValues THEN Nil ELSE map[key]]
      /\ weak_mode' = weak_mode
  BY DEF WeakCollect, Promise!Forget
<1>2. weak_mode # {} /\ deadKeys \subseteq HeapKeys /\ deadValues \subseteq HeapValues
  <2>1. deadKeys \subseteq HeapKeys /\ deadValues \subseteq HeapValues
    BY DEF Promise!WeakKeys, Promise!WeakValues
  <2>2. weak_mode = {} => deadKeys = {} /\ deadValues = {}
    BY DEF Promise!WeakKeys, Promise!WeakValues
  <2>3. deadKeys = {} /\ deadValues = {} => array = {} /\ hash = {}
    OBVIOUS
  <2> QED BY <1>1, <2>1, <2>2, <2>3
<1>3. hash \in SUBSET Keys /\ Sound(t, weak_mode)
  BY TableFields DEF TableInv, Sound
<1> DEFINE releases == WeakClearReleases(t, u)
<1>4. /\ Sound(u, weak_mode) /\ u.nil_write = t.nil_write
      /\ releases \in Nat
      /\ DynamicBytes(u) = DynamicBytes(t) - releases
      /\ ~t.nil_write =>
           \A k \in Keys :
              Get(u, k) = IF k \in 1 .. Len(t.array)
                          THEN IF k \in array THEN Nil ELSE t.array[k]
                          ELSE IF k \in hash THEN Nil ELSE Get(t, k)
  <2>1. weak_mode # {} /\ Sound(t, weak_mode) /\ hash \in SUBSET Keys
    BY <1>2, <1>3
  <2> HIDE DEF array, hash
  <2>2. /\ Sound(u, weak_mode) /\ u.nil_write = t.nil_write
        /\ releases \in Nat
        /\ DynamicBytes(u) = DynamicBytes(t) - releases
    BY ONLY <2>1, ClearWeakSound DEF u, releases
  <2>3. ASSUME ~t.nil_write, NEW k \in Keys
        PROVE  Get(u, k) = IF k \in 1 .. Len(t.array)
                           THEN IF k \in array THEN Nil ELSE t.array[k]
                           ELSE IF k \in hash THEN Nil ELSE Get(t, k)
    BY ONLY <2>1, <2>3, ClearWeakSound DEF u
  <2> QED BY <2>2, <2>3
<1>5. used' = DynamicBytes(t') /\ used' \in Usize
  <2>1. used \in Usize /\ used = DynamicBytes(t)
    BY DEF TableInv
  <2>2. DynamicBytes(t') \in Nat
    <3>1. t' \in Table
      BY <1>1, <1>4 DEF Sound
    <3> QED BY <3>1, DynamicFacts
  <2>3. Released(Bytes, releases).current = used - releases
    <3> HIDE DEF releases
    <3> QED BY <1>4, <2>1, AccountFacts
  <2>4. UsizeMax \in Nat
    BY ConfigAssumption
  <2> HIDE DEF u, releases
  <2> QED BY <1>1, <1>4, <2>1, <2>2, <2>3, <2>4 DEF Usize, releases
<1>6. map' \in [Keys -> Slots] /\ \A k \in Keys : map'[k] = IF k \in gone THEN Nil ELSE map[k]
  <2>1. map \in [Keys -> Slots]
    BY DEF TableInv
  <2>2. \A k \in Keys : map'[k] = IF k \in gone THEN Nil ELSE map[k]
    BY <1>1
  <2> HIDE DEF gone
  <2> QED BY <1>1, <2>1, <2>2, KeyFacts
<1>7. ASSUME ~t.nil_write, NEW k \in Keys PROVE Get(t', k) = map'[k]
  <2>1. Get(t, k) = map[k]
    BY <1>7 DEF TableInv
  <2>2. Get(t', k) = IF k \in 1 .. Len(t.array)
                     THEN IF k \in array THEN Nil ELSE t.array[k]
                     ELSE IF k \in hash THEN Nil ELSE Get(t, k)
    <3> HIDE DEF u, array, hash
    <3> QED BY <1>1, <1>4, <1>7
  <2>3. CASE k \in 1 .. Len(t.array)
    <3>1. Get(t, k) = t.array[k]
      BY <2>3 DEF Get, InArray
    <3>2. k \notin deadKeys
      <4>1. k \in Nat \ {0}
        <5>1. Len(t.array) \in Nat
          BY <1>3, TableFields DEF Sound
        <5> QED BY <2>3, <5>1
      <4> QED BY <1>2, <4>1, KeyFacts
    <3>3. k \in array <=> k \in gone
      BY <2>1, <2>3, <3>1, <3>2
    <3> HIDE DEF array, hash, gone
    <3> QED BY <1>6, <2>1, <2>2, <2>3, <3>1, <3>3
  <2>4. CASE k \notin 1 .. Len(t.array)
    <3>1. Get(t, k) = IF k \in DOMAIN t.hash THEN t.hash[k] ELSE Nil
      BY <2>4 DEF Get, InArray, InHash
    <3>2. Nil \notin deadValues
      BY <1>2, KeyFacts
    <3>3. k \in DOMAIN t.hash => (k \in hash <=> k \in gone)
      BY <2>1, <3>1
    <3>4. k \notin DOMAIN t.hash => k \notin hash
      OBVIOUS
    <3> HIDE DEF array, hash, gone
    <3> QED BY <1>6, <2>1, <2>2, <2>4, <3>1, <3>3, <3>4
  <2> QED BY <2>3, <2>4
<1>8. Sound(t', weak_mode') /\ t'.nil_write = t.nil_write
  <2> HIDE DEF u
  <2> QED BY <1>1, <1>4
<1> QED BY <1>1, <1>2, <1>5, <1>6, <1>7, <1>8 DEF TableInv

LEMMA InitHolds ==
    ASSUME Init
    PROVE  TableInv /\ WalkInv
<1>1. PICK policy \in TablePolicies, array \in ArraySizes, hash \in HashSizes :
         /\ t = NewTable(array, hash, policy)
         /\ CanReserve(New, DynamicBytes(t))
         /\ used = DynamicBytes(t)
  BY DEF Init
<1>2. array \in Nat /\ hash \in Nat /\ policy \in Policies
  BY StoreAssumption
<1>3. weak_mode \in WeakModes /\ map = [key \in Keys |-> Nil] /\ walk = NoWalk
  BY DEF Init, Promise!Init
<1>4. Sound(t, weak_mode) /\ \A k \in Keys : Get(t, k) = Nil
  BY <1>1, <1>2, NewTableSound
<1>5. used \in Usize
  <2>1. DynamicBytes(t) \in Nat
    BY <1>4, DynamicFacts DEF Sound
  <2>2. UsizeMax \in Nat /\ 0 \in Usize
    BY ConfigAssumption DEF Usize
  <2>3. used <= UsizeMax
    BY <1>1, <2>1, <2>2 DEF CanReserve, ReserveError, New
  <2> QED BY <1>1, <2>1, <2>2, <2>3 DEF Usize
<1>6. map \in [Keys -> Slots] /\ \A k \in Keys : map[k] = Nil
  BY <1>3, KeyFacts
<1>7. TableInv
  BY <1>1, <1>3, <1>4, <1>5, <1>6 DEF TableInv
<1>8. WalkInv
  BY <1>3 DEF WalkInv, NoWalk
<1> QED BY <1>7, <1>8

-----------------------------------------------------------------------------
(* Traversal                                                               *)

(* The entry that `next` returns is one of the table's keys, with the      *)
(* value that a read of the key returns.                                   *)
LEMMA EntryReads ==
    ASSUME NEW w, NEW u, Sound(u, w), NEW key, NEW buckets,
           UsesBuckets(u) => Lists(buckets, BucketKeys(u)),
           NextEntry(u, key, buckets).kind = "entry"
    PROVE  /\ NextEntry(u, key, buckets).key \in Keys
           /\ ~u.nil_write =>
                NextEntry(u, key, buckets).value = Get(u, NextEntry(u, key, buckets).key)
<1> DEFINE Reads(e) == /\ e.key \in Keys
                       /\ ~u.nil_write => e.value = Get(u, e.key)
           order == HashSequence(u, buckets)
           n == Len(u.array)
<1>1. u \in Table /\ n \in Nat /\ n <= MaxKey /\ Apart(u, w)
  BY TableFields DEF Sound
<1>2. Len(order) \in Nat /\ DOMAIN order = 1 .. Len(order)
  <2>1. u.hash_order \in Seq(Keys)
    BY <1>1, TableFields
  <2>2. UsesBuckets(u) => buckets \in Seq(BucketKeys(u))
    BY DEF Lists
  <2>3. order \in Seq(Keys) \/ order \in Seq(BucketKeys(u))
    BY <2>1, <2>2 DEF HashSequence
  <2> HIDE DEF order
  <2> QED BY <2>3, LenProperties
<1> HIDE DEF order
<1>3. ASSUME NEW position \in Nat, NEW e, e = FirstLive(u, order, position), e.kind = "entry"
      PROVE  Reads(e)
  <2> DEFINE hits == {i \in position + 1 .. Len(order) : order[i] \in LiveHash(u)}
             k == order[Min(hits)]
  <2>1. e = IF hits = {} THEN End ELSE Entry(k, u.hash[k])
    BY <1>3 DEF FirstLive
  <2>2. hits # {} /\ e.key = k /\ e.value = u.hash[k]
    BY <1>3, <2>1 DEF End, Entry
  <2>3. Min(hits) \in hits
    <3>1. hits \in SUBSET Nat
      BY <1>2, <1>3
    <3> HIDE DEF hits
    <3> QED BY <2>2, <3>1, LeastIn
  <2>4. k \in LiveHash(u)
    BY <2>3
  <2> HIDE DEF k
  <2>5. k \in Keys
    BY <1>1, <2>4, LiveKeys
  <2>6. ~u.nil_write => k \notin 1 .. n
    <3>1. k \in 1 .. n => k \in IntKeys
      BY <1>1, KeyFacts DEF IntKeys
    <3> QED BY <1>1, <2>4, <3>1 DEF Apart
  <2>7. ~u.nil_write => Get(u, k) = u.hash[k]
    BY <2>4, <2>6 DEF Get, InArray, InHash, LiveHash
  <2> QED BY <2>2, <2>5, <2>7
<1>4. ASSUME NEW start \in Nat, NEW e, e = NextFromArray(u, start, buckets), e.kind = "entry"
      PROVE  Reads(e)
  <2> DEFINE hits == {i \in start + 1 .. n : u.array[i] # Nil}
  <2>1. CASE hits # {}
    <3>1. Min(hits) \in hits
      <4>1. hits \in SUBSET Nat
        BY <1>1, <1>4
      <4> HIDE DEF hits
      <4> QED BY <2>1, <4>1, LeastIn
    <3>2. e.key = Min(hits) /\ e.value = u.array[Min(hits)]
      BY <1>4, <2>1 DEF NextFromArray, Entry
    <3> DEFINE k == Min(hits)
    <3>3. k \in 1 .. n /\ e.key = k /\ e.value = u.array[k]
      BY <1>1, <1>4, <3>1, <3>2
    <3> HIDE DEF k
    <3>4. k \in Keys
      BY <1>1, <3>3, KeyFacts DEF Keys, IntKeys
    <3>5. Get(u, k) = u.array[k]
      BY <3>3 DEF Get, InArray
    <3> QED BY <3>3, <3>4, <3>5
  <2>2. CASE hits = {}
    <3>1. e = FirstLive(u, order, 0)
      BY <1>4, <2>2 DEF NextFromArray, order
    <3> QED BY <1>3, <1>4, <3>1
  <2> QED BY <2>1, <2>2
<1> DEFINE e == NextEntry(u, key, buckets)
           positions == {i \in DOMAIN order : order[i] = key}
<1> SUFFICES Reads(e)
  OBVIOUS
<1>5. \/ e = InvalidIterationKey
      \/ e = NextFromArray(u, 0, buckets)
      \/ key \in 1 .. n /\ e = NextFromArray(u, key, buckets)
      \/ positions # {} /\ e = FirstLive(u, order, Min(positions))
  BY DEF NextEntry, order, InArray
<1>6. e.kind = "entry"
  OBVIOUS
<1> HIDE DEF e, Reads
<1>7. CASE e = InvalidIterationKey
  BY <1>6, <1>7 DEF InvalidIterationKey
<1>8. CASE e = NextFromArray(u, 0, buckets)
  BY <1>4, <1>6, <1>8
<1>9. CASE key \in 1 .. n /\ e = NextFromArray(u, key, buckets)
  <2>1. key \in Nat
    BY <1>1, <1>9
  <2> QED BY <1>4, <1>6, <1>9, <2>1
<1>10. CASE positions # {} /\ e = FirstLive(u, order, Min(positions))
  <2>1. positions \in SUBSET Nat
    BY <1>2
  <2>2. Min(positions) \in Nat
    <3> HIDE DEF positions
    <3> QED BY <1>10, <2>1, LeastIn
  <2> QED BY <1>3, <1>6, <1>10, <2>2
<1> QED BY <1>5, <1>7, <1>8, <1>9, <1>10

(* The orders that a mutation may leave enumerate the keys that are left.  *)
LEMMA OrdersList ==
    ASSUME NEW u, NEW buckets, UsesBuckets(u)
    PROVE  /\ Orders(u, buckets) \subseteq SetToSeqs(BucketKeys(u))
           /\ OrdersRefused(u, buckets) \subseteq SetToSeqs(BucketKeys(u))
BY DEF Orders, OrdersRefused

(* A mutation leaves a traversal with an order of the keys that are left.  *)
LEMMA BesideKeeps ==
    ASSUME WalkInv, TableInv', NEW disturbs, NEW rehashes, NEW orders,
           WalkBeside(t', disturbs, rehashes, orders),
           UsesBuckets(t') => orders \subseteq SetToSeqs(BucketKeys(t'))
    PROVE  /\ WalkInv'
           /\ walk'.seen = walk.seen \/ walk'.last.kind = "end"
<1>1. CASE walk' = NoWalk
  BY <1>1 DEF WalkInv, NoWalk, End
<1>2. CASE walk' # NoWalk
  <2>1. PICK order \in orders :
           walk' = [walk EXCEPT !.buckets = order,
                                !.stable = {key \in @ : Get(t', key) # Nil},
                                !.shrunk = @ \/ (UsesBuckets(t) /\ Shrinks(t')),
                                !.rehashed = @ \/ rehashes,
                                !.compacted = @ \/ LosesCurrent(t')]
    BY <1>2 DEF WalkBeside
  <2> DEFINE kept == {key \in walk.stable : Get(t', key) # Nil}
  <2>2. walk = [active |-> walk.active, cursor |-> walk.cursor, buckets |-> walk.buckets,
                seen |-> walk.seen, again |-> walk.again, stable |-> walk.stable,
                last |-> walk.last, shrunk |-> walk.shrunk,
                rehashed |-> walk.rehashed, compacted |-> walk.compacted]
    BY DEF WalkInv
  <2> DEFINE small == walk.shrunk \/ (UsesBuckets(t) /\ Shrinks(t'))
             moved == walk.rehashed \/ rehashes
             lost == walk.compacted \/ LosesCurrent(t')
  <2>3. walk' = [walk EXCEPT !.buckets = order, !.stable = kept, !.shrunk = small,
                             !.rehashed = moved, !.compacted = lost]
    BY <2>1, <2>2
  <2> HIDE DEF kept, small, moved, lost
  <2>4. walk' = [active |-> walk.active, cursor |-> walk.cursor, buckets |-> order,
                 seen |-> walk.seen, again |-> walk.again, stable |-> kept,
                 last |-> walk.last, shrunk |-> small,
                 rehashed |-> moved, compacted |-> lost]
    BY <2>2, <2>3
  <2>5. /\ walk'.active = walk.active /\ walk'.cursor = walk.cursor
        /\ walk'.buckets = order /\ walk'.seen = walk.seen /\ walk'.again = walk.again
        /\ walk'.stable = kept /\ walk'.last = walk.last
        /\ walk'.shrunk = small /\ walk'.rehashed = moved /\ walk'.compacted = lost
    BY <2>4
  <2>6. kept \subseteq Keys
    BY DEF kept, WalkInv
  <2>7. UsesBuckets(t') => Lists(order, BucketKeys(t'))
    <3> SUFFICES ASSUME UsesBuckets(t') PROVE Lists(order, BucketKeys(t'))
      OBVIOUS
    <3>1. order \in SetToSeqs(BucketKeys(t'))
      OBVIOUS
    <3>2. IsFiniteSet(BucketKeys(t'))
      BY BucketsFinite DEF TableInv
    <3> QED BY <3>1, <3>2, ListsEnumerated
  <2> QED BY <2>4, <2>5, <2>6, <2>7 DEF WalkInv
<1> QED BY <1>1, <1>2

LEMMA WalkStartKeeps ==
    ASSUME TableInv, WalkInv, WalkStart
    PROVE  WalkInv' /\ walk'.last.kind = "end"
<1> DEFINE kept == {key \in Keys : Get(t, key) # Nil}
<1>1. PICK order \in (IF UsesBuckets(t) THEN SetToSeqs(BucketKeys(t)) ELSE {<<>>}) :
         walk' = [NoWalk EXCEPT !.active = TRUE, !.buckets = order, !.stable = kept]
  BY DEF WalkStart
<1> HIDE DEF kept
<1>2. walk' = [active |-> TRUE, cursor |-> Nil, buckets |-> order, seen |-> {},
               again |-> FALSE, stable |-> kept, last |-> End,
               shrunk |-> FALSE, rehashed |-> FALSE, compacted |-> FALSE]
  BY <1>1 DEF NoWalk
<1>3. UsesBuckets(t) => Lists(order, BucketKeys(t))
  <2>1. IsFiniteSet(BucketKeys(t))
    BY BucketsFinite DEF TableInv
  <2> QED BY <1>1, <2>1, ListsEnumerated
<1>4. t' = t
  BY DEF WalkStart
<1>5. kept \subseteq Keys
  BY DEF kept
<1> QED BY <1>2, <1>3, <1>4, <1>5 DEF WalkInv, End

LEMMA WalkNextKeeps ==
    ASSUME TableInv, WalkInv, WalkNext
    PROVE  /\ WalkInv'
           /\ ~t.nil_write /\ walk'.last.kind = "entry" /\ walk'.seen # walk.seen =>
                walk'.last.value = Get(t, walk'.last.key)
<1> DEFINE entry == NextEntry(t, walk.cursor, walk.buckets)
<1>1. t' = t /\ walk.active
  BY DEF WalkNext
<1>2. walk' = IF entry.kind = "entry"
              THEN [walk EXCEPT !.cursor = entry.key, !.last = entry,
                                !.again = @ \/ entry.key \in walk.seen,
                                !.seen = @ \union {entry.key}]
              ELSE [walk EXCEPT !.active = FALSE, !.last = entry, !.buckets = <<>>]
  BY DEF WalkNext
<1>3. walk = [active |-> walk.active, cursor |-> walk.cursor, buckets |-> walk.buckets,
              seen |-> walk.seen, again |-> walk.again, stable |-> walk.stable,
              last |-> walk.last, shrunk |-> walk.shrunk,
              rehashed |-> walk.rehashed, compacted |-> walk.compacted]
  BY DEF WalkInv
<1>4. entry.kind = "entry" =>
        /\ entry.key \in Keys
        /\ ~t.nil_write => entry.value = Get(t, entry.key)
  BY <1>1, EntryReads DEF TableInv, WalkInv
<1> HIDE DEF entry
<1>5. CASE entry.kind = "entry"
  <2> DEFINE again == walk.again \/ entry.key \in walk.seen
             seen == walk.seen \union {entry.key}
             key == entry.key
  <2>1. walk' = [walk EXCEPT !.cursor = key, !.last = entry, !.again = again, !.seen = seen]
    BY <1>2, <1>3, <1>5
  <2> HIDE DEF again, seen, key
  <2>2. walk' = [active |-> walk.active, cursor |-> key, buckets |-> walk.buckets,
                 seen |-> seen, again |-> again, stable |-> walk.stable, last |-> entry,
                 shrunk |-> walk.shrunk,
                 rehashed |-> walk.rehashed, compacted |-> walk.compacted]
    BY <1>3, <2>1
  <2>3. seen \subseteq Keys
    BY <1>4, <1>5 DEF WalkInv, seen
  <2>4. walk'.last = entry /\ walk'.active = walk.active /\ walk'.buckets = walk.buckets
        /\ walk'.seen = seen /\ walk'.stable = walk.stable /\ walk'.cursor = key
        /\ walk'.again = again
    BY <2>2
  <2> QED BY <1>1, <1>4, <1>5, <2>2, <2>3, <2>4 DEF WalkInv
<1>6. CASE entry.kind # "entry"
  <2> DEFINE empty == <<>>
  <2>1. walk' = [walk EXCEPT !.active = FALSE, !.last = entry, !.buckets = empty]
    BY <1>2, <1>6
  <2> HIDE DEF empty
  <2>2. walk' = [active |-> FALSE, cursor |-> walk.cursor, buckets |-> empty,
                 seen |-> walk.seen, again |-> walk.again, stable |-> walk.stable,
                 last |-> entry, shrunk |-> walk.shrunk,
                 rehashed |-> walk.rehashed, compacted |-> walk.compacted]
    BY <1>3, <2>1
  <2>3. walk'.active = FALSE /\ walk'.seen = walk.seen
    BY <2>2
  <2> QED BY <1>1, <2>2, <2>3 DEF WalkInv
<1> QED BY <1>5, <1>6

(* Every step keeps the invariant, and moves the abstract map as it moves  *)
(* the history.                                                            *)
LEMMA StepKeeps ==
    ASSUME TableInv, WalkInv, [Next]_vars
    PROVE  /\ TableInv' /\ WalkInv'
           /\ ~t.nil_write /\ walk'.last.kind = "entry" /\ walk'.seen # walk.seen =>
                walk'.last.value = Get(t, walk'.last.key)
           /\ weak_mode' = weak_mode
           /\ Promise!Next \/ map' = map
<1>1. CASE UNCHANGED vars
  <2>1. t' = t /\ weak_mode' = weak_mode /\ used' = used /\ map' = map /\ walk' = walk
    BY <1>1 DEF vars
  <2>2. TableInv'
    BY <2>1 DEF TableInv
  <2>3. WalkInv'
    BY <2>1 DEF WalkInv
  <2> QED BY <2>1, <2>2, <2>3
<1>2. ASSUME NEW key \in Keys, NEW value \in Slots, TableSet(key, value)
      PROVE  /\ TableInv' /\ WalkInv'
             /\ walk'.seen = walk.seen \/ walk'.last.kind = "end"
             /\ weak_mode' = weak_mode /\ Promise!Next
  <2>1. TableInv'
    BY <1>2, TableSetKeeps
  <2>2. WalkBeside(t', Disturbs(key, value), Rehashes(key, value, t'),
                 Orders(t', walk.buckets))
    BY <1>2 DEF TableSet
  <2>3. weak_mode' = weak_mode /\ Promise!Put(key, value)
    BY <1>2 DEF TableSet
  <2> QED BY <2>1, <2>2, <2>3, BesideKeeps, OrdersList DEF Promise!Next
<1>3. ASSUME NEW key \in Keys, NEW value \in Slots, TableSetFails(key, value)
      PROVE  /\ TableInv' /\ WalkInv'
             /\ walk'.seen = walk.seen \/ walk'.last.kind = "end"
             /\ weak_mode' = weak_mode /\ map' = map
  <2>1. TableInv'
    BY <1>3, TableSetFailsKeeps
  <2>2. /\ WalkBeside(t', Disturbs(key, value), Rehashes(key, value, Intended(key, value)),
                      OrdersRefused(t', walk.buckets))
        /\ weak_mode' = weak_mode /\ map' = map
    BY <1>3 DEF TableSetFails, Intended
  <2> QED BY <2>1, <2>2, BesideKeeps, OrdersList
<1>4. ASSUME TableClear
      PROVE  /\ TableInv' /\ WalkInv'
             /\ walk'.seen = walk.seen \/ walk'.last.kind = "end"
             /\ weak_mode' = weak_mode /\ Promise!Next
  <2>1. TableInv'
    BY <1>4, TableClearKeeps
  <2>2. WalkBeside(t', TRUE, FALSE, {}) /\ weak_mode' = weak_mode /\ Promise!Clear
    BY <1>4 DEF TableClear
  <2> QED BY <2>1, <2>2, BesideKeeps DEF Promise!Next
<1>5. ASSUME MarkPreallocated \/ TableFreeze
      PROVE  /\ TableInv' /\ WalkInv' /\ walk'.seen = walk.seen
             /\ weak_mode' = weak_mode /\ map' = map
  <2>1. /\ TableInv'
        /\ t'.hash = t.hash /\ t'.hash_order_capacity = t.hash_order_capacity
        /\ t'.policy = t.policy /\ t'.hash_order = t.hash_order
        /\ walk' = walk
    BY <1>5, MarksKeep
  <2>2. (UsesBuckets(t') <=> UsesBuckets(t)) /\ BucketKeys(t') = BucketKeys(t)
    BY <2>1 DEF UsesBuckets, BucketKeys
  <2>3. WalkInv'
    BY <2>1, <2>2 DEF WalkInv
  <2> QED BY <1>5, <2>1, <2>3 DEF MarkPreallocated, TableFreeze
<1>6. ASSUME NEW deadKeys \in SUBSET Promise!WeakKeys, NEW deadValues \in SUBSET Promise!WeakValues,
             WeakCollect(deadKeys, deadValues)
      PROVE  /\ TableInv' /\ WalkInv'
             /\ walk'.seen = walk.seen \/ walk'.last.kind = "end"
             /\ weak_mode' = weak_mode /\ Promise!Next
  <2>1. TableInv'
    BY <1>6, WeakCollectKeeps
  <2>2. WalkBeside(t', FALSE, FALSE, Orders(t', walk.buckets)) /\ weak_mode' = weak_mode
    BY <1>6 DEF WeakCollect
  <2>3. Promise!Forget(deadKeys, deadValues)
    BY <1>6 DEF WeakCollect
  <2>4. Promise!Next
    BY <2>2, <2>3 DEF Promise!Next
  <2> QED BY <2>1, <2>2, <2>4, BesideKeeps, OrdersList
<1>7. ASSUME WalkStart \/ WalkNext
      PROVE  /\ TableInv' /\ WalkInv'
             /\ ~t.nil_write /\ walk'.last.kind = "entry" /\ walk'.seen # walk.seen =>
                  walk'.last.value = Get(t, walk'.last.key)
             /\ weak_mode' = weak_mode /\ map' = map
  <2>1. t' = t /\ used' = used /\ map' = map /\ weak_mode' = weak_mode
    BY <1>7 DEF WalkStart, WalkNext
  <2>2. TableInv'
    BY <2>1 DEF TableInv
  <2>3. CASE WalkStart
    BY <2>1, <2>2, <2>3, WalkStartKeeps
  <2>4. CASE WalkNext
    BY <2>1, <2>2, <2>4, WalkNextKeeps
  <2> QED BY <1>7, <2>3, <2>4
<1>8. Next => \/ \E key \in Keys, value \in Slots : TableSet(key, value)
              \/ \E key \in Keys, value \in Slots : TableSetFails(key, value)
              \/ TableClear
              \/ MarkPreallocated \/ TableFreeze
              \/ \E deadKeys \in SUBSET Promise!WeakKeys, deadValues \in SUBSET Promise!WeakValues :
                    WeakCollect(deadKeys, deadValues)
              \/ WalkStart \/ WalkNext
  BY DEF Next
<1> QED BY <1>1, <1>2, <1>3, <1>4, <1>5, <1>6, <1>7, <1>8

-----------------------------------------------------------------------------
(* The traversal                                                           *)

(* Key k stands at or before key c in the list s.                          *)
AtOrBefore(s, k, c) ==
    \E i, j \in 1 .. Len(s) : s[i] = k /\ s[j] = c /\ i <= j

(* Where a traversal whose current key is c stands in table u, whose opaque *)
(* order is b: the array part comes first, then the hash part.             *)
Located(u, b, c) == c = Nil \/ InArray(u, c) \/ c \in BucketKeys(u)

Passed(u, b, c, k) ==
    /\ c # Nil
    /\ IF InArray(u, c) THEN k \in 1 .. c
       ELSE InArray(u, k) \/ AtOrBefore(HashSequence(u, b), k, c)

(* The opaque order b of u, where there is one, lists the hash part.       *)
Walked(u, b) == UsesBuckets(u) => Lists(b, BucketKeys(u))

(* What is walked of the hash part: its keys, each once.                   *)
LEMMA SequenceListed ==
    ASSUME NEW w, NEW u, Sound(u, w), NEW b, Walked(u, b)
    PROVE  /\ Lists(HashSequence(u, b), BucketKeys(u))
           /\ DOMAIN u.hash \subseteq BucketKeys(u) /\ BucketKeys(u) \subseteq Keys
           /\ Len(HashSequence(u, b)) \in Nat
           /\ DOMAIN HashSequence(u, b) = 1 .. Len(HashSequence(u, b))
<1>1. /\ Lists(u.hash_order, ToSet(u.hash_order)) /\ u.hash_order \in Seq(Keys)
      /\ u.hash_order_capacity # 0 => DOMAIN u.hash \subseteq ToSet(u.hash_order)
      /\ DOMAIN u.hash \subseteq Keys
  BY TableFields DEF Sound, Ordered
<1>2. ToSet(u.hash_order) = {u.hash_order[i] : i \in DOMAIN u.hash_order}
  BY DEF ToSet
<1>3. Lists(HashSequence(u, b), BucketKeys(u))
  BY <1>1, <1>2 DEF Walked, UsesBuckets, HashSequence, BucketKeys
<1>4. BucketKeys(u) \subseteq Keys
  BY BucketsFinite
<1>5. DOMAIN u.hash \subseteq BucketKeys(u)
  BY <1>1, <1>2 DEF BucketKeys
<1>6. HashSequence(u, b) \in Seq(BucketKeys(u))
  BY <1>3 DEF Lists
<1> QED BY <1>3, <1>4, <1>5, <1>6, LenProperties

(* In a table that never saw nil written just past its array, a key has a  *)
(* value in one part only.                                                 *)
LEMMA OnePart ==
    ASSUME NEW w, NEW u, Sound(u, w), ~u.nil_write, NEW k \in Keys
    PROVE  /\ k \in LiveHash(u) => ~InArray(u, k)
           /\ Get(u, k) # Nil <=> \/ InArray(u, k) /\ u.array[k] # Nil
                                  \/ k \in LiveHash(u)
<1>1. Len(u.array) \in Nat /\ Len(u.array) <= MaxKey /\ Apart(u, w)
  BY TableFields DEF Sound
<1>2. k \in LiveHash(u) => ~InArray(u, k)
  <2> SUFFICES ASSUME k \in LiveHash(u), k \in 1 .. Len(u.array) PROVE FALSE
    BY DEF InArray
  <2>1. k \in IntKeys
    BY <1>1, KeyFacts DEF IntKeys
  <2>2. k > Len(u.array) + 1
    BY <1>1, <2>1 DEF Apart
  <2> QED BY <1>1, <2>2
<1> QED BY <1>2 DEF Get, InHash, LiveHash

(* Two lists that agree on the order of the keys they share agree on which *)
(* of two such keys stands first.                                          *)
LEMMA SameOrderAgrees ==
    ASSUME NEW s, NEW S, Lists(s, S), NEW o, NEW O, Lists(o, O), SameOrder(o, s),
           NEW k \in S \cap O, NEW c \in S \cap O
    PROVE  AtOrBefore(o, k, c) <=> AtOrBefore(s, k, c)
<1>1. /\ Len(s) \in Nat /\ DOMAIN s = 1 .. Len(s)
      /\ Len(o) \in Nat /\ DOMAIN o = 1 .. Len(o)
  BY LenProperties DEF Lists
<1>2. PICK i \in 1 .. Len(o), j \in 1 .. Len(o) : o[i] = k /\ o[j] = c
  BY DEF Lists
<1>3. PICK m \in 1 .. Len(s), n \in 1 .. Len(s) : s[m] = k /\ s[n] = c
  BY DEF Lists
<1>4. AtOrBefore(o, k, c) <=> i <= j
  BY <1>2 DEF AtOrBefore, Lists
<1>5. AtOrBefore(s, k, c) <=> m <= n
  BY <1>3 DEF AtOrBefore, Lists
<1>6. i < j => m < n
  BY <1>1, <1>2, <1>3 DEF SameOrder
<1>7. j < i => n < m
  BY <1>1, <1>2, <1>3 DEF SameOrder
<1>8. i = j => m = n
  <2> SUFFICES ASSUME i = j PROVE m = n
    OBVIOUS
  <2>1. s[m] = s[n]
    BY <1>2, <1>3
  <2> QED BY <2>1 DEF Lists
<1> QED BY <1>1, <1>4, <1>5, <1>6, <1>7, <1>8

LEMMA SameListOrder ==
    ASSUME NEW s, NEW S, Lists(s, S)
    PROVE  SameOrder(s, s)
<1>1. Len(s) \in Nat /\ DOMAIN s = 1 .. Len(s)
  BY LenProperties DEF Lists
<1> QED BY <1>1 DEF SameOrder, Lists

(* Selecting keeps the order, and so does a new key at the end.            *)
LEMMA SelectedOrder ==
    ASSUME NEW s, NEW S, Lists(s, S), NEW K
    PROVE  SameOrder(Selected(s, K), s)
<1>1. Len(s) \in Nat /\ DOMAIN s = 1 .. Len(s)
  BY LenProperties DEF Lists
<1> DEFINE N == {n \in 1 .. Len(s) : s[n] \in K}
           at == Ascending(N)
           c == Cardinality(N)
           o == Selected(s, K)
<1>2. N \in SUBSET Int /\ IsFiniteSet(N)
  <2>1. IsFiniteSet(1 .. Len(s)) /\ N \in SUBSET (1 .. Len(s))
    BY <1>1, FS_Interval
  <2> QED BY <1>1, <2>1, FS_Subset
<1>3. /\ DOMAIN at = 1 .. c
      /\ \A n \in 1 .. c : at[n] \in N
      /\ \A m, n \in 1 .. c : m < n => at[m] < at[n]
  <2> HIDE DEF N
  <2> QED BY <1>2, AscendingFacts
<1>4. o = [n \in 1 .. c |-> s[at[n]]]
  BY <1>3 DEF Selected
<1> HIDE DEF o, at, c
<1>5. ASSUME NEW i \in 1 .. c, NEW j \in 1 .. c, NEW k \in 1 .. Len(s), NEW l \in 1 .. Len(s),
             o[i] = s[k], o[j] = s[l], i < j
      PROVE  k < l
  <2>1. at[i] \in 1 .. Len(s) /\ at[j] \in 1 .. Len(s) /\ s[at[i]] = s[k] /\ s[at[j]] = s[l]
    BY <1>3, <1>4, <1>5
  <2>2. at[i] = k /\ at[j] = l
    BY <2>1 DEF Lists
  <2> QED BY <1>3, <1>5, <2>2
<1>6. DOMAIN o = 1 .. c
  BY <1>4
<1> QED BY <1>1, <1>5, <1>6 DEF SameOrder, o

LEMMA AppendedOrder ==
    ASSUME NEW s, NEW S, Lists(s, S), NEW x, x \notin S
    PROVE  SameOrder(Append(s, x), s)
<1>1. /\ s \in Seq(S) /\ s \in Seq(S \union {x}) /\ Len(s) \in Nat /\ DOMAIN s = 1 .. Len(s)
      /\ \A n \in 1 .. Len(s) : s[n] \in S
  BY LenProperties, ElementOfSeq DEF Lists
<1> DEFINE o == Append(s, x)
<1>2. /\ DOMAIN o = 1 .. Len(s) + 1
      /\ \A n \in 1 .. Len(s) : o[n] = s[n]
      /\ o[Len(s) + 1] = x
  <2>1. /\ o \in Seq(S \union {x}) /\ Len(o) = Len(s) + 1
        /\ \A n \in 1 .. Len(s) : o[n] = s[n]
        /\ o[Len(s) + 1] = x
    BY <1>1, AppendProperties
  <2>2. DOMAIN o = 1 .. Len(o)
    BY <2>1, LenProperties
  <2> QED BY <2>1, <2>2
<1> HIDE DEF o
<1>3. ASSUME NEW i \in DOMAIN o, NEW j \in DOMAIN o, NEW k \in DOMAIN s, NEW l \in DOMAIN s,
             o[i] = s[k], o[j] = s[l], i < j
      PROVE  k < l
  <2>1. i \in 1 .. Len(s) /\ j \in 1 .. Len(s)
    BY <1>1, <1>2, <1>3
  <2>2. i = k /\ j = l
    BY <1>1, <1>2, <1>3, <2>1 DEF Lists
  <2> QED BY <1>3, <2>2
<1> QED BY <1>3 DEF SameOrder, o

(* A change of the table after which the traversal's current key, if it    *)
(* can still be found, stands where it stood: every live key was live, and *)
(* lies on the side of the current key on which it lay.                    *)
SameSides(u, b, v, d, c) ==
    Located(v, d, c) =>
        /\ Located(u, b, c)
        /\ \A k \in Keys : Get(v, k) # Nil =>
              /\ Get(u, k) # Nil
              /\ Passed(v, d, c, k) <=> Passed(u, b, c, k)

LEMMA SidesKept ==
    ASSUME NEW w, NEW u, Sound(u, w), NEW v, Sound(v, w), ~u.nil_write, ~v.nil_write,
           NEW b, Walked(u, b), NEW d, Walked(v, d), NEW c,
           \A k \in Keys : Get(v, k) # Nil =>
              Get(u, k) # Nil /\ (InArray(v, k) <=> InArray(u, k)),
           InArray(v, c) => InArray(u, c),
           ~InArray(v, c) /\ c \in BucketKeys(v) =>
              /\ ~InArray(u, c) /\ c \in BucketKeys(u)
              /\ SameOrder(HashSequence(v, d), HashSequence(u, b))
    PROVE  SameSides(u, b, v, d, c)
<1> SUFFICES ASSUME Located(v, d, c), NEW k \in Keys, Get(v, k) # Nil
             PROVE  /\ Located(u, b, c)
                    /\ Passed(v, d, c, k) <=> Passed(u, b, c, k)
  <2>1. Located(v, d, c) => Located(u, b, c)
    BY DEF Located
  <2> QED BY <2>1 DEF SameSides
<1>1. Located(u, b, c)
  BY DEF Located
<1>2. CASE c = Nil
  BY <1>1, <1>2 DEF Passed
<1>3. CASE c # Nil /\ InArray(v, c)
  BY <1>1, <1>3 DEF Passed
<1>4. CASE c # Nil /\ ~InArray(v, c)
  <2> DEFINE s == HashSequence(u, b)
             o == HashSequence(v, d)
  <2>1. /\ ~InArray(u, c) /\ c \in BucketKeys(u) /\ c \in BucketKeys(v)
        /\ SameOrder(o, s)
    BY <1>4 DEF Located
  <2>2. InArray(v, k) <=> InArray(u, k)
    OBVIOUS
  <2>3. CASE InArray(v, k)
    BY <1>1, <1>4, <2>1, <2>2, <2>3 DEF Passed
  <2>4. CASE ~InArray(v, k)
    <3>1. k \in LiveHash(v) /\ k \in LiveHash(u)
      BY <2>2, <2>4, OnePart
    <3>2. /\ Lists(s, BucketKeys(u)) /\ Lists(o, BucketKeys(v))
          /\ k \in BucketKeys(u) /\ k \in BucketKeys(v)
      BY <3>1, SequenceListed DEF LiveHash
    <3>3. AtOrBefore(o, k, c) <=> AtOrBefore(s, k, c)
      <4> HIDE DEF o, s
      <4> QED BY <2>1, <3>2, SameOrderAgrees
    <3> QED BY <1>1, <1>4, <2>1, <2>2, <2>4, <3>3 DEF Passed
  <2> QED BY <2>3, <2>4
<1> QED BY <1>2, <1>3, <1>4

(* The first live key of a list after a position.                          *)
LEMMA FirstLiveIs ==
    ASSUME NEW u \in Table, NEW s, NEW S, Lists(s, S), NEW p \in Nat
    PROVE  LET e == FirstLive(u, s, p)
           IN  \/ /\ e.kind = "entry"
                  /\ \E q \in p + 1 .. Len(s) :
                        /\ e.key = s[q] /\ s[q] \in LiveHash(u)
                        /\ \A i \in p + 1 .. Len(s) : i < q => s[i] \notin LiveHash(u)
               \/ /\ e.kind = "end"
                  /\ \A i \in p + 1 .. Len(s) : s[i] \notin LiveHash(u)
<1> DEFINE e == FirstLive(u, s, p)
           hits == {i \in p + 1 .. Len(s) : s[i] \in LiveHash(u)}
           q == Min(hits)
<1>1. Len(s) \in Nat
  BY LenProperties DEF Lists
<1>2. CASE hits = {}
  <2>1. e = End
    BY <1>2 DEF FirstLive
  <2>2. e.kind = "end"
    BY <2>1 DEF End
  <2> QED BY <1>2, <2>2
<1>3. CASE hits # {}
  <2>1. hits \in SUBSET Nat
    BY <1>1
  <2>2. q \in hits /\ \A i \in hits : q <= i
    <3> HIDE DEF hits
    <3> QED BY <1>3, <2>1, LeastIn
  <2>3. e = Entry(s[q], u.hash[s[q]])
    BY <1>3 DEF FirstLive
  <2> HIDE DEF q, e
  <2>4. e.kind = "entry" /\ e.key = s[q]
    BY <2>3 DEF Entry
  <2>5. q \in p + 1 .. Len(s) /\ s[q] \in LiveHash(u)
    BY <2>2
  <2>6. ASSUME NEW i \in p + 1 .. Len(s), i < q PROVE s[i] \notin LiveHash(u)
    <3>1. i \in hits => q <= i
      BY <2>2
    <3>2. i \in Int /\ q \in Int
      BY <1>1, <2>5
    <3> QED BY <2>6, <3>1, <3>2
  <2> QED BY <2>4, <2>5, <2>6 DEF e
<1> QED BY <1>2, <1>3

(* What a call of `next` returns lies just ahead of the current key: no    *)
(* live key lies between, and at the end none is left.                     *)
Advances(u, b, c, e) ==
    /\ e.kind = "entry" =>
         /\ Located(u, b, c) /\ e.key \in Keys /\ Get(u, e.key) # Nil
         /\ ~Passed(u, b, c, e.key)
         /\ \A k \in Keys : Get(u, k) # Nil =>
               (Passed(u, b, e.key, k) => Passed(u, b, c, k) \/ k = e.key)
         /\ \A k \in Keys : Get(u, k) # Nil =>
               (Passed(u, b, c, k) \/ k = e.key => Passed(u, b, e.key, k))
    /\ e.kind = "end" =>
         /\ Located(u, b, c)
         /\ \A k \in Keys : Get(u, k) # Nil => Passed(u, b, c, k)

(* The same once the call walks the hash part: after position p of its     *)
(* list, up to which every live key lies behind.                           *)
LEMMA HashAdvances ==
    ASSUME NEW w, NEW u, Sound(u, w), ~u.nil_write, NEW b, Walked(u, b), NEW c,
           Located(u, b, c), NEW p \in Nat,
           \A k \in Keys : Get(u, k) # Nil =>
              (Passed(u, b, c, k) <=>
                 \/ InArray(u, k)
                 \/ \E i \in 1 .. Len(HashSequence(u, b)) :
                       i <= p /\ HashSequence(u, b)[i] = k)
    PROVE  Advances(u, b, c, FirstLive(u, HashSequence(u, b), p))
<1> DEFINE s == HashSequence(u, b)
           e == FirstLive(u, s, p)
<1>1. /\ Lists(s, BucketKeys(u)) /\ Len(s) \in Nat
      /\ DOMAIN u.hash \subseteq BucketKeys(u) /\ BucketKeys(u) \subseteq Keys
      /\ u \in Table
  BY SequenceListed DEF Sound
<1>2. \A k \in Keys : Get(u, k) # Nil =>
         (Passed(u, b, c, k) <=> InArray(u, k) \/ \E i \in 1 .. Len(s) : i <= p /\ s[i] = k)
  OBVIOUS
<1> HIDE DEF s
<1>3. \A i, j \in 1 .. Len(s) : s[i] = s[j] => i = j
  BY <1>1 DEF Lists
<1>4. ASSUME NEW k \in Keys, Get(u, k) # Nil, ~InArray(u, k)
      PROVE  k \in LiveHash(u) /\ \E i \in 1 .. Len(s) : s[i] = k
  <2>1. k \in LiveHash(u) /\ k \in DOMAIN u.hash
    BY <1>4, OnePart DEF LiveHash
  <2> QED BY <1>1, <2>1 DEF Lists
<1>5. CASE /\ e.kind = "entry"
           /\ \E q \in p + 1 .. Len(s) :
                 /\ e.key = s[q] /\ s[q] \in LiveHash(u)
                 /\ \A i \in p + 1 .. Len(s) : i < q => s[i] \notin LiveHash(u)
  <2>1. PICK q \in p + 1 .. Len(s) :
            /\ e.key = s[q] /\ s[q] \in LiveHash(u)
            /\ \A i \in p + 1 .. Len(s) : i < q => s[i] \notin LiveHash(u)
    BY <1>5
  <2> DEFINE n == e.key
  <2>2. q \in 1 .. Len(s) /\ ~(q <= p) /\ n = s[q] /\ n \in LiveHash(u)
    BY <1>1, <2>1
  <2>3. n \in Keys /\ ~InArray(u, n) /\ Get(u, n) # Nil /\ n # Nil
    <3>1. n \in Keys
      BY <1>1, <2>2, LiveKeys
    <3> QED BY <2>2, <3>1, OnePart, KeyFacts
  <2> HIDE DEF n
  <2>4. ~Passed(u, b, c, n)
    BY <1>2, <1>3, <2>2, <2>3
  <2>5. ASSUME NEW k \in Keys, Get(u, k) # Nil
        PROVE  Passed(u, b, n, k) <=> Passed(u, b, c, k) \/ k = n
    <3>1. Passed(u, b, n, k) <=> InArray(u, k) \/ AtOrBefore(s, k, n)
      BY <2>3 DEF Passed, s
    <3>2. CASE InArray(u, k)
      BY <1>2, <2>5, <3>1, <3>2
    <3>3. CASE ~InArray(u, k)
      <4>1. PICK i \in 1 .. Len(s) : s[i] = k
        BY <1>4, <2>5, <3>3
      <4>2. k \in LiveHash(u)
        BY <1>4, <2>5, <3>3
      <4>3. AtOrBefore(s, k, n) <=> i <= q
        BY <1>3, <2>2, <4>1 DEF AtOrBefore
      <4>4. Passed(u, b, c, k) <=> i <= p
        BY <1>2, <1>3, <2>5, <3>3, <4>1
      <4>5. k = n <=> i = q
        BY <1>3, <2>2, <4>1
      <4>6. i <= q <=> i <= p \/ i = q
        BY <1>1, <2>1, <4>1, <4>2
      <4> QED BY <3>1, <3>3, <4>3, <4>4, <4>5, <4>6
    <3> QED BY <3>2, <3>3
  <2> HIDE DEF e
  <2> QED BY <1>5, <2>3, <2>4, <2>5 DEF Advances, n, e, s
<1>6. CASE e.kind = "end" /\ \A i \in p + 1 .. Len(s) : s[i] \notin LiveHash(u)
  <2>1. ASSUME NEW k \in Keys, Get(u, k) # Nil, ~InArray(u, k) PROVE Passed(u, b, c, k)
    <3>1. PICK i \in 1 .. Len(s) : s[i] = k
      BY <1>4, <2>1
    <3>2. k \in LiveHash(u)
      BY <1>4, <2>1
    <3>3. i <= p
      BY <1>1, <1>6, <3>1, <3>2
    <3> QED BY <1>2, <2>1, <3>1, <3>3
  <2>2. \A k \in Keys : Get(u, k) # Nil => Passed(u, b, c, k)
    BY <1>2, <2>1
  <2> HIDE DEF e
  <2> QED BY <1>6, <2>2 DEF Advances, e, s
<1>7. \/ /\ e.kind = "entry"
         /\ \E q \in p + 1 .. Len(s) :
               /\ e.key = s[q] /\ s[q] \in LiveHash(u)
               /\ \A i \in p + 1 .. Len(s) : i < q => s[i] \notin LiveHash(u)
      \/ e.kind = "end" /\ \A i \in p + 1 .. Len(s) : s[i] \notin LiveHash(u)
  BY <1>1, FirstLiveIs
<1> QED BY <1>5, <1>6, <1>7

(* The same in the array part, after index p.                              *)
LEMMA ArrayAdvances ==
    ASSUME NEW w, NEW u, Sound(u, w), ~u.nil_write, NEW b, Walked(u, b), NEW c,
           NEW p \in Nat, p <= Len(u.array),
           (c = Nil /\ p = 0) \/ (c = p /\ InArray(u, c))
    PROVE  Advances(u, b, c, NextFromArray(u, p, b))
<1> DEFINE n == Len(u.array)
           hits == {i \in p + 1 .. n : u.array[i] # Nil}
           e == NextFromArray(u, p, b)
<1>1. u \in Table /\ n \in Nat /\ n <= MaxKey /\ IntKeys = 1 .. MaxKey /\ MaxKey \in Nat
  BY TableFields, KeyFacts DEF Sound, IntKeys
<1>2. Located(u, b, c)
  BY DEF Located
<1>3. \A k \in Keys : Passed(u, b, c, k) <=> k \in 1 .. p
  <2>1. CASE c = Nil /\ p = 0
    BY <2>1 DEF Passed
  <2>2. CASE c = p /\ InArray(u, c)
    <3>1. c # Nil
      BY <1>1, <2>2, KeyFacts DEF InArray, IntKeys, Keys
    <3> QED BY <2>2, <3>1 DEF Passed
  <2> QED BY <2>1, <2>2
<1>4. CASE hits = {}
  <2>1. e = FirstLive(u, HashSequence(u, b), 0)
    BY <1>4 DEF NextFromArray
  <2>2. ASSUME NEW k \in Keys, Get(u, k) # Nil
        PROVE  Passed(u, b, c, k) <=>
                  \/ InArray(u, k)
                  \/ \E i \in 1 .. Len(HashSequence(u, b)) :
                        i <= 0 /\ HashSequence(u, b)[i] = k
    <3>1. InArray(u, k) => k \in 1 .. p
      <4> SUFFICES ASSUME k \in 1 .. n, k \notin 1 .. p PROVE FALSE
        BY DEF InArray
      <4>1. u.array[k] # Nil
        BY <2>2 DEF Get, InArray
      <4>2. k \in hits
        BY <1>1, <4>1
      <4> QED BY <1>4, <4>2
    <3>2. k \in 1 .. p => InArray(u, k)
      BY <1>1 DEF InArray
    <3>3. Len(HashSequence(u, b)) \in Nat
      BY SequenceListed
    <3> QED BY <1>3, <3>1, <3>2, <3>3
  <2>3. Advances(u, b, c, FirstLive(u, HashSequence(u, b), 0))
    BY <1>2, <2>2, HashAdvances
  <2> QED BY <2>1, <2>3
<1>5. CASE hits # {}
  <2> DEFINE m == Min(hits)
  <2>1. hits \in SUBSET Nat
    BY <1>1
  <2>2. m \in hits /\ \A i \in hits : m <= i
    <3> HIDE DEF hits
    <3> QED BY <1>5, <2>1, LeastIn
  <2>3. e = Entry(m, u.array[m])
    BY <1>5 DEF NextFromArray
  <2> HIDE DEF m, e
  <2>4. e.kind = "entry" /\ e.key = m
    BY <2>3 DEF Entry
  <2>5. m \in p + 1 .. n /\ u.array[m] # Nil
    BY <2>2
  <2>6. m \in 1 .. n /\ m \in IntKeys /\ m \in Keys /\ InArray(u, m) /\ m # Nil
    <3>1. m \in 1 .. n /\ m \in IntKeys
      BY <1>1, <2>5
    <3> QED BY <3>1, KeyFacts DEF Keys, InArray
  <2>7. Get(u, m) # Nil
    BY <2>5, <2>6 DEF Get
  <2>8. ~Passed(u, b, c, m)
    BY <1>1, <1>3, <2>5, <2>6
  <2>9. ASSUME NEW k \in Keys, Get(u, k) # Nil
        PROVE  Passed(u, b, m, k) <=> Passed(u, b, c, k) \/ k = m
    <3>1. Passed(u, b, m, k) <=> k \in 1 .. m
      BY <2>6 DEF Passed
    <3>2. k \in p + 1 .. m => k = m
      <4> SUFFICES ASSUME k \in p + 1 .. m, k # m PROVE FALSE
        OBVIOUS
      <4>1. k \in 1 .. n /\ k < m /\ k \in p + 1 .. n
        BY <1>1, <2>5
      <4>2. u.array[k] # Nil
        BY <2>9, <4>1 DEF Get, InArray
      <4>3. m <= k
        BY <2>2, <4>1, <4>2
      <4> QED BY <1>1, <2>5, <4>1, <4>3
    <3>3. k \in 1 .. m <=> k \in 1 .. p \/ k \in p + 1 .. m
      BY <1>1, <2>5
    <3>4. k = m => k \in 1 .. m
      BY <2>6
    <3> QED BY <1>3, <3>1, <3>2, <3>3, <3>4
  <2> QED BY <1>2, <2>4, <2>6, <2>7, <2>8, <2>9 DEF Advances, e
<1> QED BY <1>4, <1>5

LEMMA NextAdvances ==
    ASSUME NEW w, NEW u, Sound(u, w), ~u.nil_write, NEW b, Walked(u, b),
           NEW c, c = Nil \/ c \in Keys
    PROVE  Advances(u, b, c, NextEntry(u, c, b))
<1> DEFINE s == HashSequence(u, b)
           positions == {i \in DOMAIN s : s[i] = c}
           e == NextEntry(u, c, b)
<1>1. Len(u.array) \in Nat /\ u \in Table
  BY TableFields DEF Sound
<1>2. /\ Lists(s, BucketKeys(u)) /\ Len(s) \in Nat /\ DOMAIN s = 1 .. Len(s)
  BY SequenceListed
<1> HIDE DEF s
<1>3. CASE c = Nil
  <2>1. e = NextFromArray(u, 0, b)
    BY <1>3 DEF NextEntry
  <2> QED BY <1>1, <1>3, <2>1, ArrayAdvances
<1>4. CASE c # Nil /\ InArray(u, c)
  <2>1. e = InvalidIterationKey \/ e = NextFromArray(u, c, b)
    BY <1>4 DEF NextEntry
  <2>2. c \in Nat /\ c <= Len(u.array)
    BY <1>1, <1>4 DEF InArray
  <2>3. Advances(u, b, c, NextFromArray(u, c, b))
    BY <1>4, <2>2, ArrayAdvances
  <2>4. Advances(u, b, c, InvalidIterationKey)
    BY DEF Advances, InvalidIterationKey
  <2> HIDE DEF e
  <2> QED BY <2>1, <2>3, <2>4 DEF e
<1>5. CASE c # Nil /\ ~InArray(u, c) /\ positions = {}
  <2>1. e = InvalidIterationKey
    BY <1>5 DEF NextEntry, s
  <2> QED BY <2>1 DEF Advances, InvalidIterationKey
<1>6. CASE c # Nil /\ ~InArray(u, c) /\ positions # {}
  <2> DEFINE p == Min(positions)
  <2>1. e = FirstLive(u, s, p)
    BY <1>6 DEF NextEntry, s
  <2>2. p \in positions
    <3>1. positions \in SUBSET Nat
      BY <1>2
    <3> HIDE DEF positions
    <3> QED BY <1>6, <3>1, LeastIn
  <2> HIDE DEF p, e
  <2>3. p \in 1 .. Len(s) /\ s[p] = c
    BY <1>2, <2>2
  <2>4. c \in BucketKeys(u)
    <3>1. s \in Seq(BucketKeys(u))
      BY <1>2 DEF Lists
    <3> QED BY <1>2, <2>3, <3>1, ElementOfSeq
  <2>5. Located(u, b, c) /\ p \in Nat
    BY <2>3, <2>4 DEF Located
  <2>6. ASSUME NEW k \in Keys
        PROVE  Passed(u, b, c, k) <=>
                 InArray(u, k) \/ \E i \in 1 .. Len(s) : i <= p /\ s[i] = k
    <3>1. Passed(u, b, c, k) <=> InArray(u, k) \/ AtOrBefore(s, k, c)
      BY <1>6 DEF Passed, s
    <3>2. \A j \in 1 .. Len(s) : s[j] = c => j = p
      BY <1>2, <2>3 DEF Lists
    <3>3. AtOrBefore(s, k, c) <=> \E i \in 1 .. Len(s) : i <= p /\ s[i] = k
      BY <2>3, <3>2 DEF AtOrBefore
    <3> QED BY <3>1, <3>3
  <2>7. Advances(u, b, c, FirstLive(u, s, p))
    BY <2>5, <2>6, HashAdvances DEF s
  <2> QED BY <2>1, <2>7 DEF e
<1> QED BY <1>3, <1>4, <1>5, <1>6

(* What a write that stays in its part does to the hash part's order.      *)

OrderStays(u, v) ==
    /\ v.policy = u.policy /\ v.hash_capacity = u.hash_capacity
    /\ v.hash_order_capacity = u.hash_order_capacity /\ v.hash_order = u.hash_order

OrderExtends(u, v, key) ==
    /\ v.policy = u.policy
    /\ u.hash_capacity <= v.hash_capacity /\ u.hash_order_capacity <= v.hash_order_capacity
    /\ u.hash_order_capacity # 0 =>
         /\ v.hash_order_capacity # 0
         /\ \/ v.hash_order = u.hash_order
            \/ key \notin ToSet(u.hash_order) /\ v.hash_order = Append(u.hash_order, key)

LEMMA GrownOrder ==
    ASSUME NEW u \in Table, NEW required \in Nat, NEW keys, Offered(u, required, keys), NEW key
    PROVE  OrderExtends(u, PushOrder(GrowHash(u, required, keys).table, key), key)
<1> DEFINE p == GrowHash(u, required, keys).table
           v == PushOrder(p, key)
           h == Max({u.hash_capacity, required})
           o == OrderCapacity(u, required)
           s == IF StartsOrder(u, required) THEN u.hash_order \o keys ELSE u.hash_order
<1>1. p \in Table /\ p = [u EXCEPT !.hash_capacity = h, !.hash_order_capacity = o, !.hash_order = s]
  BY GrowHashFacts
<1>2. /\ u.hash_order_capacity # 0 => o # 0 /\ s = u.hash_order
      /\ u.hash_capacity <= h /\ u.hash_order_capacity <= o
  <2>1. o \in Nat /\ u.hash_order_capacity <= o /\ u.hash_order_capacity \in Nat
    BY OrderCapacityFacts, TableFields
  <2>2. u.hash_order_capacity # 0 => s = u.hash_order
    BY DEF StartsOrder
  <2>3. u.hash_capacity <= h
    <3>1. u.hash_capacity \in Nat
      BY TableFields
    <3> QED BY <3>1, MaxOfTwo
  <2> HIDE DEF o, s, h
  <2> QED BY <2>1, <2>2, <2>3
<1> HIDE DEF p, h, o, s
<1>3. /\ p.policy = u.policy /\ p.hash_order_capacity = o /\ p.hash_order = s
      /\ p.hash_capacity = h
  BY <1>1 DEF Table
<1>4. /\ v.policy = p.policy /\ v.hash_order_capacity = p.hash_order_capacity
      /\ v.hash_capacity = p.hash_capacity
      /\ \/ v.hash_order = p.hash_order
         \/ key \notin ToSet(p.hash_order) /\ v.hash_order = Append(p.hash_order, key)
  <2>1. CASE p.hash_order_capacity = 0 \/ \E i \in DOMAIN p.hash_order : p.hash_order[i] = key
    BY <2>1 DEF PushOrder
  <2>2. CASE ~(p.hash_order_capacity = 0 \/ \E i \in DOMAIN p.hash_order : p.hash_order[i] = key)
    <3> DEFINE q == Append(p.hash_order, key)
    <3>1. v = [p EXCEPT !.hash_order = q]
      BY <2>2 DEF PushOrder
    <3> HIDE DEF q, v
    <3>2. /\ v.policy = p.policy /\ v.hash_order_capacity = p.hash_order_capacity
          /\ v.hash_order = q /\ v.hash_capacity = p.hash_capacity
      BY <1>1, <3>1 DEF Table
    <3>3. key \notin ToSet(p.hash_order)
      BY <2>2 DEF ToSet
    <3> QED BY <3>2, <3>3 DEF q
  <2> QED BY <2>1, <2>2
<1> HIDE DEF v
<1> QED BY <1>2, <1>3, <1>4 DEF OrderExtends, v, p

(* A write inside the array: nil leaves a tombstone, a value takes one out. *)
ArrayWritten(u, v, key, value) ==
    /\ Len(v.array) = Len(u.array)
    /\ \A i \in 1 .. Len(u.array) : v.array[i] = IF i = key THEN value ELSE u.array[i]
    /\ \A k \in DOMAIN u.hash : k # key => k \in DOMAIN v.hash /\ v.hash[k] = u.hash[k]
    /\ DOMAIN v.hash \subseteq DOMAIN u.hash \union {key}
    /\ value = Nil /\ u.array[key] # Nil => key \in Tombstones(v)
    /\ \/ OrderStays(u, v) /\ DOMAIN v.hash \subseteq DOMAIN u.hash
       \/ value = Nil /\ u.array[key] # Nil /\ OrderExtends(u, v, key)

LEMMA SetArrayWrites ==
    ASSUME NEW w, NEW u, Sound(u, w), NEW key \in 1 .. Len(u.array), NEW value \in Slots,
           NEW keys,
           value = Nil /\ u.array[key] # Nil /\ key \notin DOMAIN u.hash
             => Offered(u, Cardinality(DOMAIN u.hash) + 1, keys)
    PROVE  ArrayWritten(u, SetArray(u, key, value, keys).table, key, value)
<1> DEFINE out == SetArray(u, key, value, keys)
           a == [u.array EXCEPT ![key] = value]
           heap == u.array_heap \/ value \in HeapValues
<1> SUFFICES ArrayWritten(u, out.table, key, value)
  OBVIOUS
<1>1. /\ u \in Table /\ Len(u.array) \in Nat /\ Len(u.array) <= MaxKey
      /\ u.array \in Seq(Slots) /\ Sized(u) /\ Ordered(u)
      /\ IsFiniteSet(DOMAIN u.hash) /\ Cardinality(DOMAIN u.hash) \in Nat
  <2>1. /\ u \in Table /\ Len(u.array) \in Nat /\ Len(u.array) <= MaxKey
        /\ u.array \in Seq(Slots) /\ Sized(u) /\ Ordered(u)
    BY TableFields DEF Sound
  <2> QED BY <2>1, FS_CardinalityType DEF Sized
<1>2. key \in Keys /\ key \in IntKeys
  <2>1. MaxKey \in Nat
    BY KeyFacts
  <2> QED BY <1>1, <2>1 DEF Keys, IntKeys
<1>3. /\ a \in Seq(Slots) /\ heap \in BOOLEAN /\ Len(a) = Len(u.array)
      /\ \A i \in 1 .. Len(u.array) : a[i] = IF i = key THEN value ELSE u.array[i]
  BY <1>1, ExceptSeq, TableFields
<1>4. CASE value = Nil /\ u.array[key] # Nil /\ key \in DOMAIN u.hash
  <2> DEFINE v == [[u EXCEPT !.hash[key] = Nil] EXCEPT !.array[key] = value,
                                                      !.array_heap = @ \/ value \in HeapValues]
             f == With(u.hash, key, value)
  <2>1. out.table = v
    BY <1>4 DEF SetArray, InHash
  <2>2. f \in UNION {[S -> Slots] : S \in SUBSET Keys} /\ [u.hash EXCEPT ![key] = Nil] = f
    BY <1>1, <1>2, <1>4, WithTyped
  <2>3. v = [u EXCEPT !.hash = f, !.array = a, !.array_heap = heap]
    <3>1. v = [u EXCEPT !.hash = [u.hash EXCEPT ![key] = Nil], !.array = a, !.array_heap = heap]
      BY <1>1 DEF Table
    <3> QED BY <2>2, <3>1
  <2> HIDE DEF v, f, a, heap
  <2>4. v.hash = f /\ v.array = a /\ OrderStays(u, v) /\ v \in Table
    BY <1>1, <1>3, <2>2, <2>3 DEF Table, OrderStays
  <2>5. /\ DOMAIN v.hash = DOMAIN u.hash \union {key}
        /\ \A k \in DOMAIN u.hash : k # key => v.hash[k] = u.hash[k]
        /\ Tombstones(v) = Tombstones(u) \union {key}
    <3>1. v.hash = With(u.hash, key, value)
      BY <2>4 DEF f
    <3>2. u \in Table /\ v \in Table
      BY <1>1, <2>4
    <3>3. /\ DOMAIN v.hash = DOMAIN u.hash \union {key}
          /\ \A k \in DOMAIN u.hash : k # key => v.hash[k] = u.hash[k]
          /\ value = Nil => Tombstones(v) = Tombstones(u) \union {key}
      <4>1. DOMAIN v.hash = DOMAIN u.hash \union {key}
        BY <3>1 DEF With
      <4>2. \A k \in DOMAIN u.hash : k # key => v.hash[k] = u.hash[k]
        BY <1>2, <3>1, <3>2, WithFacts
      <4>3. value = Nil => Tombstones(v) = Tombstones(u) \union {key}
        BY <1>2, <3>1, <3>2, WithFacts
      <4> QED BY <4>1, <4>2, <4>3
    <3> QED BY <1>4, <3>3
  <2>6. ArrayWritten(u, v, key, value)
    BY <1>3, <1>4, <2>4, <2>5 DEF ArrayWritten
  <2> QED BY <2>1, <2>6
<1>5. CASE value = Nil /\ u.array[key] # Nil /\ key \notin DOMAIN u.hash
  <2> DEFINE required == Cardinality(DOMAIN u.hash) + 1
             g == GrowHash(u, required, keys)
             p == PushOrder(g.table, key)
             v == [[p EXCEPT !.hash = With(@, key, Nil), !.tombstones = @ + 1]
                      EXCEPT !.array[key] = value,
                             !.array_heap = @ \/ value \in HeapValues]
             f == With(u.hash, key, value)
  <2>1. out.table = v
    <3>1. out = [g EXCEPT !.table = v]
      BY <1>5 DEF SetArray, InHash
    <3>2. \E T, R, P : g = [table |-> T, request |-> R, replaced |-> P]
      BY DEF GrowHash
    <3> HIDE DEF g, v, out
    <3> QED BY <3>1, <3>2
  <2>2. Room(u, p, key)
    BY <1>1, <1>2, <1>5, GrowthMakesRoom
  <2>3. OrderExtends(u, p, key)
    <3>1. required \in Nat
      BY <1>1
    <3> HIDE DEF required
    <3>2. Offered(u, required, keys)
      BY <1>5 DEF required
    <3> QED BY <1>1, <3>1, <3>2, GrownOrder
  <2>4. f \in UNION {[S -> Slots] : S \in SUBSET Keys}
    BY <1>1, <1>2, WithTyped
  <2> HIDE DEF p, g
  <2>5. p \in Table
        /\ p = [u EXCEPT !.hash_capacity = p.hash_capacity,
                         !.hash_order_capacity = p.hash_order_capacity,
                         !.hash_order = p.hash_order]
    BY <2>2 DEF Room
  <2>6. p.hash = u.hash /\ p.array = u.array /\ p.array_heap = u.array_heap
    <3> DEFINE h == p.hash_capacity
               o == p.hash_order_capacity
               s == p.hash_order
    <3>1. p = [u EXCEPT !.hash_capacity = h, !.hash_order_capacity = o, !.hash_order = s]
      BY <2>5
    <3> HIDE DEF h, o, s
    <3> QED BY <1>1, <3>1 DEF Table
  <2> DEFINE n == p.tombstones + 1
  <2>7. v = [p EXCEPT !.hash = f, !.tombstones = n, !.array = a, !.array_heap = heap]
    <3>1. v = [p EXCEPT !.hash = With(p.hash, key, Nil), !.tombstones = n,
                        !.array = [p.array EXCEPT ![key] = value],
                        !.array_heap = p.array_heap \/ value \in HeapValues]
      BY <2>5 DEF Table
    <3> QED BY <1>5, <2>6, <3>1
  <2>8. n \in Nat
    <3>1. p.tombstones \in Nat
      BY <2>5, TableFields
    <3> QED BY <3>1
  <2> HIDE DEF v, f, a, heap, n
  <2>9. /\ v \in Table /\ v.hash = f /\ v.array = a /\ v.policy = p.policy
        /\ v.hash_order_capacity = p.hash_order_capacity /\ v.hash_order = p.hash_order
        /\ v.hash_capacity = p.hash_capacity
    BY <1>3, <2>4, <2>5, <2>7, <2>8 DEF Table
  <2>10. OrderExtends(u, v, key)
    BY <2>3, <2>9 DEF OrderExtends
  <2>11. /\ DOMAIN v.hash = DOMAIN u.hash \union {key}
         /\ \A k \in DOMAIN u.hash : k # key => v.hash[k] = u.hash[k]
         /\ Tombstones(v) = Tombstones(u) \union {key}
    <3>1. v.hash = With(u.hash, key, value)
      BY <2>9 DEF f
    <3>2. u \in Table /\ v \in Table
      BY <1>1, <2>9
    <3>3. /\ DOMAIN v.hash = DOMAIN u.hash \union {key}
          /\ \A k \in DOMAIN u.hash : k # key => v.hash[k] = u.hash[k]
          /\ value = Nil => Tombstones(v) = Tombstones(u) \union {key}
      <4>1. DOMAIN v.hash = DOMAIN u.hash \union {key}
        BY <3>1 DEF With
      <4>2. \A k \in DOMAIN u.hash : k # key => v.hash[k] = u.hash[k]
        BY <1>2, <3>1, <3>2, WithFacts
      <4>3. value = Nil => Tombstones(v) = Tombstones(u) \union {key}
        BY <1>2, <3>1, <3>2, WithFacts
      <4> QED BY <4>1, <4>2, <4>3
    <3> QED BY <1>5, <3>3
  <2>12. ArrayWritten(u, v, key, value)
    BY <1>3, <1>5, <2>9, <2>10, <2>11 DEF ArrayWritten
  <2> QED BY <2>1, <2>12
<1>6. CASE value # Nil
  <2> DEFINE r == RemoveHash(u, {key})
             v == [r EXCEPT !.array[key] = value, !.array_heap = @ \/ value \in HeapValues]
             f == Without(u.hash, {key})
  <2>1. out.table = v
    BY <1>6 DEF SetArray
  <2>2. /\ r \in Table
        /\ r = [u EXCEPT !.hash = f, !.tombstones = r.tombstones]
        /\ DOMAIN r.hash = DOMAIN u.hash \ {key}
        /\ \A k \in DOMAIN u.hash \ {key} : r.hash[k] = u.hash[k]
    BY <1>1, RemoveHashFacts
  <2> HIDE DEF r, f
  <2>3. r.array = u.array /\ r.array_heap = u.array_heap /\ OrderStays(u, r)
    <3> DEFINE n == r.tombstones
    <3>1. r = [u EXCEPT !.hash = f, !.tombstones = n]
      BY <2>2
    <3> HIDE DEF n
    <3> QED BY <1>1, <3>1 DEF Table, OrderStays
  <2>4. v = [r EXCEPT !.array = a, !.array_heap = heap]
    BY <2>2, <2>3 DEF Table
  <2> HIDE DEF v, a, heap
  <2>5. v.hash = r.hash /\ v.array = a /\ OrderStays(r, v)
    BY <2>2, <2>4 DEF Table, OrderStays
  <2>6. OrderStays(u, v)
    BY <2>3, <2>5 DEF OrderStays
  <2>7. ArrayWritten(u, v, key, value)
    BY <1>3, <1>6, <2>2, <2>5, <2>6 DEF ArrayWritten
  <2> QED BY <2>1, <2>7
<1>7. CASE value = Nil /\ u.array[key] = Nil
  <2> DEFINE v == [u EXCEPT !.array[key] = value, !.array_heap = @ \/ value \in HeapValues]
  <2>1. out.table = v
    BY <1>7 DEF SetArray
  <2>2. v = [u EXCEPT !.array = a, !.array_heap = heap]
    BY <1>1 DEF Table
  <2> HIDE DEF v, a, heap
  <2>3. v.hash = u.hash /\ v.array = a /\ OrderStays(u, v)
    BY <1>1, <2>2 DEF Table, OrderStays
  <2>4. ArrayWritten(u, v, key, value)
    BY <1>3, <1>7, <2>3 DEF ArrayWritten
  <2> QED BY <2>1, <2>4
<1> QED BY <1>4, <1>5, <1>6, <1>7

(* A write to the hash part drops keys only when it compacts, and no key   *)
(* changes places.                                                         *)
OrderShrinks(u, v) ==
    /\ v.policy = u.policy /\ v.hash_capacity = u.hash_capacity
    /\ v.hash_order_capacity = u.hash_order_capacity
    /\ v.hash_order = u.hash_order \/ \E K : v.hash_order = Selected(u.hash_order, K)

HashWritten(u, v) ==
    /\ v.array = u.array
    /\ DOMAIN v.hash \subseteq DOMAIN u.hash /\ LiveHash(v) \subseteq LiveHash(u)
    /\ \A k \in DOMAIN u.hash \ DOMAIN v.hash : NeedsCompaction(u) /\ k \in Tombstones(u)
    /\ OrderShrinks(u, v)

LEMMA BeforeHashGrowthOrder ==
    ASSUME NEW w, NEW u, Sound(u, w), NEW key \in Keys, NEW value \in Slots
    PROVE  HashWritten(u, BeforeHashGrowth(u, key, value))
<1> DEFINE hk == u.hash_heap_key \/ key \in HeapKeys
           hv == u.hash_heap_value \/ value \in HeapValues
           x == [u EXCEPT !.hash_heap_key = hk, !.hash_heap_value = hv]
           y == IF NeedsCompaction(x) THEN CompactHash(x) ELSE x
           v == BeforeHashGrowth(u, key, value)
<1>1. u \in Table /\ hk \in BOOLEAN /\ hv \in BOOLEAN
  BY TableFields DEF Sound
<1>2. v = IF key \in DOMAIN y.hash THEN y
          ELSE [y EXCEPT !.order_enabled = @ \/ OrdersBy(u, key)]
  <2>1. x = [u EXCEPT !.hash_heap_key = @ \/ key \in HeapKeys,
                      !.hash_heap_value = @ \/ value \in HeapValues]
    BY <1>1
  <2> HIDE DEF x
  <2> QED BY <2>1, Zenon DEF BeforeHashGrowth, InHash
<1> HIDE DEF hk, hv, x, v
<1>3. /\ x \in Table
      /\ x.array = u.array /\ x.hash = u.hash /\ x.tombstones = u.tombstones
      /\ x.policy = u.policy /\ x.hash_capacity = u.hash_capacity
      /\ x.hash_order_capacity = u.hash_order_capacity /\ x.hash_order = u.hash_order
  BY <1>1 DEF Table, x
<1>4. y \in Table /\ OrderShrinks(x, y)
  <2>1. CASE ~NeedsCompaction(x) \/ x.tombstones = 0
    <3>1. y = x
      BY <2>1 DEF CompactHash
    <3> QED BY <1>3, <3>1 DEF OrderShrinks
  <2>2. CASE NeedsCompaction(x) /\ x.tombstones # 0
    <3> DEFINE f == Without(x.hash, Tombstones(x))
               q == Selected(x.hash_order, LiveHash(x))
               s == IF x.hash_order_capacity # 0 THEN q ELSE x.hash_order
    <3>1. y = [KeepLive(x) EXCEPT !.hash_order =
                 IF x.hash_order_capacity # 0 THEN OrderOf(x, LiveHash(x)) ELSE @]
      BY <2>2 DEF CompactHash
    <3>2. f \in UNION {[S -> Slots] : S \in SUBSET Keys}
      BY <1>3, WithoutFacts
    <3>3. s \in Seq(Keys)
      <4>1. x.hash_order_capacity # 0 => q \in Seq(Keys)
        <5> SUFFICES ASSUME x.hash_order_capacity # 0 PROVE q \in Seq(Keys)
          OBVIOUS
        <5>1. /\ Lists(u.hash_order, ToSet(u.hash_order))
              /\ DOMAIN u.hash \subseteq ToSet(u.hash_order) /\ DOMAIN u.hash \subseteq Keys
          BY <1>1, <1>3, TableFields DEF Sound, Ordered
        <5>2. LiveHash(x) \subseteq ToSet(u.hash_order) /\ LiveHash(x) \subseteq Keys
          BY <1>3, <5>1 DEF LiveHash
        <5> QED BY <1>3, <5>1, <5>2, OrderKept
      <4>2. x.hash_order \in Seq(Keys)
        BY <1>3, TableFields
      <4> HIDE DEF q
      <4> QED BY <4>1, <4>2
    <3> HIDE DEF f, s
    <3>4. y = [x EXCEPT !.hash = f, !.tombstones = 0, !.hash_order = s]
      <4>1. KeepLive(x) = [x EXCEPT !.hash = f, !.tombstones = 0]
        BY DEF KeepLive, f
      <4>2. KeepLive(x).hash_order = x.hash_order
        BY <1>3, <4>1 DEF Table
      <4>3. y = [KeepLive(x) EXCEPT !.hash_order = s]
        BY <3>1, <4>2 DEF s, OrderOf
      <4> HIDE DEF y
      <4> QED BY <1>3, <4>1, <4>3 DEF Table
    <3> HIDE DEF y
    <3>5. /\ y \in Table /\ y.policy = x.policy /\ y.hash_capacity = x.hash_capacity
          /\ y.hash_order_capacity = x.hash_order_capacity /\ y.hash_order = s
      BY <1>3, <3>2, <3>3, <3>4 DEF Table
    <3>6. s = x.hash_order \/ s = Selected(x.hash_order, LiveHash(x))
      BY DEF s
    <3> HIDE DEF q
    <3> QED BY <3>5, <3>6 DEF OrderShrinks
  <2> QED BY <2>1, <2>2
<1> HIDE DEF y
<1>5. OrderStays(y, v)
  <2>1. CASE key \in DOMAIN y.hash
    BY <1>2, <2>1 DEF OrderStays
  <2>2. CASE key \notin DOMAIN y.hash
    <3> DEFINE b == y.order_enabled \/ OrdersBy(u, key)
    <3>1. v = [y EXCEPT !.order_enabled = b]
      BY <1>2, <2>2
    <3> HIDE DEF b
    <3> QED BY <1>4, <3>1 DEF Table, OrderStays
  <2> QED BY <2>1, <2>2
<1>6. OrderShrinks(u, v)
  BY <1>3, <1>4, <1>5 DEF OrderShrinks, OrderStays
<1>7. /\ v.array = u.array /\ DOMAIN v.hash \subseteq DOMAIN u.hash
      /\ LiveHash(v) = LiveHash(u)
      /\ ~NeedsCompaction(u) => DOMAIN v.hash = DOMAIN u.hash
  <2>1. LET b == BeforeHashGrowth(u, key, value)
        IN  /\ b.array = u.array /\ DOMAIN b.hash \subseteq DOMAIN u.hash
            /\ LiveHash(b) = LiveHash(u)
            /\ ~NeedsCompaction(u) \/ u.tombstones = 0 => DOMAIN b.hash = DOMAIN u.hash
    BY BeforeHashGrowthFacts
  <2> QED BY <2>1, Zenon DEF v
<1>8. ASSUME NEW k \in DOMAIN u.hash \ DOMAIN v.hash PROVE NeedsCompaction(u) /\ k \in Tombstones(u)
  <2>1. k \notin LiveHash(u)
    BY <1>7, <1>8 DEF LiveHash
  <2> QED BY <1>7, <1>8, <2>1 DEF LiveHash, Tombstones
<1> QED BY <1>6, <1>7, <1>8 DEF HashWritten, v

LEMMA SetHashWrites ==
    ASSUME NEW w, NEW u, Sound(u, w), NEW key \in LiveHash(u), NEW value \in LiveValues, NEW keys
    PROVE  HashWritten(u, SetHash(u, key, value, keys).table)
<1> DEFINE r == BeforeHashGrowth(u, key, value)
           v == SetHash(u, key, value, keys).table
           f == With(r.hash, key, value)
           dec == IF r.hash[key] = Nil THEN SaturatingDec(r.tombstones, 1) ELSE r.tombstones
<1>1. key \in Keys /\ value \in Slots
  BY LiveKeys DEF Sound, Slots
<1>2. /\ HashWritten(u, r) /\ r \in Table /\ r.tombstones \in Nat
      /\ key \in DOMAIN r.hash
  <2>1. HashWritten(u, r) /\ Sound(r, w) /\ LiveHash(r) = LiveHash(u)
    BY <1>1, BeforeHashGrowthOrder, BeforeHashGrowthFacts
  <2>2. r \in Table /\ r.tombstones \in Nat
    BY <2>1, TableFields DEF Sound
  <2> HIDE DEF r
  <2> QED BY <2>1, <2>2 DEF LiveHash
<1>3. v = [[r EXCEPT !.tombstones = dec] EXCEPT !.hash = With(@, key, value)]
  <2>1. key \in DOMAIN r.hash =>
          v = [[r EXCEPT !.tombstones = IF r.hash[key] = Nil THEN SaturatingDec(@, 1) ELSE @]
                  EXCEPT !.hash = With(@, key, value)]
    BY DEF SetHash, InHash
  <2> HIDE DEF r, v
  <2> QED BY <1>2, <2>1
<1> HIDE DEF r, v
<1>4. v = [r EXCEPT !.tombstones = dec, !.hash = f]
  BY <1>2, <1>3 DEF Table
<1>5. /\ DOMAIN f = DOMAIN r.hash
      /\ \A k \in DOMAIN f : f[k] = IF k = key THEN value ELSE r.hash[k]
  BY <1>2 DEF With
<1> HIDE DEF f, dec
<1>6. v.array = r.array /\ v.hash = f /\ OrderStays(r, v)
  BY <1>2, <1>4 DEF Table, OrderStays
<1>7. LiveHash(v) \subseteq LiveHash(u)
  <2> SUFFICES ASSUME NEW k \in LiveHash(v), k # key PROVE k \in LiveHash(u)
    OBVIOUS
  <2>1. k \in LiveHash(r)
    BY <1>5, <1>6 DEF LiveHash
  <2> QED BY <1>2, <2>1 DEF HashWritten
<1> QED BY <1>2, <1>5, <1>6, <1>7 DEF HashWritten, OrderShrinks, OrderStays, v

LEMMA SetHashNilWrites ==
    ASSUME NEW u \in Table, NEW key \in Keys
    PROVE  HashWritten(u, SetHashNil(u, key).table)
<1> DEFINE v == SetHashNil(u, key).table
<1>1. CASE key \notin DOMAIN u.hash
  <2>1. v = u
    BY <1>1 DEF SetHashNil, InHash
  <2> QED BY <2>1 DEF HashWritten, OrderShrinks
<1>2. CASE key \in DOMAIN u.hash
  <2> DEFINE f == [u.hash EXCEPT ![key] = Nil]
             hk == u.hash_heap_key \/ key \in HeapKeys
             n == IF u.hash[key] = Nil THEN u.tombstones ELSE u.tombstones + 1
  <2>1. v = [u EXCEPT !.hash = f, !.hash_heap_key = hk, !.tombstones = n]
    BY <1>2 DEF SetHashNil, InHash, Table
  <2>2. DOMAIN f = DOMAIN u.hash /\ \A k \in DOMAIN f : f[k] # Nil => u.hash[k] # Nil
    OBVIOUS
  <2> HIDE DEF f, hk, n, v
  <2>3. v.array = u.array /\ v.hash = f /\ OrderStays(u, v)
    BY <2>1 DEF Table, OrderStays
  <2>4. LiveHash(v) \subseteq LiveHash(u)
    BY <2>2, <2>3 DEF LiveHash
  <2> QED BY <2>2, <2>3, <2>4 DEF HashWritten, OrderShrinks, OrderStays, v
<1> QED BY <1>1, <1>2

(* A write that gives no key a value it had not: which branches of         *)
(* Table::set it can take.                                                 *)
GrowsOverLive(u, v, key, value) ==
    /\ u.nil_write /\ key \in IntKeys /\ value # Nil
    /\ GrowsOverHole(u, key) /\ key \in LiveHash(u)
    /\ v = SetGrowing(u, key, value).table

LEMMA QuietWrite ==
    ASSUME NEW w, NEW u, Sound(u, w), NEW key \in Keys, NEW value \in Slots, NEW keys,
           LET r == Ready(u, key, value)
           IN  Offered(r, Cardinality(DOMAIN r.hash) + 1, keys),
           value = Nil \/ Get(u, key) # Nil
    PROVE  LET v == Set(u, key, value, keys).table
           IN  \/ InArray(u, key) /\ ArrayWritten(u, v, key, value)
               \/ ~InArray(u, key) /\ HashWritten(u, v)
               \/ GrowsOverLive(u, v, key, value)
<1> DEFINE v == Set(u, key, value, keys).table
<1>1. /\ u \in Table /\ Len(u.array) \in Nat /\ Apart(u, w)
      /\ u.legacy_array_capacity \in Nat
  BY TableFields DEF Sound
<1>2. ASSUME ~InArray(u, key), value # Nil PROVE key \in LiveHash(u) /\ value \in LiveValues
  BY <1>2, KeyFacts DEF Get, InHash, LiveHash
<1>3. CASE InArray(u, key)
  <2>1. Offered(u, Cardinality(DOMAIN u.hash) + 1, keys) /\ key \in 1 .. Len(u.array)
    BY <1>3 DEF Ready, InArray
  <2>2. Set(u, key, value, keys) = SetArray(u, key, value, keys)
    BY <1>3 DEF Set
  <2>3. ArrayWritten(u, SetArray(u, key, value, keys).table, key, value)
    BY <2>1, SetArrayWrites
  <2> QED BY <1>3, <2>2, <2>3
<1>4. CASE ~InArray(u, key) /\ key = Len(u.array) + 1 /\ value = Nil
  <2> DEFINE n == Max({u.legacy_array_capacity, key})
  <2>1. v = SetBoundaryNil(u, key).table
    BY <1>4 DEF Set
  <2>2. \/ v = [u EXCEPT !.nil_write = TRUE]
        \/ v = [u EXCEPT !.nil_write = TRUE, !.tracks_legacy = TRUE, !.legacy_array_capacity = n]
    BY <1>1, <2>1 DEF SetBoundaryNil, Table
  <2> HIDE DEF v, n
  <2>3. v.array = u.array /\ v.hash = u.hash /\ OrderStays(u, v)
    BY <1>1, <2>2 DEF Table, OrderStays
  <2>4. HashWritten(u, v)
    BY <2>3 DEF HashWritten, OrderShrinks, OrderStays, LiveHash
  <2> QED BY <1>4, <2>4 DEF v
<1>5. CASE /\ ~InArray(u, key) /\ key \in IntKeys /\ value # Nil
           /\ key = Len(u.array) + 1 \/ GrowsOverHole(u, key)
  <2>1. key \in LiveHash(u)
    BY <1>2, <1>5
  <2>2. key # Len(u.array) + 1
    BY <1>1, <2>1 DEF Apart
  <2>3. u.nil_write
    <3> SUFFICES ASSUME ~u.nil_write PROVE FALSE
      OBVIOUS
    <3>1. u.tracks_legacy => key > u.legacy_array_capacity + 1
      BY <1>1, <1>5, <2>1 DEF Apart
    <3>2. key \in Nat
      BY <1>5, KeyFacts DEF IntKeys
    <3> QED BY <1>1, <1>5, <2>2, <3>1, <3>2 DEF GrowsOverHole
  <2>4. v = SetGrowing(u, key, value).table
    BY <1>5 DEF Set
  <2> QED BY <1>5, <2>1, <2>2, <2>3, <2>4 DEF GrowsOverLive
<1>6. CASE /\ ~InArray(u, key) /\ key # Len(u.array) + 1 /\ value = Nil
  <2>1. v = SetHashNil(u, key).table
    BY <1>6 DEF Set
  <2> QED BY <1>1, <1>6, <2>1, SetHashNilWrites
<1>7. CASE /\ ~InArray(u, key) /\ value # Nil
           /\ ~(key \in IntKeys /\ (key = Len(u.array) + 1 \/ GrowsOverHole(u, key)))
  <2>1. v = SetHash(u, key, value, keys).table
    BY <1>7 DEF Set
  <2>2. key \in LiveHash(u) /\ value \in LiveValues
    BY <1>2, <1>7
  <2>3. HashWritten(u, SetHash(u, key, value, keys).table)
    BY <2>2, SetHashWrites
  <2> QED BY <1>7, <2>1, <2>3
<1> QED BY <1>3, <1>4, <1>5, <1>6, <1>7

(* The walked order of the hash part follows such a write.                 *)
LEMMA OrderFollows ==
    ASSUME NEW w, Sound(t, w), NEW v, Sound(v, w), DOMAIN v.hash \subseteq DOMAIN t.hash,
           OrderShrinks(t, v), NEW b, NEW d \in Orders(v, b), NEW c \in BucketKeys(v)
    PROVE  c \in BucketKeys(t) /\ SameOrder(HashSequence(v, d), HashSequence(t, b))
<1> DEFINE s == t.hash_order
           S == ToSet(s)
           q == v.hash_order
<1>1. Lists(s, S) /\ Lists(q, ToSet(q))
  BY DEF Sound, Ordered
<1>2. ToSet(q) \subseteq S /\ SameOrder(q, s)
  <2>1. CASE q = s
    <3>1. SameOrder(s, s)
      <4> HIDE DEF s, S
      <4> QED BY <1>1, SameListOrder
    <3> QED BY <2>1, <3>1
  <2>2. ASSUME NEW K, q = Selected(s, K) PROVE ToSet(q) \subseteq S /\ SameOrder(q, s)
    <3> HIDE DEF s, S
    <3>1. SameOrder(Selected(s, K), s) /\ Lists(Selected(s, K), S \cap K)
      BY <1>1, SelectedOrder, ListsSelected
    <3>2. ToSet(q) = S \cap K
      BY <2>2, <3>1, ListsSize
    <3> QED BY <2>2, <3>1, <3>2
  <2> QED BY <2>1, <2>2 DEF OrderShrinks
<1>3. BucketKeys(v) \subseteq BucketKeys(t)
  <2>1. v.hash_order_capacity = t.hash_order_capacity
    BY DEF OrderShrinks
  <2> HIDE DEF s, q
  <2>2. {q[i] : i \in DOMAIN q} = ToSet(q) /\ {s[i] : i \in DOMAIN s} = S
    BY DEF ToSet
  <2> QED BY <1>2, <2>1, <2>2 DEF BucketKeys, s, q
<1>4. UsesBuckets(v) <=> UsesBuckets(t)
  BY DEF OrderShrinks, UsesBuckets
<1>5. CASE UsesBuckets(v)
  <2>1. ~Reshuffled(v)
    BY <1>3 DEF Reshuffled, OrderShrinks
  <2>2. SameOrder(d, b)
    BY <1>5, <2>1 DEF Orders
  <2> QED BY <1>3, <1>4, <1>5, <2>2 DEF HashSequence
<1>6. CASE ~UsesBuckets(v)
  BY <1>2, <1>3, <1>4, <1>6 DEF HashSequence
<1> QED BY <1>5, <1>6

LEMMA OrderFollowsTombstone ==
    ASSUME NEW w, Sound(t, w), NEW v, Sound(v, w), NEW key, OrderExtends(t, v, key),
           ~UsesBuckets(t), NEW b, NEW d, NEW c \in BucketKeys(v), c # key
    PROVE  c \in BucketKeys(t) /\ SameOrder(HashSequence(v, d), HashSequence(t, b))
<1> DEFINE s == t.hash_order
           S == ToSet(s)
           q == v.hash_order
<1>1. /\ Lists(s, S) /\ t.hash_order_capacity # 0 /\ v.hash_order_capacity # 0
      /\ v.policy = t.policy /\ ~UsesBuckets(v)
      /\ q = s \/ (key \notin S /\ q = Append(s, key))
  BY DEF Sound, Ordered, UsesBuckets, OrderExtends
<1>2. HashSequence(v, d) = q /\ HashSequence(t, b) = s
  BY <1>1 DEF HashSequence
<1>3. BucketKeys(v) = ToSet(q) /\ BucketKeys(t) = S
  <2> HIDE DEF s, q
  <2>1. {q[i] : i \in DOMAIN q} = ToSet(q) /\ {s[i] : i \in DOMAIN s} = S
    BY DEF ToSet
  <2> QED BY <1>1, <2>1 DEF BucketKeys, s, q
<1> HIDE DEF s, S, q
<1>4. CASE q = s
  BY <1>1, <1>2, <1>3, <1>4, SameListOrder DEF S
<1>5. CASE key \notin S /\ q = Append(s, key)
  <2>1. Lists(q, S \union {key}) /\ SameOrder(q, s)
    BY <1>1, <1>5, ListsAppend, AppendedOrder
  <2>2. ToSet(q) = S \union {key}
    BY <2>1, ListsSize
  <2> QED BY <1>2, <1>3, <2>1, <2>2
<1> QED BY <1>1, <1>4, <1>5

(* So does an opaque order when the hash part has room for the tombstone.  *)
LEMMA OrderFollowsRoom ==
    ASSUME NEW v, NEW key, OrderExtends(t, v, key),
           DOMAIN v.hash \subseteq DOMAIN t.hash \union {key},
           UsesBuckets(t), ~Reshuffled(v),
           NEW b, NEW d \in Orders(v, b), NEW c \in BucketKeys(v), c # key
    PROVE  c \in BucketKeys(t) /\ SameOrder(HashSequence(v, d), HashSequence(t, b))
<1>1. /\ v.policy = t.policy /\ v.hash_order_capacity = t.hash_order_capacity
      /\ t.hash_order_capacity # 0 =>
           v.hash_order = t.hash_order \/ v.hash_order = Append(t.hash_order, key)
  BY DEF OrderExtends, Reshuffled
<1>2. UsesBuckets(v)
  BY <1>1 DEF UsesBuckets
<1>3. c \in BucketKeys(t)
  <2>1. CASE t.hash_order_capacity = 0
    BY <1>1, <2>1 DEF BucketKeys
  <2>2. CASE t.hash_order_capacity # 0 /\ v.hash_order = t.hash_order
    BY <1>1, <2>2 DEF BucketKeys
  <2>3. CASE t.hash_order_capacity # 0 /\ v.hash_order = Append(t.hash_order, key)
    BY <1>1, <2>3 DEF BucketKeys
  <2> QED BY <1>1, <2>1, <2>2, <2>3
<1>4. SameOrder(d, b)
  BY <1>2 DEF Orders
<1> QED BY <1>2, <1>3, <1>4 DEF HashSequence

(* A write that does not disturb the traversal keeps every live key on its *)
(* side of the current key.                                                *)
LEMMA WrittenSides ==
    ASSUME TableInv, WalkInv, walk.active, NEW key \in Keys, NEW value \in Slots, NEW keys,
           LET r == Ready(t, key, value)
           IN  Offered(r, Cardinality(DOMAIN r.hash) + 1, keys),
           ~Disturbs(key, value),
           NEW v, v = Set(t, key, value, keys).table, ~v.nil_write, ~Rehashes(key, value, v),
           NEW d \in Orders(v, walk.buckets)
    PROVE  SameSides(t, walk.buckets, v, d, walk.cursor)
<1> DEFINE b == walk.buckets
           c == walk.cursor
           w == weak_mode
<1>1. Sound(t, w) /\ Walked(t, b)
  BY DEF TableInv, WalkInv, Walked
<1>2. /\ Sound(v, w) /\ ~t.nil_write
      /\ \A k \in Keys : Get(v, k) = IF k = key THEN value ELSE Get(t, k)
  <2>1. Stores(t, w, key, value, Set(t, key, value, keys))
    BY <1>1, SetStores
  <2> QED BY <2>1 DEF Stores
<1>3. Walked(v, d)
  <2> SUFFICES ASSUME UsesBuckets(v) PROVE Lists(d, BucketKeys(v))
    BY DEF Walked
  <2>1. d \in SetToSeqs(BucketKeys(v))
    BY OrdersList
  <2> QED BY <1>2, <2>1, BucketsFinite, ListsEnumerated
<1>4. value = Nil \/ Get(t, key) # Nil
  BY DEF Disturbs
<1>5. \/ InArray(t, key) /\ ArrayWritten(t, v, key, value)
      \/ ~InArray(t, key) /\ HashWritten(t, v)
  <2>1. ~GrowsOverLive(t, v, key, value)
    BY <1>2 DEF GrowsOverLive
  <2> QED BY <1>1, <1>4, <2>1, QuietWrite
<1>6. \A k : InArray(v, k) <=> InArray(t, k)
  BY <1>5 DEF ArrayWritten, HashWritten, InArray
<1>7. \A k \in Keys : Get(v, k) # Nil => Get(t, k) # Nil
  BY <1>2, <1>4
<1>8. ASSUME ~InArray(v, c), c \in BucketKeys(v)
      PROVE  c \in BucketKeys(t) /\ SameOrder(HashSequence(v, d), HashSequence(t, b))
  <2>1. CASE HashWritten(t, v)
    <3>1. DOMAIN v.hash \subseteq DOMAIN t.hash /\ OrderShrinks(t, v)
      BY <2>1 DEF HashWritten
    <3> QED BY <1>1, <1>2, <1>8, <3>1, OrderFollows
  <2>2. CASE OrderStays(t, v) /\ DOMAIN v.hash \subseteq DOMAIN t.hash
    <3>1. OrderShrinks(t, v)
      BY <2>2 DEF OrderShrinks, OrderStays
    <3> QED BY <1>1, <1>2, <1>8, <2>2, <3>1, OrderFollows
  <2>3. CASE InArray(t, key) /\ value = Nil /\ t.array[key] # Nil /\ OrderExtends(t, v, key)
    <3>1. c # key /\ ~InArray(t, c)
      BY <1>6, <1>8, <2>3
    <3>2. c # Nil
      <4>1. BucketKeys(v) \subseteq Keys
        BY <1>2, <1>3, SequenceListed
      <4> QED BY <1>8, <4>1, KeyFacts
    <3>3. CASE UsesBuckets(t)
      <4>1. ~Reshuffled(v)
        BY <2>3, <3>1, <3>2, <3>3 DEF Rehashes
      <4>2. DOMAIN v.hash \subseteq DOMAIN t.hash \union {key}
        BY <1>5, <2>3 DEF ArrayWritten
      <4> QED BY <1>1, <1>2, <1>8, <2>3, <3>1, <3>3, <4>1, <4>2, OrderFollowsRoom
    <3>4. CASE ~UsesBuckets(t)
      BY <1>1, <1>2, <1>8, <2>3, <3>1, <3>4, OrderFollowsTombstone
    <3> QED BY <3>3, <3>4
  <2> QED BY <1>5, <2>1, <2>2, <2>3 DEF ArrayWritten
<1> HIDE DEF b, c, w
<1>9. SameSides(t, b, v, d, c)
  BY <1>1, <1>2, <1>3, <1>6, <1>7, <1>8, SidesKept
<1> QED BY <1>9 DEF b, c

(* What clearing a weak table does to the hash part's order: only live     *)
(* keys stay, in their order, and the capacities shrink to them.           *)
LEMMA TrimHashOrder ==
    ASSUME NEW u \in Table
    PROVE  LET v == TrimHash(u)
           IN  /\ v.policy = u.policy
               /\ u.hash_order_capacity = 0 => v.hash_order = u.hash_order
               /\ u.hash_order_capacity # 0 => v.hash_order = Selected(u.hash_order, LiveHash(u))
<1> DEFINE v == TrimHash(u)
           f == Without(u.hash, Tombstones(u))
           q == Selected(u.hash_order, LiveHash(u))
           kept == KeepLive(u)
           c == Cardinality(DOMAIN kept.hash)
           trimmed == [kept EXCEPT !.hash_capacity = c]
           n == Len(q)
<1>1. v = IF u.hash_order_capacity = 0 THEN trimmed
          ELSE [trimmed EXCEPT !.hash_order = q, !.hash_order_capacity = n]
  BY DEF TrimHash, OrderOf
<1>2. kept = [u EXCEPT !.hash = f, !.tombstones = 0]
  BY DEF KeepLive
<1> HIDE DEF v, q, f, kept, c, n
<1>3. trimmed = [u EXCEPT !.hash = f, !.tombstones = 0, !.hash_capacity = c]
  BY <1>2 DEF Table
<1> HIDE DEF trimmed
<1>4. trimmed.policy = u.policy /\ trimmed.hash_order = u.hash_order
  BY <1>3 DEF Table
<1>5. u.hash_order_capacity = 0 => v.policy = u.policy /\ v.hash_order = u.hash_order
  BY <1>1, <1>4
<1>6. u.hash_order_capacity # 0 => v.policy = u.policy /\ v.hash_order = q
  <2> SUFFICES ASSUME u.hash_order_capacity # 0 PROVE v.policy = u.policy /\ v.hash_order = q
    OBVIOUS
  <2>1. v = [u EXCEPT !.hash = f, !.tombstones = 0, !.hash_capacity = c,
                      !.hash_order = q, !.hash_order_capacity = n]
    BY <1>1, <1>3 DEF Table
  <2> QED BY <2>1 DEF Table
<1> QED BY <1>5, <1>6 DEF v, q

LEMMA RemoveHashOrder ==
    ASSUME NEW u \in Table, NEW S
    PROVE  OrderStays(u, RemoveHash(u, S)) /\ RemoveHash(u, S).array = u.array
<1> DEFINE v == RemoveHash(u, S)
           f == Without(u.hash, S)
           d == SaturatingDec(u.tombstones, Cardinality(S \intersect Tombstones(u)))
<1>1. v = [u EXCEPT !.hash = f, !.tombstones = d]
  BY DEF RemoveHash
<1> HIDE DEF v, f, d
<1>2. OrderStays(u, v) /\ v.array = u.array
  BY <1>1 DEF Table, OrderStays
<1> QED BY <1>2 DEF v

LEMMA ClearWeakOrder ==
    ASSUME NEW w, NEW u, Sound(u, w), NEW array, NEW hash \in SUBSET Keys
    PROVE  LET v == ClearWeak(u, array, hash)
           IN  /\ v.policy = u.policy /\ Len(v.array) <= Len(u.array)
               /\ DOMAIN v.hash \subseteq LiveHash(u) /\ LiveHash(v) = DOMAIN v.hash
               /\ v.hash_capacity <= u.hash_capacity
               /\ v.hash_order_capacity <= u.hash_order_capacity
               /\ u.hash_order_capacity # 0 => v.hash_order = Selected(u.hash_order, DOMAIN v.hash)
<1> DEFINE v == ClearWeak(u, array, hash)
           n == Len(u.array)
           a == [i \in DOMAIN u.array |-> IF i \in array THEN Nil ELSE u.array[i]]
           x == [u EXCEPT !.array = a]
           y == RemoveHash(x, hash)
           z == TrimArray(y)
           r == RemoveHash(y, LastLive(y) + 1 .. Len(y.array))
<1>1. /\ u \in Table /\ n \in Nat
      /\ u.array \in Seq(Slots) /\ DOMAIN u.array = 1 .. n
      /\ Sized(u) /\ Ordered(u)
      /\ IsFiniteSet(DOMAIN u.hash)
  BY TableFields, LenProperties DEF Sound, Sized
<1>2. a \in Seq(Slots) /\ Len(a) = n
  <2>1. \A i \in 1 .. n : u.array[i] \in Slots
    BY <1>1, TableFields
  <2>2. a \in [1 .. n -> Slots]
    BY <1>1, <2>1, KeyFacts
  <2> HIDE DEF a, n
  <2> QED BY <1>1, <2>2, FunctionIsSeq
<1>3. v = TrimHash(z)
  BY DEF ClearWeak
<1> HIDE DEF a, v
<1>4. x \in Table /\ x.array = a /\ x.hash = u.hash /\ OrderStays(u, x)
  BY <1>1, <1>2 DEF Table, OrderStays
<1> HIDE DEF x
<1>5. LiveHash(x) = LiveHash(u)
  BY <1>4 DEF LiveHash
<1>6. /\ y \in Table /\ OrderStays(x, y) /\ y.array = a
      /\ LiveHash(y) \subseteq LiveHash(u)
      /\ DOMAIN y.hash \subseteq DOMAIN u.hash
  <2>1. OrderStays(x, y) /\ y.array = x.array
    BY <1>4, RemoveHashOrder
  <2>2. y \in Table /\ DOMAIN y.hash = DOMAIN x.hash \ hash /\ LiveHash(y) = LiveHash(x) \ hash
    BY <1>1, <1>4, RemoveHashFacts
  <2> HIDE DEF y
  <2> QED BY <1>4, <1>5, <2>1, <2>2
<1> HIDE DEF y
<1>7. IsFiniteSet(DOMAIN y.hash) /\ y.hash_order = u.hash_order
  <2>1. IsFiniteSet(DOMAIN y.hash)
    BY <1>1, <1>6, FS_Subset
  <2> QED BY <1>4, <1>6, <2>1 DEF OrderStays
<1>8. /\ z \in Table /\ Len(z.array) <= n
      /\ DOMAIN z.hash \subseteq DOMAIN y.hash /\ LiveHash(z) \subseteq LiveHash(u)
      /\ OrderStays(y, z)
  <2>1. /\ z \in Table /\ Len(z.array) = LastLive(y)
        /\ DOMAIN z.hash = DOMAIN y.hash \ (LastLive(y) + 1 .. Len(y.array))
        /\ LiveHash(z) = LiveHash(y) \ (LastLive(y) + 1 .. Len(y.array))
        /\ z.hash_capacity = y.hash_capacity
        /\ z.hash_order_capacity = y.hash_order_capacity
        /\ z.hash_order = y.hash_order
    BY <1>6, <1>7, TrimArrayFacts
  <2>2. LastLive(y) \in 0 .. n
    BY <1>2, <1>6, LastLiveFacts
  <2>3. z.policy = y.policy
    <3> DEFINE l == SubSeq(r.array, 1, LastLive(y))
    <3>1. z = [r EXCEPT !.array = l]
      BY DEF TrimArray
    <3>2. r.policy = y.policy /\ r \in Table
      BY <1>6, <1>7, RemoveHashOrder, RemoveHashFacts DEF OrderStays
    <3> HIDE DEF l, r
    <3>3. z.policy = r.policy
      BY <3>1, <3>2 DEF Table
    <3> QED BY <3>2, <3>3
  <2> HIDE DEF z
  <2> QED BY <1>1, <1>6, <2>1, <2>2, <2>3 DEF OrderStays
<1> HIDE DEF z
<1>9. OrderStays(u, z)
  BY <1>4, <1>6, <1>8 DEF OrderStays
<1>10. Ordered(z) /\ IsFiniteSet(DOMAIN z.hash) /\ DOMAIN z.hash \subseteq DOMAIN u.hash
  <2>1. DOMAIN z.hash \subseteq DOMAIN u.hash
    BY <1>6, <1>8
  <2>2. IsFiniteSet(DOMAIN z.hash)
    BY <1>1, <2>1, FS_Subset
  <2> QED BY <1>1, <1>9, <2>1, <2>2 DEF Ordered, OrderStays
<1> DEFINE c == Cardinality(LiveHash(z))
<1>11. /\ v.array = z.array /\ DOMAIN v.hash = LiveHash(z) /\ LiveHash(v) = LiveHash(z)
       /\ v.hash_capacity = c
       /\ v.hash_order_capacity = IF z.hash_order_capacity = 0 THEN 0 ELSE c
       /\ v.policy = z.policy
       /\ z.hash_order_capacity # 0 => v.hash_order = Selected(z.hash_order, LiveHash(z))
  BY <1>3, <1>8, <1>10, TrimHashFacts, TrimHashOrder
<1>12. c \in Nat /\ c <= Cardinality(DOMAIN u.hash) /\ Cardinality(DOMAIN u.hash) \in Nat
  <2>1. LiveHash(z) \subseteq DOMAIN u.hash
    BY <1>10 DEF LiveHash
  <2>2. IsFiniteSet(LiveHash(z)) /\ c <= Cardinality(DOMAIN u.hash)
    BY <1>1, <2>1, FS_Subset
  <2> QED BY <1>1, <2>2, FS_CardinalityType
<1> HIDE DEF c
<1>13. v.hash_capacity <= u.hash_capacity /\ v.hash_order_capacity <= u.hash_order_capacity
  <2>1. u.hash_capacity \in Nat /\ u.hash_order_capacity \in Nat
    BY <1>1, TableFields
  <2> QED BY <1>1, <1>9, <1>11, <1>12, <2>1 DEF Sized, OrderStays
<1>14. u.hash_order_capacity # 0 => v.hash_order = Selected(u.hash_order, DOMAIN v.hash)
  BY <1>9, <1>11 DEF OrderStays
<1> QED BY <1>8, <1>9, <1>11, <1>13, <1>14 DEF v, OrderStays

(* A collection keeps every live key on its side, unless it shrinks the    *)
(* hash part beneath an opaque order.                                      *)
LEMMA CollectedSides ==
    ASSUME TableInv, WalkInv, walk.active, weak_mode # {}, NEW array, NEW hash \in SUBSET Keys,
           NEW v, v = ClearWeak(t, array, hash), Sound(v, weak_mode), ~t.nil_write, ~v.nil_write,
           \A k \in Keys : Get(v, k) # Nil => Get(t, k) # Nil,
           ~(UsesBuckets(t) /\ Shrinks(v)),
           NEW d \in Orders(v, walk.buckets)
    PROVE  SameSides(t, walk.buckets, v, d, walk.cursor)
<1> DEFINE b == walk.buckets
           c == walk.cursor
           w == weak_mode
           K == DOMAIN v.hash
<1>1. Sound(t, w) /\ Walked(t, b)
  BY DEF TableInv, WalkInv, Walked
<1>2. Sound(v, w) /\ ~v.nil_write
  OBVIOUS
<1>3. /\ v.policy = t.policy /\ Len(v.array) <= Len(t.array)
      /\ K \subseteq LiveHash(t) /\ LiveHash(v) = K
      /\ v.hash_capacity <= t.hash_capacity
      /\ v.hash_order_capacity <= t.hash_order_capacity
      /\ t.hash_order_capacity # 0 => v.hash_order = Selected(t.hash_order, K)
  BY <1>1, ClearWeakOrder
<1>4. /\ t.hash_capacity \in Nat /\ t.hash_order_capacity \in Nat
      /\ v.hash_capacity \in Nat /\ v.hash_order_capacity \in Nat
      /\ Len(v.array) \in Nat /\ Len(t.array) \in Nat
  BY <1>1, <1>2, TableFields DEF Sound
<1>5. Walked(v, d)
  <2> SUFFICES ASSUME UsesBuckets(v) PROVE Lists(d, BucketKeys(v))
    BY DEF Walked
  <2>1. d \in SetToSeqs(BucketKeys(v))
    BY OrdersList
  <2> QED BY <1>2, <2>1, BucketsFinite, ListsEnumerated
<1>6. \A k \in Keys : Get(v, k) # Nil => Get(t, k) # Nil
  OBVIOUS
<1>7. \A k : InArray(v, k) => InArray(t, k)
  BY <1>3, <1>4 DEF InArray
<1>8. \A k \in K : k \in Keys /\ ~InArray(t, k) /\ k \in BucketKeys(t)
  <2> SUFFICES ASSUME NEW k \in K PROVE k \in Keys /\ ~InArray(t, k) /\ k \in BucketKeys(t)
    OBVIOUS
  <2>1. k \in LiveHash(t) /\ k \in Keys
    BY <1>1, <1>3, LiveKeys DEF Sound
  <2>2. ~InArray(t, k)
    BY <1>1, <2>1, OnePart
  <2>3. k \in BucketKeys(t)
    BY <1>1, <2>1, SequenceListed DEF LiveHash
  <2> QED BY <2>1, <2>2, <2>3
<1>9. \A k \in Keys : Get(v, k) # Nil => (InArray(v, k) <=> InArray(t, k))
  <2> SUFFICES ASSUME NEW k \in Keys, Get(v, k) # Nil, InArray(t, k), ~InArray(v, k) PROVE FALSE
    BY <1>7
  <2>1. k \in K
    BY DEF Get, InHash
  <2> QED BY <1>8, <2>1
<1>10. BucketKeys(v) = K
  <2>1. CASE v.hash_order_capacity = 0
    BY <2>1 DEF BucketKeys
  <2>2. CASE v.hash_order_capacity # 0
    <3>1. t.hash_order_capacity # 0
      BY <1>3, <1>4, <2>2
    <3>2. Lists(t.hash_order, ToSet(t.hash_order)) /\ K \subseteq ToSet(t.hash_order) /\ K \subseteq Keys
      BY <1>1, <1>3, <1>8, <3>1 DEF Sound, Ordered, LiveHash
    <3>3. ToSet(v.hash_order) = K
      <4> DEFINE s == t.hash_order
                 q == v.hash_order
      <4>1. q = Selected(s, K)
        BY <1>3, <3>1
      <4> HIDE DEF K, s, q
      <4> QED BY <3>2, <4>1, OrderKept DEF s, q
    <3> QED BY <2>2, <3>3 DEF BucketKeys, ToSet
  <2> QED BY <2>1, <2>2
<1>11. ASSUME c \in BucketKeys(v) PROVE SameOrder(HashSequence(v, d), HashSequence(t, b))
  <2>1. CASE UsesBuckets(t)
    <3>1. v.hash_capacity = t.hash_capacity /\ v.hash_order_capacity = t.hash_order_capacity
      BY <1>3, <1>4, <2>1 DEF Shrinks
    <3>2. BucketKeys(v) \subseteq BucketKeys(t)
      BY <1>8, <1>10
    <3>3. UsesBuckets(v) /\ ~Reshuffled(v)
      BY <1>3, <2>1, <3>1, <3>2 DEF UsesBuckets, Reshuffled
    <3>4. SameOrder(d, b)
      BY <3>3 DEF Orders
    <3> QED BY <2>1, <3>3, <3>4 DEF HashSequence
  <2>2. CASE ~UsesBuckets(t)
    <3>1. t.hash_order_capacity # 0 /\ t.policy # "Luau"
      BY <2>2 DEF UsesBuckets
    <3>2. v.hash_order = Selected(t.hash_order, K) /\ Lists(t.hash_order, ToSet(t.hash_order))
      BY <1>1, <1>3, <3>1 DEF Sound, Ordered
    <3>3. v.hash_order_capacity # 0
      <4> SUFFICES ASSUME v.hash_order_capacity = 0 PROVE FALSE
        OBVIOUS
      <4>1. v.hash_order = <<>>
        BY <1>2 DEF Sound, Ordered
      <4>2. K \subseteq ToSet(t.hash_order) /\ K \subseteq Keys
        BY <1>1, <1>3, <1>8, <3>1 DEF Sound, Ordered, LiveHash
      <4>3. Lists(v.hash_order, K)
        <5> HIDE DEF K
        <5> QED BY <3>2, <4>2, OrderKept
      <4>4. \E i \in 1 .. Len(<<>>) : TRUE
        BY <1>10, <1>11, <4>1, <4>3 DEF Lists
      <4> QED BY <4>4
    <3>4. SameOrder(v.hash_order, t.hash_order)
      <4> DEFINE S == ToSet(t.hash_order)
      <4> HIDE DEF K, S
      <4> QED BY <3>2, SelectedOrder DEF S
    <3>5. ~UsesBuckets(v)
      BY <1>3, <3>1, <3>3 DEF UsesBuckets
    <3> QED BY <2>2, <3>4, <3>5 DEF HashSequence
  <2> QED BY <2>1, <2>2
<1>12. ~InArray(v, c) /\ c \in BucketKeys(v) =>
          /\ ~InArray(t, c) /\ c \in BucketKeys(t)
          /\ SameOrder(HashSequence(v, d), HashSequence(t, b))
  BY <1>8, <1>10, <1>11
<1> HIDE DEF b, c, w, K
<1>13. SameSides(t, b, v, d, c)
  BY <1>1, <1>2, <1>5, <1>6, <1>7, <1>9, <1>12, SidesKept
<1> QED BY <1>13 DEF b, c

(* A tombstone for which memory is asked makes the hash part grow.         *)
LEMMA RequestedGrowth ==
    ASSUME t \in Table, NEW key \in Keys, NEW value, NEW keys,
           SetArray(t, key, value, keys).request # 0
    PROVE  value = Nil /\ Reshuffled(SetArray(t, key, value, keys).table)
<1> DEFINE required == Cardinality(DOMAIN t.hash) + 1
           grown == GrowHash(t, required, keys)
           h == Max({t.hash_capacity, required})
           o == OrderCapacity(t, required)
           s == IF StartsOrder(t, required) THEN t.hash_order \o keys ELSE t.hash_order
           p == PushOrder(grown.table, key)
           x == [p EXCEPT !.hash = With(@, key, Nil), !.tombstones = @ + 1]
           v == [x EXCEPT !.array[key] = value, !.array_heap = @ \/ value \in HeapValues]
<1>1. value = Nil /\ grown.request # 0 /\ SetArray(t, key, value, keys).table = v
  <2>1. value = Nil /\ SetArray(t, key, value, keys) = [grown EXCEPT !.table = v]
    BY DEF SetArray
  <2>2. \E T, R, P : grown = [table |-> T, request |-> R, replaced |-> P]
    BY DEF GrowHash
  <2> HIDE DEF grown, v
  <2> QED BY <2>1, <2>2
<1>2. /\ h # t.hash_capacity \/ o # t.hash_order_capacity
      /\ grown.table = [t EXCEPT !.hash_capacity = h, !.hash_order_capacity = o, !.hash_order = s]
  <2>1. CASE h = t.hash_capacity /\ o = t.hash_order_capacity
    BY <1>1, <2>1 DEF GrowHash
  <2>2. CASE ~(h = t.hash_capacity /\ o = t.hash_order_capacity)
    BY <2>2 DEF GrowHash
  <2> QED BY <2>1, <2>2
<1> HIDE DEF required, grown, h, o, s, p, x, v
<1>3. PICK q : p = [t EXCEPT !.hash_capacity = h, !.hash_order_capacity = o, !.hash_order = q]
  <2>1. CASE p = grown.table
    BY <1>2, <2>1
  <2>2. CASE p = [grown.table EXCEPT !.hash_order = Append(@, key)]
    <3> DEFINE r == Append(grown.table.hash_order, key)
    <3>1. p = [grown.table EXCEPT !.hash_order = r]
      BY <1>2, <2>2 DEF Table
    <3> HIDE DEF r
    <3>2. p = [t EXCEPT !.hash_capacity = h, !.hash_order_capacity = o, !.hash_order = r]
      BY <1>2, <3>1 DEF Table
    <3> QED BY <3>2
  <2> QED BY <2>1, <2>2 DEF p, PushOrder
<1> DEFINE f == With(p.hash, key, Nil)
           n == p.tombstones + 1
<1>4. x = [t EXCEPT !.hash_capacity = h, !.hash_order_capacity = o, !.hash_order = q,
                    !.hash = f, !.tombstones = n]
  <2>1. x = [p EXCEPT !.hash = f, !.tombstones = n]
    BY <1>3 DEF x, Table
  <2> HIDE DEF f, n
  <2> QED BY <1>3, <2>1 DEF Table
<1> HIDE DEF f, n
<1> DEFINE a == [x.array EXCEPT ![key] = value]
           heap == x.array_heap \/ value \in HeapValues
<1>5. v = [x EXCEPT !.array = a, !.array_heap = heap]
  BY <1>4 DEF v, Table
<1> HIDE DEF a, heap
<1>6. v.hash_capacity = h /\ v.hash_order_capacity = o
  BY <1>4, <1>5 DEF Table
<1> QED BY <1>1, <1>2, <1>6 DEF Reshuffled

(* A refused write that does not disturb the traversal changes nothing:    *)
(* only a tombstone inside the array can ask for memory then.              *)
LEMMA RefusedSides ==
    ASSUME TableInv, WalkInv, walk.active, NEW key \in Keys, NEW value \in Slots, NEW keys,
           Set(t, key, value, keys).request # 0, ~t.nil_write, ~Disturbs(key, value),
           ~Rehashes(key, value, Set(t, key, value, keys).table),
           NEW v, v = SetRefused(t, key, value), NEW d \in OrdersRefused(v, walk.buckets)
    PROVE  SameSides(t, walk.buckets, v, d, walk.cursor)
<1> DEFINE b == walk.buckets
           c == walk.cursor
           w == weak_mode
<1>1. /\ Sound(t, w) /\ t \in Table /\ Len(t.array) \in Nat /\ Apart(t, w)
      /\ t.legacy_array_capacity \in Nat
  BY TableFields DEF TableInv, Sound
<1>2. value = Nil \/ Get(t, key) # Nil
  BY DEF Disturbs
<1>3. ASSUME ~InArray(t, key) PROVE FALSE
  <2>1. CASE value = Nil
    BY <1>3, <2>1 DEF Set, SetBoundaryNil, SetHashNil
  <2>2. CASE value # Nil
    <3>1. key \in LiveHash(t)
      BY <1>2, <1>3, <2>2 DEF Get, InHash, LiveHash
    <3>2. ~(key \in IntKeys /\ (key = Len(t.array) + 1 \/ GrowsOverHole(t, key)))
      <4> SUFFICES ASSUME key \in IntKeys, key = Len(t.array) + 1 \/ GrowsOverHole(t, key)
                   PROVE  FALSE
        OBVIOUS
      <4>1. key # Len(t.array) + 1
        BY <1>1, <3>1 DEF Apart
      <4>2. t.tracks_legacy => key > t.legacy_array_capacity + 1
        BY <1>1, <3>1 DEF Apart
      <4>3. key \in Nat
        BY KeyFacts DEF IntKeys
      <4> QED BY <1>1, <4>1, <4>2, <4>3 DEF GrowsOverHole
    <3>3. key \in DOMAIN BeforeHashGrowth(t, key, value).hash
      <4>1. LiveHash(BeforeHashGrowth(t, key, value)) = LiveHash(t)
        BY <1>1, BeforeHashGrowthFacts
      <4> QED BY <3>1, <4>1 DEF LiveHash
    <3>4. Set(t, key, value, keys) = SetHash(t, key, value, keys)
      BY <1>3, <2>2, <3>2 DEF Set
    <3>5. SetHash(t, key, value, keys).request = 0
      BY <3>3 DEF SetHash, InHash
    <3> QED BY <3>4, <3>5
  <2> QED BY <2>1, <2>2
<1>4. InArray(t, key) /\ v = t
  <2>1. InArray(t, key)
    BY <1>3
  <2>2. key \in 1 .. Len(t.array) + 1
    BY <1>1, <2>1 DEF InArray
  <2> QED BY <2>1, <2>2 DEF SetRefused
<1>5. value = Nil /\ Reshuffled(Set(t, key, value, keys).table)
  <2>1. Set(t, key, value, keys) = SetArray(t, key, value, keys)
    BY <1>4 DEF Set
  <2> QED BY <1>1, <2>1, RequestedGrowth
<1>6. ~UsesBuckets(t) \/ c = Nil \/ InArray(t, c)
  BY <1>4, <1>5 DEF Rehashes
<1>7. CASE InArray(t, c)
  BY <1>4, <1>7 DEF SameSides, Located, Passed
<1>8. CASE ~UsesBuckets(t)
  <2>1. HashSequence(t, d) = HashSequence(t, b)
    BY <1>8 DEF HashSequence
  <2> QED BY <1>4, <2>1 DEF SameSides, Located, Passed
<1>9. CASE c = Nil
  BY <1>4, <1>9 DEF SameSides, Located, Passed
<1> QED BY <1>6, <1>7, <1>8, <1>9

(* What a step beside the traversal does to it.                            *)
LEMMA BesideFields ==
    ASSUME WalkInv, NEW disturbs, NEW rehashes, NEW orders,
           WalkBeside(t', disturbs, rehashes, orders)
    PROVE  \/ walk' = NoWalk
           \/ /\ walk.active /\ ~disturbs
              /\ walk'.buckets \in orders
              /\ walk'.active = walk.active /\ walk'.cursor = walk.cursor
              /\ walk'.seen = walk.seen /\ walk'.again = walk.again /\ walk'.last = walk.last
              /\ walk'.stable = {key \in walk.stable : Get(t', key) # Nil}
              /\ walk'.shrunk = (walk.shrunk \/ (UsesBuckets(t) /\ Shrinks(t')))
              /\ walk'.rehashed = (walk.rehashed \/ rehashes)
              /\ walk'.compacted = (walk.compacted \/ LosesCurrent(t'))
<1> SUFFICES ASSUME walk.active, ~disturbs
             PROVE  /\ walk'.buckets \in orders
                    /\ walk'.active = walk.active /\ walk'.cursor = walk.cursor
                    /\ walk'.seen = walk.seen /\ walk'.again = walk.again /\ walk'.last = walk.last
                    /\ walk'.stable = {key \in walk.stable : Get(t', key) # Nil}
                    /\ walk'.shrunk = (walk.shrunk \/ (UsesBuckets(t) /\ Shrinks(t')))
                    /\ walk'.rehashed = (walk.rehashed \/ rehashes)
                    /\ walk'.compacted = (walk.compacted \/ LosesCurrent(t'))
  BY DEF WalkBeside
<1>1. PICK order \in orders :
         walk' = [walk EXCEPT !.buckets = order,
                              !.stable = {key \in @ : Get(t', key) # Nil},
                              !.shrunk = @ \/ (UsesBuckets(t) /\ Shrinks(t')),
                              !.rehashed = @ \/ rehashes,
                              !.compacted = @ \/ LosesCurrent(t')]
  BY DEF WalkBeside
<1> DEFINE kept == {key \in walk.stable : Get(t', key) # Nil}
           small == walk.shrunk \/ (UsesBuckets(t) /\ Shrinks(t'))
           moved == walk.rehashed \/ rehashes
           lost == walk.compacted \/ LosesCurrent(t')
<1>2. walk = [active |-> walk.active, cursor |-> walk.cursor, buckets |-> walk.buckets,
              seen |-> walk.seen, again |-> walk.again, stable |-> walk.stable,
              last |-> walk.last, shrunk |-> walk.shrunk,
              rehashed |-> walk.rehashed, compacted |-> walk.compacted]
  BY DEF WalkInv
<1>3. walk' = [walk EXCEPT !.buckets = order, !.stable = kept, !.shrunk = small,
                           !.rehashed = moved, !.compacted = lost]
  BY <1>1, <1>2
<1> HIDE DEF kept, small, moved, lost
<1>4. walk' = [active |-> walk.active, cursor |-> walk.cursor, buckets |-> order,
               seen |-> walk.seen, again |-> walk.again, stable |-> kept,
               last |-> walk.last, shrunk |-> small,
               rehashed |-> moved, compacted |-> lost]
  BY <1>2, <1>3
<1>5. /\ walk'.buckets \in orders
      /\ walk'.active = walk.active /\ walk'.cursor = walk.cursor
      /\ walk'.seen = walk.seen /\ walk'.again = walk.again /\ walk'.last = walk.last
      /\ walk'.stable = kept /\ walk'.shrunk = small /\ walk'.rehashed = moved /\ walk'.compacted = lost
  BY <1>4
<1> QED BY <1>5 DEF kept, small, moved, lost

(* What a call of `next` does to it.                                       *)
LEMMA NextFields ==
    ASSUME WalkInv, WalkNext, NEW e, e = NextEntry(t, walk.cursor, walk.buckets)
    PROVE  /\ walk.active /\ t' = t /\ weak_mode' = weak_mode
           /\ walk'.last = e /\ walk'.stable = walk.stable
           /\ walk'.shrunk = walk.shrunk /\ walk'.rehashed = walk.rehashed
           /\ walk'.compacted = walk.compacted
           /\ e.kind = "entry" =>
                /\ walk'.active = walk.active /\ walk'.buckets = walk.buckets
                /\ walk'.cursor = e.key /\ walk'.seen = walk.seen \union {e.key}
                /\ walk'.again = (walk.again \/ e.key \in walk.seen)
           /\ e.kind # "entry" =>
                /\ ~walk'.active /\ walk'.cursor = walk.cursor
                /\ walk'.seen = walk.seen /\ walk'.again = walk.again
<1>1. walk' = IF e.kind = "entry"
              THEN [walk EXCEPT !.cursor = e.key, !.last = e,
                                !.again = @ \/ e.key \in walk.seen,
                                !.seen = @ \union {e.key}]
              ELSE [walk EXCEPT !.active = FALSE, !.last = e, !.buckets = <<>>]
  BY DEF WalkNext
<1>2. walk = [active |-> walk.active, cursor |-> walk.cursor, buckets |-> walk.buckets,
              seen |-> walk.seen, again |-> walk.again, stable |-> walk.stable,
              last |-> walk.last, shrunk |-> walk.shrunk,
              rehashed |-> walk.rehashed, compacted |-> walk.compacted]
  BY DEF WalkInv
<1>3. walk.active /\ t' = t /\ weak_mode' = weak_mode
  BY DEF WalkNext
<1>4. CASE e.kind = "entry"
  <2> DEFINE again == walk.again \/ e.key \in walk.seen
             seen == walk.seen \union {e.key}
             key == e.key
  <2>1. walk' = [walk EXCEPT !.cursor = key, !.last = e, !.again = again, !.seen = seen]
    BY <1>1, <1>2, <1>4
  <2> HIDE DEF again, seen, key
  <2>2. /\ walk'.last = e /\ walk'.stable = walk.stable
        /\ walk'.shrunk = walk.shrunk /\ walk'.rehashed = walk.rehashed
        /\ walk'.compacted = walk.compacted
        /\ walk'.active = walk.active /\ walk'.buckets = walk.buckets
        /\ walk'.cursor = key /\ walk'.seen = seen /\ walk'.again = again
    BY <1>2, <2>1
  <2> QED BY <1>3, <1>4, <2>2 DEF again, seen, key
<1>5. CASE e.kind # "entry"
  <2> DEFINE empty == <<>>
  <2>1. walk' = [walk EXCEPT !.active = FALSE, !.last = e, !.buckets = empty]
    BY <1>1, <1>5
  <2> HIDE DEF empty
  <2>2. /\ walk'.last = e /\ walk'.stable = walk.stable
        /\ walk'.shrunk = walk.shrunk /\ walk'.rehashed = walk.rehashed
        /\ walk'.compacted = walk.compacted
        /\ ~walk'.active /\ walk'.cursor = walk.cursor
        /\ walk'.seen = walk.seen /\ walk'.again = walk.again
    BY <1>2, <2>1
  <2> QED BY <1>3, <1>5, <2>2
<1> QED BY <1>4, <1>5

LEMMA StartFields ==
    ASSUME WalkStart
    PROVE  /\ t' = t /\ weak_mode' = weak_mode
           /\ walk'.active /\ walk'.cursor = Nil /\ walk'.seen = {} /\ ~walk'.again
           /\ walk'.last = End /\ walk'.stable = {key \in Keys : Get(t, key) # Nil}
<1> DEFINE kept == {key \in Keys : Get(t, key) # Nil}
<1>1. PICK order : walk' = [NoWalk EXCEPT !.active = TRUE, !.buckets = order, !.stable = kept]
  BY DEF WalkStart
<1>2. t' = t /\ weak_mode' = weak_mode
  BY DEF WalkStart
<1> HIDE DEF kept
<1>3. /\ walk'.active /\ walk'.cursor = Nil /\ walk'.seen = {} /\ ~walk'.again
      /\ walk'.last = End /\ walk'.stable = kept
  BY <1>1 DEF NoWalk
<1> QED BY <1>2, <1>3 DEF kept

(* The first half of TraversalSound: the keys returned so far that are     *)
(* still in the table lie behind the current key, and the stable keys      *)
(* behind it have been returned.                                           *)
CursorInv == walk.cursor = Nil \/ walk.cursor \in Keys

VisitInv ==
    ~t.nil_write /\ WalkOrderKept =>
        /\ ~walk.again
        /\ walk.active => \A k \in walk.stable : Get(t, k) # Nil
        /\ walk.active /\ Located(t, walk.buckets, walk.cursor) =>
             \A k \in Keys : Get(t, k) # Nil =>
                /\ k \in walk.seen => Passed(t, walk.buckets, walk.cursor, k)
                /\ k \in walk.stable /\ Passed(t, walk.buckets, walk.cursor, k)
                     => k \in walk.seen
        /\ ~walk.active /\ walk.last.kind = "end" => walk.stable \subseteq walk.seen

LEMMA BesideVisits ==
    ASSUME WalkInv, VisitInv, CursorInv,
           NEW disturbs, NEW rehashes, NEW orders,
           WalkBeside(t', disturbs, rehashes, orders),
           t.nil_write => t'.nil_write,
           ASSUME walk.active, ~disturbs, ~t'.nil_write, ~t.nil_write,
                  ~(UsesBuckets(t) /\ Shrinks(t')), ~rehashes, NEW d \in orders
           PROVE  SameSides(t, walk.buckets, t', d, walk.cursor)
    PROVE  VisitInv' /\ CursorInv'
<1>1. CASE walk' = NoWalk
  <2>1. /\ ~walk'.active /\ ~walk'.again /\ walk'.stable = {} /\ walk'.cursor = Nil
    BY <1>1 DEF NoWalk
  <2> QED BY <2>1 DEF VisitInv, CursorInv
<1>2. CASE /\ walk.active /\ ~disturbs
           /\ walk'.buckets \in orders
           /\ walk'.active = walk.active /\ walk'.cursor = walk.cursor
           /\ walk'.seen = walk.seen /\ walk'.again = walk.again
           /\ walk'.stable = {key \in walk.stable : Get(t', key) # Nil}
           /\ walk'.shrunk = (walk.shrunk \/ (UsesBuckets(t) /\ Shrinks(t')))
           /\ walk'.rehashed = (walk.rehashed \/ rehashes)
  <2>1. CursorInv'
    BY <1>2 DEF CursorInv
  <2> SUFFICES ASSUME ~t'.nil_write, WalkOrderKept' PROVE VisitInv'
    BY <2>1 DEF VisitInv
  <2>2. ~t.nil_write /\ WalkOrderKept /\ ~(UsesBuckets(t) /\ Shrinks(t')) /\ ~rehashes
    BY <1>2 DEF WalkOrderKept
  <2>3. SameSides(t, walk.buckets, t', walk'.buckets, walk.cursor)
    BY <1>2, <2>2
  <2>4. \A k \in walk'.stable : k \in walk.stable /\ Get(t', k) # Nil
    BY <1>2
  <2>5. ASSUME Located(t', walk'.buckets, walk.cursor), NEW k \in Keys, Get(t', k) # Nil
        PROVE  /\ k \in walk.seen => Passed(t', walk'.buckets, walk.cursor, k)
               /\ k \in walk'.stable /\ Passed(t', walk'.buckets, walk.cursor, k)
                    => k \in walk.seen
    <3>1. /\ Located(t, walk.buckets, walk.cursor) /\ Get(t, k) # Nil
          /\ Passed(t', walk'.buckets, walk.cursor, k) <=> Passed(t, walk.buckets, walk.cursor, k)
      BY <2>3, <2>5 DEF SameSides
    <3>2. /\ k \in walk.seen => Passed(t, walk.buckets, walk.cursor, k)
          /\ k \in walk.stable /\ Passed(t, walk.buckets, walk.cursor, k) => k \in walk.seen
      BY <1>2, <2>2, <3>1 DEF VisitInv
    <3> QED BY <2>4, <3>1, <3>2
  <2>6. ~walk.again
    BY <2>2 DEF VisitInv
  <2> QED BY <1>2, <2>4, <2>5, <2>6 DEF VisitInv
<1> QED BY <1>1, <1>2, BesideFields

LEMMA NextVisits ==
    ASSUME TableInv, WalkInv, VisitInv, CursorInv, WalkNext
    PROVE  VisitInv' /\ CursorInv'
<1> DEFINE e == NextEntry(t, walk.cursor, walk.buckets)
           b == walk.buckets
           c == walk.cursor
<1>1. /\ walk.active /\ t' = t
      /\ walk'.last = e /\ walk'.stable = walk.stable
      /\ walk'.shrunk = walk.shrunk /\ walk'.rehashed = walk.rehashed
      /\ e.kind = "entry" =>
           /\ walk'.active = walk.active /\ walk'.buckets = b
           /\ walk'.cursor = e.key /\ walk'.seen = walk.seen \union {e.key}
           /\ walk'.again = (walk.again \/ e.key \in walk.seen)
      /\ e.kind # "entry" =>
           /\ ~walk'.active /\ walk'.cursor = c
           /\ walk'.seen = walk.seen /\ walk'.again = walk.again
  BY NextFields
<1>2. Sound(t, weak_mode) /\ Walked(t, b) /\ (c = Nil \/ c \in Keys)
  BY <1>1 DEF TableInv, WalkInv, Walked, CursorInv
<1>3. ~t.nil_write => Advances(t, b, c, e)
  BY <1>2, NextAdvances
<1>4. e.kind = "entry" => e.key \in Keys
  BY <1>2, EntryReads DEF WalkInv, Walked
<1> HIDE DEF e, b, c
<1>5. CursorInv'
  BY <1>1, <1>2, <1>4 DEF CursorInv
<1> SUFFICES ASSUME ~t.nil_write, WalkOrderKept PROVE VisitInv'
  BY <1>1, <1>5 DEF VisitInv, WalkOrderKept
<1>6. /\ ~walk.again
      /\ \A k \in walk.stable : Get(t, k) # Nil
      /\ Located(t, b, c) =>
           \A k \in Keys : Get(t, k) # Nil =>
              /\ k \in walk.seen => Passed(t, b, c, k)
              /\ k \in walk.stable /\ Passed(t, b, c, k) => k \in walk.seen
  BY <1>1 DEF VisitInv, b, c
<1>7. walk.stable \subseteq Keys
  BY DEF WalkInv
<1>8. CASE e.kind = "entry"
  <2>1. /\ Located(t, b, c) /\ e.key \in Keys /\ Get(t, e.key) # Nil
        /\ ~Passed(t, b, c, e.key)
    BY <1>3, <1>8 DEF Advances
  <2>2. ASSUME NEW k \in Keys, Get(t, k) # Nil
        PROVE  /\ Passed(t, b, e.key, k) => Passed(t, b, c, k) \/ k = e.key
               /\ Passed(t, b, c, k) \/ k = e.key => Passed(t, b, e.key, k)
    BY <1>3, <1>8, <2>2 DEF Advances
  <2>3. e.key \notin walk.seen
    BY <1>6, <2>1
  <2>4. ASSUME NEW k \in Keys, Get(t, k) # Nil
        PROVE  /\ k \in walk.seen \union {e.key} => Passed(t, b, e.key, k)
               /\ k \in walk.stable /\ Passed(t, b, e.key, k) => k \in walk.seen \union {e.key}
    BY <1>6, <2>1, <2>2, <2>4
  <2> QED BY <1>1, <1>6, <1>8, <2>3, <2>4 DEF VisitInv
<1>9. CASE e.kind = "end"
  <2>1. Located(t, b, c) /\ \A k \in Keys : Get(t, k) # Nil => Passed(t, b, c, k)
    BY <1>3, <1>9 DEF Advances
  <2>2. walk.stable \subseteq walk.seen
    BY <1>6, <1>7, <2>1
  <2> QED BY <1>1, <1>6, <1>9, <2>2 DEF VisitInv
<1>10. CASE e.kind # "entry" /\ e.kind # "end"
  BY <1>1, <1>6, <1>10 DEF VisitInv
<1> QED BY <1>8, <1>9, <1>10

LEMMA StartVisits ==
    ASSUME WalkStart
    PROVE  VisitInv' /\ CursorInv'
<1>1. /\ t' = t
      /\ walk'.active /\ walk'.cursor = Nil /\ walk'.seen = {} /\ ~walk'.again
      /\ walk'.stable = {key \in Keys : Get(t, key) # Nil}
  BY StartFields
<1>2. \A k : ~Passed(t', walk'.buckets, walk'.cursor, k)
  BY <1>1 DEF Passed
<1> QED BY <1>1, <1>2 DEF VisitInv, CursorInv

LEMMA NoWalkVisits ==
    ASSUME walk' = NoWalk
    PROVE  VisitInv' /\ CursorInv'
<1>1. /\ ~walk'.active /\ ~walk'.again /\ walk'.stable = {} /\ walk'.cursor = Nil
  BY DEF NoWalk
<1> QED BY <1>1 DEF VisitInv, CursorInv

LEMMA TableSetVisits ==
    ASSUME TableInv, WalkInv, VisitInv, CursorInv,
           NEW key \in Keys, NEW value \in Slots, TableSet(key, value)
    PROVE  VisitInv' /\ CursorInv'
<1>1. PICK keys \in KeyOrders(key, value) : t' = Set(t, key, value, keys).table
  BY DEF TableSet
<1>2. LET r == Ready(t, key, value)
      IN  Offered(r, Cardinality(DOMAIN r.hash) + 1, keys)
  BY KeyOrdersOffered
<1>3. t.nil_write => t'.nil_write
  <2>1. Stores(t, weak_mode, key, value, Set(t, key, value, keys))
    BY <1>2, SetStores DEF TableInv
  <2> QED BY <1>1, <2>1 DEF Stores
<1>4. WalkBeside(t', Disturbs(key, value), Rehashes(key, value, t'),
                 Orders(t', walk.buckets))
  BY DEF TableSet
<1>5. ASSUME walk.active, ~Disturbs(key, value), ~t'.nil_write,
             ~Rehashes(key, value, t'), NEW d \in Orders(t', walk.buckets)
      PROVE  SameSides(t, walk.buckets, t', d, walk.cursor)
  BY <1>1, <1>2, <1>5, WrittenSides
<1> QED BY <1>3, <1>4, <1>5, BesideVisits

LEMMA TableSetFailsVisits ==
    ASSUME TableInv, WalkInv, VisitInv, CursorInv,
           NEW key \in Keys, NEW value \in Slots, TableSetFails(key, value)
    PROVE  VisitInv' /\ CursorInv'
<1>1. PICK keys : keys = SetToSeq(DOMAIN t.hash)
  OBVIOUS
<1>2. Set(t, key, value, keys).request # 0 /\ t' = SetRefused(t, key, value)
  BY <1>1 DEF TableSetFails
<1>3. t'.nil_write = t.nil_write
  BY <1>2, SetRefusedKeeps DEF TableInv
<1>4. WalkBeside(t', Disturbs(key, value),
                 Rehashes(key, value, Set(t, key, value, keys).table),
                 OrdersRefused(t', walk.buckets))
  BY <1>1 DEF TableSetFails
<1>5. ASSUME walk.active, ~Disturbs(key, value), ~t.nil_write,
             ~Rehashes(key, value, Set(t, key, value, keys).table),
             NEW d \in OrdersRefused(t', walk.buckets)
      PROVE  SameSides(t, walk.buckets, t', d, walk.cursor)
  BY <1>2, <1>5, RefusedSides
<1> QED BY <1>3, <1>4, <1>5, BesideVisits

LEMMA WeakCollectVisits ==
    ASSUME TableInv, TableInv', WalkInv, VisitInv, CursorInv,
           NEW deadKeys \in SUBSET Promise!WeakKeys, NEW deadValues \in SUBSET Promise!WeakValues,
           WeakCollect(deadKeys, deadValues)
    PROVE  VisitInv' /\ CursorInv'
<1> DEFINE array == {i \in 1 .. Len(t.array) : t.array[i] \in deadValues}
           hash == {key \in DOMAIN t.hash : t.hash[key] \in deadValues \/ key \in deadKeys}
           gone == {key \in Keys : key \in deadKeys \/ map[key] \in deadValues}
<1>1. /\ array # {} \/ hash # {}
      /\ t' = ClearWeak(t, array, hash)
      /\ map' = [key \in Keys |->
                   IF key \in deadKeys \/ map[key] \in deadValues THEN Nil ELSE map[key]]
      /\ weak_mode' = weak_mode
      /\ WalkBeside(t', FALSE, FALSE, Orders(t', walk.buckets))
  BY DEF WeakCollect, Promise!Forget
<1>2. weak_mode # {}
  <2>1. weak_mode = {} => deadKeys = {} /\ deadValues = {}
    BY DEF Promise!WeakKeys, Promise!WeakValues
  <2>2. deadKeys = {} /\ deadValues = {} => array = {} /\ hash = {}
    OBVIOUS
  <2> QED BY <1>1, <2>1, <2>2
<1>3. hash \in SUBSET Keys /\ Sound(t, weak_mode) /\ Sound(t', weak_mode)
  <2>1. Sound(t, weak_mode) /\ Sound(t', weak_mode)
    BY <1>1 DEF TableInv
  <2> QED BY <2>1, TableFields DEF Sound
<1> HIDE DEF array, hash
<1>4. t'.nil_write = t.nil_write
  <2>1. /\ weak_mode # {} /\ Sound(t, weak_mode) /\ hash \in SUBSET Keys
        /\ t' = ClearWeak(t, array, hash)
    BY <1>1, <1>2, <1>3
  <2> QED BY ONLY <2>1, ClearWeakSound
<1>5. ASSUME ~t.nil_write, NEW k \in Keys, Get(t', k) # Nil PROVE Get(t, k) # Nil
  <2>1. Get(t, k) = map[k] /\ Get(t', k) = map'[k]
    BY <1>1, <1>4, <1>5 DEF TableInv
  <2>2. map'[k] = IF k \in gone THEN Nil ELSE map[k]
    BY <1>1
  <2> HIDE DEF gone
  <2> QED BY <1>5, <2>1, <2>2
<1>6. ASSUME walk.active, ~t.nil_write, ~(UsesBuckets(t) /\ Shrinks(t')),
             NEW d \in Orders(t', walk.buckets)
      PROVE  SameSides(t, walk.buckets, t', d, walk.cursor)
  <2>1. t' = ClearWeak(t, array, hash) /\ ~t'.nil_write
    BY <1>1, <1>4, <1>6
  <2> QED BY <1>2, <1>3, <1>5, <1>6, <2>1, CollectedSides
<1> QED BY <1>1, <1>4, <1>6, BesideVisits

(* A step that leaves the contents and the order alone.                    *)
LEMMA UntouchedVisits ==
    ASSUME VisitInv, CursorInv, walk' = walk,
           t'.array = t.array, t'.hash = t.hash, t'.policy = t.policy,
           t'.hash_order_capacity = t.hash_order_capacity, t'.hash_order = t.hash_order,
           t'.nil_write = t.nil_write
    PROVE  VisitInv' /\ CursorInv'
<1>1. /\ \A k : InArray(t', k) <=> InArray(t, k)
      /\ \A k : Get(t', k) = Get(t, k)
      /\ UsesBuckets(t') <=> UsesBuckets(t)
      /\ BucketKeys(t') = BucketKeys(t)
  BY DEF Get, InArray, InHash, UsesBuckets, BucketKeys
<1>2. HashSequence(t', walk.buckets) = HashSequence(t, walk.buckets)
  BY <1>1 DEF HashSequence
<1>3. WalkOrderKept' <=> WalkOrderKept
  BY DEF WalkOrderKept
<1>4. Located(t', walk.buckets, walk.cursor) <=> Located(t, walk.buckets, walk.cursor)
  BY <1>1 DEF Located
<1>5. \A k : Passed(t', walk.buckets, walk.cursor, k) <=> Passed(t, walk.buckets, walk.cursor, k)
  BY <1>1, <1>2 DEF Passed
<1> QED BY <1>1, <1>3, <1>4, <1>5 DEF VisitInv, CursorInv

LEMMA MarksVisit ==
    ASSUME TableInv, VisitInv, CursorInv, MarkPreallocated \/ TableFreeze
    PROVE  VisitInv' /\ CursorInv'
<1>1. t \in Table
  BY DEF TableInv, Sound
<1>2. /\ t'.array = t.array /\ t'.hash = t.hash /\ t'.policy = t.policy
      /\ t'.hash_order_capacity = t.hash_order_capacity /\ t'.hash_order = t.hash_order
      /\ t'.nil_write = t.nil_write /\ walk' = walk
  <2>1. CASE t' = [t EXCEPT !.preallocated = TRUE] /\ walk' = walk
    BY <1>1, <2>1 DEF Table
  <2>2. CASE t' = [t EXCEPT !.frozen = TRUE] /\ walk' = walk
    BY <1>1, <2>2 DEF Table
  <2> QED BY <2>1, <2>2 DEF MarkPreallocated, TableFreeze
<1> QED BY <1>2, UntouchedVisits

LEMMA StepVisits ==
    ASSUME TableInv, TableInv', WalkInv, VisitInv, CursorInv, [Next]_vars
    PROVE  VisitInv' /\ CursorInv'
<1>1. CASE UNCHANGED vars
  <2>1. t' = t /\ walk' = walk
    BY <1>1 DEF vars
  <2> QED BY <2>1, UntouchedVisits
<1>2. ASSUME NEW key \in Keys, NEW value \in Slots, TableSet(key, value)
      PROVE  VisitInv' /\ CursorInv'
  BY <1>2, TableSetVisits
<1>3. ASSUME NEW key \in Keys, NEW value \in Slots, TableSetFails(key, value)
      PROVE  VisitInv' /\ CursorInv'
  BY <1>3, TableSetFailsVisits
<1>4. CASE TableClear
  <2>1. walk' = NoWalk
    BY <1>4 DEF TableClear, WalkBeside
  <2> QED BY <2>1, NoWalkVisits
<1>5. CASE MarkPreallocated \/ TableFreeze
  BY <1>5, MarksVisit
<1>6. ASSUME NEW deadKeys \in SUBSET Promise!WeakKeys, NEW deadValues \in SUBSET Promise!WeakValues,
             WeakCollect(deadKeys, deadValues)
      PROVE  VisitInv' /\ CursorInv'
  BY <1>6, WeakCollectVisits
<1>7. CASE WalkStart
  BY <1>7, StartVisits
<1>8. CASE WalkNext
  BY <1>8, NextVisits
<1> QED BY <1>1, <1>2, <1>3, <1>4, <1>5, <1>6, <1>7, <1>8 DEF Next

(* The second half of TraversalSound: in a strong table the current key is *)
(* one that `next` accepts.                                                *)
Valid(u, c) ==
    \/ c = Nil
    \/ InArray(u, c) /\ (u.array[c] # Nil \/ c \in Tombstones(u))
    \/ ~InArray(u, c) /\ c \in DOMAIN u.hash

ContinueInv ==
    weak_mode = {} /\ ~walk.compacted =>
        /\ walk.last.kind # "invalid"
        /\ walk.active => Valid(t, walk.cursor)

LEMMA FirstLiveValid ==
    ASSUME NEW u, Sound(u, {}), NEW b, Walked(u, b), NEW p \in Nat
    PROVE  LET e == FirstLive(u, HashSequence(u, b), p)
           IN  \/ e.kind = "end"
               \/ e.kind = "entry" /\ e.key \in Keys /\ Valid(u, e.key)
<1> DEFINE s == HashSequence(u, b)
           e == FirstLive(u, s, p)
<1>1. /\ u \in Table /\ Apart(u, {}) /\ Len(u.array) \in Nat /\ Len(u.array) <= MaxKey
      /\ Lists(s, BucketKeys(u))
  BY SequenceListed, TableFields DEF Sound
<1> HIDE DEF s
<1>2. \/ e.kind = "entry" /\ e.key \in LiveHash(u)
      \/ e.kind = "end"
  BY <1>1, FirstLiveIs
<1> HIDE DEF e
<1>3. ASSUME NEW k \in LiveHash(u) PROVE k \in Keys /\ Valid(u, k)
  <2>1. k \in Keys
    BY <1>1, LiveKeys
  <2>2. CASE InArray(u, k)
    <3>1. k \in IntKeys
      BY <1>1, <2>2, KeyFacts DEF InArray, IntKeys
    <3>2. u.array[k] # Nil
      BY <1>1, <2>2, <3>1 DEF Apart, InArray
    <3> QED BY <2>1, <2>2, <3>2 DEF Valid
  <2>3. CASE ~InArray(u, k)
    BY <2>1, <2>3 DEF Valid, LiveHash
  <2> QED BY <2>2, <2>3
<1> QED BY <1>2, <1>3 DEF e, s

LEMMA FromArrayValid ==
    ASSUME NEW u, Sound(u, {}), NEW b, Walked(u, b), NEW p \in Nat
    PROVE  LET e == NextFromArray(u, p, b)
           IN  \/ e.kind = "end"
               \/ e.kind = "entry" /\ e.key \in Keys /\ Valid(u, e.key)
<1> DEFINE hits == {i \in p + 1 .. Len(u.array) : u.array[i] # Nil}
           m == Min(hits)
           e == NextFromArray(u, p, b)
<1>1. /\ u \in Table /\ Len(u.array) \in Nat /\ Len(u.array) <= MaxKey
      /\ MaxKey \in Nat /\ IntKeys = 1 .. MaxKey
  BY TableFields, KeyFacts DEF Sound, IntKeys
<1>2. CASE hits = {}
  <2>1. e = FirstLive(u, HashSequence(u, b), 0)
    BY <1>2 DEF NextFromArray
  <2> QED BY <2>1, FirstLiveValid
<1>3. CASE hits # {}
  <2>1. hits \in SUBSET Nat
    BY <1>1
  <2>2. m \in hits
    <3> HIDE DEF hits
    <3> QED BY <1>3, <2>1, LeastIn
  <2>3. e = Entry(m, u.array[m])
    BY <1>3 DEF NextFromArray
  <2> HIDE DEF m, e
  <2>4. e.kind = "entry" /\ e.key = m
    BY <2>3 DEF Entry
  <2>5. m \in 1 .. Len(u.array) /\ u.array[m] # Nil /\ m \in IntKeys
    BY <1>1, <2>2
  <2>6. m \in Keys /\ Valid(u, m)
    BY <2>5, KeyFacts DEF Valid, InArray, Keys
  <2> QED BY <2>4, <2>6 DEF e
<1> QED BY <1>2, <1>3

LEMMA NextValid ==
    ASSUME NEW u, Sound(u, {}), NEW b, Walked(u, b), NEW c, Valid(u, c)
    PROVE  LET e == NextEntry(u, c, b)
           IN  \/ e.kind = "end"
               \/ e.kind = "entry" /\ e.key \in Keys /\ Valid(u, e.key)
<1> DEFINE s == HashSequence(u, b)
           positions == {i \in DOMAIN s : s[i] = c}
           e == NextEntry(u, c, b)
<1>1. /\ u \in Table /\ Len(u.array) \in Nat
      /\ Lists(s, BucketKeys(u)) /\ DOMAIN u.hash \subseteq BucketKeys(u)
      /\ DOMAIN s = 1 .. Len(s) /\ Len(s) \in Nat
  BY SequenceListed, TableFields DEF Sound
<1> HIDE DEF s
<1>2. CASE c = Nil
  <2>1. e = NextFromArray(u, 0, b)
    BY <1>2 DEF NextEntry
  <2> QED BY <2>1, FromArrayValid
<1>3. CASE c # Nil /\ InArray(u, c)
  <2>1. u.array[c] # Nil \/ c \in Tombstones(u)
    BY <1>3 DEF Valid
  <2>2. e = NextFromArray(u, c, b)
    BY <1>3, <2>1 DEF NextEntry
  <2>3. c \in Nat
    BY <1>1, <1>3 DEF InArray
  <2> QED BY <2>2, <2>3, FromArrayValid
<1>4. CASE c # Nil /\ ~InArray(u, c)
  <2>1. c \in BucketKeys(u)
    BY <1>1, <1>4 DEF Valid
  <2>2. positions # {} /\ positions \in SUBSET Nat
    BY <1>1, <2>1 DEF Lists
  <2> DEFINE p == Min(positions)
  <2>3. p \in Nat
    <3> HIDE DEF positions
    <3> QED BY <2>2, LeastIn
  <2>4. e = FirstLive(u, s, p)
    BY <1>4, <2>2 DEF NextEntry, s
  <2> HIDE DEF p, e
  <2> QED BY <2>3, <2>4, FirstLiveValid DEF e, s
<1> QED BY <1>2, <1>3, <1>4

(* A write to the hash part, or one refused there, drops the current key   *)
(* only by compacting.                                                     *)
LEMMA HashWrittenValid ==
    ASSUME NEW u, NEW v, HashWritten(u, v), NEW c, Valid(u, c),
           ~(NeedsCompaction(u) /\ c \in Tombstones(u) \ DOMAIN v.hash)
    PROVE  Valid(v, c)
<1>1. c \in DOMAIN u.hash => c \in DOMAIN v.hash
  BY DEF HashWritten
<1>2. c \in Tombstones(u) => c \in Tombstones(v)
  BY <1>1 DEF HashWritten, Tombstones, LiveHash
<1>3. InArray(v, c) <=> InArray(u, c)
  BY DEF HashWritten, InArray
<1> QED BY <1>1, <1>2, <1>3 DEF Valid, HashWritten

LEMMA ArrayWrittenValid ==
    ASSUME NEW u, NEW v, NEW key, InArray(u, key), NEW value, ArrayWritten(u, v, key, value),
           value = Nil /\ u.array[key] = Nil => v.hash = u.hash,
           NEW c, Valid(u, c)
    PROVE  Valid(v, c)
<1>1. InArray(v, c) <=> InArray(u, c)
  BY DEF ArrayWritten, InArray
<1>2. CASE c = Nil
  BY <1>2 DEF Valid
<1>3. CASE c # Nil /\ c = key
  <2>1. InArray(v, c) /\ v.array[c] = value
    BY <1>1, <1>3 DEF ArrayWritten, InArray
  <2>2. value = Nil => c \in Tombstones(v)
    <3>1. CASE u.array[key] # Nil
      BY <1>3, <3>1 DEF ArrayWritten
    <3>2. CASE value = Nil /\ u.array[key] = Nil
      <4>1. c \in Tombstones(u)
        BY <1>3, <3>2 DEF Valid
      <4> QED BY <3>2, <4>1 DEF Tombstones
    <3> QED BY <3>1, <3>2
  <2> QED BY <2>1, <2>2 DEF Valid
<1>4. CASE c # Nil /\ c # key
  <2>1. c \in DOMAIN u.hash => c \in DOMAIN v.hash /\ v.hash[c] = u.hash[c]
    BY <1>4 DEF ArrayWritten
  <2>2. InArray(u, c) => v.array[c] = u.array[c]
    BY <1>4 DEF ArrayWritten, InArray
  <2>3. c \in Tombstones(u) => c \in Tombstones(v)
    BY <2>1 DEF Tombstones
  <2> QED BY <1>1, <1>4, <2>1, <2>2, <2>3 DEF Valid
<1> QED BY <1>2, <1>3, <1>4

LEMMA GrownValid ==
    ASSUME NEW u, Sound(u, {}), NEW v, NEW key \in Keys, NEW value \in Slots,
           GrowsOverLive(u, v, key, value), NEW c, Valid(u, c)
    PROVE  Valid(v, c)
<1> DEFINE n == Len(u.array)
           end == RunEnd(u, key)
           run == key + 1 .. end
<1>1. /\ u \in Table /\ n \in Nat /\ Apart(u, {}) /\ IsFiniteSet(DOMAIN u.hash)
      /\ u.legacy_array_capacity \in Nat
  BY TableFields DEF Sound, Sized
<1>2. /\ key \in IntKeys /\ key \in Nat /\ value # Nil /\ key > n + 1
      /\ u.tracks_legacy /\ key <= u.legacy_array_capacity + 1
      /\ v = SetGrowing(u, key, value).table
  BY KeyFacts DEF GrowsOverLive, GrowsOverHole, IntKeys
<1>3. /\ end \in Nat /\ key <= end /\ \A k \in run : k \in LiveHash(u)
  <2>1. key > n
    BY <1>1, <1>2
  <2>2. /\ end \in key .. MaxKey /\ \A k \in run : k \in LiveHash(u)
    BY <1>1, <1>2, <2>1, RunEndFacts
  <2>3. MaxKey \in Nat
    BY KeyFacts
  <2> HIDE DEF end
  <2> QED BY <1>2, <2>2, <2>3
<1>4. /\ Len(v.array) = end
      /\ \A i \in 1 .. end :
            v.array[i] = IF i <= n THEN u.array[i]
                         ELSE IF i < key THEN Nil
                         ELSE IF i = key THEN value ELSE u.hash[i]
      /\ v.hash = Without(u.hash, run)
  <2>1. key > n
    BY <1>1, <1>2
  <2> QED BY <1>1, <1>2, <2>1, SetGrowingResult
<1> HIDE DEF end
<1>5. /\ DOMAIN v.hash = DOMAIN u.hash \ run
      /\ \A k \in DOMAIN u.hash \ run : v.hash[k] = u.hash[k]
  <2> HIDE DEF run
  <2> QED BY <1>4 DEF Without
<1>6. CASE c = Nil
  BY <1>6 DEF Valid
<1>7. CASE c # Nil /\ InArray(u, c)
  <2>1. c \in 1 .. n /\ c \notin run /\ c \in 1 .. end /\ c <= n
    BY <1>1, <1>2, <1>3, <1>7 DEF InArray
  <2>2. v.array[c] = u.array[c] /\ InArray(v, c)
    BY <1>4, <2>1 DEF InArray
  <2>3. c \in Tombstones(u) => c \in Tombstones(v)
    BY <1>5, <2>1 DEF Tombstones
  <2> QED BY <1>7, <2>2, <2>3 DEF Valid
<1>8. CASE c # Nil /\ c \notin 1 .. end /\ ~InArray(u, c)
  <2>1. c \in DOMAIN u.hash /\ ~InArray(v, c)
    BY <1>4, <1>8 DEF Valid, InArray
  <2>2. c \notin run
    BY <1>2, <1>3, <1>8
  <2> QED BY <1>5, <2>1, <2>2 DEF Valid
<1>9. CASE c # Nil /\ c \in 1 .. end /\ ~InArray(u, c)
  <2>1. c \in DOMAIN u.hash /\ InArray(v, c) /\ c \in Nat /\ c > n
    BY <1>1, <1>3, <1>4, <1>9 DEF Valid, InArray
  <2>2. CASE c < key
    <3>1. c \notin LiveHash(u)
      <4> SUFFICES ASSUME c \in LiveHash(u) PROVE FALSE
        OBVIOUS
      <4>1. c \in IntKeys
        BY <1>2, <2>1, <2>2, KeyFacts DEF IntKeys
      <4>2. c # n + 1
        BY <1>1 DEF Apart
      <4>3. c > n + 1 => c > u.legacy_array_capacity
        BY <1>1, <1>2, <4>1 DEF Apart
      <4> QED BY <1>1, <1>2, <2>1, <2>2, <4>2, <4>3
    <3>2. c \notin run
      BY <1>2, <1>3, <2>1, <2>2
    <3>3. c \in Tombstones(v)
      BY <1>5, <2>1, <3>1, <3>2 DEF Tombstones, LiveHash
    <3> QED BY <2>1, <3>3 DEF Valid
  <2>3. CASE c = key
    <3>1. v.array[c] = value
      BY <1>1, <1>2, <1>4, <1>9, <2>1, <2>3
    <3> QED BY <1>2, <2>1, <3>1 DEF Valid
  <2>4. CASE c > key
    <3>1. c \in run
      BY <1>2, <1>3, <1>9, <2>1, <2>4
    <3>2. v.array[c] = u.hash[c]
      BY <1>1, <1>2, <1>4, <1>9, <2>1, <2>4
    <3>3. u.hash[c] # Nil
      BY <1>3, <3>1 DEF LiveHash
    <3> QED BY <2>1, <3>2, <3>3 DEF Valid
  <2> QED BY <1>2, <2>1, <2>2, <2>3, <2>4
<1> QED BY <1>6, <1>7, <1>8, <1>9

LEMMA BesideContinues ==
    ASSUME WalkInv, ContinueInv, weak_mode' = weak_mode,
           NEW disturbs, NEW rehashes, NEW orders,
           WalkBeside(t', disturbs, rehashes, orders),
           ASSUME weak_mode = {}, walk.active, ~disturbs, ~LosesCurrent(t'),
                  Valid(t, walk.cursor)
           PROVE  Valid(t', walk.cursor)
    PROVE  ContinueInv'
<1>1. CASE walk' = NoWalk
  <2>1. ~walk'.active /\ walk'.last.kind = "end"
    BY <1>1 DEF NoWalk, End
  <2> QED BY <2>1 DEF ContinueInv
<1>2. CASE /\ walk.active /\ ~disturbs
           /\ walk'.active = walk.active /\ walk'.cursor = walk.cursor
           /\ walk'.last = walk.last
           /\ walk'.compacted = (walk.compacted \/ LosesCurrent(t'))
  <2> SUFFICES ASSUME weak_mode' = {}, ~walk'.compacted
               PROVE  walk'.last.kind # "invalid" /\ Valid(t', walk'.cursor)
    BY DEF ContinueInv
  <2>1. walk.last.kind # "invalid" /\ Valid(t, walk.cursor)
    BY <1>2 DEF ContinueInv
  <2> QED BY <1>2, <2>1
<1> QED BY <1>1, <1>2, BesideFields

LEMMA TableSetContinues ==
    ASSUME TableInv, WalkInv, ContinueInv,
           NEW key \in Keys, NEW value \in Slots, TableSet(key, value)
    PROVE  ContinueInv'
<1>1. PICK keys \in KeyOrders(key, value) : t' = Set(t, key, value, keys).table
  BY DEF TableSet
<1>2. LET r == Ready(t, key, value)
      IN  Offered(r, Cardinality(DOMAIN r.hash) + 1, keys)
  BY KeyOrdersOffered
<1>3. /\ WalkBeside(t', Disturbs(key, value), Rehashes(key, value, t'),
                 Orders(t', walk.buckets))
      /\ weak_mode' = weak_mode
  BY DEF TableSet
<1>4. ASSUME weak_mode = {}, ~Disturbs(key, value), ~LosesCurrent(t'), Valid(t, walk.cursor)
      PROVE  Valid(t', walk.cursor)
  <2>1. Sound(t, {}) /\ (value = Nil \/ Get(t, key) # Nil)
    BY <1>4 DEF TableInv, Disturbs
  <2>2. \/ InArray(t, key) /\ ArrayWritten(t, t', key, value)
        \/ ~InArray(t, key) /\ HashWritten(t, t')
        \/ GrowsOverLive(t, t', key, value)
    BY <1>1, <1>2, <2>1, QuietWrite
  <2>3. CASE InArray(t, key) /\ ArrayWritten(t, t', key, value)
    <3>1. ASSUME value = Nil, t.array[key] = Nil PROVE t'.hash = t.hash
      <4> DEFINE heap == t.array_heap \/ value \in HeapValues
                 a == [t.array EXCEPT ![key] = value]
      <4>1. t' = SetArray(t, key, value, keys).table
        BY <1>1, <2>3 DEF Set
      <4>2. SetArray(t, key, value, keys).table
              = [t EXCEPT !.array[key] = value, !.array_heap = @ \/ value \in HeapValues]
        BY <3>1 DEF SetArray
      <4>3. t \in Table
        BY <2>1 DEF Sound
      <4>4. t' = [t EXCEPT !.array = a, !.array_heap = heap]
        BY <4>1, <4>2, <4>3 DEF Table
      <4> HIDE DEF a, heap
      <4> QED BY <4>3, <4>4 DEF Table
    <3> QED BY <1>4, <2>3, <3>1, ArrayWrittenValid
  <2>4. CASE HashWritten(t, t')
    BY <1>4, <2>4, HashWrittenValid DEF LosesCurrent
  <2>5. CASE GrowsOverLive(t, t', key, value)
    BY <1>4, <2>1, <2>5, GrownValid
  <2> QED BY <2>2, <2>3, <2>4, <2>5
<1> QED BY <1>3, <1>4, BesideContinues

LEMMA TableSetFailsContinues ==
    ASSUME TableInv, WalkInv, ContinueInv,
           NEW key \in Keys, NEW value \in Slots, TableSetFails(key, value)
    PROVE  ContinueInv'
<1>1. /\ t' = SetRefused(t, key, value) /\ weak_mode' = weak_mode
      /\ WalkBeside(t', Disturbs(key, value), Rehashes(key, value, Intended(key, value)),
                    OrdersRefused(t', walk.buckets))
  BY DEF TableSetFails, Intended
<1>2. t' = t \/ HashWritten(t, t')
  <2>1. HashWritten(t, BeforeHashGrowth(t, key, value))
    BY BeforeHashGrowthOrder DEF TableInv
  <2> QED BY <1>1, <2>1 DEF SetRefused
<1>3. ASSUME ~LosesCurrent(t'), Valid(t, walk.cursor)
      PROVE  Valid(t', walk.cursor)
  BY <1>2, <1>3, HashWrittenValid DEF LosesCurrent
<1> QED BY <1>1, <1>3, BesideContinues

LEMMA NextContinues ==
    ASSUME TableInv, WalkInv, ContinueInv, WalkNext
    PROVE  ContinueInv'
<1> DEFINE e == NextEntry(t, walk.cursor, walk.buckets)
<1>1. /\ walk.active /\ t' = t /\ weak_mode' = weak_mode
      /\ walk'.last = e /\ walk'.compacted = walk.compacted
      /\ e.kind = "entry" => walk'.cursor = e.key
      /\ e.kind # "entry" => ~walk'.active
  BY NextFields
<1> SUFFICES ASSUME weak_mode = {}, ~walk.compacted
             PROVE  /\ walk'.last.kind # "invalid"
                    /\ walk'.active => Valid(t', walk'.cursor)
  BY <1>1 DEF ContinueInv
<1>2. Sound(t, {}) /\ Walked(t, walk.buckets) /\ Valid(t, walk.cursor)
  BY <1>1 DEF TableInv, WalkInv, Walked, ContinueInv
<1>3. \/ e.kind = "end"
      \/ e.kind = "entry" /\ e.key \in Keys /\ Valid(t, e.key)
  BY <1>2, NextValid
<1> HIDE DEF e
<1> QED BY <1>1, <1>3

LEMMA StepContinues ==
    ASSUME TableInv, WalkInv, ContinueInv, [Next]_vars
    PROVE  ContinueInv'
<1>1. CASE UNCHANGED vars
  <2>1. t' = t /\ walk' = walk /\ weak_mode' = weak_mode
    BY <1>1 DEF vars
  <2> QED BY <2>1 DEF ContinueInv
<1>2. ASSUME NEW key \in Keys, NEW value \in Slots, TableSet(key, value)
      PROVE  ContinueInv'
  BY <1>2, TableSetContinues
<1>3. ASSUME NEW key \in Keys, NEW value \in Slots, TableSetFails(key, value)
      PROVE  ContinueInv'
  BY <1>3, TableSetFailsContinues
<1>4. CASE TableClear
  <2>1. walk' = NoWalk
    BY <1>4 DEF TableClear, WalkBeside
  <2>2. ~walk'.active /\ walk'.last.kind = "end"
    BY <2>1 DEF NoWalk, End
  <2> QED BY <2>2 DEF ContinueInv
<1>5. CASE MarkPreallocated \/ TableFreeze
  <2>1. t \in Table
    BY DEF TableInv, Sound
  <2>2. t'.array = t.array /\ t'.hash = t.hash /\ walk' = walk /\ weak_mode' = weak_mode
    <3>1. CASE t' = [t EXCEPT !.preallocated = TRUE] /\ walk' = walk /\ weak_mode' = weak_mode
      BY <2>1, <3>1 DEF Table
    <3>2. CASE t' = [t EXCEPT !.frozen = TRUE] /\ walk' = walk /\ weak_mode' = weak_mode
      BY <2>1, <3>2 DEF Table
    <3> QED BY <1>5, <3>1, <3>2 DEF MarkPreallocated, TableFreeze
  <2>3. Valid(t, walk.cursor) => Valid(t', walk'.cursor)
    BY <2>2 DEF Valid, InArray, Tombstones
  <2> QED BY <2>2, <2>3 DEF ContinueInv
<1>6. ASSUME NEW deadKeys \in SUBSET Promise!WeakKeys, NEW deadValues \in SUBSET Promise!WeakValues,
             WeakCollect(deadKeys, deadValues)
      PROVE  ContinueInv'
  <2>1. weak_mode' = weak_mode
    BY <1>6 DEF WeakCollect
  <2>2. weak_mode # {}
    <3>1. weak_mode = {} => deadKeys = {} /\ deadValues = {}
      BY DEF Promise!WeakKeys, Promise!WeakValues
    <3>2. \/ {i \in 1 .. Len(t.array) : t.array[i] \in deadValues} # {}
          \/ {key \in DOMAIN t.hash : t.hash[key] \in deadValues \/ key \in deadKeys} # {}
      BY <1>6 DEF WeakCollect
    <3> QED BY <3>1, <3>2
  <2> QED BY <2>1, <2>2 DEF ContinueInv
<1>7. CASE WalkStart
  <2>1. walk'.cursor = Nil /\ walk'.last = End
    BY <1>7, StartFields
  <2> QED BY <2>1 DEF ContinueInv, Valid, End
<1>8. CASE WalkNext
  BY <1>8, NextContinues
<1> QED BY <1>1, <1>2, <1>3, <1>4, <1>5, <1>6, <1>7, <1>8 DEF Next

LEMMA InitTraversal ==
    ASSUME Init
    PROVE  VisitInv /\ CursorInv /\ ContinueInv
<1>1. /\ ~walk.active /\ ~walk.again /\ walk.stable = {} /\ walk.cursor = Nil
      /\ walk.last.kind = "end"
  BY DEF Init, NoWalk, End
<1> QED BY <1>1 DEF VisitInv, CursorInv, ContinueInv

(* Only a collection shrinks the hash part beneath a traversal.            *)
StrongInv == weak_mode = {} => ~walk.shrunk

LEMMA WrittenGrows ==
    ASSUME TableInv, NEW key \in Keys, NEW value \in Slots, NEW keys,
           LET r == Ready(t, key, value)
           IN  Offered(r, Cardinality(DOMAIN r.hash) + 1, keys),
           ~Disturbs(key, value),
           NEW v, v = Set(t, key, value, keys).table
    PROVE  ~Shrinks(v)
<1>1. Sound(t, weak_mode) /\ (value = Nil \/ Get(t, key) # Nil)
  BY DEF TableInv, Disturbs
<1>2. /\ t.hash_capacity \in Nat /\ t.hash_order_capacity \in Nat
      /\ v.hash_capacity \in Nat /\ v.hash_order_capacity \in Nat
  <2>1. Stores(t, weak_mode, key, value, Set(t, key, value, keys))
    BY <1>1, SetStores
  <2>2. t \in Table /\ v \in Table
    BY <1>1, <2>1 DEF Stores, Sound
  <2> QED BY <2>2, TableFields
<1>3. \/ InArray(t, key) /\ ArrayWritten(t, v, key, value)
      \/ ~InArray(t, key) /\ HashWritten(t, v)
      \/ GrowsOverLive(t, v, key, value)
  BY <1>1, QuietWrite
<1>4. CASE OrderStays(t, v)
  BY <1>2, <1>4 DEF OrderStays, Shrinks
<1>5. CASE OrderExtends(t, v, key)
  BY <1>2, <1>5 DEF OrderExtends, Shrinks
<1>6. CASE HashWritten(t, v)
  BY <1>2, <1>6 DEF HashWritten, OrderShrinks, Shrinks
<1>7. CASE GrowsOverLive(t, v, key, value)
  <2>1. v = SetGrowing(t, key, value).table /\ key \in IntKeys /\ key > Len(t.array)
    <3>1. Len(t.array) \in Nat /\ key \in Nat
      BY <1>1, <1>7, TableFields, KeyFacts DEF Sound, GrowsOverLive, IntKeys
    <3> QED BY <1>7, <3>1 DEF GrowsOverLive, GrowsOverHole
  <2>2. v.hash_capacity = t.hash_capacity /\ v.hash_order_capacity = t.hash_order_capacity
    <3>1. t \in Table /\ IsFiniteSet(DOMAIN t.hash)
      BY <1>1 DEF Sound, Sized
    <3> QED BY <2>1, <3>1, SetGrowingResult
  <2> QED BY <1>2, <2>2 DEF Shrinks
<1> QED BY <1>3, <1>4, <1>5, <1>6, <1>7 DEF ArrayWritten

LEMMA BesideStrong ==
    ASSUME WalkInv, StrongInv, weak_mode' = weak_mode,
           NEW disturbs, NEW rehashes, NEW orders,
           WalkBeside(t', disturbs, rehashes, orders),
           weak_mode = {} /\ ~disturbs => ~Shrinks(t')
    PROVE  StrongInv'
<1>1. CASE walk' = NoWalk
  BY <1>1 DEF NoWalk, StrongInv
<1>2. CASE ~disturbs /\ walk'.shrunk = (walk.shrunk \/ (UsesBuckets(t) /\ Shrinks(t')))
  BY <1>2 DEF StrongInv
<1> QED BY <1>1, <1>2, BesideFields

LEMMA StepStrong ==
    ASSUME TableInv, WalkInv, StrongInv, [Next]_vars
    PROVE  StrongInv'
<1>1. CASE UNCHANGED <<walk, weak_mode>>
  BY <1>1 DEF StrongInv
<1>2. ASSUME NEW key \in Keys, NEW value \in Slots, TableSet(key, value)
      PROVE  StrongInv'
  <2>1. PICK keys \in KeyOrders(key, value) : t' = Set(t, key, value, keys).table
    BY <1>2 DEF TableSet
  <2>2. LET r == Ready(t, key, value)
        IN  Offered(r, Cardinality(DOMAIN r.hash) + 1, keys)
    BY KeyOrdersOffered
  <2>3. /\ WalkBeside(t', Disturbs(key, value), Rehashes(key, value, t'),
                 Orders(t', walk.buckets))
        /\ weak_mode' = weak_mode
    BY <1>2 DEF TableSet
  <2>4. ~Disturbs(key, value) => ~Shrinks(t')
    BY <2>1, <2>2, WrittenGrows
  <2> QED BY <2>3, <2>4, BesideStrong
<1>3. ASSUME NEW key \in Keys, NEW value \in Slots, TableSetFails(key, value)
      PROVE  StrongInv'
  <2>1. /\ t' = SetRefused(t, key, value) /\ weak_mode' = weak_mode
        /\ WalkBeside(t', Disturbs(key, value), Rehashes(key, value, Intended(key, value)),
                      OrdersRefused(t', walk.buckets))
    BY <1>3 DEF TableSetFails, Intended
  <2>2. t' = t \/ HashWritten(t, t')
    <3>1. HashWritten(t, BeforeHashGrowth(t, key, value))
      BY BeforeHashGrowthOrder DEF TableInv
    <3> QED BY <2>1, <3>1 DEF SetRefused
  <2>3. t.hash_capacity \in Nat /\ t.hash_order_capacity \in Nat
    BY TableFields DEF TableInv, Sound
  <2>4. ~Shrinks(t')
    BY <2>2, <2>3 DEF HashWritten, OrderShrinks, Shrinks
  <2> QED BY <2>1, <2>4, BesideStrong
<1>4. CASE TableClear
  <2>1. walk' = NoWalk
    BY <1>4 DEF TableClear, WalkBeside
  <2> QED BY <2>1 DEF StrongInv, NoWalk
<1>5. CASE MarkPreallocated \/ TableFreeze
  BY <1>1, <1>5 DEF MarkPreallocated, TableFreeze
<1>6. ASSUME NEW deadKeys \in SUBSET Promise!WeakKeys, NEW deadValues \in SUBSET Promise!WeakValues,
             WeakCollect(deadKeys, deadValues)
      PROVE  StrongInv'
  <2>1. weak_mode' = weak_mode
    BY <1>6 DEF WeakCollect
  <2>2. weak_mode # {}
    <3>1. weak_mode = {} => deadKeys = {} /\ deadValues = {}
      BY DEF Promise!WeakKeys, Promise!WeakValues
    <3>2. \/ {i \in 1 .. Len(t.array) : t.array[i] \in deadValues} # {}
          \/ {key \in DOMAIN t.hash : t.hash[key] \in deadValues \/ key \in deadKeys} # {}
      BY <1>6 DEF WeakCollect
    <3> QED BY <3>1, <3>2
  <2> QED BY <2>1, <2>2 DEF StrongInv
<1>7. CASE WalkStart
  <2>1. ~walk'.shrunk
    BY <1>7 DEF WalkStart, NoWalk
  <2> QED BY <2>1 DEF StrongInv
<1>8. CASE WalkNext
  <2>1. walk'.shrunk = walk.shrunk /\ weak_mode' = weak_mode
    BY <1>8, NextFields
  <2> QED BY <2>1 DEF StrongInv
<1> QED BY <1>1, <1>2, <1>3, <1>4, <1>5, <1>6, <1>7, <1>8 DEF Next, vars

-----------------------------------------------------------------------------
(* Lengths                                                                 *)

(* A live key of the hash part has a value, unless a weak table that saw   *)
(* nil written just past its array masks it.                               *)
LEMMA LiveKeyReads ==
    ASSUME NEW w, NEW u, Sound(u, w), w = {} \/ ~u.nil_write, NEW k \in LiveHash(u)
    PROVE  Get(u, k) # Nil
<1>1. CASE k \in 1 .. Len(u.array)
  <2>1. k \in IntKeys /\ k < Len(u.array) + 1
    <3>1. Len(u.array) \in Nat /\ Len(u.array) <= MaxKey /\ MaxKey \in Nat
      BY TableFields, KeyFacts DEF Sound
    <3> QED BY <1>1, <3>1 DEF IntKeys
  <2>2. w = {} /\ u.array[k] # Nil
    <3>1. k \in Nat /\ Len(u.array) \in Nat
      BY <2>1, TableFields, KeyFacts DEF IntKeys, Sound
    <3> QED BY <1>1, <2>1, <3>1 DEF Sound, Apart
  <2> QED BY <1>1, <2>2 DEF Get, InArray
<1>2. CASE k \notin 1 .. Len(u.array)
  BY <1>2 DEF Get, InArray, InHash, LiveHash
<1> QED BY <1>1, <1>2

LEMMA LastLiveReads ==
    ASSUME NEW u \in Table
    PROVE  LastLive(u) # 0 => Get(u, LastLive(u)) # Nil
<1>1. Len(u.array) \in Nat
  BY TableFields
<1>2. LastLive(u) \in 0 .. Len(u.array) /\ (LastLive(u) # 0 => u.array[LastLive(u)] # Nil)
  BY LastLiveFacts
<1> QED BY <1>1, <1>2 DEF Get, InArray

(* The greatest of the last value of the array and some live hash keys.    *)
LEMMA GreatestReads ==
    ASSUME NEW w, NEW u, Sound(u, w), w = {} \/ ~u.nil_write,
           NEW K \in SUBSET (LiveHash(u) \intersect IntKeys)
    PROVE  Max({LastLive(u)} \union K) # 0 => Get(u, Max({LastLive(u)} \union K)) # Nil
<1> DEFINE A == {LastLive(u)} \union K
<1>1. /\ u \in Table /\ Len(u.array) \in Nat /\ Len(u.array) <= MaxKey
      /\ MaxKey \in Nat /\ IntKeys = 1 .. MaxKey
  BY TableFields, KeyFacts DEF Sound, IntKeys
<1>2. LastLive(u) \in 0 .. MaxKey
  <2>1. LastLive(u) \in 0 .. Len(u.array)
    BY <1>1, LastLiveFacts
  <2> QED BY <1>1, <2>1
<1>3. A \in SUBSET (0 .. MaxKey) /\ A # {}
  BY <1>1, <1>2
<1>4. Max(A) \in A
  <2> HIDE DEF A
  <2> QED BY <1>1, <1>3, GreatestIn
<1>5. Max(A) = LastLive(u) \/ Max(A) \in LiveHash(u)
  BY <1>4
<1> HIDE DEF A
<1> QED BY <1>1, <1>5, LastLiveReads, LiveKeyReads DEF A

LEMMA LengthFacts ==
    ASSUME NEW w, NEW u, Sound(u, w)
    PROVE  /\ Get(u, Length(u) + 1) = Nil
           /\ Length(u) # 0 => Get(u, Length(u)) # Nil
<1> DEFINE n == Len(u.array)
           A == {i \in 1 .. n : u.array[i] = Nil} \union {n + 1}
           m == Min(A)
<1>1. u \in Table /\ n \in Nat /\ n + 1 \notin LiveHash(u)
  BY TableFields DEF Sound, Apart
<1>2. A \in SUBSET Nat /\ A # {}
  BY <1>1
<1>3. m \in A /\ \A k \in A : m <= k
  <2> HIDE DEF A
  <2> QED BY <1>2, LeastIn
<1>4. Length(u) = m - 1
  BY DEF Length
<1> HIDE DEF m
<1>5. m \in 1 .. n + 1 /\ m - 1 + 1 = m
  BY <1>1, <1>3
<1>6. Get(u, m) = Nil
  <2>1. CASE m = n + 1
    <3>1. m \notin 1 .. n
      BY <1>1, <2>1
    <3> QED BY <1>1, <2>1, <3>1 DEF Get, InArray, InHash, LiveHash
  <2>2. CASE m # n + 1
    BY <1>3, <2>2 DEF Get, InArray
  <2> QED BY <2>1, <2>2
<1>7. m - 1 # 0 => Get(u, m - 1) # Nil
  <2> SUFFICES ASSUME m - 1 # 0 PROVE Get(u, m - 1) # Nil
    OBVIOUS
  <2>1. m - 1 \in 1 .. n
    BY <1>1, <1>5
  <2>2. m - 1 \notin A
    BY <1>1, <1>3, <1>5
  <2>3. u.array[m - 1] # Nil
    BY <2>1, <2>2
  <2> QED BY <2>1, <2>3 DEF Get, InArray
<1> QED BY <1>4, <1>5, <1>6, <1>7

LEMMA DynamicModernLengthReads ==
    ASSUME NEW w, NEW u, Sound(u, w), w = {} \/ ~u.nil_write
    PROVE  DynamicModernLength(u) # 0 => Get(u, DynamicModernLength(u)) # Nil
<1> DEFINE A == {j \in 2 .. MaxKey + 1 : j \notin LiveHash(u)}
           m == Min(A)
<1>1. MaxKey \in Nat \ {0} /\ MaxKey + 1 \notin LiveHash(u)
  BY KeyFacts, LiveKeys DEF Sound
<1>2. A \in SUBSET Nat /\ A # {}
  <2>1. MaxKey + 1 \in A
    BY <1>1
  <2> QED BY <1>1, <2>1
<1>3. m \in A /\ \A k \in A : m <= k
  <2> HIDE DEF A
  <2> QED BY <1>2, LeastIn
<1>4. DynamicModernLength(u) = 0 \/ (m >= 4 /\ DynamicModernLength(u) = m - 1)
  BY DEF DynamicModernLength
<1>5. m >= 4 => m - 1 \in LiveHash(u)
  <2> SUFFICES ASSUME m >= 4, m - 1 \notin LiveHash(u) PROVE FALSE
    OBVIOUS
  <2> HIDE DEF m
  <2>1. m - 1 \in A
    BY <1>1, <1>3
  <2>2. m <= m - 1 /\ m \in Nat
    BY <1>1, <1>3, <2>1
  <2> QED BY <2>2
<1> HIDE DEF m
<1> QED BY <1>4, <1>5, LiveKeyReads

LEMMA ModernLengthReads ==
    ASSUME NEW w, NEW u, Sound(u, w), w = {} \/ ~u.nil_write
    PROVE  ModernLength(u) # 0 => Get(u, ModernLength(u)) # Nil
<1> DEFINE n == Len(u.array)
<1>1. u \in Table /\ n \in Nat /\ u.array \in Seq(Slots)
  BY TableFields DEF Sound
<1>2. \/ ModernLength(u) = LastLive(u)
      \/ ModernLength(u) \in LiveHash(u)
      \/ ModernLength(u) = DynamicModernLength(u)
      \/ ModernLength(u) = Length(u)
      \/ u.array # <<>> /\ ModernLength(u) = n /\ u.array[n] # Nil
      \/ n >= 3 /\ ModernLength(u) = n /\ \A i \in 2 .. n : u.array[i] # Nil
      \/ ModernLength(u) = 0
  BY DEF ModernLength
<1>3. ASSUME n # 0, u.array[n] # Nil PROVE Get(u, n) # Nil
  BY <1>1, <1>3 DEF Get, InArray
<1>4. n >= 3 /\ (\A i \in 2 .. n : u.array[i] # Nil) => n # 0 /\ u.array[n] # Nil
  BY <1>1
<1>5. u.array # <<>> => n # 0
  BY <1>1, EmptySeq
<1> QED BY <1>1, <1>2, <1>3, <1>4, <1>5, LastLiveReads, LiveKeyReads,
           DynamicModernLengthReads, LengthFacts

LEMMA LengthsHold ==
    ASSUME TableInv, weak_mode = {} \/ ~t.nil_write
    PROVE  LengthsEndAtValues
<1>1. Sound(t, weak_mode) /\ t \in Table
  BY DEF TableInv, Sound
<1>2. Get(t, Length(t) + 1) = Nil /\ (Length(t) # 0 => Get(t, Length(t)) # Nil)
  BY <1>1, LengthFacts
<1>3. ModernLength(t) # 0 => Get(t, ModernLength(t)) # Nil
  BY <1>1, ModernLengthReads
<1>4. LegacyLength(t) # 0 => Get(t, LegacyLength(t)) # Nil
  <2> DEFINE K == {k \in LiveHash(t) \intersect IntKeys : k <= t.legacy_array_capacity}
  <2>1. K \in SUBSET (LiveHash(t) \intersect IntKeys) /\ LegacyLength(t) = Max({LastLive(t)} \union K)
    BY DEF LegacyLength
  <2> HIDE DEF K
  <2> QED BY <1>1, <2>1, GreatestReads
<1>5. LuauLength(t) # 0 => Get(t, LuauLength(t)) # Nil
  <2>1. LuauLength(t) = LegacyLength(t) \/ (2 \in LiveHash(t) /\ LuauLength(t) = 2)
    BY DEF LuauLength
  <2> QED BY <1>1, <1>4, <2>1, LiveKeyReads
<1>6. MaxNumericKey(t) # 0 => Get(t, MaxNumericKey(t)) # Nil
  <2> DEFINE K == LiveHash(t) \intersect IntKeys
  <2>1. K \in SUBSET (LiveHash(t) \intersect IntKeys) /\ MaxNumericKey(t) = Max({LastLive(t)} \union K)
    BY DEF MaxNumericKey
  <2> HIDE DEF K
  <2> QED BY <1>1, <2>1, GreatestReads
<1>7. LastLive(t) # 0 => Get(t, LastLive(t)) # Nil
  BY <1>1, LastLiveReads
<1> QED BY <1>2, <1>3, <1>4, <1>5, <1>6, <1>7 DEF LengthsEndAtValues

LEMMA RepresentationHolds ==
    ASSUME TableInv
    PROVE  /\ PartsDisjoint /\ ChargeMatchesCapacity /\ TombstonesCounted
           /\ FlagsCoverReferences /\ OrderCoversHash
<1>1. /\ t \in Table /\ Apart(t, weak_mode) /\ Sized(t) /\ Ordered(t) /\ Flagged(t)
      /\ used = DynamicBytes(t)
  BY DEF TableInv, Sound
<1>2. PartsDisjoint
  BY <1>1 DEF PartsDisjoint, Apart
<1>3. TombstonesCounted
  BY <1>1 DEF TombstonesCounted, Sized
<1>4. FlagsCoverReferences
  <2>1. DOMAIN t.array = 1 .. Len(t.array)
    BY <1>1, TableFields, LenProperties
  <2> QED BY <1>1, <2>1 DEF FlagsCoverReferences, Flagged
<1>5. OrderCoversHash
  <2> DEFINE s == t.hash_order
  <2>1. DOMAIN s = 1 .. Len(s)
    BY <1>1, TableFields, LenProperties
  <2>2. \A m, n \in 1 .. Len(s) : s[m] = s[n] => m = n
    BY <1>1 DEF Ordered, Lists
  <2>3. t.hash_order_capacity # 0 => DOMAIN t.hash \subseteq ToSet(s)
    BY <1>1 DEF Ordered
  <2>4. ToSet(s) = {s[i] : i \in DOMAIN s}
    BY DEF ToSet
  <2> HIDE DEF s
  <2> QED BY <2>1, <2>2, <2>3, <2>4 DEF OrderCoversHash, s
<1> QED BY <1>1, <1>2, <1>3, <1>4, <1>5 DEF ChargeMatchesCapacity

-----------------------------------------------------------------------------
(* Predictions                                                             *)

(* A growth of the hash part that leaves its capacities alone is free.     *)
LEMMA NoGrowthIsFree ==
    ASSUME NEW u \in Table, NEW required \in Nat, NEW keys,
           required <= u.hash_capacity, OrderCapacity(u, required) = u.hash_order_capacity
    PROVE  GrowHash(u, required, keys).request = 0
<1>1. u.hash_capacity \in Nat
  BY TableFields
<1>2. Max({u.hash_capacity, required}) = u.hash_capacity
  BY <1>1, MaxOfTwo
<1>3. GrowHash(u, required, keys) = [table |-> u, request |-> 0, replaced |-> 0]
  BY <1>2 DEF GrowHash
<1> QED BY <1>3

(* A prediction of no bytes says that the capacities suffice.              *)
LEMMA NoBytesPredicted ==
    ASSUME NEW u \in Table, NEW required \in Nat \ {0}, NEW track \in BOOLEAN,
           HashGrowthBytes(u, required, track) = 0
    PROVE  /\ required <= u.hash_capacity
           /\ u.hash_order_capacity # 0 => required <= u.hash_order_capacity
                                           \/ (~track /\ OrderCapacity(u, required) = 0)
           /\ u.hash_order_capacity = 0 => ~track /\ OrderCapacity(u, required) = 0
           /\ OrderCapacity(u, required) = u.hash_order_capacity
<1> DEFINE h == u.hash_capacity
           o == u.hash_order_capacity
           c == OrderCapacity(u, required)
           g == Max({h, required})
           p == IF track \/ c # 0 THEN Max({o, required}) ELSE 0
           a == PartBytes(g, p)
           b == PartBytes(h, o)
<1>1. h \in Nat /\ o \in Nat
  BY TableFields
<1>2. g \in Nat /\ h <= g /\ required <= g
  BY <1>1, MaxOfTwo
<1>3. Max({o, required}) \in Nat /\ o <= Max({o, required}) /\ required <= Max({o, required})
  BY <1>1, MaxOfTwo
<1>4. c \in Nat /\ o <= c /\ (c # 0 => c = Max({o, required}))
  <2>1. c \in Nat /\ o <= c
    BY OrderCapacityFacts
  <2> QED BY <2>1 DEF OrderCapacity
<1>5. p \in Nat /\ o <= p /\ (p = 0 => ~track /\ c = 0)
  <2> HIDE DEF c
  <2> QED BY <1>1, <1>3, <1>4
<1>6. a \in Nat /\ b \in Nat /\ b <= a /\ (a = b => g = h /\ p = o)
  <2>1. h <= g /\ o <= p
    BY <1>2, <1>5
  <2> HIDE DEF g, p, h, o
  <2>2. a \in Nat /\ b \in Nat
    BY <1>1, <1>2, <1>5, BytesFacts, Zenon
  <2>3. b <= a /\ (b = a => h = g /\ o = p)
    BY <1>1, <1>2, <1>5, <2>1, BytesFacts, Zenon
  <2> QED BY <2>2, <2>3, Zenon
<1>7. a = b
  <2>1. SaturatingDec(a, b) = 0
    BY DEF HashGrowthBytes
  <2> HIDE DEF a, b
  <2> QED BY <1>6, <2>1 DEF SaturatingDec
<1>8. g = h /\ p = o
  BY <1>6, <1>7
<1>9. o # 0 => c = o /\ required <= o
  <2>1. o # 0 => c # 0
    <3> HIDE DEF c
    <3> QED BY <1>1, <1>4
  <2> HIDE DEF c, g
  <2> QED BY <1>1, <1>3, <1>4, <1>8, <2>1
<1>10. o = 0 => ~track /\ c = 0
  <2> HIDE DEF c
  <2> QED BY <1>5, <1>8
<1> HIDE DEF c, g, p
<1> QED BY <1>2, <1>8, <1>9, <1>10 DEF c

LEMMA FreeWriteAsksNothing ==
    ASSUME NEW w, NEW u, Sound(u, w), ~u.tracks_legacy,
           ~(u.order_enabled /\ u.hash_order_capacity = 0),
           NEW key \in Keys, NEW value \in Slots, NEW keys, SetBytes(u, key, value) = 0
    PROVE  Set(u, key, value, keys).request = 0
<1> DEFINE out == Set(u, key, value, keys)
           required == Cardinality(DOMAIN u.hash) + 1
           end == RunEnd(u, key)
<1>1. /\ u \in Table /\ Sized(u) /\ Ordered(u) /\ Len(u.array) \in Nat
      /\ required \in Nat \ {0} /\ Cardinality(DOMAIN u.hash) \in Nat
      /\ u.hash_capacity \in Nat /\ u.hash_order_capacity \in Nat /\ OrderThreshold \in Nat
  <2>1. u \in Table /\ Sized(u) /\ Ordered(u)
    BY DEF Sound
  <2>2. Cardinality(DOMAIN u.hash) \in Nat
    BY <2>1, FS_CardinalityType DEF Sized
  <2>3. Len(u.array) \in Nat /\ u.hash_capacity \in Nat /\ u.hash_order_capacity \in Nat
    BY <2>1, TableFields
  <2> QED BY <2>1, <2>2, <2>3, TableAssumption
<1>2. \A v, n : \E T, R, P : GrowHash(v, n, keys) = [table |-> T, request |-> R, replaced |-> P]
  BY DEF GrowHash
<1>3. CASE InArray(u, key)
  <2>1. out = SetArray(u, key, value, keys)
    BY <1>3 DEF Set
  <2>2. CASE value = Nil /\ u.array[key] # Nil /\ ~InHash(u, key)
    <3>1. HashGrowthBytes(u, required, FALSE) = 0
      BY <1>3, <2>2 DEF SetBytes
    <3>2. GrowHash(u, required, keys).request = 0
      <4>1. required <= u.hash_capacity /\ OrderCapacity(u, required) = u.hash_order_capacity
        BY <1>1, <3>1, NoBytesPredicted
      <4> HIDE DEF required
      <4> QED BY <1>1, <4>1, NoGrowthIsFree
    <3>3. out.request = GrowHash(u, required, keys).request
      BY <1>2, <2>1, <2>2 DEF SetArray
    <3> QED BY <3>2, <3>3
  <2>3. CASE ~(value = Nil /\ u.array[key] # Nil /\ ~InHash(u, key))
    BY <2>1, <2>3 DEF SetArray
  <2> QED BY <2>2, <2>3
<1>4. CASE ~InArray(u, key) /\ key = Len(u.array) + 1 /\ value # Nil
  <2>1. key \in IntKeys
    BY <1>1, <1>4, KeyFacts
  <2>2. out = SetGrowing(u, key, value)
    BY <1>4, <2>1 DEF Set
  <2>3. \A v, n : \E T, R, P : GrowArray(v, n) = [table |-> T, request |-> R, replaced |-> P]
    BY DEF GrowArray
  <2>4. out.request = GrowArray(u, end).request
    BY <2>2, <2>3 DEF SetGrowing
  <2>5. SetBytes(u, key, value) = IF end <= u.array_capacity THEN 0
                                  ELSE IF end <= u.physical_capacity
                                  THEN ArrayBytes(end) - ArrayBytes(u.array_capacity)
                                  ELSE ArrayBytes(end)
    BY <1>4 DEF SetBytes
  <2>6. GrowArray(u, end).request = IF end <= u.array_capacity THEN 0
                                    ELSE IF end <= u.physical_capacity
                                    THEN ArrayBytes(end) - ArrayBytes(u.array_capacity)
                                    ELSE ArrayBytes(end)
    BY DEF GrowArray
  <2> QED BY <2>4, <2>5, <2>6
<1>5. CASE ~InArray(u, key) /\ value = Nil
  BY <1>5 DEF Set, SetBoundaryNil, SetHashNil
<1>6. CASE ~InArray(u, key) /\ value # Nil /\ key # Len(u.array) + 1
  <2> DEFINE r == BeforeHashGrowth(u, key, value)
             needed == Cardinality(DOMAIN r.hash) + 1
  <2>1. out = SetHash(u, key, value, keys)
    BY <1>6 DEF Set, GrowsOverHole
  <2>2. /\ Sound(r, w)
        /\ DOMAIN r.hash \subseteq DOMAIN u.hash
        /\ ~NeedsCompaction(u) \/ u.tombstones = 0 => DOMAIN r.hash = DOMAIN u.hash
        /\ r.order_enabled = (u.order_enabled \/ (key \notin DOMAIN r.hash /\ OrdersBy(u, key)))
        /\ r.hash_capacity = u.hash_capacity
        /\ r.hash_order_capacity = u.hash_order_capacity
    BY BeforeHashGrowthFacts
  <2>3. CASE InHash(r, key)
    BY <2>1, <2>3 DEF SetHash
  <2>4. CASE ~InHash(r, key)
    <3>1. out.request = GrowHash(r, needed, keys).request
      BY <1>2, <2>1, <2>4 DEF SetHash
    <3> HIDE DEF r
    <3>2. needed \in Nat \ {0} /\ needed <= required
      <4>1. Cardinality(DOMAIN r.hash) <= Cardinality(DOMAIN u.hash)
            /\ IsFiniteSet(DOMAIN r.hash)
        BY <1>1, <2>2, FS_Subset DEF Sized
      <4> QED BY <1>1, <4>1, FS_CardinalityType
    <3>3. key \notin DOMAIN r.hash /\ r \in Table
      BY <2>2, <2>4 DEF InHash, Sound
    <3>4. SetBytes(u, key, value) = IF key \in DOMAIN u.hash THEN 0
                                    ELSE HashGrowthBytes(u, required, OrdersBy(u, key))
      BY <1>6 DEF SetBytes, InHash
    <3>5. OrderCapacity(r, needed) = IF r.order_enabled \/ u.hash_order_capacity # 0
                                          \/ needed >= OrderThreshold
                                     THEN Max({u.hash_order_capacity, needed}) ELSE 0
      BY <2>2 DEF OrderCapacity
    <3>6. CASE key \in DOMAIN u.hash
      <4>1. needed <= Cardinality(DOMAIN u.hash)
        <5>1. DOMAIN r.hash \in SUBSET (DOMAIN u.hash) /\ IsFiniteSet(DOMAIN u.hash)
          BY <1>1, <2>2 DEF Sized
        <5>2. Cardinality(DOMAIN r.hash) <= Cardinality(DOMAIN u.hash)
              /\ Cardinality(DOMAIN r.hash) # Cardinality(DOMAIN u.hash)
          BY <3>3, <3>6, <5>1, FS_Subset
        <5>3. Cardinality(DOMAIN r.hash) \in Nat
          BY <5>1, FS_Subset, FS_CardinalityType
        <5> QED BY <1>1, <5>2, <5>3
      <4>2. u.policy = "Unordered"
        BY <2>2, <3>3, <3>6 DEF NeedsCompaction
      <4>3. u.hash_order_capacity = 0 => ~OrdersBy(u, key)
        BY <1>1, <3>6, <4>2 DEF OrdersBy, Ordered
      <4>4. u.hash_order_capacity = 0 => ~r.order_enabled
        BY <2>2, <4>3
      <4>5. u.hash_order_capacity = 0 => needed < OrderThreshold
        <5>1. u.hash_order_capacity = 0 => Cardinality(DOMAIN u.hash) < OrderThreshold
          BY <1>1, <3>6 DEF Sized
        <5> HIDE DEF needed
        <5> QED BY <1>1, <3>2, <4>1, <5>1
      <4>6. u.hash_order_capacity # 0 => needed <= u.hash_order_capacity
        <5>1. u.hash_order_capacity # 0 => Cardinality(DOMAIN u.hash) <= u.hash_order_capacity
          BY <1>1 DEF Sized
        <5> HIDE DEF needed
        <5> QED BY <1>1, <3>2, <4>1, <5>1
      <4>7. needed <= u.hash_capacity
        <5>1. Cardinality(DOMAIN u.hash) <= u.hash_capacity
          BY <1>1 DEF Sized
        <5> HIDE DEF needed
        <5> QED BY <1>1, <3>2, <4>1, <5>1
      <4> HIDE DEF needed
      <4>8. u.hash_order_capacity # 0 => Max({u.hash_order_capacity, needed}) = u.hash_order_capacity
        BY <1>1, <3>2, <4>6, MaxOfTwo
      <4>9. OrderCapacity(r, needed) = u.hash_order_capacity
        BY <1>1, <3>2, <3>5, <4>4, <4>5, <4>8
      <4> QED BY <2>2, <3>1, <3>2, <3>3, <4>7, <4>9, NoGrowthIsFree
    <3>7. CASE key \notin DOMAIN u.hash
      <4>1. HashGrowthBytes(u, required, OrdersBy(u, key)) = 0 /\ OrdersBy(u, key) \in BOOLEAN
        BY <3>4, <3>7 DEF OrdersBy
      <4>2. /\ required <= u.hash_capacity
            /\ u.hash_order_capacity = 0 => ~OrdersBy(u, key) /\ OrderCapacity(u, required) = 0
            /\ OrderCapacity(u, required) = u.hash_order_capacity
        <5> HIDE DEF required
        <5> QED BY <1>1, <4>1, NoBytesPredicted
      <4>3. OrderCapacity(u, required) # 0 => required <= OrderCapacity(u, required)
        <5> HIDE DEF required
        <5> QED BY <1>1, OrderCapacityFacts
      <4>4. OrderCapacity(u, required) = 0 => required < OrderThreshold /\ ~u.order_enabled
        <5> HIDE DEF required
        <5> QED BY <1>1, OrderCapacityFacts
      <4> HIDE DEF needed, required
      <4>5. u.hash_order_capacity # 0 => Max({u.hash_order_capacity, needed}) = u.hash_order_capacity
        <5>1. u.hash_order_capacity # 0 => needed <= u.hash_order_capacity
          BY <1>1, <3>2, <4>2, <4>3
        <5> QED BY <1>1, <3>2, <5>1, MaxOfTwo
      <4>6. u.hash_order_capacity = 0 => ~r.order_enabled /\ needed < OrderThreshold
        <5>1. u.hash_order_capacity = 0 => ~u.order_enabled /\ required < OrderThreshold
          BY <4>2, <4>4
        <5>2. u.hash_order_capacity = 0 => ~r.order_enabled
          BY <2>2, <4>2, <5>1
        <5>3. required < OrderThreshold => needed < OrderThreshold
          BY <1>1, <3>2
        <5> QED BY <5>1, <5>2, <5>3
      <4>7. OrderCapacity(r, needed) = u.hash_order_capacity
        BY <1>1, <3>2, <3>5, <4>5, <4>6
      <4>8. needed <= r.hash_capacity
        BY <1>1, <2>2, <3>2, <4>2
      <4> QED BY <2>2, <3>1, <3>2, <3>3, <4>7, <4>8, NoGrowthIsFree
    <3> QED BY <3>6, <3>7
  <2> QED BY <2>3, <2>4
<1> QED BY <1>3, <1>4, <1>5, <1>6
-----------------------------------------------------------------------------
(* Theorems                                                                *)

(* The invariant of every run of the table: its parts stand apart, its     *)
(* counters and capacities fit its contents and the charge, and the        *)
(* traversal beside it ranges over the keys that the table has.            *)
THEOREM TableInvariant == Spec => []TableInv /\ []WalkInv
<1>1. Init => TableInv /\ WalkInv
  BY InitHolds
<1>2. TableInv /\ WalkInv /\ [Next]_vars => TableInv' /\ WalkInv'
  BY StepKeeps
<1> QED BY <1>1, <1>2, PTL DEF Spec

(* A table whose reads are known: a strong one, or one that never saw nil  *)
(* written just past its array, where a weak table may lose track of what  *)
(* the collector took.                                                     *)
Tracked == weak_mode = {} \/ ~t.nil_write

LEMMA StrongIsTracked == ASSUME WeakModes = {{}} PROVE TableInv => Tracked
BY DEF TableInv, Tracked

(* After any sequence of writes, growths, refused growths, clears and      *)
(* collections, the parts, the charge, the tombstone count, the flags and  *)
(* the order of a table describe the same contents, and its lengths end    *)
(* at values.                                                              *)
THEOREM RepresentationStaysSound == Spec => [](Tracked => RepresentationSound)
<1>1. TableInv /\ Tracked => RepresentationSound
  BY RepresentationHolds, LengthsHold DEF RepresentationSound, Tracked
<1> QED BY <1>1, TableInvariant, PTL

(* Without weak tables there is no exception.                              *)
THEOREM StrongRepresentationSound ==
    ASSUME WeakModes = {{}}
    PROVE  Spec => []RepresentationSound
BY RepresentationStaysSound, StrongIsTracked, TableInvariant, PTL

(* Every table, apart from its lengths: what the account was charged is    *)
(* what sweeping the table gives back, and the flags by which marking      *)
(* skips a part of the table never hide a reference.                       *)
THEOREM ChargeAndFlagsHold ==
    Spec => [](/\ PartsDisjoint /\ ChargeMatchesCapacity /\ TombstonesCounted
               /\ FlagsCoverReferences /\ OrderCoversHash)
<1>1. TableInv => /\ PartsDisjoint /\ ChargeMatchesCapacity /\ TombstonesCounted
                  /\ FlagsCoverReferences /\ OrderCoversHash
  BY RepresentationHolds
<1> QED BY <1>1, TableInvariant, PTL

(* A write for which set_bytes predicts no bytes asks the account for      *)
(* none, in every table that tracks no legacy boundary and waits for no    *)
(* order: the VM may skip its collection before such a write.              *)
THEOREM FreeWritesStayFree == Spec => []FreeWritesAreFreeOtherwise
<1>1. TableInv => FreeWritesAreFreeOtherwise
  BY FreeWriteAsksNothing
     DEF TableInv, FreeWritesAreFreeOtherwise, FreeWritesAreFree, OrderPending
<1> QED BY <1>1, TableInvariant, PTL

(* table_get returns what was last stored, or nothing when the collector   *)
(* has taken the key or the value, whichever part of the table holds it.   *)
THEOREM ReadsSeeTheWrites == Spec => []WeakReadsSeeWrites
<1>1. TableInv => WeakReadsSeeWrites
  BY DEF TableInv, WeakReadsSeeWrites, ReadsSeeWrites, Contents
<1> QED BY <1>1, TableInvariant, PTL

(* `next` pairs the key it returns with the value that a read of the key   *)
(* returns.                                                                *)
THEOREM WalkPairsReads == Spec => WalkReturnsReads
<1>1. TableInv /\ WalkInv /\ [Next]_vars =>
        [~t.nil_write /\ walk'.last.kind = "entry" /\ walk'.seen # walk.seen =>
           walk'.last.value = Get(t, walk'.last.key)]_vars
  BY StepKeeps
<1> QED BY <1>1, TableInvariant, PTL DEF Spec, WalkReturnsReads

(* A traversal that the writes Lua allows are made beside returns no key   *)
(* twice and every key that stays, and accepts its current key after that  *)
(* is cleared: whatever the writes move from one part of the table to the  *)
(* other, whatever grows, is refused memory or is collected, unless the    *)
(* hash part shrinks beneath an opaque order, grows beneath one for the    *)
(* tombstone of a cleared array key, or drops the tombstone of the current *)
(* key.                                                                    *)
THEOREM TraversalStaysSound == Spec => []TraversalSound
<1>1. Init => VisitInv /\ CursorInv /\ ContinueInv
  BY InitTraversal
<1>2. /\ TableInv /\ TableInv' /\ WalkInv /\ VisitInv /\ CursorInv /\ ContinueInv /\ [Next]_vars
         => VisitInv' /\ CursorInv' /\ ContinueInv'
  BY StepVisits, StepContinues
<1>3. VisitInv /\ ContinueInv => TraversalSound
  BY DEF VisitInv, ContinueInv, TraversalSound, WalkVisitsOnceUnlessReordered,
         WalkVisitsOnce, WalkContinuesUnlessCompacted, WalkContinues
<1> QED BY <1>1, <1>2, <1>3, TableInvariant, PTL DEF Spec

(* In a strong table no collection interferes: every traversal is complete *)
(* and repeats no key, unless nil was written just past the array or an    *)
(* array key was cleared for whose tombstone the hash part had to grow     *)
(* under it.                                                               *)
THEOREM StrongTraversalsComplete ==
    ASSUME WeakModes = {{}}
    PROVE  Spec => [](~t.nil_write /\ ~walk.rehashed => WalkVisitsOnce)
<1>1. Init => StrongInv
  BY DEF Init, NoWalk, StrongInv
<1>2. TableInv /\ WalkInv /\ StrongInv /\ [Next]_vars => StrongInv'
  BY StepStrong
<1>3. TableInv /\ StrongInv /\ TraversalSound =>
        (~t.nil_write /\ ~walk.rehashed => WalkVisitsOnce)
  BY DEF TableInv, StrongInv, TraversalSound, WalkVisitsOnceUnlessReordered, WalkOrderKept
<1> QED BY <1>1, <1>2, <1>3, TableInvariant, TraversalStaysSound, PTL DEF Spec

(* A table whose reads are known is a map: every operation writes one key, *)
(* empties it or forgets what is dead, and whatever else it does to the array, the hash part, *)
(* the order or the capacities changes no read.                            *)
THEOREM TrackedTableIsMap == Spec /\ []Tracked => ImplementsMap
<1>1. TableInv /\ Tracked => Contents = map
  BY DEF TableInv, Contents, Tracked
<1>2. TableInv' /\ Tracked' => Contents' = map'
  BY DEF TableInv, Contents, Tracked
<1>3. Init /\ Tracked => Abstract!Init
  <2>1. Init /\ Tracked => Contents = map /\ map = [key \in Keys |-> Nil]
                          /\ weak_mode \in WeakModes
    BY <1>1, InitHolds DEF Init, Promise!Init
  <2> QED BY <2>1 DEF Abstract!Init
<1>4. TableInv /\ WalkInv /\ Tracked /\ Tracked' /\ [Next]_vars =>
        [Abstract!Next]_<<Contents, weak_mode>>
  <2> SUFFICES ASSUME TableInv, WalkInv, Tracked, Tracked', [Next]_vars
               PROVE  Abstract!Next \/ (Contents' = Contents /\ weak_mode' = weak_mode)
    OBVIOUS
  <2>1. Contents = map /\ Contents' = map'
    BY <1>1, <1>2, StepKeeps
  <2>2. (Promise!Next \/ map' = map) /\ weak_mode' = weak_mode
    BY StepKeeps
  <2>3. /\ Abstract!WeakKeys = Promise!WeakKeys
        /\ Abstract!WeakValues = Promise!WeakValues
    BY DEF Abstract!WeakKeys, Abstract!WeakValues, Promise!WeakKeys, Promise!WeakValues
  <2> QED BY <2>1, <2>2, <2>3
          DEF Promise!Next, Promise!Put, Promise!Clear, Promise!Forget,
              Abstract!Next, Abstract!Put, Abstract!Clear, Abstract!Forget
<1>5. TableInv /\ TableInv' /\ WalkInv /\ [Next]_vars =>
        [weak_mode = {} => Contents' = map']_vars
  <2> SUFFICES ASSUME TableInv, TableInv', WalkInv, [Next]_vars, weak_mode = {}
               PROVE  Contents' = map'
    OBVIOUS
  <2>1. weak_mode' = {}
    BY StepKeeps
  <2> QED BY <2>1 DEF TableInv, Contents
<1> QED BY <1>3, <1>4, <1>5, TableInvariant, PTL DEF Spec, ImplementsMap, Abstract!Spec

(* Without weak tables the table implements the map.                       *)
THEOREM TableIsMap ==
    ASSUME WeakModes = {{}}
    PROVE  Spec => ImplementsMap
BY StrongIsTracked, TableInvariant, TrackedTableIsMap, PTL
=============================================================================
