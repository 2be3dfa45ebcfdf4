------------------------------ MODULE LuaTable ------------------------------
(***************************************************************************)
(* The table representation of crates/blu-runtime/src/heap.rs (`Table`):   *)
(* an array part for the keys 1 .. Len(array), a hash part for every other *)
(* key, tombstones that keep a deleted key usable by `next`, an optional   *)
(* insertion order, and the "legacy" array boundary that lets a table with *)
(* holes grow its array.  Operators only: they say what one call computes; *)
(* TableStore drives them.                                                 *)
(*                                                                         *)
(* A key is an integer 1 .. MaxKey or one of the other keys, which the     *)
(* code never puts in the array: integers below 1 and fractional numbers   *)
(* (NumberKeys), strings, and references to heap objects (HeapKeys).       *)
(***************************************************************************)
EXTENDS Selection, FiniteSetsExt

CONSTANTS
    MaxKey,             \* bound: the largest array-like integer key in use
    NumberKeys, StringKeys, HeapKeys,
    Values,             \* non-nil values without a heap reference
    HeapValues,         \* non-nil values that refer to a heap object
    Nil,
    ValueBytes,         \* size_of::<Value>()
    HashBytes,          \* charge of one usable HashMap<Key, Value> entry
    OrderBytes,         \* charge of one hash_order and hash_order_positions entry
    OrderThreshold,     \* HASH_ITERATION_ORDER_THRESHOLD
    CompactThreshold    \* the tombstone count from which `set` compacts

ASSUME TableAssumption ==
    /\ MaxKey \in Nat \ {0}
    /\ \A key \in NumberKeys \union StringKeys \union HeapKeys : key \notin Nat \ {0}
    /\ ValueBytes \in Nat \ {0} /\ HashBytes \in Nat \ {0} /\ OrderBytes \in Nat \ {0}
    /\ OrderThreshold \in Nat /\ CompactThreshold \in Nat
    /\ Nil \notin Values \union HeapValues
    /\ Nil \notin 1 .. MaxKey \union NumberKeys \union StringKeys \union HeapKeys

IntKeys == 1 .. MaxKey
Keys == IntKeys \union NumberKeys \union StringKeys \union HeapKeys
LiveValues == Values \union HeapValues
Slots == LiveValues \union {Nil}

Policies == {"Unordered", "Insertion", "Luau"}

Table ==
    [array : Seq(Slots), array_capacity : Nat, physical_capacity : Nat,
     legacy_array_capacity : Nat,
     tracks_legacy : BOOLEAN, preallocated : BOOLEAN, nil_write : BOOLEAN,
     array_heap : BOOLEAN, hash_heap_key : BOOLEAN, hash_heap_value : BOOLEAN,
     policy : Policies, order_enabled : BOOLEAN,
     hash : UNION {[S -> Slots] : S \in SUBSET Keys}, hash_capacity : Nat,
     tombstones : Nat,
     hash_order : Seq(Keys), hash_order_capacity : Nat,
     frozen : BOOLEAN]

(* allocate_table_with_iteration_order *)
NewTable(array, hash, policy) ==
    [array |-> <<>>, array_capacity |-> array, physical_capacity |-> array,
     legacy_array_capacity |-> array,
     tracks_legacy |-> array > 0 \/ hash > 0,
     preallocated |-> FALSE, nil_write |-> FALSE,
     array_heap |-> FALSE, hash_heap_key |-> FALSE, hash_heap_value |-> FALSE,
     policy |-> policy, order_enabled |-> FALSE,
     hash |-> <<>>, hash_capacity |-> hash, tombstones |-> 0,
     hash_order |-> <<>>, hash_order_capacity |-> 0,
     frozen |-> FALSE]

-----------------------------------------------------------------------------
(* Reading                                                                 *)

InArray(t, key) == key \in 1 .. Len(t.array)
InHash(t, key) == key \in DOMAIN t.hash
LiveHash(t) == {key \in DOMAIN t.hash : t.hash[key] # Nil}
Tombstones(t) == {key \in DOMAIN t.hash : t.hash[key] = Nil}

Get(t, key) ==
    IF InArray(t, key) THEN t.array[key]
    ELSE IF InHash(t, key) THEN t.hash[key]
    ELSE Nil

(* Object::dynamic_bytes of a table: what its capacities are charged.      *)
ArrayBytes(n) == n * ValueBytes
PartBytes(hash, order) == hash * HashBytes + order * OrderBytes
DynamicBytes(t) ==
    ArrayBytes(t.array_capacity) + PartBytes(t.hash_capacity, t.hash_order_capacity)

(* The last index of the run of live hash keys that follows `index`, which *)
(* contiguous_hash_values_after counts.                                    *)
RunEnd(t, index) == Min({j \in index + 1 .. MaxKey + 1 : j \notin LiveHash(t)}) - 1

LastLive(t) == Max({0} \union {i \in 1 .. Len(t.array) : t.array[i] # Nil})

Length(t) ==
    Min({i \in 1 .. Len(t.array) : t.array[i] = Nil} \union {Len(t.array) + 1}) - 1

DynamicModernLength(t) ==
    LET run == Min({j \in 2 .. MaxKey + 1 : j \notin LiveHash(t)})
    IN  IF t.tracks_legacy \/ (t.policy # "Unordered" /\ 1 \notin LiveHash(t)) THEN 0
        ELSE IF run >= 4 THEN run - 1 ELSE 0

ModernLength(t) ==
    IF t.preallocated THEN LastLive(t)
    ELSE IF t.array = <<>>
    THEN IF t.array_capacity > 0 /\ t.array_capacity \in LiveHash(t)
         THEN t.array_capacity ELSE DynamicModernLength(t)
    ELSE IF t.array[1] # Nil THEN Length(t)
    ELSE IF Len(t.array) = t.array_capacity /\ t.array[Len(t.array)] # Nil
    THEN t.array_capacity
    ELSE IF Len(t.array) >= 3 /\ \A i \in 2 .. Len(t.array) : t.array[i] # Nil
    THEN Len(t.array) ELSE 0

LegacyLength(t) ==
    Max({LastLive(t)} \union {k \in LiveHash(t) \intersect IntKeys : k <= t.legacy_array_capacity})

(* table_luau_length *)
LuauLength(t) ==
    IF ~t.tracks_legacy /\ t.nil_write /\ 2 \in LiveHash(t) /\ 3 \notin LiveHash(t)
    THEN 2 ELSE LegacyLength(t)

MaxNumericKey(t) ==
    Max({LastLive(t)} \union (LiveHash(t) \intersect IntKeys))

-----------------------------------------------------------------------------
(* Growth.  Each part returns the table it leaves and the reservation it   *)
(* makes: `request` bytes are reserved, `replaced` bytes are given back.   *)

(* Rust's Vec doubles (external): only which of the two charging paths the *)
(* next growth takes depends on it.                                        *)
VecGrowth(capacity, required) == Max({2 * capacity, required, 4})

GrowArray(t, required) ==
    IF required <= t.array_capacity
    THEN [table |-> t, request |-> 0, replaced |-> 0]
    ELSE IF required <= t.physical_capacity
    THEN [table |-> [t EXCEPT !.array_capacity = required],
          request |-> ArrayBytes(required) - ArrayBytes(t.array_capacity),
          replaced |-> 0]
    ELSE [table |-> [t EXCEPT !.array_capacity = required,
                              !.physical_capacity = VecGrowth(@, required)],
          request |-> ArrayBytes(required),
          replaced |-> ArrayBytes(t.array_capacity)]

OrderCapacity(t, required) ==
    IF t.order_enabled \/ t.hash_order_capacity # 0 \/ required >= OrderThreshold
    THEN Max({t.hash_order_capacity, required}) ELSE 0

StartsOrder(t, required) ==
    t.hash_order_capacity = 0 /\ OrderCapacity(t, required) # 0

(* Mutant: the order that is replaced is not given back. *)
GrowHashKeepsOrderCharge(t, required, keys) ==
    LET hash == Max({t.hash_capacity, required})
        order == OrderCapacity(t, required)
    IN  [table |-> [t EXCEPT !.hash_capacity = hash, !.hash_order_capacity = order,
                             !.hash_order = IF StartsOrder(t, required) THEN @ \o keys ELSE @],
         request |-> PartBytes(hash, order),
         replaced |-> PartBytes(t.hash_capacity, 0)]

(* `keys` is the order in which HashMap::keys yields the hash's domain; it *)
(* is read only when the growth starts to track an order.                  *)
GrowHash(t, required, keys) ==
    LET hash == Max({t.hash_capacity, required})
        order == OrderCapacity(t, required)
    IN  IF hash = t.hash_capacity /\ order = t.hash_order_capacity
        THEN [table |-> t, request |-> 0, replaced |-> 0]
        ELSE [table |-> [t EXCEPT !.hash_capacity = hash,
                                  !.hash_order_capacity = order,
                                  !.hash_order = IF StartsOrder(t, required)
                                                 THEN @ \o keys ELSE @],
              request |-> PartBytes(hash, order),
              replaced |-> PartBytes(t.hash_capacity, t.hash_order_capacity)]

(* push_hash_order_key: hash_order_positions always indexes hash_order.    *)
PushOrder(t, key) ==
    IF t.hash_order_capacity = 0 \/ \E i \in DOMAIN t.hash_order : t.hash_order[i] = key
    THEN t
    ELSE [t EXCEPT !.hash_order = Append(@, key)]

-----------------------------------------------------------------------------
(* Small steps of the hash part                                            *)

Without(f, S) == [key \in DOMAIN f \ S |-> f[key]]
With(f, key, value) ==
    [k \in DOMAIN f \union {key} |-> IF k = key THEN value ELSE f[k]]

SaturatingDec(n, by) == IF n >= by THEN n - by ELSE 0

(* remove_hash_entry, for each of a set of keys; hash_order keeps them.    *)
RemoveHash(t, S) ==
    [t EXCEPT !.hash = Without(@, S),
              !.tombstones = SaturatingDec(@, Cardinality(S \intersect Tombstones(t)))]

KeepLive(t) == [t EXCEPT !.hash = Without(@, Tombstones(t)), !.tombstones = 0]

OrderOf(t, S) == Selected(t.hash_order, S)

(* compact_hash; only the unordered policy ever calls it *)
CompactHash(t) ==
    IF t.tombstones = 0 THEN t
    ELSE [KeepLive(t) EXCEPT !.hash_order =
            IF t.hash_order_capacity # 0 THEN OrderOf(t, LiveHash(t)) ELSE @]

NeedsCompaction(t) ==
    /\ t.policy = "Unordered"
    /\ t.tombstones >= CompactThreshold
    /\ t.tombstones >= SaturatingDec(Cardinality(DOMAIN t.hash), t.tombstones)

(* Mutant: the run is copied, not moved. *)
PromoteCopies(t, index, end) ==
    [t EXCEPT !.array = @ \o [i \in 1 .. end - index |-> t.hash[index + i]],
              !.array_heap = @ \/ \E k \in index + 1 .. end : t.hash[k] \in HeapValues]

(* promote_contiguous: the run index+1 .. RunEnd moves to the array.       *)
Promote(t, index, end) ==
    LET run == index + 1 .. end
    IN  [RemoveHash(t, run) EXCEPT
            !.array = @ \o [i \in 1 .. end - index |-> t.hash[index + i]],
            !.array_heap = @ \/ \E k \in run : t.hash[k] \in HeapValues]

-----------------------------------------------------------------------------
(* Table::set, one operator per branch, in the order of the code           *)

(* The key is inside the array: nil leaves a tombstone in the hash part.   *)
SetArray(t, key, value, keys) ==
    LET stored(u) == [u EXCEPT !.array[key] = value,
                               !.array_heap = @ \/ value \in HeapValues]
        grown == GrowHash(t, Cardinality(DOMAIN t.hash) + 1, keys)
        counted(u) == [PushOrder(u, key) EXCEPT !.hash = With(@, key, Nil),
                                                !.tombstones = @ + 1]
        plain(u) == [table |-> stored(u), request |-> 0, replaced |-> 0]
    IN  IF value = Nil /\ t.array[key] # Nil
        THEN IF InHash(t, key)
             THEN plain([t EXCEPT !.hash[key] = Nil])
             ELSE [grown EXCEPT !.table = stored(counted(@))]
        ELSE IF value # Nil THEN plain(RemoveHash(t, {key}))
        ELSE plain(t)

(* nil written just past the array only moves the legacy boundary.         *)
SetBoundaryNil(t, index) ==
    LET noted == [t EXCEPT !.nil_write = TRUE]
    IN  [table |-> IF t.tracks_legacy \/ t.array # <<>>
                   THEN [noted EXCEPT !.tracks_legacy = TRUE,
                                      !.legacy_array_capacity = Max({@, index})]
                   ELSE noted,
         request |-> 0, replaced |-> 0]

(* Mutant: the hole is filled with the value. *)
SetGrowingFillsHole(t, index, value) ==
    LET end == RunEnd(t, index)
        grown == GrowArray(t, end)
        filled == [i \in 1 .. index - Len(t.array) |-> value]
    IN  [grown EXCEPT !.table = Promote([@ EXCEPT !.array = @ \o filled], index, end)]

(* The array grows to `index`, over a hole when index > Len + 1, and takes *)
(* the run of hash keys that follows it.                                   *)
SetGrowing(t, index, value) ==
    LET end == RunEnd(t, index)
        grown == GrowArray(t, end)
        hole == [i \in 1 .. index - Len(t.array) - 1 |-> Nil]
        pushed(u) == [u EXCEPT !.array = @ \o hole \o <<value>>,
                               !.array_heap = @ \/ value \in HeapValues]
        bounded(u) == [u EXCEPT !.legacy_array_capacity = Max({@, Len(u.array)})]
    IN  [grown EXCEPT !.table = bounded(Promote(pushed(@), index, end))]

GrowsOverHole(t, index) ==
    /\ index > Len(t.array) + 1
    /\ t.tracks_legacy
    /\ index <= t.legacy_array_capacity + 1

(* nil written to the hash part leaves a tombstone where a key was.        *)
SetHashNil(t, key) ==
    [table |->
        IF InHash(t, key)
        THEN [t EXCEPT !.hash[key] = Nil,
                       !.hash_heap_key = @ \/ key \in HeapKeys,
                       !.tombstones = IF t.hash[key] = Nil THEN @ ELSE @ + 1]
        ELSE t,
     request |-> 0, replaced |-> 0]

OrdersBy(t, key) ==
    (t.policy # "Unordered" /\ key \notin IntKeys \union NumberKeys) \/ key \in HeapKeys

(* What SetHash does to the table before it asks for memory: it stays done *)
(* when the growth is then refused.                                        *)
BeforeHashGrowth(t, key, value) ==
    LET flagged == [t EXCEPT !.hash_heap_key = @ \/ key \in HeapKeys,
                             !.hash_heap_value = @ \/ value \in HeapValues]
        compacted == IF NeedsCompaction(flagged) THEN CompactHash(flagged) ELSE flagged
    IN  IF InHash(compacted, key) THEN compacted
        ELSE [compacted EXCEPT !.order_enabled = @ \/ OrdersBy(t, key)]

SetHash(t, key, value, keys) ==
    LET ready == BeforeHashGrowth(t, key, value)
        grown == GrowHash(ready, Cardinality(DOMAIN ready.hash) + 1, keys)
        entered(u) == [u EXCEPT !.hash = With(@, key, value)]
    IN  IF InHash(ready, key)
        THEN [table |-> entered([ready EXCEPT !.tombstones =
                                    IF ready.hash[key] = Nil THEN SaturatingDec(@, 1) ELSE @]),
              request |-> 0, replaced |-> 0]
        ELSE [grown EXCEPT !.table = entered(PushOrder(@, key))]

Set(t, key, value, keys) ==
    IF InArray(t, key) THEN SetArray(t, key, value, keys)
    ELSE IF key = Len(t.array) + 1 /\ value = Nil THEN SetBoundaryNil(t, key)
    ELSE IF key \in IntKeys /\ value # Nil
            /\ (key = Len(t.array) + 1 \/ GrowsOverHole(t, key))
    THEN SetGrowing(t, key, value)
    ELSE IF value = Nil THEN SetHashNil(t, key)
    ELSE SetHash(t, key, value, keys)

(* What a set that runs out of memory leaves behind. *)
SetRefused(t, key, value) ==
    IF key \in 1 .. Len(t.array) + 1 \/ (key \in IntKeys /\ GrowsOverHole(t, key))
    THEN t ELSE BeforeHashGrowth(t, key, value)

(* set_bytes: the prediction on which the VM decides to collect first.     *)
(* Mutant: a tombstone left in the hash part is taken to be free. *)
SetBytesFreeTombstone(t, key, value) ==
    IF value = Nil \/ InArray(t, key) \/ InHash(t, key) THEN 0 ELSE 1

HashGrowthBytes(t, required, track) ==
    LET order == IF track \/ OrderCapacity(t, required) # 0
                 THEN Max({t.hash_order_capacity, required}) ELSE 0
    IN  SaturatingDec(PartBytes(Max({t.hash_capacity, required}), order),
                      PartBytes(t.hash_capacity, t.hash_order_capacity))

SetBytes(t, key, value) ==
    LET required == Cardinality(DOMAIN t.hash) + 1
        end == RunEnd(t, key)
    IN  IF InArray(t, key)
        THEN IF value = Nil /\ t.array[key] # Nil /\ ~InHash(t, key)
             THEN HashGrowthBytes(t, required, FALSE) ELSE 0
        ELSE IF key = Len(t.array) + 1 /\ value # Nil
        THEN IF end <= t.array_capacity THEN 0
             ELSE IF end <= t.physical_capacity
             THEN ArrayBytes(end) - ArrayBytes(t.array_capacity)
             ELSE ArrayBytes(end)
        ELSE IF value = Nil \/ InHash(t, key) THEN 0
        ELSE HashGrowthBytes(t, required, OrdersBy(t, key))

-----------------------------------------------------------------------------
(* table_clear *)
Clear(t) ==
    [t EXCEPT !.array = [i \in DOMAIN @ |-> Nil],
              !.hash = <<>>, !.tombstones = 0,
              !.hash_order = <<>>, !.order_enabled = FALSE,
              !.preallocated = @ \/ t.array # <<>>]

(* Mutant: the array is cut at its first hole. *)
TrimArrayAtHole(t) ==
    [RemoveHash(t, Length(t) + 1 .. Len(t.array)) EXCEPT
        !.array = SubSeq(@, 1, Length(t))]

(* trim_array: the trailing nils leave, with the hash keys that stood for  *)
(* them.                                                                   *)
TrimArray(t) ==
    [RemoveHash(t, LastLive(t) + 1 .. Len(t.array)) EXCEPT
        !.array = SubSeq(@, 1, LastLive(t))]

TrimHash(t) ==
    LET kept == KeepLive(t)
        order == OrderOf(t, LiveHash(t))
        trimmed == [kept EXCEPT !.hash_capacity = Cardinality(DOMAIN kept.hash)]
    IN  IF t.hash_order_capacity = 0 THEN trimmed
        ELSE [trimmed EXCEPT !.hash_order = order, !.hash_order_capacity = Len(order)]

(* clear_weak_references on one weak table: the collector found the values *)
(* at the array indices `array` and the hash keys `hash` dead.             *)
ClearWeak(t, array, hash) ==
    LET nilled == [t EXCEPT !.array = [i \in DOMAIN @ |-> IF i \in array THEN Nil ELSE @[i]]]
    IN  TrimHash(TrimArray(RemoveHash(nilled, hash)))

(* Mutant: the order's share is not released. *)
WeakClearReleasesHash(t, u) ==
    SaturatingDec(PartBytes(t.hash_capacity, 0), PartBytes(u.hash_capacity, 0))

WeakClearReleases(t, u) ==
    SaturatingDec(PartBytes(t.hash_capacity, t.hash_order_capacity),
                  PartBytes(u.hash_capacity, u.hash_order_capacity))

-----------------------------------------------------------------------------
(* table_next.  `buckets` is the order in which the hash part is walked    *)
(* when it is not hash_order: HashMap's own order, or Luau's slot order.   *)

UsesBuckets(t) == t.hash_order_capacity = 0 \/ t.policy = "Luau"

HashSequence(t, buckets) == IF UsesBuckets(t) THEN buckets ELSE t.hash_order

(* The keys buckets ranges over. *)
BucketKeys(t) ==
    IF t.hash_order_capacity = 0 THEN DOMAIN t.hash
    ELSE {t.hash_order[i] : i \in DOMAIN t.hash_order}

Entry(key, value) == [kind |-> "entry", key |-> key, value |-> value]
End == [kind |-> "end"]
InvalidIterationKey == [kind |-> "invalid"]

(* The first live entry of the hash part after a position of its order.    *)
FirstLive(t, order, position) ==
    LET hits == {i \in position + 1 .. Len(order) : order[i] \in LiveHash(t)}
    IN  IF hits = {} THEN End ELSE Entry(order[Min(hits)], t.hash[order[Min(hits)]])

(* Mutant: the value is read at the zero-based index. *)
NextFromArrayShifted(t, start, buckets) ==
    LET hits == {i \in start + 1 .. Len(t.array) : t.array[i] # Nil}
    IN  IF hits # {} THEN Entry(Min(hits), t.array[Max({1, Min(hits) - 1})])
        ELSE FirstLive(t, HashSequence(t, buckets), 0)

NextFromArray(t, start, buckets) ==
    LET hits == {i \in start + 1 .. Len(t.array) : t.array[i] # Nil}
    IN  IF hits # {} THEN Entry(Min(hits), t.array[Min(hits)])
        ELSE FirstLive(t, HashSequence(t, buckets), 0)

NextEntry(t, key, buckets) ==
    LET order == HashSequence(t, buckets)
        positions == {i \in DOMAIN order : order[i] = key}
    IN  IF key = Nil THEN NextFromArray(t, 0, buckets)
        ELSE IF InArray(t, key)
        THEN IF t.array[key] # Nil \/ key \in Tombstones(t)
             THEN NextFromArray(t, key, buckets) ELSE InvalidIterationKey
        ELSE IF positions = {} THEN InvalidIterationKey
        ELSE FirstLive(t, order, Min(positions))
=============================================================================
