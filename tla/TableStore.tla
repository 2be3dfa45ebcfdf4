----------------------------- MODULE TableStore -----------------------------
(***************************************************************************)
(* One table behind the heap's table interface (crates/blu-runtime/src/    *)
(* heap.rs: table_set, table_clear, table_freeze,                          *)
(* table_mark_preallocated_array_boundary, table_next, and the collector's *)
(* clear_weak_references), charged to the account of MemoryAccount, with   *)
(* one guest traversal (`pairs`) running beside the mutations.             *)
(***************************************************************************)
EXTENDS LuaTable, MemoryAccount, SequencesExt

CONSTANTS
    TablePolicies,      \* the iteration policies the table may be created with
    ArraySizes, HashSizes,  \* the capacities it may be created with
    WeakModes,          \* the weak modes it may have, subsets of {"k", "v"}
    Walks               \* whether a traversal runs

ASSUME StoreAssumption ==
    /\ TablePolicies \subseteq Policies
    /\ ArraySizes \subseteq Nat /\ HashSizes \subseteq Nat
    /\ WeakModes \subseteq SUBSET {"k", "v"}
    /\ Walks \in BOOLEAN

VARIABLES
    t,          \* the table
    weak_mode,  \* the mode its metatable declares
    used,       \* current_bytes of the heap's account, less other objects
    map,        \* history: what a Lua program may expect the table to hold
    walk        \* the traversal

vars == <<t, weak_mode, used, map, walk>>

Promise == INSTANCE TableMap

(* The account as reserve sees it: the other counters are MemoryLedger's.  *)
Bytes == [New EXCEPT !.current = used]

(* The traversal: the key that table_next gets next, the opaque order of   *)
(* the hash part, the keys returned so far, whether one was returned       *)
(* again, the keys that were in the table all along, what the last call    *)
(* returned, and three events beneath it: `shrunk`, the hash part gave up  *)
(* capacity while its order was opaque; `rehashed`, the hash part grew     *)
(* under the walk for the tombstone of a cleared array key; `compacted`,   *)
(* compact_hash dropped the tombstone of the current key.                  *)
NoWalk == [active |-> FALSE, cursor |-> Nil, buckets |-> <<>>, seen |-> {},
           again |-> FALSE, stable |-> {}, last |-> End,
           shrunk |-> FALSE, rehashed |-> FALSE, compacted |-> FALSE]

Init ==
    /\ \E policy \in TablePolicies, array \in ArraySizes, hash \in HashSizes :
         /\ t = NewTable(array, hash, policy)
         /\ CanReserve(New, DynamicBytes(t))
         /\ used = DynamicBytes(t)
    /\ weak_mode \in WeakModes
    /\ Promise!Init
    /\ walk = NoWalk

-----------------------------------------------------------------------------
(* The order of HashMap and of Luau's node array is opaque.  While the set *)
(* of keys and the capacity stay, so does the order; a new key may land    *)
(* anywhere, a growth or shrink may reshuffle everything.                  *)

Reshuffled(u) ==
    \/ u.hash_capacity # t.hash_capacity
    \/ u.hash_order_capacity # t.hash_order_capacity
    \/ BucketKeys(u) \ BucketKeys(t) # {} /\ u.policy = "Luau"

(* Two keys of order o that stood in `buckets` already stand as they did.  *)
SameOrder(o, buckets) ==
    \A i, j \in DOMAIN o, k, l \in DOMAIN buckets :
        o[i] = buckets[k] /\ o[j] = buckets[l] /\ i < j => k < l

Orders(u, buckets) ==
    IF ~UsesBuckets(u) THEN {<<>>}
    ELSE IF Reshuffled(u) THEN SetToSeqs(BucketKeys(u))
    ELSE {o \in SetToSeqs(BucketKeys(u)) : SameOrder(o, buckets)}

(* A refused growth may have reallocated the HashMap before the part of    *)
(* its request that failed.                                                *)
OrdersRefused(u, buckets) ==
    IF u.hash_order_capacity = 0 THEN SetToSeqs(BucketKeys(u)) ELSE Orders(u, buckets)

(* The traversal goes on beside a mutation that leaves table u.  One that  *)
(* a new key disturbs is given up, since Lua leaves `next` undefined from  *)
(* there on.                                                               *)
Shrinks(u) ==
    \/ u.hash_capacity < t.hash_capacity
    \/ u.hash_order_capacity < t.hash_order_capacity

LosesCurrent(u) == NeedsCompaction(t) /\ walk.cursor \in Tombstones(t) \ DOMAIN u.hash

(* Clearing an array key leaves a tombstone in the hash part.  If that must *)
(* grow for it, to table u, a walk that stands in an opaque order goes on  *)
(* in another one.                                                         *)
Rehashes(key, value, u) ==
    /\ InArray(t, key) /\ value = Nil
    /\ UsesBuckets(t) /\ walk.cursor # Nil /\ ~InArray(t, walk.cursor)
    /\ Reshuffled(u)

WalkBeside(u, disturbs, rehashes, orders) ==
    IF ~walk.active \/ disturbs THEN walk' = NoWalk
    ELSE \E order \in orders :
            walk' = [walk EXCEPT
                !.buckets = order,
                !.stable = {key \in @ : Get(u, key) # Nil},
                !.shrunk = @ \/ (UsesBuckets(t) /\ Shrinks(u)),
                !.rehashed = @ \/ rehashes,
                !.compacted = @ \/ LosesCurrent(u)]

Disturbs(key, value) == Get(t, key) = Nil /\ value # Nil

-----------------------------------------------------------------------------
(* Operations                                                              *)

(* The order in which HashMap::keys yields the keys when tracking starts.  *)
KeyOrders(key, value) ==
    LET ready == IF InArray(t, key) THEN t ELSE BeforeHashGrowth(t, key, value)
        required == Cardinality(DOMAIN ready.hash) + 1
    IN  IF ~StartsOrder(ready, required) THEN {<<>>}
        ELSE IF walk.active /\ required <= t.hash_capacity /\ DOMAIN ready.hash = BucketKeys(t)
        THEN {walk.buckets}
        ELSE SetToSeqs(DOMAIN ready.hash)

TableSet(key, value) ==
    /\ ~t.frozen
    /\ \E keys \in KeyOrders(key, value) :
         LET out == Set(t, key, value, keys)
         IN  /\ CanReserve(Bytes, out.request)
             /\ t' = out.table
             /\ used' = Replaced(Bytes, out.request, out.replaced).current
             /\ WalkBeside(out.table, Disturbs(key, value), Rehashes(key, value, out.table),
                           Orders(out.table, walk.buckets))
    /\ Promise!Put(key, value)
    /\ UNCHANGED weak_mode

(* The growth is refused: by the limits before anything is reserved, or by *)
(* the host allocator, whose failure drops the reservation.                *)
TableSetFails(key, value) ==
    /\ ~t.frozen
    /\ LET out == Set(t, key, value, SetToSeq(DOMAIN t.hash))
       IN  /\ out.request # 0
           /\ used' = IF CanReserve(Bytes, out.request)
                      THEN RolledBack(Reserved(Bytes, out.request), out.request).current
                      ELSE used
           /\ t' = SetRefused(t, key, value)
           /\ LET u == SetRefused(t, key, value)
              IN  WalkBeside(u, Disturbs(key, value), Rehashes(key, value, out.table),
                             OrdersRefused(u, walk.buckets))
    /\ UNCHANGED <<map, weak_mode>>

TableClear ==
    /\ ~t.frozen
    /\ t' = Clear(t)
    /\ Promise!Clear
    /\ WalkBeside(Clear(t), TRUE, FALSE, {})
    /\ UNCHANGED <<used, weak_mode>>

(* table.create and table.clone mark a table that they have just allocated. *)
MarkPreallocated ==
    /\ t = NewTable(t.array_capacity, t.hash_capacity, t.policy)
    /\ t' = [t EXCEPT !.preallocated = TRUE]
    /\ UNCHANGED <<used, map, walk, weak_mode>>

TableFreeze ==
    /\ ~t.frozen
    /\ t' = [t EXCEPT !.frozen = TRUE]
    /\ UNCHANGED <<used, map, walk, weak_mode>>

(* The collector found objects that nothing else holds (a register holds   *)
(* the current key of the traversal).  A frozen table is cleared as well.  *)
WeakCollect(deadKeys, deadValues) ==
    /\ walk.cursor \notin deadKeys
    /\ LET array == {i \in 1 .. Len(t.array) : t.array[i] \in deadValues}
           hash == {key \in DOMAIN t.hash : t.hash[key] \in deadValues \/ key \in deadKeys}
           u == ClearWeak(t, array, hash)
       IN  /\ array # {} \/ hash # {}
           /\ t' = u
           /\ used' = Released(Bytes, WeakClearReleases(t, u)).current
           /\ WalkBeside(u, FALSE, FALSE, Orders(u, walk.buckets))
    /\ Promise!Forget(deadKeys, deadValues)
    /\ UNCHANGED weak_mode

(* `next` called with nil starts a traversal. *)
WalkStart ==
    /\ Walks
    /\ ~walk.active
    /\ \E order \in (IF UsesBuckets(t) THEN SetToSeqs(BucketKeys(t)) ELSE {<<>>}) :
         walk' = [NoWalk EXCEPT !.active = TRUE, !.buckets = order,
                                !.stable = {key \in Keys : Get(t, key) # Nil}]
    /\ UNCHANGED <<t, used, map, weak_mode>>

(* One call of table_next with the key it returned last. *)
WalkNext ==
    /\ walk.active
    /\ LET entry == NextEntry(t, walk.cursor, walk.buckets)
       IN  walk' = IF entry.kind = "entry"
                   THEN [walk EXCEPT !.cursor = entry.key, !.last = entry,
                                     !.again = @ \/ entry.key \in walk.seen,
                                     !.seen = @ \union {entry.key}]
                   ELSE [walk EXCEPT !.active = FALSE, !.last = entry, !.buckets = <<>>]
    /\ UNCHANGED <<t, used, map, weak_mode>>

Next ==
    \/ \E key \in Keys, value \in Slots : TableSet(key, value)
    \/ \E key \in Keys, value \in Slots : TableSetFails(key, value)
    \/ TableClear
    \/ MarkPreallocated
    \/ TableFreeze
    \/ \E deadKeys \in SUBSET Promise!WeakKeys, deadValues \in SUBSET Promise!WeakValues :
          WeakCollect(deadKeys, deadValues)
    \/ WalkStart
    \/ WalkNext

Spec == Init /\ [][Next]_vars
-----------------------------------------------------------------------------
(* The state keeps its shape, and the array never grows past the largest   *)
(* key that was written.                                                   *)
TypeOK ==
    /\ t \in Table /\ Len(t.array) <= MaxKey
    /\ used \in Usize /\ weak_mode \in WeakModes
    /\ map \in [Keys -> Slots]
    /\ walk.active \in BOOLEAN /\ walk.seen \subseteq Keys /\ walk.stable \subseteq Keys

(* Every read agrees with the writes: table_get returns for each key what  *)
(* was last stored there, whichever part of the table holds it and however *)
(* often it moved between the two.                                         *)
Contents == [key \in Keys |-> Get(t, key)]
ReadsSeeWrites == Contents = map

(* The same for a weak table that never saw nil written just past its      *)
(* array: what the collector clears is exactly what is dead.               *)
WeakReadsSeeWrites == ~t.nil_write => ReadsSeeWrites

(* What reads return changes as a plain map does: a write changes one key  *)
(* whatever moves between the parts, and in a table that is not weak it is *)
(* the key and the value that were written, and nothing when the write was *)
(* refused.                                                                *)
Abstract == INSTANCE TableMap WITH map <- Contents
ImplementsMap == Abstract!Spec /\ [][weak_mode = {} => Contents' = map']_vars

(* In a table that never saw nil written just past its array, no key has a *)
(* value in both parts, and none waits in the hash part for an array that  *)
(* has already reached it: contiguous_hash_values_after moves every run    *)
(* the moment it becomes contiguous.                                       *)
PartsDisjoint ==
    ~t.nil_write =>
        \A key \in LiveHash(t) \intersect IntKeys :
            /\ key > Len(t.array) + 1
            /\ t.tracks_legacy => key > t.legacy_array_capacity + 1

(* The capacities that Object::dynamic_bytes reads when the table is swept *)
(* are the bytes the account was charged for it, after any sequence of     *)
(* growths, refused growths, clears and weak clears.                       *)
ChargeMatchesCapacity == used = DynamicBytes(t)

(* hash_tombstones, from which `set` decides to compact, is the number of  *)
(* tombstones.                                                             *)
TombstonesCounted == ~t.nil_write => t.tombstones = Cardinality(Tombstones(t))

(* The three flags with which the collector skips whole parts of a table   *)
(* never hide a reference: an object in a part whose flag is clear would   *)
(* be swept while the table still holds it.                                *)
FlagsCoverReferences ==
    /\ (\E i \in DOMAIN t.array : t.array[i] \in HeapValues) => t.array_heap
    /\ (\E key \in LiveHash(t) : t.hash[key] \in HeapValues) => t.hash_heap_value
    /\ LiveHash(t) \intersect HeapKeys # {} => t.hash_heap_key

(* Once an order is tracked it lists every key of the hash part, once:     *)
(* `next` walks the order and would never return a key missing from it.    *)
OrderCoversHash ==
    t.hash_order_capacity # 0 =>
        /\ \A key \in DOMAIN t.hash : \E i \in DOMAIN t.hash_order : t.hash_order[i] = key
        /\ \A i, j \in DOMAIN t.hash_order : t.hash_order[i] = t.hash_order[j] => i = j

(* `#t` is a border in the profiles that use Length: zero or a key with a  *)
(* value, before a key without one; the other length rules may disagree    *)
(* about which, but they never answer a key without a value.               *)
LengthsEndAtValues ==
    /\ Get(t, Length(t) + 1) = Nil
    /\ \A n \in {Length(t), ModernLength(t), LegacyLength(t), LuauLength(t), MaxNumericKey(t)} :
          n # 0 => Get(t, n) # Nil

(* The representation of a table stays consistent with itself and with the *)
(* memory account: the parts, the charge, the tombstone count, the flags,  *)
(* the order and the lengths all describe the same contents.               *)
RepresentationSound ==
    /\ PartsDisjoint
    /\ ChargeMatchesCapacity
    /\ TombstonesCounted
    /\ FlagsCoverReferences
    /\ OrderCoversHash
    /\ LengthsEndAtValues

(* The order vector stays within the capacity it is charged by.            *)
OrderWithinCharge == Len(t.hash_order) <= t.hash_order_capacity

(* A write for which set_bytes predicts no bytes asks for none: the VM     *)
(* does not consider a collection before a write it takes to be free.      *)
FreeWritesAreFree ==
    \A key \in Keys, value \in Slots :
        SetBytes(t, key, value) = 0
            => Set(t, key, value, SetToSeq(DOMAIN t.hash)).request = 0

(* The same for tables that do not track the legacy array boundary and     *)
(* have not been left by a refused write with an order asked for, which    *)
(* the next growth of the hash part starts.                                *)
OrderPending == t.order_enabled /\ t.hash_order_capacity = 0
FreeWritesAreFreeOtherwise == ~t.tracks_legacy /\ ~OrderPending => FreeWritesAreFree

(* A traversal that is not disturbed returns no key twice and, when it     *)
(* ends, has returned every key that was in the table all along: whatever  *)
(* was assigned, cleared or collected meanwhile.                           *)
WalkVisitsOnce ==
    /\ ~walk.again
    /\ ~walk.active /\ walk.last.kind = "end" => walk.stable \subseteq walk.seen

(* The same, unless nil was written just past the array, a collection      *)
(* shrank the hash part of a weak table while its order was opaque, or the *)
(* hash part grew under the walk because an array key was cleared.         *)
WalkOrderKept == ~walk.shrunk /\ ~walk.rehashed
WalkVisitsOnceUnlessReordered == ~t.nil_write /\ WalkOrderKept => WalkVisitsOnce

(* `next` pairs a key with the value that a read of the key returns.       *)
WalkReturnsReads ==
    [][~t.nil_write /\ walk'.last.kind = "entry" /\ walk'.seen # walk.seen =>
         walk'.last.value = Get(t, walk'.last.key)]_vars

(* Clearing the current key, or assigning to any key there is, leaves the  *)
(* current key a valid argument of `next`.                                 *)
WalkContinues == walk.last.kind # "invalid"

(* The same for tables that are not weak, unless a write to another key    *)
(* compacted the hash part after the current key was cleared.              *)
WalkContinuesUnlessCompacted == weak_mode = {} /\ ~walk.compacted => WalkContinues

(* A traversal beside the writes that Lua allows is complete, repeats no   *)
(* key and goes on after its current key is cleared, with the exceptions   *)
(* above.                                                                  *)
TraversalSound == WalkVisitsOnceUnlessReordered /\ WalkContinuesUnlessCompacted
=============================================================================
