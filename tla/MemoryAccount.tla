--------------------------- MODULE MemoryAccount ---------------------------
(***************************************************************************)
(* The byte account of crates/blu-runtime/src/memory.rs, as operators on   *)
(* an account record.  The account holds no allocation: it is the counter  *)
(* that every allocation path of the heap (heap.rs, vm.rs) must consult.   *)
(*                                                                         *)
(* `hard_limit_bytes: None` is HardLimit = UsizeMax: each sum is checked   *)
(* for overflow before it is compared with the limit, so a limit of        *)
(* usize::MAX never refuses anything more and never lowers a threshold.    *)
(***************************************************************************)
EXTENDS Integers

CONSTANTS
    UsizeMax,           \* the largest usize
    U64Max,             \* the largest u64, where `collections` saturates
    HardLimit,          \* MemoryConfig::hard_limit_bytes
    MaxSingle,          \* MemoryConfig::max_single_allocation_bytes
    GcStart,            \* MemoryConfig::gc_start_bytes
    GcGrowthPercent     \* MemoryConfig::gc_growth_percent

ASSUME ConfigAssumption ==
    /\ UsizeMax \in Nat
    /\ U64Max \in Nat
    /\ HardLimit \in 0 .. UsizeMax
    /\ MaxSingle \in 0 .. UsizeMax
    /\ GcStart \in 0 .. UsizeMax
    /\ GcGrowthPercent \in Nat

Usize == 0 .. UsizeMax

Account == [current : Usize, peak : Usize, next_gc : Usize,
            collections : 0 .. U64Max]

Least(a, b) == IF a <= b THEN a ELSE b
Greatest(a, b) == IF a >= b THEN a ELSE b

(* saturating_add and saturating_mul of a usize *)
Saturate(n) == Least(n, UsizeMax)

New == [current |-> 0, peak |-> 0, next_gc |-> Least(GcStart, HardLimit),
        collections |-> 0]

(* A request that would overflow the counter is pressure as well. *)
ShouldCollect(a, bytes) ==
    \/ a.current + bytes > UsizeMax
    \/ a.current + bytes > a.next_gc

(* Mutant: the hard limit is compared before the request is added. *)
ReserveErrorStale(a, bytes) ==
    IF bytes > MaxSingle \/ a.current > HardLimit THEN "LimitExceeded"
    ELSE IF a.current + bytes > UsizeMax THEN "SizeOverflow"
    ELSE "ok"

(* The error of reserve, in the order in which the code tests for it. *)
ReserveError(a, bytes) ==
    IF bytes > MaxSingle THEN "LimitExceeded"
    ELSE IF a.current + bytes > UsizeMax THEN "SizeOverflow"
    ELSE IF a.current + bytes > HardLimit THEN "LimitExceeded"
    ELSE "ok"

CanReserve(a, bytes) == ReserveError(a, bytes) = "ok"

(* A granted reservation is charged at once; commit only disarms Drop. *)
Reserved(a, bytes) ==
    [a EXCEPT !.current = @ + bytes,
              !.peak = Greatest(@, a.current + bytes)]

CanCommitReplacing(a, bytes, replaced) == replaced <= a.current - bytes

CommitReplacing(a, replaced) == [a EXCEPT !.current = @ - replaced]

(* Mutant: Drop does not give an uncommitted reservation back. *)
RolledBackNot(a, bytes) == a

(* Drop of a reservation that was not committed. *)
RolledBack(a, bytes) == [a EXCEPT !.current = @ - bytes]

CanRelease(a, bytes) == bytes <= a.current

Released(a, bytes) == [a EXCEPT !.current = @ - bytes]

(* Mutant: the next threshold ignores what survived the collection. *)
FinishCollectionFromZero(a) ==
    [a EXCEPT !.collections = Least(@ + 1, U64Max),
              !.next_gc = Least(GcStart, HardLimit)]

(* Mutant: the next threshold is not clamped to the hard limit. *)
FinishCollectionUnclamped(a) ==
    [a EXCEPT !.collections = Least(@ + 1, U64Max),
              !.next_gc = Saturate(a.current
                            + Greatest(Saturate(a.current * GcGrowthPercent) \div 100, GcStart))]

FinishCollection(a) ==
    LET proportional == Saturate(a.current * GcGrowthPercent) \div 100
        growth == Greatest(proportional, GcStart)
        threshold == Saturate(a.current + growth)
    IN  [a EXCEPT !.collections = Least(@ + 1, U64Max),
                  !.next_gc = Least(threshold, HardLimit)]

(* The whole life of a growth: reserve the new size while the old buffer   *)
(* is still charged, then commit and give the old size back.               *)
Replaced(a, new, old) == CommitReplacing(Reserved(a, new), old)
=============================================================================
