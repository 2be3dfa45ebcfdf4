------------------------- MODULE MemoryLedgerProofs -------------------------
(***************************************************************************)
(* What MemoryLedger's runs check on small numbers, for every              *)
(* configuration of limits.                                                *)
(***************************************************************************)
EXTENDS MemoryLedger, TLAPS

(* The inductive invariant: the three safety properties hold each other    *)
(* up.  The balance bounds what a release may take, the limit bounds what  *)
(* the balance may reach, and the threshold stays below the limit.         *)
ThresholdWithinLimit == account.next_gc <= HardLimit

Inv ==
    /\ TypeOK
    /\ LedgerBalances
    /\ WithinLimit
    /\ ThresholdWithinLimit

(* Saturating arithmetic stays in usize. *)
LEMMA SaturateType ==
    ASSUME NEW n \in Nat
    PROVE  Saturate(n) \in Usize /\ Saturate(n) <= n
  BY ConfigAssumption DEF Saturate, Least, Usize

(* finish_collection only moves the threshold and the counter, and the     *)
(* threshold lands between the usage and the hard limit.                   *)
LEMMA FinishCollectionFacts ==
    ASSUME NEW a \in Account, a.current <= HardLimit
    PROVE  /\ FinishCollection(a) \in Account
           /\ FinishCollection(a).current = a.current
           /\ FinishCollection(a).peak = a.peak
           /\ FinishCollection(a).next_gc <= HardLimit
           /\ \A bytes \in Nat :
                bytes <= GcStart /\ a.current + bytes <= HardLimit
                    => a.current + bytes <= FinishCollection(a).next_gc
  <1> DEFINE scaled == a.current * GcGrowthPercent
             proportional == Saturate(scaled) \div 100
             growth == Greatest(proportional, GcStart)
             threshold == Saturate(a.current + growth)
  <1>1. a.current \in Nat /\ a.collections \in 0 .. U64Max
    BY ConfigAssumption DEF Account, Usize
  <1>2. scaled \in Nat
    BY <1>1, ConfigAssumption
  <1>3. Saturate(scaled) \in Nat
    BY <1>2, SaturateType, ConfigAssumption DEF Usize
  <1>4. proportional \in Nat
    <2> DEFINE s == Saturate(scaled)
    <2>1. s \in Nat
      BY <1>3
    <2> HIDE DEF s
    <2>2. s \div 100 \in Nat
      BY <2>1
    <2> QED
      BY <2>2 DEF s
  <1> HIDE DEF scaled, proportional
  <1>5. growth \in Nat /\ growth >= GcStart
    BY <1>4, ConfigAssumption DEF Greatest, Usize
  <1> HIDE DEF growth
  <1>6. a.current + growth \in Nat
    BY <1>1, <1>5
  <1>7. /\ threshold \in Usize
        /\ threshold = a.current + growth \/ threshold = UsizeMax
    BY <1>6, SaturateType DEF Saturate, Least
  <1> HIDE DEF threshold
  <1>8. FinishCollection(a) =
          [a EXCEPT !.collections = Least(a.collections + 1, U64Max),
                    !.next_gc = Least(threshold, HardLimit)]
    BY DEF FinishCollection, threshold, growth, proportional, scaled
  <1>9. Least(threshold, HardLimit) \in Usize /\ Least(threshold, HardLimit) <= HardLimit
    BY <1>7, ConfigAssumption DEF Least, Usize
  <1>10. Least(a.collections + 1, U64Max) \in 0 .. U64Max
    BY <1>1, ConfigAssumption DEF Least
  <1>11. \A bytes \in Nat :
            bytes <= GcStart /\ a.current + bytes <= HardLimit
                => a.current + bytes <= Least(threshold, HardLimit)
    BY <1>1, <1>5, <1>7, ConfigAssumption DEF Least, Usize
  <1> QED
    BY <1>8, <1>9, <1>10, <1>11 DEF Account

LEMMA InitInv == Init => Inv
  BY ConfigAssumption
     DEF Init, Inv, TypeOK, LedgerBalances, WithinLimit, ThresholdWithinLimit,
         New, NoReservation, Account, Usize, Least, Results

LEMMA NextInv == Inv /\ [Next]_vars => Inv'
  <1> SUFFICES ASSUME Inv, [Next]_vars
               PROVE  Inv'
    OBVIOUS
  <1> USE ConfigAssumption, RequestAssumption
  <1>1. ASSUME NEW bytes \in Requests, Reserve(bytes)
        PROVE  Inv'
    <2>1. CASE CanReserve(account, bytes)
      <3>1. /\ account.current + bytes <= HardLimit
            /\ account.current \in Nat /\ account.peak \in Nat /\ bytes \in Nat
            /\ bytes <= MaxSingle
        BY <2>1 DEF Inv, TypeOK, CanReserve, ReserveError, Account, Usize, Requests
      <3>2. /\ account' = Reserved(account, bytes)
            /\ reservation' = [open |-> TRUE, bytes |-> bytes]
            /\ held' = held /\ result' = "ok" /\ ~reservation.open
        BY <1>1, <2>1 DEF Reserve, CanReserve
      <3>3. /\ account'.current = account.current + bytes
            /\ account'.peak = Greatest(account.peak, account.current + bytes)
            /\ account'.next_gc = account.next_gc
            /\ account'.collections = account.collections
            /\ account' = [current |-> account'.current, peak |-> account'.peak,
                           next_gc |-> account'.next_gc, collections |-> account'.collections]
        BY <3>2 DEF Inv, TypeOK, Reserved, Account
      <3>4. account'.current <= account'.peak /\ account'.peak <= HardLimit /\ account'.peak \in Nat
        BY <3>1, <3>3 DEF Inv, WithinLimit, Greatest
      <3>5. TypeOK'
        <4>1. account' \in Account
          BY <3>1, <3>3, <3>4 DEF Inv, TypeOK, Account, Usize
        <4>2. reservation' \in [open : BOOLEAN, bytes : Usize]
          BY <3>1, <3>2 DEF Usize
        <4> QED
          BY <3>2, <4>1, <4>2 DEF Inv, TypeOK, Results
      <3>6. LedgerBalances'
        BY <3>1, <3>2, <3>3 DEF Inv, LedgerBalances, TypeOK, Usize
      <3> QED
        BY <3>1, <3>2, <3>3, <3>4, <3>5, <3>6 DEF Inv, WithinLimit, ThresholdWithinLimit
    <2>2. CASE ~CanReserve(account, bytes)
      BY <1>1, <2>2
         DEF Inv, TypeOK, LedgerBalances, WithinLimit, ThresholdWithinLimit, Reserve,
             ReserveError, Results
    <2> QED
      BY <2>1, <2>2
  <1>2. ASSUME Commit
        PROVE  Inv'
    BY <1>2 DEF Inv, TypeOK, LedgerBalances, WithinLimit, ThresholdWithinLimit, Commit,
                NoReservation, Account, Usize, Results
  <1>3. ASSUME NEW replaced \in Requests, CommitReplacingStep(replaced)
        PROVE  Inv'
    BY <1>3 DEF Inv, TypeOK, LedgerBalances, WithinLimit, ThresholdWithinLimit,
                CommitReplacingStep, CanCommitReplacing, CommitReplacing, RolledBack,
                NoReservation, Account, Usize, Requests, Results
  <1>4. ASSUME DropReservation
        PROVE  Inv'
    BY <1>4 DEF Inv, TypeOK, LedgerBalances, WithinLimit, ThresholdWithinLimit,
                DropReservation, RolledBack, NoReservation, Account, Usize
  <1>5. ASSUME NEW bytes \in Requests, Release(bytes)
        PROVE  Inv'
    BY <1>5 DEF Inv, TypeOK, LedgerBalances, WithinLimit, ThresholdWithinLimit, Release,
                CanRelease, Released, Account, Usize, Requests, Results
  <1>6. ASSUME EndCollection
        PROVE  Inv'
    <2>1. account.current <= HardLimit /\ account \in Account
      BY DEF Inv, TypeOK, WithinLimit, Account, Usize
    <2> QED
      BY <1>6, <2>1, FinishCollectionFacts
         DEF Inv, TypeOK, LedgerBalances, WithinLimit, ThresholdWithinLimit, EndCollection
  <1>7. CASE UNCHANGED vars
    BY <1>7 DEF Inv, TypeOK, LedgerBalances, WithinLimit, ThresholdWithinLimit, vars
  <1> QED
    BY <1>1, <1>2, <1>3, <1>4, <1>5, <1>6, <1>7 DEF Next

(* The account's fields stay in their Rust types: no counter of memory.rs  *)
(* ever wraps, whatever a client requests, replaces or releases.           *)
THEOREM TypeCorrect == Spec => []TypeOK
  <1>1. Inv => TypeOK
    BY DEF Inv
  <1> QED
    BY <1>1, InitInv, NextInv, PTL DEF Spec

(* No byte is lost or kept by any path through the reservation guard.      *)
THEOREM LedgerAlwaysBalances == Spec => []LedgerBalances
  <1>1. Inv => LedgerBalances
    BY DEF Inv
  <1> QED
    BY <1>1, InitInv, NextInv, PTL DEF Spec

(* The hard limit holds in every state, open reservations included, and    *)
(* what is reserved at once never passes the single-allocation limit.      *)
THEOREM AlwaysWithinLimit == Spec => []WithinLimit
  <1>1. Inv => WithinLimit
    BY DEF Inv
  <1> QED
    BY <1>1, InitInv, NextInv, PTL DEF Spec

(* Whatever the hard limit refuses, should_collect had flagged.            *)
THEOREM RefusalFollowsPressure == Spec => []PressureBeforeRefusal
  <1>1. Inv => PressureBeforeRefusal
    BY ConfigAssumption, RequestAssumption
       DEF Inv, TypeOK, ThresholdWithinLimit, PressureBeforeRefusal, CanReserve,
           ReserveError, ShouldCollect, Account, Usize, Requests
  <1> QED
    BY <1>1, InitInv, NextInv, PTL DEF Spec

(* A finished collection buys at least gc_start_bytes of allocation, or    *)
(* all that the hard limit leaves.                                         *)
THEOREM CollectionsLeaveRoom == Spec => CollectionLeavesRoom
  <1> DEFINE Room == \A bytes \in Requests :
                       bytes <= GcStart /\ account.current + bytes <= HardLimit
                           => ~ShouldCollect(account', bytes)
             Step == account'.collections # account.collections => Room
  <1>1. Inv /\ [Next]_vars => [Step]_vars
    <2> SUFFICES ASSUME Inv, [Next]_vars, account'.collections # account.collections
                 PROVE  Room
      OBVIOUS
    <2>1. account \in Account /\ account.current <= HardLimit
      BY ConfigAssumption DEF Inv, TypeOK, WithinLimit, Account, Usize
    <2>2. EndCollection
      BY <2>1 DEF Next, Reserve, Commit, CommitReplacingStep, DropReservation, Release, vars,
             Reserved, CommitReplacing, RolledBack, Released, Account
    <2>3. account'.current = account.current /\ account'.next_gc <= HardLimit
      BY <2>1, <2>2, FinishCollectionFacts DEF EndCollection
    <2>4. \A bytes \in Nat :
             bytes <= GcStart /\ account.current + bytes <= HardLimit
                 => account.current + bytes <= account'.next_gc
      BY <2>1, <2>2, FinishCollectionFacts DEF EndCollection
    <2>5. account' \in Account
      BY <2>1, <2>2, FinishCollectionFacts DEF EndCollection
    <2> QED
      BY <2>1, <2>3, <2>4, <2>5, ConfigAssumption, RequestAssumption
         DEF ShouldCollect, Account, Usize, Requests
  <1> QED
    BY <1>1, InitInv, NextInv, PTL DEF Spec, CollectionLeavesRoom
=============================================================================
