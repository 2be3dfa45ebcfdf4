---------------------------- MODULE MemoryLedger ----------------------------
(***************************************************************************)
(* The account of MemoryAccount driven through its public interface:       *)
(* reserve, the three ends of a reservation, release and                   *)
(* finish_collection (crates/blu-runtime/src/memory.rs).                   *)
(*                                                                         *)
(* A MemoryReservation borrows the account mutably, so no other operation  *)
(* can run while one is open.  `held` is a history variable: the bytes     *)
(* that clients committed and have not given back.                         *)
(***************************************************************************)
EXTENDS MemoryAccount

CONSTANT MaxRequest     \* bound: the largest request a client makes

ASSUME RequestAssumption == MaxRequest \in Nat

VARIABLES
    account,        \* MemoryAccount
    reservation,    \* the open MemoryReservation, if any
    held,           \* history: committed and not yet released
    result          \* what the last operation returned

vars == <<account, reservation, held, result>>

Requests == 0 .. MaxRequest

NoReservation == [open |-> FALSE, bytes |-> 0]

Results == {"ok", "LimitExceeded", "SizeOverflow", "AccountingUnderflow"}

TypeOK ==
    /\ account \in Account
    /\ reservation \in [open : BOOLEAN, bytes : Usize]
    /\ held \in Usize
    /\ result \in Results

Init ==
    /\ account = New
    /\ reservation = NoReservation
    /\ held = 0
    /\ result = "ok"

Reserve(bytes) ==
    /\ ~reservation.open
    /\ result' = ReserveError(account, bytes)
    /\ IF CanReserve(account, bytes)
       THEN /\ account' = Reserved(account, bytes)
            /\ reservation' = [open |-> TRUE, bytes |-> bytes]
       ELSE UNCHANGED <<account, reservation>>
    /\ UNCHANGED held

Commit ==
    /\ reservation.open
    /\ held' = held + reservation.bytes
    /\ reservation' = NoReservation
    /\ result' = "ok"
    /\ UNCHANGED account

(* On the error path the reservation is dropped uncommitted: rolled back. *)
CommitReplacingStep(replaced) ==
    /\ reservation.open
    /\ reservation' = NoReservation
    /\ IF CanCommitReplacing(account, reservation.bytes, replaced)
       THEN /\ account' = CommitReplacing(account, replaced)
            /\ held' = held + reservation.bytes - replaced
            /\ result' = "ok"
       ELSE /\ account' = RolledBack(account, reservation.bytes)
            /\ result' = "AccountingUnderflow"
            /\ UNCHANGED held

(* The host allocation failed (try_reserve) and `?` dropped the guard. *)
DropReservation ==
    /\ reservation.open
    /\ account' = RolledBack(account, reservation.bytes)
    /\ reservation' = NoReservation
    /\ UNCHANGED <<held, result>>

Release(bytes) ==
    /\ ~reservation.open
    /\ IF CanRelease(account, bytes)
       THEN /\ account' = Released(account, bytes)
            /\ held' = held - bytes
            /\ result' = "ok"
       ELSE /\ result' = "AccountingUnderflow"
            /\ UNCHANGED <<account, held>>
    /\ UNCHANGED reservation

EndCollection ==
    /\ ~reservation.open
    /\ account' = FinishCollection(account)
    /\ UNCHANGED <<reservation, held, result>>

Next ==
    \/ \E bytes \in Requests : Reserve(bytes)
    \/ Commit
    \/ \E replaced \in Requests : CommitReplacingStep(replaced)
    \/ DropReservation
    \/ \E bytes \in Requests : Release(bytes)
    \/ EndCollection

Spec == Init /\ [][Next]_vars

-----------------------------------------------------------------------------
(* Every byte the account reports is owed to a committed charge or to the  *)
(* reservation that is open: no path through reserve, commit,              *)
(* commit_replacing (its error path included), Drop and release loses or   *)
(* keeps a byte.                                                           *)
LedgerBalances ==
    account.current = held + (IF reservation.open THEN reservation.bytes ELSE 0)

(* The usage never passes the hard limit, not even transiently while a     *)
(* reservation for a replacement is open, the peak is a true high water    *)
(* mark between the usage and the limit, and no reservation that was       *)
(* granted is beyond the limit of a single allocation.                     *)
WithinLimit ==
    /\ account.current <= account.peak
    /\ account.peak <= HardLimit
    /\ reservation.open => reservation.bytes <= MaxSingle

(* A request that the hard limit refuses is a request for which            *)
(* should_collect has asked for a collection first: the threshold never    *)
(* passes the limit, so no allocation fails while garbage was never looked *)
(* for.  (A request beyond max_single_allocation_bytes is refused anyway.) *)
PressureBeforeRefusal ==
    \A bytes \in Requests :
        bytes <= MaxSingle /\ ~CanReserve(account, bytes)
            => ShouldCollect(account, bytes)

(* finish_collection leaves room: until gc_start_bytes more are asked for  *)
(* no request triggers the next collection, unless the hard limit is       *)
(* nearer than that.                                                       *)
CollectionLeavesRoom ==
    [][account'.collections # account.collections
         => \A bytes \in Requests :
                bytes <= GcStart /\ account.current + bytes <= HardLimit
                    => ~ShouldCollect(account', bytes)]_vars

=============================================================================
