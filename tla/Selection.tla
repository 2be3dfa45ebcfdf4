------------------------------ MODULE Selection ------------------------------
(***************************************************************************)
(* Elements of a sequence by their positions, written so that a proof can  *)
(* say which positions they are.                                           *)
(***************************************************************************)
EXTENDS Integers, Sequences, FiniteSets

(* The numbers of a finite set in their order. *)
Ascending(N) ==
    [n \in 1 .. Cardinality(N) |-> CHOOSE k \in N : Cardinality({j \in N : j <= k}) = n]

(* The elements of s that are in S, in the order of s. *)
Selected(s, S) ==
    LET at == Ascending({n \in 1 .. Len(s) : s[n] \in S})
    IN  [n \in DOMAIN at |-> s[at[n]]]
=============================================================================
