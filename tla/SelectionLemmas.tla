-------------------------- MODULE SelectionLemmas --------------------------
(***************************************************************************)
(* Facts about numbers and sequences that the proofs share: least numbers, *)
(* steps from number to number, ascending positions, and sequences that    *)
(* list the elements of a set, each once.                                  *)
(***************************************************************************)
EXTENDS Selection, SequencesExt, FiniteSetTheorems, SequenceTheorems, WellFoundedInduction, TLAPS

(* A set of naturals that is not empty has a least element.                *)
LEMMA LeastNatural ==
    ASSUME NEW A \in SUBSET Nat, A # {}
    PROVE  \E m \in A : \A k \in A : m <= k
<1> DEFINE R == OpToRel(<, Nat)
<1>1. IsWellFoundedOn(R, Nat)
  BY NatLessThanWellFounded
<1>2. \A x, y \in Nat : y < x => <<y, x>> \in R
  BY DEF OpToRel
<1> HIDE DEF R
<1>3. PICK m \in A : \A k \in A : ~(<<k, m>> \in R)
  BY <1>1, WFMin
<1>4. ASSUME NEW k \in A PROVE m <= k
  <2>1. k \in Nat /\ m \in Nat
    OBVIOUS
  <2>2. ~(k < m)
    BY <2>1, <1>2, <1>3
  <2> QED BY <2>1, <2>2
<1> QED BY <1>4

(* What holds of first and passes from each number to the next holds of    *)
(* all of them: I is the set of the numbers of which it holds.             *)
LEMMA Upward ==
    ASSUME NEW first \in Nat, NEW last \in Nat, NEW I, first \in I,
           \A k \in first + 1 .. last : k - 1 \in I => k \in I
    PROVE  \A k \in first .. last : k \in I
<1> SUFFICES ASSUME NEW j \in first .. last, j \notin I PROVE FALSE
  OBVIOUS
<1> DEFINE B == {k \in first .. last : k \notin I}
<1>1. B \in SUBSET Nat /\ B # {}
  OBVIOUS
<1>2. PICK m \in B : \A k \in B : m <= k
  <2> HIDE DEF B
  <2> QED BY <1>1, LeastNatural
<1>3. m \in first + 1 .. last /\ m \notin I
  BY <1>2
<1>4. m - 1 \in first .. last /\ ~(m <= m - 1)
  BY <1>3
<1>5. m - 1 \in I
  BY <1>2, <1>4
<1> QED BY <1>3, <1>5

(* The numbers of a finite set in their order.                             *)
LEMMA AscendingFacts ==
    ASSUME NEW N \in SUBSET Int, IsFiniteSet(N)
    PROVE  /\ Cardinality(N) \in Nat
           /\ DOMAIN Ascending(N) = 1 .. Cardinality(N)
           /\ \A n \in 1 .. Cardinality(N) : Ascending(N)[n] \in N
           /\ \A m, n \in 1 .. Cardinality(N) : m < n => Ascending(N)[m] < Ascending(N)[n]
           /\ \A k \in N : \E n \in 1 .. Cardinality(N) : Ascending(N)[n] = k
<1> DEFINE c == Cardinality(N)
           Upto(k) == {j \in N : j <= k}
           rank == [k \in N |-> Cardinality(Upto(k))]
<1>1. c \in Nat
  BY FS_CardinalityType
<1>2. \A k \in N : /\ IsFiniteSet(Upto(k)) /\ Cardinality(Upto(k)) \in 1 .. c
  <2> SUFFICES ASSUME NEW k \in N PROVE IsFiniteSet(Upto(k)) /\ Cardinality(Upto(k)) \in 1 .. c
    OBVIOUS
  <2>1. Upto(k) \in SUBSET N /\ k \in Upto(k)
    OBVIOUS
  <2> HIDE DEF Upto
  <2>2. IsFiniteSet(Upto(k)) /\ Cardinality(Upto(k)) <= c
    BY <2>1, FS_Subset
  <2>3. Cardinality(Upto(k)) \in Nat /\ Cardinality(Upto(k)) # 0
    BY <2>1, <2>2, FS_CardinalityType, FS_EmptySet
  <2> QED BY <1>1, <2>2, <2>3
<1>3. \A k, l \in N : k < l => Cardinality(Upto(k)) < Cardinality(Upto(l))
  <2> SUFFICES ASSUME NEW k \in N, NEW l \in N, k < l
               PROVE  Cardinality(Upto(k)) < Cardinality(Upto(l))
    OBVIOUS
  <2>1. Upto(k) \in SUBSET Upto(l) /\ l \in Upto(l) /\ l \notin Upto(k)
    <3>1. k \in Int /\ l \in Int /\ \A j \in N : j \in Int
      OBVIOUS
    <3>2. \A j \in N : j <= k => j <= l
      BY <3>1
    <3>3. l <= l /\ ~(l <= k)
      BY <3>1
    <3> QED BY <3>2, <3>3
  <2>2. IsFiniteSet(Upto(l)) /\ Cardinality(Upto(k)) \in 1 .. c /\ Cardinality(Upto(l)) \in 1 .. c
    BY <1>2
  <2> HIDE DEF Upto, c
  <2>3. Cardinality(Upto(k)) <= Cardinality(Upto(l)) /\ Cardinality(Upto(k)) # Cardinality(Upto(l))
    BY <2>1, <2>2, FS_Subset
  <2> QED BY <1>1, <2>2, <2>3
<1> HIDE DEF Upto, c
<1>4. rank \in [N -> 1 .. c]
  BY <1>2
<1>5. \A k, l \in N : rank[k] = rank[l] => k = l
  <2> SUFFICES ASSUME NEW k \in N, NEW l \in N, k # l PROVE rank[k] # rank[l]
    OBVIOUS
  <2>1. k < l \/ l < k
    OBVIOUS
  <2>2. Cardinality(Upto(k)) \in Int /\ Cardinality(Upto(l)) \in Int
    BY <1>1, <1>2
  <2> QED BY <1>3, <2>1, <2>2
<1>6. \A n \in 1 .. c : \E k \in N : rank[k] = n
  <2>1. IsFiniteSet(1 .. c) /\ Cardinality(1 .. c) = c
    <3>1. Cardinality(1 .. c) = IF 1 > c THEN 0 ELSE c - 1 + 1
      BY <1>1, FS_Interval
    <3>2. IsFiniteSet(1 .. c)
      BY <1>1, FS_Interval
    <3> QED BY <1>1, <3>1, <3>2
  <2> HIDE DEF rank
  <2>2. rank \in Injection(N, 1 .. c)
    BY <1>4, <1>5 DEF Injection, IsInjective
  <2>3. Cardinality(N) = Cardinality(1 .. c)
    BY <2>1 DEF c
  <2>4. rank \in Surjection(N, 1 .. c)
    BY <2>1, <2>2, <2>3, FS_Injection
  <2> QED BY <2>4 DEF Surjection
<1>7. \A n \in 1 .. c : /\ Ascending(N)[n] \in N /\ rank[Ascending(N)[n]] = n
  <2> SUFFICES ASSUME NEW n \in 1 .. c PROVE Ascending(N)[n] \in N /\ rank[Ascending(N)[n]] = n
    OBVIOUS
  <2>1. Ascending(N)[n] = CHOOSE k \in N : Cardinality({j \in N : j <= k}) = n
    BY DEF Ascending, c
  <2>2. \E k \in N : Cardinality({j \in N : j <= k}) = n
    BY <1>6 DEF Upto
  <2>3. Ascending(N)[n] \in N /\ Cardinality({j \in N : j <= Ascending(N)[n]}) = n
    BY <2>1, <2>2
  <2> QED BY <2>3 DEF Upto
<1>8. \A m, n \in 1 .. c : m < n => Ascending(N)[m] < Ascending(N)[n]
  <2> SUFFICES ASSUME NEW m \in 1 .. c, NEW n \in 1 .. c, m < n
               PROVE  Ascending(N)[m] < Ascending(N)[n]
    OBVIOUS
  <2> DEFINE a == Ascending(N)[m]
             b == Ascending(N)[n]
  <2>1. a \in N /\ b \in N /\ rank[a] = m /\ rank[b] = n
    BY <1>7
  <2> HIDE DEF a, b
  <2>2. a # b /\ ~(b < a)
    <3>1. b < a => rank[b] < rank[a]
      BY <1>3, <2>1
    <3> HIDE DEF rank
    <3> QED BY <2>1, <3>1
  <2>3. a \in Int /\ b \in Int
    BY <2>1
  <2>4. a < b
    BY <2>2, <2>3
  <2> QED BY <2>4 DEF a, b
<1>9. \A k \in N : \E n \in 1 .. c : Ascending(N)[n] = k
  <2> SUFFICES ASSUME NEW k \in N PROVE \E n \in 1 .. c : Ascending(N)[n] = k
    OBVIOUS
  <2>1. rank[k] \in 1 .. c
    BY <1>4
  <2>2. Ascending(N)[rank[k]] \in N /\ rank[Ascending(N)[rank[k]]] = rank[k]
    BY <1>7, <2>1
  <2> QED BY <1>5, <2>1, <2>2
<1>10. DOMAIN Ascending(N) = 1 .. c
  BY DEF Ascending, c
<1> QED BY <1>1, <1>7, <1>8, <1>9, <1>10 DEF c

(* The list s has the elements of S, each once.                            *)
Lists(s, S) ==
    /\ s \in Seq(S)
    /\ \A x \in S : \E n \in 1 .. Len(s) : s[n] = x
    /\ \A m, n \in 1 .. Len(s) : s[m] = s[n] => m = n

LEMMA ListsSize ==
    ASSUME NEW s, NEW S, Lists(s, S)
    PROVE  /\ Len(s) \in Nat /\ IsFiniteSet(S) /\ Cardinality(S) = Len(s)
           /\ ToSet(s) = S
<1>1. s \in [1 .. Len(s) -> S] /\ Len(s) \in Nat
  BY LenProperties DEF Lists
<1>2. s \in Bijection(1 .. Len(s), S)
  BY <1>1 DEF Lists, Bijection, Injection, Surjection, IsInjective
<1>3. IsFiniteSet(1 .. Len(s)) /\ Cardinality(1 .. Len(s)) = Len(s)
  <2>1. Cardinality(1 .. Len(s)) = IF 1 > Len(s) THEN 0 ELSE Len(s) - 1 + 1
    BY <1>1, FS_Interval
  <2>2. IsFiniteSet(1 .. Len(s))
    BY <1>1, FS_Interval
  <2> QED BY <1>1, <2>1, <2>2
<1>4. ExistsBijection(1 .. Len(s), S)
  BY <1>2 DEF ExistsBijection
<1>5. IsFiniteSet(S) /\ Cardinality(S) = Cardinality(1 .. Len(s))
  BY <1>3, <1>4, FS_Bijection
<1>6. ToSet(s) = S
  BY <1>1 DEF Lists, ToSet
<1> QED BY <1>1, <1>3, <1>5, <1>6

LEMMA ListsAppend ==
    ASSUME NEW s, NEW S, NEW x, Lists(s, S), x \notin S
    PROVE  Lists(Append(s, x), S \cup {x}) /\ Len(Append(s, x)) = Len(s) + 1
<1>1. s \in Seq(S) /\ Len(s) \in Nat /\ s \in Seq(S \cup {x}) /\ \A n \in 1 .. Len(s) : s[n] \in S
  BY LenProperties, ElementOfSeq DEF Lists
<1>2. /\ Append(s, x) \in Seq(S \cup {x}) /\ Len(Append(s, x)) = Len(s) + 1
      /\ \A n \in 1 .. Len(s) : Append(s, x)[n] = s[n]
      /\ Append(s, x)[Len(s) + 1] = x
  BY <1>1, AppendProperties
<1>3. \A y \in S \cup {x} : \E n \in 1 .. Len(s) + 1 : Append(s, x)[n] = y
  <2> SUFFICES ASSUME NEW y \in S \cup {x} PROVE \E n \in 1 .. Len(s) + 1 : Append(s, x)[n] = y
    OBVIOUS
  <2>1. CASE y = x
    BY <1>1, <1>2, <2>1
  <2>2. CASE y \in S
    <3>1. PICK n \in 1 .. Len(s) : s[n] = y
      BY <2>2 DEF Lists
    <3>2. n \in 1 .. Len(s) + 1 /\ Append(s, x)[n] = y
      BY <1>1, <1>2, <3>1
    <3> QED BY <3>2
  <2> QED BY <2>1, <2>2
<1>4. \A m, n \in 1 .. Len(s) + 1 : Append(s, x)[m] = Append(s, x)[n] => m = n
  <2>1. \A m, n \in 1 .. Len(s) : s[m] = s[n] => m = n
    BY DEF Lists
  <2>2. \A n \in 1 .. Len(s) : s[n] # x
    BY <1>1
  <2>3. \A n \in 1 .. Len(s) + 1 : n \in 1 .. Len(s) \/ n = Len(s) + 1
    BY <1>1
  <2> QED BY <1>2, <2>1, <2>2, <2>3
<1> QED BY <1>2, <1>3, <1>4 DEF Lists

LEMMA ListsFront ==
    ASSUME NEW s, NEW S, Lists(s, S), s # <<>>
    PROVE  Last(s) \in S /\ Lists(Front(s), S \ {Last(s)})
<1>1. s \in Seq(S) /\ Len(s) \in Nat \ {0} /\ \A n \in 1 .. Len(s) : s[n] \in S
  BY LenProperties, ElementOfSeq, EmptySeq DEF Lists
<1> DEFINE k == Len(s)
           u == SubSeq(s, 1, k - 1)
<1>2. /\ u \in Seq(S) /\ Len(u) = IF 1 <= k - 1 THEN k - 1 - 1 + 1 ELSE 0
      /\ \A n \in 1 .. k - 1 - 1 + 1 : u[n] = s[1 + n - 1]
  BY <1>1, SubSeqProperties
<1>3. Front(s) = u /\ Last(s) = s[k]
  BY DEF Front, Last
<1> HIDE DEF u, k
<1>4. k \in Nat \ {0}
  BY <1>1 DEF k
<1>5. Len(u) = k - 1 /\ \A n \in 1 .. k - 1 : u[n] = s[n]
  BY <1>2, <1>4
<1>6. \A n \in 1 .. k : s[n] \in S
  BY <1>1 DEF k
<1>7. \A m, n \in 1 .. k : s[m] = s[n] => m = n
  BY DEF Lists, k
<1>8. \A n \in 1 .. k - 1 : u[n] \in S \ {s[k]}
  <2>1. \A n \in 1 .. k - 1 : n \in 1 .. k /\ k \in 1 .. k /\ n # k
    BY <1>4
  <2> QED BY <1>5, <1>6, <1>7, <2>1
<1>9. u \in Seq(S \ {s[k]})
  <2>1. u \in [1 .. k - 1 -> S \ {s[k]}]
    BY <1>2, <1>5, <1>8, LenProperties
  <2> QED BY <1>4, <2>1, SeqDef
<1>10. \A x \in S \ {s[k]} : \E n \in 1 .. k - 1 : u[n] = x
  <2> SUFFICES ASSUME NEW x \in S \ {s[k]} PROVE \E n \in 1 .. k - 1 : u[n] = x
    OBVIOUS
  <2>1. PICK n \in 1 .. k : s[n] = x
    BY DEF Lists, k
  <2>2. n \in 1 .. k - 1
    BY <1>4, <2>1
  <2> QED BY <1>5, <2>1, <2>2
<1>11. \A m, n \in 1 .. k - 1 : u[m] = u[n] => m = n
  <2>1. \A n \in 1 .. k - 1 : n \in 1 .. k
    BY <1>4
  <2> QED BY <1>5, <1>7, <2>1
<1>12. s[k] \in S
  BY <1>4, <1>6
<1> QED BY <1>3, <1>5, <1>9, <1>10, <1>11, <1>12 DEF Lists

LEMMA ListsConcat ==
    ASSUME NEW s, NEW S, NEW t, NEW T, Lists(s, S), Lists(t, T), S \cap T = {}
    PROVE  Lists(s \o t, S \cup T)
<1>1. /\ Len(s) \in Nat /\ \A n \in 1 .. Len(s) : s[n] \in S
      /\ Len(t) \in Nat /\ \A n \in 1 .. Len(t) : t[n] \in T
      /\ s \in Seq(S \cup T) /\ t \in Seq(S \cup T)
  <2>1. s \in Seq(S) /\ t \in Seq(T)
    BY DEF Lists
  <2> QED BY <2>1, LenProperties, ElementOfSeq
<1> DEFINE j == Len(s)
           k == Len(t)
           u == s \o t
<1>2. /\ u \in Seq(S \cup T) /\ Len(u) = j + k
      /\ \A n \in 1 .. j + k : u[n] = IF n <= j THEN s[n] ELSE t[n - j]
  BY <1>1, ConcatProperties
<1> HIDE DEF u
<1>3. \A x \in S \cup T : \E n \in 1 .. j + k : u[n] = x
  <2> SUFFICES ASSUME NEW x \in S \cup T PROVE \E n \in 1 .. j + k : u[n] = x
    OBVIOUS
  <2>1. CASE x \in S
    <3>1. PICK n \in 1 .. j : s[n] = x
      BY <2>1 DEF Lists
    <3>2. n \in 1 .. j + k /\ n <= j
      BY <1>1
    <3> QED BY <1>2, <3>1, <3>2
  <2>2. CASE x \in T
    <3>1. PICK n \in 1 .. k : t[n] = x
      BY <2>2 DEF Lists
    <3>2. j + n \in 1 .. j + k /\ ~(j + n <= j) /\ j + n - j = n
      BY <1>1
    <3> QED BY <1>2, <3>1, <3>2
  <2> QED BY <2>1, <2>2
<1>4. \A m, n \in 1 .. j + k : u[m] = u[n] => m = n
  <2> SUFFICES ASSUME NEW m \in 1 .. j + k, NEW n \in 1 .. j + k, u[m] = u[n]
               PROVE  m = n
    OBVIOUS
  <2>1. \A i \in 1 .. j + k : /\ i <= j => i \in 1 .. j
                              /\ ~(i <= j) => i - j \in 1 .. k
    BY <1>1
  <2>2. /\ u[m] = IF m <= j THEN s[m] ELSE t[m - j]
        /\ u[n] = IF n <= j THEN s[n] ELSE t[n - j]
    BY <1>2
  <2>3. CASE m <= j /\ n <= j
    <3>1. s[m] = s[n] /\ m \in 1 .. j /\ n \in 1 .. j
      BY <2>1, <2>2, <2>3
    <3> QED BY <3>1 DEF Lists
  <2>4. CASE ~(m <= j) /\ ~(n <= j)
    <3>1. t[m - j] = t[n - j] /\ m - j \in 1 .. k /\ n - j \in 1 .. k
      BY <2>1, <2>2, <2>4
    <3>2. m - j = n - j
      BY <3>1 DEF Lists
    <3> QED BY <1>1, <3>2
  <2>5. CASE ~(m <= j <=> n <= j)
    <3>1. \E x \in S : x \in T
      BY <1>1, <2>1, <2>2, <2>5
    <3> QED BY <3>1
  <2> QED BY <2>3, <2>4, <2>5
<1> QED BY <1>2, <1>3, <1>4 DEF Lists, u

(* The elements of s that are in K, in the order of s.                     *)
LEMMA ListsSelected ==
    ASSUME NEW s, NEW S, NEW K, Lists(s, S)
    PROVE  Lists(Selected(s, K), S \cap K)
<1>1. /\ s \in Seq(S) /\ Len(s) \in Nat /\ \A n \in 1 .. Len(s) : s[n] \in S
  BY LenProperties, ElementOfSeq DEF Lists
<1> DEFINE N == {n \in 1 .. Len(s) : s[n] \in K}
           at == Ascending(N)
           c == Cardinality(N)
           u == Selected(s, K)
<1>2. N \in SUBSET Int /\ IsFiniteSet(N)
  <2>1. IsFiniteSet(1 .. Len(s)) /\ N \in SUBSET (1 .. Len(s))
    BY <1>1, FS_Interval
  <2> QED BY <1>1, <2>1, FS_Subset
<1>3. /\ c \in Nat /\ DOMAIN at = 1 .. c
      /\ \A n \in 1 .. c : at[n] \in N
      /\ \A m, n \in 1 .. c : m < n => at[m] < at[n]
      /\ \A k \in N : \E n \in 1 .. c : at[n] = k
  <2> HIDE DEF N
  <2> QED BY <1>2, AscendingFacts
<1>4. u = [n \in 1 .. c |-> s[at[n]]]
  BY <1>3 DEF Selected
<1> HIDE DEF u, at, c
<1>5. u \in Seq(S \cap K) /\ Len(u) = c
  <2>1. u \in [1 .. c -> S \cap K]
    BY <1>1, <1>3, <1>4
  <2>2. u \in Seq(S \cap K)
    BY <1>3, <2>1, SeqDef
  <2> QED BY <1>3, <2>1, <2>2, LenProperties
<1>6. \A x \in S \cap K : \E n \in 1 .. c : u[n] = x
  <2> SUFFICES ASSUME NEW x \in S \cap K PROVE \E n \in 1 .. c : u[n] = x
    OBVIOUS
  <2>1. PICK m \in 1 .. Len(s) : s[m] = x
    BY DEF Lists
  <2>2. m \in N
    BY <2>1
  <2> QED BY <1>3, <1>4, <2>1, <2>2
<1>7. \A m, n \in 1 .. c : u[m] = u[n] => m = n
  <2> SUFFICES ASSUME NEW m \in 1 .. c, NEW n \in 1 .. c, u[m] = u[n] PROVE m = n
    OBVIOUS
  <2>1. at[m] \in 1 .. Len(s) /\ at[n] \in 1 .. Len(s) /\ s[at[m]] = s[at[n]]
    BY <1>3, <1>4
  <2>2. at[m] = at[n]
    BY <2>1 DEF Lists
  <2>3. ~(m < n) /\ ~(n < m)
    <3>1. at[m] \in Int
      BY <2>1
    <3> QED BY <1>3, <2>2, <3>1
  <2> QED BY <1>3, <2>3
<1> QED BY <1>5, <1>6, <1>7 DEF Lists, u

(* The orders that the elements of a finite set may be enumerated in.      *)
LEMMA ListsEnumerated ==
    ASSUME NEW S, IsFiniteSet(S), NEW s \in SetToSeqs(S)
    PROVE  Lists(s, S)
<1> DEFINE c == Cardinality(S)
<1>1. c \in Nat
  BY FS_CardinalityType
<1>2. s \in [1 .. c -> S] /\ \A i, j \in 1 .. c : i # j => s[i] # s[j]
  BY DEF SetToSeqs
<1>3. s \in Injection(1 .. c, S)
  BY <1>2 DEF Injection, IsInjective
<1>4. Cardinality(1 .. c) = c
  <2> HIDE DEF c
  <2>1. Cardinality(1 .. c) = IF 1 > c THEN 0 ELSE c - 1 + 1
    BY <1>1, FS_Interval
  <2> QED BY <1>1, <2>1
<1>5. s \in Surjection(1 .. c, S)
  BY <1>3, <1>4, FS_Injection
<1> HIDE DEF c
<1>6. s \in Seq(S) /\ Len(s) = c
  <2>1. s \in Seq(S)
    BY <1>1, <1>2, SeqDef
  <2>2. DOMAIN s = 1 .. Len(s) /\ Len(s) \in Nat /\ DOMAIN s = 1 .. c
    BY <1>2, <2>1, LenProperties
  <2>3. \A l \in Nat : 1 .. l = 1 .. c => l = c
    BY <1>1
  <2> QED BY <2>1, <2>2, <2>3
<1> QED BY <1>2, <1>5, <1>6 DEF Lists, Surjection
=============================================================================
