--------------------------- MODULE FiniteOrders ---------------------------
(***************************************************************************)
(* Ranks in a finite total order: what SortUsers and Sort rely on when     *)
(* they put at position n the element with n - 1 others before it.  The    *)
(* order is given by a function B: B[m] is the set of those before m.      *)
(***************************************************************************)
EXTENDS FiniteSetTheorems, TLAPS

IsTotalOrder(S, B) ==
  /\ B \in [S -> SUBSET S]
  /\ \A m \in S : m \notin B[m]
  /\ \A l, m \in S : l # m => l \in B[m] \/ m \in B[l]
  /\ \A l, m \in S : l \in B[m] => B[l] \subseteq B[m]

\* Who comes later has more before it, and nobody has everybody before it.
LEMMA RankIsMonotone ==
  ASSUME NEW S, IsFiniteSet(S), NEW B, IsTotalOrder(S, B)
  PROVE  /\ \A m \in S : Cardinality(B[m]) \in 0 .. Cardinality(S) - 1
         /\ \A l, m \in S :
              l \in B[m] => Cardinality(B[l]) < Cardinality(B[m])
<1> USE DEF IsTotalOrder
<1>1. \A m \in S : IsFiniteSet(B[m]) /\ Cardinality(B[m]) \in Nat
  BY FS_Subset, FS_CardinalityType
<1>2. Cardinality(S) \in Nat
  BY FS_CardinalityType
<1>3. ASSUME NEW m \in S
      PROVE  Cardinality(B[m]) \in 0 .. Cardinality(S) - 1
  <2>1. B[m] \in SUBSET S /\ B[m] # S
    OBVIOUS
  <2>2. Cardinality(B[m]) < Cardinality(S)
    BY <1>1, <1>2, <2>1, FS_Subset
  <2> QED
    BY <1>1, <1>2, <2>2
<1>4. ASSUME NEW l \in S, NEW m \in S, l \in B[m]
      PROVE  Cardinality(B[l]) < Cardinality(B[m])
  <2>1. B[l] \in SUBSET B[m] /\ B[l] # B[m]
    BY <1>4
  <2> QED
    BY <1>1, <2>1, FS_Subset
<1> QED
  BY <1>3, <1>4

\* Every rank is somebody's.
LEMMA EveryRankIsTaken ==
  ASSUME NEW S, IsFiniteSet(S), NEW B, IsTotalOrder(S, B)
  PROVE  \A n \in 1 .. Cardinality(S) :
           \E m \in S : Cardinality(B[m]) = n - 1
<1> DEFINE Ranks == 0 .. Cardinality(S) - 1
           rank == [m \in S |-> Cardinality(B[m])]
<1>1. Cardinality(S) \in Nat
  BY FS_CardinalityType
<1>2. /\ rank \in [S -> Ranks]
      /\ \A l, m \in S : l # m => rank[l] # rank[m]
  BY RankIsMonotone DEF IsTotalOrder
<1>3. rank \in Injection(S, Ranks)
  BY <1>2 DEF Injection, IsInjective
<1>4. IsFiniteSet(Ranks) /\ Cardinality(Ranks) = Cardinality(S)
  BY <1>1, FS_Interval
<1>5. rank \in Surjection(S, Ranks)
  <2> HIDE DEF Ranks, rank
  <2> QED
    BY <1>3, <1>4, FS_Injection
<1>6. \A r \in Ranks : \E m \in S : rank[m] = r
  BY <1>5 DEF Surjection
<1> QED
  BY <1>1, <1>6

\* A list with the element of rank n - 1 at position n has every element, and
\* has them in their order.
LEMMA ListByRankIsSorted ==
  ASSUME NEW S, IsFiniteSet(S), NEW B, IsTotalOrder(S, B), NEW f,
         \A n \in 1 .. Cardinality(S) :
           f[n] \in S /\ Cardinality(B[f[n]]) = n - 1
  PROVE  /\ {f[n] : n \in 1 .. Cardinality(S)} = S
         /\ \A m, n \in 1 .. Cardinality(S) : m < n => f[m] \in B[f[n]]
<1>1. Cardinality(S) \in Nat
  BY FS_CardinalityType
<1>2. ASSUME NEW l \in S
      PROVE  \E n \in 1 .. Cardinality(S) : f[n] = l
  <2>1. Cardinality(B[l]) \in 0 .. Cardinality(S) - 1
    BY RankIsMonotone
  <2> DEFINE n == Cardinality(B[l]) + 1
  <2>2. n \in 1 .. Cardinality(S) /\ Cardinality(B[f[n]]) = Cardinality(B[l])
    BY <1>1, <2>1
  <2>3. f[n] = l
    BY <2>1, <2>2, RankIsMonotone DEF IsTotalOrder
  <2> QED
    BY <2>2, <2>3
<1>3. ASSUME NEW m \in 1 .. Cardinality(S), NEW n \in 1 .. Cardinality(S), m < n
      PROVE  f[m] \in B[f[n]]
  <2>1. Cardinality(B[f[m]]) = m - 1 /\ Cardinality(B[f[n]]) = n - 1
    OBVIOUS
  <2>2. f[m] # f[n]
    BY <1>3, <2>1
  <2>3. f[n] \notin B[f[m]]
    BY <1>3, <2>1, RankIsMonotone
  <2> QED
    BY <2>2, <2>3 DEF IsTotalOrder
<1> QED
  BY <1>2, <1>3
=============================================================================
