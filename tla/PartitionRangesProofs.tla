------------------------ MODULE PartitionRangesProofs ------------------------
(***************************************************************************)
(* The ranges partition the keys for every number of replicas that the     *)
(* StatefulSet may have and every number of partitions.                    *)
(***************************************************************************)
EXTENDS PartitionRanges, TLAPS

\* What is used of division: n pods of Total \div n keys each fit.
LEMMA PerPodBounds ==
  ASSUME NEW replicas \in Int
  PROVE  /\ NumPods(replicas) \in Nat \ {0}
         /\ PerPod(replicas) \in Nat
         /\ NumPods(replicas) * PerPod(replicas) <= Total
<1>1. NumPods(replicas) \in Nat \ {0}
  BY DEF NumPods
<1>2. \A n \in Nat \ {0} : Total \div n \in Nat /\ n * (Total \div n) <= Total
  BY TotalAssumption
<1> QED
  BY <1>1, <1>2 DEF PerPod

\* A product of naturals grows with its first factor.
LEMMA ProductGrows ==
  ASSUME NEW a \in Nat, NEW b \in Nat, NEW p \in Nat, a <= b
  PROVE  a * p <= b * p
<1>1. PICK d \in Nat : b = a + d
  BY b - a \in Nat
<1>2. b * p = a * p + d * p /\ d * p \in Nat
  BY <1>1
<1> QED
  BY <1>2, a * p \in Nat

\* Whatever the number of replicas, each key is in the range of some pod: the
\* last pod takes the remainder of the division (main.go:253-259).
THEOREM NoKeyLost == \A replicas \in Int : EveryKeyServed(replicas)
<1> SUFFICES ASSUME NEW replicas \in Int, NEW k \in Partitions
             PROVE  \E i \in PodsOf(replicas) : k \in Slice(replicas, i)
  BY DEF EveryKeyServed
<1> DEFINE n == NumPods(replicas)
           p == PerPod(replicas)
<1>1. n \in Nat \ {0} /\ p \in Nat /\ n - 1 \in Nat /\ k \in Nat /\ k <= Total - 1
  BY PerPodBounds, TotalAssumption DEF Partitions
<1> HIDE DEF n, p
<1>2. CASE (n - 1) * p <= k
  <2>1. n - 1 \in PodsOf(replicas)
    BY <1>1 DEF PodsOf, n
  <2>2. k \in Slice(replicas, n - 1)
    BY <1>1, <1>2, TotalAssumption, (n - 1) * p \in Nat
    DEF Slice, RangeStart, RangeEnd, n, p
  <2> QED
    BY <2>1, <2>2
<1>3. CASE k < (n - 1) * p
  <2>1. p # 0
    BY <1>1, <1>3
  <2>2. PICK i \in Nat : i * p <= k /\ k < (i + 1) * p
    <3>1. \A q \in Nat \ {0} : k \div q \in Nat /\ (k \div q) * q <= k /\ k < (k \div q + 1) * q
      BY <1>1
    <3> QED
      BY <1>1, <2>1, <3>1
  <2>3. i < n - 1
    <3>1. SUFFICES ASSUME n - 1 <= i PROVE FALSE
      BY <1>1
    <3>2. (n - 1) * p <= i * p
      BY <1>1, <3>1, ProductGrows
    <3> QED
      BY <1>1, <1>3, <2>2, <3>2, (n - 1) * p \in Nat, i * p \in Nat
  <2>4. i \in PodsOf(replicas)
    BY <1>1, <2>3 DEF PodsOf, n
  <2>5. k \in Slice(replicas, i)
    BY <1>1, <2>2, <2>3, i * p \in Nat, (i + 1) * p \in Nat DEF Slice, RangeStart, RangeEnd, n, p
  <2> QED
    BY <2>4, <2>5
<1> QED
  BY <1>1, <1>2, <1>3, (n - 1) * p \in Nat

\* Whatever the number of replicas, no key is in the ranges of two pods.
THEOREM NoKeyShared == \A replicas \in Int : SlicesDisjoint(replicas)
<1> SUFFICES ASSUME NEW replicas \in Int PROVE SlicesDisjoint(replicas)
  OBVIOUS
<1>1. ASSUME NEW i \in PodsOf(replicas), NEW j \in PodsOf(replicas), i < j
      PROVE  Slice(replicas, i) \cap Slice(replicas, j) = {}
  <2> DEFINE n == NumPods(replicas)
             p == PerPod(replicas)
  <2>1. n \in Nat \ {0} /\ p \in Nat /\ i \in Nat /\ j \in Nat /\ i + 1 <= j /\ i # n - 1
    BY <1>1, PerPodBounds DEF PodsOf
  <2> HIDE DEF n, p
  <2>2. (i + 1) * p <= j * p
    BY <2>1, ProductGrows
  <2>3. RangeEnd(replicas, i) = (i + 1) * p - 1 /\ RangeStart(replicas, j) = j * p
    BY <2>1 DEF RangeEnd, RangeStart, n, p
  <2>4. /\ (i + 1) * p \in Int /\ j * p \in Int
        /\ RangeStart(replicas, i) \in Int /\ RangeEnd(replicas, j) \in Int
    BY <2>1, TotalAssumption DEF RangeStart, RangeEnd, n, p
  <2> QED
    BY <2>2, <2>3, <2>4 DEF Slice
<1>2. PodsOf(replicas) \subseteq Int
  BY PerPodBounds DEF PodsOf
<1>3. ASSUME NEW i \in PodsOf(replicas), NEW j \in PodsOf(replicas), i # j
      PROVE  Slice(replicas, i) \cap Slice(replicas, j) = {}
  <2>1. CASE i < j
    BY <1>1, <2>1
  <2>2. CASE j < i
    BY <1>1, <2>2
  <2> QED
    BY <1>2, <1>3, <2>1, <2>2
<1> QED
  BY <1>3 DEF SlicesDisjoint

=============================================================================
