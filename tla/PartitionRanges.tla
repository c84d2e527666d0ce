--------------------------- MODULE PartitionRanges ---------------------------
(***************************************************************************)
(* The assignment of virtual partitions to reader pods: what the map that  *)
(* computePartitionsYAML writes says (cmd/partition-controller/main.go)    *)
(* and what a pod makes of it when it starts (loadPartitionRange,          *)
(* cmd/mqreader/main.go).  A line of the map, "name-i: start-end", is the  *)
(* set of partition keys that BETWEEN start AND end selects.               *)
(***************************************************************************)
EXTENDS Integers

CONSTANT Total   \* TOTAL_PARTITIONS, also MQ_PARTITION_COUNT of the writer

ASSUME TotalAssumption == Total \in Nat \ {0}

Partitions == 0 .. Total - 1

NumPods(replicas)       == IF replicas <= 0 THEN 1 ELSE replicas
PodsOf(replicas)        == 0 .. NumPods(replicas) - 1
PerPod(replicas)        == Total \div NumPods(replicas)
RangeStart(replicas, i) == i * PerPod(replicas)

\* mutant: every pod gets the same number, the remainder is nobody's
RangeEndNoRemainder(replicas, i) == (i + 1) * PerPod(replicas) - 1

RangeEnd(replicas, i)   == IF i = NumPods(replicas) - 1 THEN Total - 1
                           ELSE (i + 1) * PerPod(replicas) - 1
Slice(replicas, i)      == RangeStart(replicas, i) .. RangeEnd(replicas, i)

\* What pod i serves after reading the map for that many replicas: without a
\* line of its own it falls back to READER_PARTITION_START and _END, 0 and 255.
Loaded(replicas, i) == IF i \in PodsOf(replicas) THEN Slice(replicas, i) ELSE Partitions

-----------------------------------------------------------------------------
(* Each partition key has one pod: no remainder is lost, no key is in two    *)
(* slices, and with more pods than partitions all but the last pod get the   *)
(* empty range 0--1.                                                         *)

EveryKeyServed(replicas) ==
    \A k \in Partitions : \E i \in PodsOf(replicas) : k \in Slice(replicas, i)

SlicesDisjoint(replicas) ==
    \A i, j \in PodsOf(replicas) : i # j => Slice(replicas, i) \cap Slice(replicas, j) = {}

=============================================================================
