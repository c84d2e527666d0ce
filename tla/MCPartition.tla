----------------------------- MODULE MCPartition -----------------------------
(* Instances of Partition for TLC. *)
EXTENDS Partition, TLC

CONSTANTS l1, l2, l3, h1, h2

MCSymmetry == Permutations(Leases) \cup Permutations(Handlers)

=============================================================================
