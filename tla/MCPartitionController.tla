------------------------ MODULE MCPartitionController ------------------------
(* Instances of PartitionController for TLC. *)
EXTENDS PartitionController

CONSTANTS c1, c2

=============================================================================
