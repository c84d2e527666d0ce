----------------------------- MODULE MCCollector -----------------------------
(* Instances of Collector for TLC. *)
EXTENDS Collector

CONSTANTS r1, r2, l1, l2, c1, c2, p1, p2

=============================================================================
