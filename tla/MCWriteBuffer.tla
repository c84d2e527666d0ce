---------------------------- MODULE MCWriteBuffer ----------------------------
(* Instances of WriteBuffer for TLC. *)
EXTENDS WriteBuffer

CONSTANTS p1, p2, p3, metrics, events

\* two requests of one topic, of different sizes, and one of another
MCTopic == (p1 :> metrics) @@ (p2 :> metrics) @@ (p3 :> events)
MCSize  == (p1 :> 1) @@ (p2 :> 2) @@ (p3 :> 1)

=============================================================================
