----------------------------- MODULE MCStreamer -----------------------------
(* Instances of Streamer for TLC. *)
EXTENDS Streamer

CONSTANTS s1, s2, f1, f2, f3, f4

=============================================================================
