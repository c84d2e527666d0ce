------------------------------- MODULE Delivery -------------------------------
(***************************************************************************)
(* What readers and collectors together promise of a message: it is taken  *)
(* out of the queue only when it is in the telemetry table, or when no     *)
(* collector can read it; and the telemetry table, where a message is at   *)
(* most once, has nothing that was not published.                          *)
(***************************************************************************)
CONSTANTS Rows, Malformed

VARIABLES
    queue,      \* rows in queue_messages
    born,       \* rows ever inserted
    telemetry   \* rows persisted

vars == <<queue, born, telemetry>>

Init == queue = {} /\ born = {} /\ telemetry = {}

Publish(r) == /\ r \notin born
              /\ queue' = queue \cup {r} /\ born' = born \cup {r}
              /\ UNCHANGED telemetry

Persist(S) == /\ S \subseteq born \ Malformed
              /\ telemetry' = telemetry \cup S
              /\ UNCHANGED <<queue, born>>

Remove(S) == /\ S \subseteq queue /\ S \subseteq telemetry \cup Malformed
             /\ queue' = queue \ S
             /\ UNCHANGED <<born, telemetry>>

Next == \/ \E r \in Rows : Publish(r)
        \/ \E S \in SUBSET Rows : Persist(S) \/ Remove(S)

Spec == Init /\ [][Next]_vars

=============================================================================
