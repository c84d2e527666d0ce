------------------------------ MODULE Reporting ------------------------------
(***************************************************************************)
(* What the streamer promises of a reading: it is sent once; as long as it *)
(* is on its way, attempts leave a message of it or none, no more of them  *)
(* than the client makes; it counts as published only when an attempt has  *)
(* left one; and once it has an end no attempt is made any more.           *)
(***************************************************************************)
EXTENDS Integers

CONSTANTS Readings, MaxRetries

VARIABLES
    fate,    \* reading -> none, sent, or its end: published, dropped or lost
    copies   \* reading -> messages that its attempts so far leave in the queue

vars == <<fate, copies>>

Init == fate = [n \in Readings |-> "none"] /\ copies = [n \in Readings |-> 0]

Send(n) == /\ fate[n] = "none" /\ fate' = [fate EXCEPT ![n] = "sent"]
           /\ UNCHANGED copies

\* An attempt ends, and with it the reading or not.
Store(n) == /\ fate[n] = "sent" /\ copies[n] <= MaxRetries
            /\ copies' = [copies EXCEPT ![n] = @ + 1]
            /\ \E end \in {"sent", "published", "dropped"} : fate' = [fate EXCEPT ![n] = end]

Drop(n) == /\ fate[n] = "sent" /\ fate' = [fate EXCEPT ![n] = "dropped"]
           /\ UNCHANGED copies

\* A process ends with all that it has on its way, and with an attempt perhaps.
Lose(R) == /\ \A n \in R : fate[n] = "sent"
           /\ fate' = [n \in Readings |-> IF n \in R THEN "lost" ELSE fate[n]]
           /\ \/ UNCHANGED copies
              \/ \E n \in R : copies[n] <= MaxRetries /\ copies' = [copies EXCEPT ![n] = @ + 1]

Next == \/ \E n \in Readings : Send(n) \/ Store(n) \/ Drop(n)
        \/ \E R \in SUBSET Readings : Lose(R)

Spec == Init /\ [][Next]_vars

=============================================================================
