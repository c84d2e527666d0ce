------------------------------ MODULE Publishing ------------------------------
(***************************************************************************)
(* What POST /v1/publish promises a producer: a request that is answered   *)
(* with 200 is in queue_messages, and one that is refused may be there     *)
(* too, or get there later; what is there has been asked for.              *)
(*                                                                         *)
(* The table is the set of requests whose messages have ever been          *)
(* inserted, born in VisibilityQueue.  What readers take out of it is left *)
(* out, and so is what a retry inserts a second time after that.           *)
(***************************************************************************)
CONSTANT Requests

VARIABLES
    state,   \* request -> new, open, ok or failed, as its producer sees it
    table    \* requests whose messages have been inserted

vars == <<state, table>>

Init == state = [r \in Requests |-> "new"] /\ table = {}

Ask(r) == /\ state[r] = "new" /\ state' = [state EXCEPT ![r] = "open"]
          /\ UNCHANGED table

\* One transaction, for producers that wait or no longer do.
Insert(R) == /\ \A r \in R : state[r] # "new"
             /\ table' = table \cup R
             /\ UNCHANGED state

Confirm(r) == /\ state[r] = "open" /\ r \in table
              /\ state' = [state EXCEPT ![r] = "ok"]
              /\ UNCHANGED table

\* Errors, contexts that end, and the death of a process with all its requests.
Refuse(R) == /\ \A r \in R : state[r] = "open"
             /\ state' = [r \in Requests |-> IF r \in R THEN "failed" ELSE state[r]]
             /\ UNCHANGED table

Next == \/ \E r \in Requests : Ask(r) \/ Confirm(r)
        \/ \E R \in SUBSET Requests : Insert(R) \/ Refuse(R)

Spec == Init /\ [][Next]_vars

=============================================================================
