--------------------------- MODULE VisibilityQueue ---------------------------
(***************************************************************************)
(* What the message queue promises its consumers: a reader pod leases a    *)
(* row to one consumer at a time, an unacked lease gives its rows back, an *)
(* ack settles the rows of its lease, and only settled rows are ever       *)
(* removed.  Removal is lazy and may fail, in which case the row is        *)
(* available again: the promise is delivery at least once.                 *)
(*                                                                         *)
(* One table and any number of pods, each a goroutine's select cases       *)
(* (internal/mqreader/partition.go) as seen from outside.  Which rows of   *)
(* the table a pod loads is left open: the ranges of two pods overlap      *)
(* while a change of the replica count rolls out, and then a pod's memory  *)
(* may hold rows that another one has removed.  Partition implements this  *)
(* specification for one pod.                                              *)
(***************************************************************************)
CONSTANTS Rows, Leases, Pods

VARIABLES
    queue,    \* rows in the table
    born,     \* rows ever inserted
    loaded,   \* pod -> rows in its buffer
    leased,   \* pod -> lease id -> rows held under it
    settled   \* pod -> acked rows it has not yet removed

vars == <<queue, born, loaded, leased, settled>>

Held(p) == UNION {leased[p][l] : l \in Leases}

TypeOK ==
    /\ queue \subseteq born /\ born \subseteq Rows
    /\ loaded \in [Pods -> SUBSET Rows]
    /\ leased \in [Pods -> [Leases -> SUBSET Rows]]
    /\ settled \in [Pods -> SUBSET Rows]

Init == /\ queue = {} /\ born = {}
        /\ loaded = [p \in Pods |-> {}] /\ settled = [p \in Pods |-> {}]
        /\ leased = [p \in Pods |-> [l \in Leases |-> {}]]

\* The pod is done with the rows in done: they are removed, or back among the
\* available rows when the removal fails or is never made.
Flush(p, done) == /\ settled' = [settled EXCEPT ![p] = {}]
                  /\ queue' \in {queue, queue \ done}

\* The rows in done stay pending, or the pod is done with them.
Settle(p, done) == \/ settled' = [settled EXCEPT ![p] = done] /\ queue' = queue
                   \/ Flush(p, done)

\* refill(): only when the pod has nothing left in memory.
Refill(p) == loaded[p] = {} /\ Held(p) = {} /\ Flush(p, settled[p])

Enqueue(r) ==
    /\ r \notin born
    /\ queue' = queue \cup {r} /\ born' = born \cup {r}
    /\ UNCHANGED <<loaded, leased, settled>>

Load(p) ==
    /\ Refill(p)
    /\ \E L \in SUBSET queue' : loaded' = [loaded EXCEPT ![p] = L]
    /\ UNCHANGED <<born, leased>>

Serve(p, l, S) ==
    /\ leased[p][l] = {} /\ S # {}
    /\ \/ /\ S \subseteq loaded[p]
          /\ loaded' = [loaded EXCEPT ![p] = @ \ S]
          /\ UNCHANGED <<queue, settled>>
       \/ /\ Refill(p)
          /\ \E L \in SUBSET queue' : S \subseteq L /\ loaded' = [loaded EXCEPT ![p] = L \ S]
    /\ leased' = [leased EXCEPT ![p][l] = S]
    /\ UNCHANGED born

Ack(p, l) ==
    /\ leased[p][l] # {}
    /\ Settle(p, settled[p] \cup leased[p][l])
    /\ leased' = [leased EXCEPT ![p][l] = {}]
    /\ UNCHANGED <<born, loaded>>

\* Leases end without an ack, and a buffer is dropped: timeouts, a drain, or
\* the end of the process.
Release(p, L) ==
    /\ Settle(p, settled[p])
    /\ leased' = [leased EXCEPT ![p] = [l \in Leases |-> IF l \in L THEN {} ELSE @[l]]]
    /\ loaded' \in {loaded, [loaded EXCEPT ![p] = {}]}
    /\ UNCHANGED born

Next == \/ \E r \in Rows : Enqueue(r)
        \/ \E p \in Pods : \/ Load(p)
                           \/ \E l \in Leases : Ack(p, l) \/ \E S \in SUBSET Rows : Serve(p, l, S)
                           \/ \E L \in SUBSET Leases : Release(p, L)

Spec == Init /\ [][Next]_vars

=============================================================================
