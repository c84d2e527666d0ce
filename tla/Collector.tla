------------------------------ MODULE Collector ------------------------------
(***************************************************************************)
(* The collectors (internal/collector): each runs lease, parse, persist,   *)
(* ack over and over (processOnce), against the reader pods as             *)
(* VisibilityQueue describes them and the telemetry table.  Together they  *)
(* are the way of a message from queue_messages to telemetry.              *)
(*                                                                         *)
(* The pods are behind one address: a lease comes from any of them, and    *)
(* its ack may reach another one, which does not know it and answers 200.  *)
(* Calls are remote: a reply may be lost after the call took effect, an    *)
(* ack may arrive long after its sender has given up, and more than once,  *)
(* as httpx repeats a request whose answer it did not get (a lease it      *)
(* repeats is a LeaseLost before the Lease).  telemetry is a set of rows   *)
(* because of its unique index on msg_uuid, which every row of the queue   *)
(* brings along.                                                           *)
(***************************************************************************)
EXTENDS FiniteSets, Naturals

CONSTANTS
    Rows,        \* rows of queue_messages
    Leases,      \* lease ids
    Pods,        \* reader pods
    Collectors,  \* collector processes
    Malformed,   \* rows whose payload does not unmarshal into a TelemetryRow
    LeaseMax,    \* LEASE_MAX: rows asked for at a time
    NoLease,     \* the lease of a collector between two cycles
    MaxLost      \* bound: lease replies that are lost

ASSUME RowsAssumption   == Malformed \subseteq Rows /\ NoLease \notin Leases
ASSUME BoundsAssumption == LeaseMax \in Nat \ {0} /\ MaxLost \in Nat

VARIABLES
    queue, born, loaded, leased, settled,   \* the queue: see VisibilityQueue
    cycle,      \* collector -> its place in processOnce, lease and batch
    acks,       \* leases for which an ack request is under way
    telemetry,  \* rows persisted in the telemetry table
    lost        \* lease replies lost so far

queueVars == <<queue, born, loaded, leased, settled>>
vars == <<queueVars, cycle, acks, telemetry, lost>>

Queue == INSTANCE VisibilityQueue

NoCycle == [stage |-> "idle", lease |-> NoLease, batch |-> {}]

TypeOK ==
    /\ Queue!TypeOK
    /\ cycle \in [Collectors -> [stage : {"idle", "leased", "persisted"},
                                 lease : Leases \cup {NoLease}, batch : SUBSET Rows]]
    /\ acks \subseteq Leases /\ telemetry \subseteq Rows /\ lost \in 0 .. MaxLost

Init == /\ Queue!Init
        /\ cycle = [c \in Collectors |-> NoCycle]
        /\ acks = {} /\ telemetry = {} /\ lost = 0

\* uuid.New(): an id that nobody holds or is about to send
FreshLeases == {l \in Leases : /\ \A p \in Pods : leased[p][l] = {}
                               /\ l \notin acks
                               /\ \A c \in Collectors : cycle[c].lease # l}

Enqueue(r) == Queue!Enqueue(r) /\ UNCHANGED <<cycle, acks, telemetry, lost>>

\* Leases end by their timeout or with their pod, which may come back with
\* another range; or the pod makes or drops the deletions that were pending.
Release(p, L) == Queue!Release(p, L) /\ UNCHANGED <<cycle, acks, telemetry, lost>>

\* mq.Lease returns some rows.  (An error or an empty reply changes nothing; a
\* buffer that a pod fills when it starts is filled here by its first lease.)
Lease(c) ==
    /\ cycle[c] = NoCycle
    /\ \E p \in Pods, l \in FreshLeases : \E S \in SUBSET Rows :
         /\ Cardinality(S) <= LeaseMax
         /\ Queue!Serve(p, l, S)
         /\ cycle' = [cycle EXCEPT ![c] = [stage |-> "leased", lease |-> l, batch |-> S]]
    /\ UNCHANGED <<acks, telemetry, lost>>

\* The reply to a lease request is lost.
LeaseLost ==
    /\ lost < MaxLost /\ lost' = lost + 1
    /\ \E p \in Pods, l \in FreshLeases : \E S \in SUBSET Rows :
         Cardinality(S) <= LeaseMax /\ Queue!Serve(p, l, S)
    /\ UNCHANGED <<cycle, acks, telemetry>>

\* mutant: a batch with a message that does not parse is dropped
ParsedAllOrNothing(S) == IF S \cap Malformed = {} THEN S ELSE {}

\* the rows that the parse loop of processOnce keeps
Parsed(S) == S \ Malformed

\* Nothing in the batch parses: no persist, no ack.
SkipBatch(c) ==
    /\ cycle[c].stage = "leased" /\ Parsed(cycle[c].batch) = {}
    /\ cycle' = [cycle EXCEPT ![c] = NoCycle]
    /\ UNCHANGED <<queueVars, acks, telemetry, lost>>

\* PersistBatch commits; rows already there are skipped.
Persist(c) ==
    /\ cycle[c].stage = "leased" /\ Parsed(cycle[c].batch) # {}
    /\ telemetry' = telemetry \cup Parsed(cycle[c].batch)
    /\ cycle' = [cycle EXCEPT ![c].stage = "persisted"]
    /\ UNCHANGED <<queueVars, acks, lost>>

\* mutant: goes on to the ack
PersistFailsAck(c) ==
    /\ cycle[c].stage = "leased" /\ Parsed(cycle[c].batch) # {}
    /\ telemetry' \in {telemetry, telemetry \cup Parsed(cycle[c].batch)}
    /\ cycle' = [cycle EXCEPT ![c].stage = "persisted"]
    /\ UNCHANGED <<queueVars, acks, lost>>

\* PersistBatch returns an error, before the commit or after it took effect:
\* no ack.
PersistFails(c) ==
    /\ cycle[c].stage = "leased" /\ Parsed(cycle[c].batch) # {}
    /\ telemetry' \in {telemetry, telemetry \cup Parsed(cycle[c].batch)}
    /\ cycle' = [cycle EXCEPT ![c] = NoCycle]
    /\ UNCHANGED <<queueVars, acks, lost>>

\* mutant: acks after an empty reply as well
SendAckAlways(c) ==
    /\ cycle[c].stage \in {"idle", "persisted"}
    /\ acks' = acks \cup {cycle[c].lease}
    /\ cycle' = [cycle EXCEPT ![c] = NoCycle]
    /\ UNCHANGED <<queueVars, telemetry, lost>>

\* mq.Ack: whatever comes back, the cycle is over.
SendAck(c) ==
    /\ cycle[c].stage = "persisted"
    /\ acks' = acks \cup {cycle[c].lease}
    /\ cycle' = [cycle EXCEPT ![c] = NoCycle]
    /\ UNCHANGED <<queueVars, telemetry, lost>>

\* The collector's context ends or its process dies, anywhere in the cycle.
Stop(c) ==
    /\ cycle[c] # NoCycle
    /\ cycle' = [cycle EXCEPT ![c] = NoCycle]
    /\ UNCHANGED <<queueVars, acks, telemetry, lost>>

\* An ack reaches a pod, for the last time or not; it means nothing there when
\* the lease has ended or is another pod's.
AckArrives(p, l) ==
    /\ l \in acks /\ acks' \in {acks, acks \ {l}}
    /\ IF leased[p][l] # {} THEN Queue!Ack(p, l) ELSE UNCHANGED queueVars
    /\ UNCHANGED <<cycle, telemetry, lost>>

\* No more of the ack arrives.
AckLost(l) ==
    /\ l \in acks /\ acks' = acks \ {l}
    /\ UNCHANGED <<queueVars, cycle, telemetry, lost>>

Next ==
    \/ \E r \in Rows : Enqueue(r)
    \/ \E p \in Pods, L \in SUBSET Leases : Release(p, L)
    \/ LeaseLost
    \/ \E c \in Collectors : \/ Lease(c) \/ SkipBatch(c) \/ Persist(c) \/ PersistFails(c)
                             \/ SendAck(c) \/ Stop(c)
    \/ \E l \in Leases : AckLost(l) \/ \E p \in Pods : AckArrives(p, l)

Spec == Init /\ [][Next]_vars

-----------------------------------------------------------------------------
(* Safety. *)

\* A well-formed message leaves the queue only after it has been persisted,
\* whatever expires, is lost, repeated, late, misdirected or crashes on the
\* way, and whatever ranges the pods have
\* (processOnce: "If persistence fails, the lease is NOT acked").
NothingLost == born \ queue \subseteq telemetry \cup Malformed

\* The same of every step, and that telemetry holds what was published only:
\* the queue and its pods, leases, batches and acks are a way to deliver.
Promise == INSTANCE Delivery
ImplementsDelivery == Promise!Spec

\* collector.go:245: "Ack the lease -- all messages are safely in the
\* telemetry table."
AckedIsPersisted ==
    \A p \in Pods, l \in acks : leased[p][l] \subseteq telemetry

\* The inductive invariant: the rows of a lease somebody holds or is about to
\* ack are those it was served with, by one pod, and persisted once an ack is
\* possible.
CycleKnown(c) ==
    LET y == cycle[c] IN
      /\ y.stage = "idle" => y.lease = NoLease
      /\ y.stage # "idle" => y.lease \in Leases
      /\ y.lease \in Leases => \A p \in Pods : leased[p][y.lease] \in {{}, y.batch}
      /\ y.stage = "persisted" => Parsed(y.batch) \subseteq telemetry

AckedRows ==
    /\ \A p \in Pods : settled[p] \subseteq telemetry \cup Malformed
    /\ \A p \in Pods, l \in acks : leased[p][l] \subseteq telemetry \cup Malformed
    /\ \A c \in Collectors : CycleKnown(c)

IInv == TypeOK /\ NothingLost /\ AckedRows

\* What pods and collectors hold was published (the rest of ImplementsDelivery).
HeldIsBorn ==
    /\ \A p \in Pods : loaded[p] \subseteq born /\ \A l \in Leases : leased[p][l] \subseteq born
    /\ \A c \in Collectors : cycle[c].batch \subseteq born

-----------------------------------------------------------------------------
(* Liveness.  Some pod leases each row of the queue again and again, as      *)
(* Partition's EveryRowServed says of the rows in its batch; leases end;      *)
(* requests are not repeated for ever, and replies are lost MaxLost times at  *)
(* most; failures of the database are not tied to a message; a collector does *)
(* not stop half-way for ever.                                                *)

Fairness ==
    /\ \A r \in Rows : /\ SF_vars(\E c \in Collectors : Lease(c) /\ r \in cycle'[c].batch)
                       /\ SF_vars(\E c \in Collectors : Persist(c) /\ r \in cycle[c].batch)
    /\ \A p \in Pods, l \in Leases : WF_vars(leased[p][l] # {} /\ Release(p, {l}))
    /\ \A l \in Leases : WF_vars(AckLost(l))
    /\ \A c \in Collectors : WF_vars(SkipBatch(c)) /\ WF_vars(SendAck(c))

LiveSpec == Spec /\ Fairness

\* Every well-formed message reaches the telemetry table.
EveryMessagePersisted == \A r \in Rows \ Malformed : r \in queue ~> r \in telemetry

=============================================================================
