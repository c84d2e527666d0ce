------------------------- MODULE PartitionController -------------------------
(***************************************************************************)
(* The partition controller (cmd/partition-controller/main.go), the part   *)
(* of the Kubernetes API it works on, and the reader pods, which take      *)
(* their range from the ConfigMap when they start.                         *)
(*                                                                         *)
(* reconcile is one action per API call: between two of them the replica   *)
(* count, the pods and the leadership may change.  A map is represented by *)
(* the replica count it was computed for.  The StatefulSet's own           *)
(* controller is external: it creates and deletes pods as soon as the      *)
(* count changes (podManagementPolicy Parallel) and, when the template     *)
(* changes, replaces them one at a time from the highest ordinal down.     *)
(***************************************************************************)
EXTENDS PartitionRanges, FiniteSets

CONSTANTS
    MaxReplicas,   \* bound: replica counts are 0 .. MaxReplicas
    Controllers,   \* controller processes that campaign for the lock
    Nobody,        \* the lock is free
    MaxEvents,     \* bound: scalings, upgrades, failed calls and failovers together
    CoarseStamp    \* whether the annotation has the resolution of a second, as in the code

ASSUME BoundsAssumption     == MaxReplicas \in Nat \ {0} /\ MaxEvents \in Nat
ASSUME ControllerAssumption == Nobody \notin Controllers /\ CoarseStamp \in BOOLEAN

VARIABLES
    replicas,  \* spec.replicas of the StatefulSet
    cm,        \* the replica count that partitions.yaml was computed for
    stamped,   \* the current second is already in the restartedAt annotation
    pods,      \* ordinal -> the pod: runs, map it has read, template outdated
    leader,    \* holder of the partition-controller-leader lock
    ctl,       \* controller -> its place in reconcile, its target, lastReplicas
    late,      \* requests of former leaders that are still under way
    upgraded,  \* the map is the chart's: none has been written since (history)
    events     \* scalings, upgrades, failed calls and failovers so far

kubeVars == <<replicas, cm, stamped, pods>>
vars == <<kubeVars, leader, ctl, late, upgraded, events>>

Counts   == 0 .. MaxReplicas
Ordinals == 0 .. MaxReplicas - 1
NoPod    == [up |-> FALSE, map |-> 0, stale |-> FALSE]
Fresh    == [stage |-> "idle", want |-> 0, last |-> -1]
Update(n) == [call |-> "update", map |-> n]
Patch     == [call |-> "patch", map |-> 0]
Requests  == {Update(n) : n \in Counts} \cup {Patch}

TypeOK ==
    /\ replicas \in Counts /\ cm \in Counts /\ stamped \in BOOLEAN
    /\ pods \in [Ordinals -> [up : BOOLEAN, map : Counts, stale : BOOLEAN]]
    /\ leader \in Controllers \cup {Nobody}
    /\ ctl \in [Controllers -> [stage : {"idle", "writing", "patching"},
                                want : Counts, last : Counts \cup {-1}]]
    /\ late \subseteq Requests /\ upgraded \in BOOLEAN
    /\ events \in 0 .. MaxEvents

\* the keys pod i serves
Serves(i) == IF pods[i].up THEN Loaded(pods[i].map, i) ELSE {}

\* the pods after a change of the template
Outdated == [i \in Ordinals |-> [pods[i] EXCEPT !.stale = pods[i].up]]

\* The chart installs a map and a count for the same replicaCount (its default,
\* without the autoscaler).
Init ==
    /\ replicas \in Counts \ {0} /\ cm = replicas /\ stamped = FALSE
    /\ pods = [i \in Ordinals |-> IF i < replicas THEN [NoPod EXCEPT !.up = TRUE, !.map = cm] ELSE NoPod]
    /\ leader = Nobody /\ ctl = [c \in Controllers |-> Fresh]
    /\ late = {} /\ upgraded = FALSE /\ events = 0

\* the bound on what may go on happening to the system
Event == events < MaxEvents /\ events' = events + 1

-----------------------------------------------------------------------------
(* External: operators and the autoscaler, the StatefulSet controller, pods. *)

Scale(n) ==
    /\ n # replicas /\ replicas' = n
    /\ Event
    /\ UNCHANGED <<cm, stamped, pods, leader, ctl, late, upgraded>>

\* mutant: an Update without the resourceVersion of the Get before it
SetMapUnfenced(n, L) == cm' = n /\ late' = L

\* The ConfigMap is written while the requests L are under way.  A new map is a
\* new resourceVersion: an Update that was prepared before it is refused.  The
\* same text again changes nothing.
SetMap(n, L) == cm' = n /\ late' = IF n = cm THEN L ELSE L \cap {Patch}

\* helm upgrade: the chart's map for its replicaCount n over the current one;
\* with the autoscaler on it says nothing of spec.replicas, and the template
\* may have changed or not.
Upgrade(n) ==
    /\ n \in Counts \ {0} /\ n # cm /\ SetMap(n, late)
    /\ upgraded' = TRUE
    /\ pods' \in {pods, Outdated}
    /\ Event
    /\ UNCHANGED <<replicas, stamped, leader, ctl>>

StartPod(i) ==
    /\ i < replicas /\ ~pods[i].up
    /\ pods' = [pods EXCEPT ![i] = [up |-> TRUE, map |-> cm, stale |-> FALSE]]
    /\ UNCHANGED <<replicas, cm, stamped, leader, ctl, late, upgraded, events>>

\* A pod beyond the count is deleted; so is an outdated one when those with
\* higher ordinals run and are not.
StopPod(i) ==
    /\ pods[i].up
    /\ \/ i >= replicas
       \/ /\ pods[i].stale
          /\ \A j \in Ordinals : i < j /\ j < replicas => pods[j].up /\ ~pods[j].stale
    /\ pods' = [pods EXCEPT ![i] = NoPod]
    /\ UNCHANGED <<replicas, cm, stamped, leader, ctl, late, upgraded, events>>

\* The reader process of a pod dies and starts again where it is.
RestartContainer(i) ==
    /\ pods[i].up
    /\ pods' = [pods EXCEPT ![i].map = cm]
    /\ UNCHANGED <<replicas, cm, stamped, leader, ctl, late, upgraded, events>>

NextSecond == stamped /\ stamped' = FALSE /\ UNCHANGED <<replicas, cm, pods, leader, ctl, late, upgraded, events>>

-----------------------------------------------------------------------------
(* The controller. *)

\* OnStartedLeading: run with a fresh lastReplicas.
Acquire(c) ==
    /\ leader = Nobody
    /\ leader' = c /\ ctl' = [ctl EXCEPT ![c] = Fresh]
    /\ UNCHANGED <<kubeVars, late, upgraded, events>>

\* The leader's context ends, between any two of its calls or during one, and
\* its process exits.  (RenewDeadline is shorter than LeaseDuration: it stops
\* before another can take the lock, but what it has sent may arrive later.)
Lose(c) ==
    /\ leader = c
    /\ leader' = Nobody /\ ctl' = [ctl EXCEPT ![c] = Fresh]
    /\ late' \in {late, late \cup CASE ctl[c].stage = "idle"     -> {}
                                   [] ctl[c].stage = "writing"  -> {Update(ctl[c].want)}
                                   [] ctl[c].stage = "patching" -> {Patch}}
    /\ Event
    /\ UNCHANGED <<kubeVars, upgraded>>

\* mutants: lastReplicas is set before the work is done; the highest ordinal
\* is taken for the count
ReadReplicasSetsLast(c) ==
    /\ leader = c /\ ctl[c].stage = "idle" /\ replicas # ctl[c].last
    /\ ctl' = [ctl EXCEPT ![c] = [stage |-> "writing", want |-> replicas, last |-> replicas]]
    /\ UNCHANGED <<kubeVars, leader, late, upgraded, events>>

ReadReplicasOrdinal(c) ==
    /\ leader = c /\ ctl[c].stage = "idle" /\ replicas # ctl[c].last
    /\ ctl' = [ctl EXCEPT ![c].stage = "writing", ![c].want = replicas - 1]
    /\ UNCHANGED <<kubeVars, leader, late, upgraded, events>>

\* Get the StatefulSet, on start, on an update or at the 30 s resync; nothing
\* to do when the count is the one handled last.
ReadReplicas(c) ==
    /\ leader = c /\ ctl[c].stage = "idle" /\ replicas # ctl[c].last
    /\ ctl' = [ctl EXCEPT ![c].stage = "writing", ![c].want = replicas]
    /\ UNCHANGED <<kubeVars, leader, late, upgraded, events>>

\* Get and Update the ConfigMap.  (A conflict is an error, and is repeated.)
WriteMap(c) ==
    /\ leader = c /\ ctl[c].stage = "writing"
    /\ SetMap(ctl[c].want, late) /\ upgraded' = FALSE
    /\ ctl' = [ctl EXCEPT ![c].stage = "patching"]
    /\ UNCHANGED <<replicas, stamped, pods, leader, events>>

\* A new annotation outdates every pod; one with the same second changes nothing.
StampTemplate ==
    /\ pods' = IF stamped /\ CoarseStamp THEN pods ELSE Outdated
    /\ stamped' = TRUE

PatchTemplate(c) ==
    /\ leader = c /\ ctl[c].stage = "patching"
    /\ StampTemplate
    /\ ctl' = [ctl EXCEPT ![c].stage = "idle", ![c].last = ctl[c].want]
    /\ UNCHANGED <<replicas, cm, leader, late, upgraded, events>>

\* Update or Patch returns an error, whether or not it took effect.
CallFails(c) ==
    /\ leader = c
    /\ \/ /\ ctl[c].stage = "writing"
          /\ \/ SetMap(ctl[c].want, late) /\ upgraded' = FALSE
             \/ UNCHANGED <<cm, late, upgraded>>
          /\ UNCHANGED <<stamped, pods>>
       \/ /\ ctl[c].stage = "patching"
          /\ StampTemplate \/ UNCHANGED <<stamped, pods>>
          /\ UNCHANGED <<cm, late, upgraded>>
    /\ ctl' = [ctl EXCEPT ![c].stage = "idle"]
    /\ Event
    /\ UNCHANGED <<replicas, leader>>

\* A request of a former leader arrives: an Update that nothing has fenced off,
\* or a Patch, whose older time stamp outdates every pod once more.
LateArrives(q) ==
    /\ q \in late
    /\ \/ /\ q.call = "update" /\ SetMap(q.map, late \ {q})
          /\ upgraded' = FALSE /\ UNCHANGED <<stamped, pods>>
       \/ /\ q.call = "patch" /\ SetMap(cm, late \ {q})
          /\ pods' = Outdated /\ stamped' = FALSE /\ UNCHANGED upgraded
    /\ UNCHANGED <<replicas, leader, ctl, events>>

Reconcile(c) == ReadReplicas(c) \/ WriteMap(c) \/ PatchTemplate(c)
PodStep(i)   == StartPod(i) \/ StopPod(i)

Next ==
    \/ \E n \in Counts : Scale(n) \/ Upgrade(n)
    \/ \E q \in Requests : LateArrives(q)
    \/ \E i \in Ordinals : PodStep(i) \/ RestartContainer(i)
    \/ \E c \in Controllers : Acquire(c) \/ Lose(c) \/ Reconcile(c) \/ CallFails(c)
    \/ NextSecond

Spec == Init /\ [][Next]_vars

\* The leader works on, somebody takes a free lock, pods start and stop in the
\* end: informers resync every 30 s and the StatefulSet controller retries.
Fairness ==
    /\ \A c \in Controllers : WF_vars(Reconcile(c))
    /\ WF_vars(\E c \in Controllers : Acquire(c))
    /\ \A i \in Ordinals : WF_vars(PodStep(i))
    /\ WF_vars(NextSecond)

LiveSpec == Spec /\ Fairness

-----------------------------------------------------------------------------
(* Properties. *)

\* Once the leader has done with a count, and as long as the map is that of the
\* count, a pod that runs the current template has read the map: nobody keeps a
\* range of an earlier one.  (The controller does not watch the ConfigMap: after
\* an upgrade of the release this is so again when it has handled the next
\* change of the count.)
HandledIsRolledOut ==
    \A c \in Controllers :
        leader = c /\ ctl[c].last = cm /\ ~upgraded =>
            \A i \in Ordinals : pods[i].up /\ ~pods[i].stale => pods[i].map = cm

\* Its inductive invariant: the count that the leader works on is not the one it
\* has done with; and while an Update of a former leader can still take effect,
\* the map has not changed since it was prepared, so that it is the map of both,
\* and no upgrade has come between.
Pending == \E n \in Counts : Update(n) \in late

RollOutInv ==
    /\ HandledIsRolledOut
    /\ \A c \in Controllers : leader = c =>
         /\ ctl[c].stage # "idle" => ctl[c].want # ctl[c].last
         /\ ctl[c].stage = "patching" /\ Pending => cm = ctl[c].want /\ ~upgraded
         /\ ctl[c].last # -1 /\ Pending => cm = ctl[c].last /\ ~upgraded

\* No patch falls into the second of the one before, which it would not change.
PatchesApart == \A c \in Controllers : PatchTemplate(c) => ~(stamped /\ CoarseStamp)

\* Each key has exactly one pod.
OneOwnerEach ==
    replicas > 0 => \A k \in Partitions : Cardinality({i \in Ordinals : k \in Serves(i)}) = 1

Settled ==
    /\ \E c \in Controllers : leader = c /\ ctl[c].last = cm
    /\ cm = replicas /\ ~upgraded
    /\ \A i \in Ordinals : IF i < replicas THEN pods[i].up /\ ~pods[i].stale ELSE ~pods[i].up

\* When the leader has done with the count and the StatefulSet has replaced its
\* pods, the ranges that the pods have loaded partition the keys: none is left
\* out, none is served by two.
SettledIsPartitioned == Settled => OneOwnerEach

\* README.md:95: "Partition ranges are automatically redistributed when the
\* replica count changes": in the end each key has exactly one pod.
Redistributed == <>[](OneOwnerEach \/ upgraded)

\* The leader has done with the count, and the map is of another: the count has
\* gone back to this one while the change to the other was under way, in a patch
\* that failed or in the Update of a former leader.
Reverted ==
    \E c \in Controllers :
        leader = c /\ ctl[c].stage = "idle" /\ ctl[c].last = replicas /\ cm # replicas

\* Nothing else keeps the ranges from being redistributed.
RedistributedOrReverted == <>[](OneOwnerEach \/ upgraded \/ Reverted)

=============================================================================
