---------------------- MODULE PartitionControllerProofs ----------------------
(***************************************************************************)
(* The partition controller, for any number of controllers, pods and       *)
(* partitions: it keeps its types (the counts it writes are counts that    *)
(* the StatefulSet had, never the -1 that lastReplicas starts from); a     *)
(* count it has done with is rolled out; and when the pods are replaced,   *)
(* their ranges partition the keys.  The last two are proved of the        *)
(* executions in which no patch falls into the second of the one before.   *)
(***************************************************************************)
EXTENDS PartitionController, PartitionRangesProofs, FiniteSetTheorems

LEMMA TypeInit == Init => TypeOK
<1> SUFFICES ASSUME Init PROVE TypeOK
  OBVIOUS
<1>1. replicas \in Counts /\ cm \in Counts /\ 0 \in Counts /\ events \in 0 .. MaxEvents
  BY BoundsAssumption DEF Init, Counts
<1>2. NoPod \in [up : BOOLEAN, map : Counts, stale : BOOLEAN]
  BY <1>1 DEF NoPod
<1>3. pods \in [Ordinals -> [up : BOOLEAN, map : Counts, stale : BOOLEAN]]
  BY <1>1, <1>2 DEF Init
<1>4. Fresh \in [stage : {"idle", "writing", "patching"}, want : Counts, last : Counts \cup {-1}]
  BY <1>1 DEF Fresh
<1> QED
  BY <1>1, <1>3, <1>4 DEF Init, TypeOK

\* A new annotation changes the template of the pods only.
LEMMA OutdatedType ==
  ASSUME TypeOK
  PROVE  Outdated \in [Ordinals -> [up : BOOLEAN, map : Counts, stale : BOOLEAN]]
BY DEF TypeOK, Outdated

\* Steps of the leader.
LEMMA ControllerTypes ==
  ASSUME TypeOK, NEW c \in Controllers,
         Acquire(c) \/ Lose(c) \/ Reconcile(c) \/ CallFails(c)
  PROVE  TypeOK'
<1> USE DEF TypeOK
<1> DEFINE Stages == [stage : {"idle", "writing", "patching"}, want : Counts, last : Counts \cup {-1}]
<1>1. ctl[c] \in Stages /\ Fresh \in Stages
  BY BoundsAssumption DEF Fresh, Counts
<1>2. \A d \in 0 .. MaxEvents : d < MaxEvents => d + 1 \in 0 .. MaxEvents
  BY BoundsAssumption
<1>3. CASE Acquire(c)
  BY <1>1, <1>3 DEF Acquire, kubeVars
<1>4. CASE Lose(c)
  <2>1. Update(ctl[c].want) \in Requests /\ Patch \in Requests
    BY <1>1 DEF Requests
  <2>2. late' \subseteq Requests
    BY <1>1, <1>4, <2>1 DEF Lose
  <2> QED
    BY <1>1, <1>2, <1>4, <2>2 DEF Lose, Event, kubeVars
<1>5. CASE ReadReplicas(c)
  <2>1. [ctl[c] EXCEPT !.stage = "writing", !.want = replicas] \in Stages
    BY <1>1
  <2> QED
    BY <1>5, <2>1 DEF ReadReplicas, kubeVars
<1>6. CASE WriteMap(c)
  <2>1. [ctl[c] EXCEPT !.stage = "patching"] \in Stages /\ ctl[c].want \in Counts
    BY <1>1
  <2> QED
    BY <1>6, <2>1 DEF WriteMap, SetMap
<1>7. CASE PatchTemplate(c)
  <2>1. [ctl[c] EXCEPT !.stage = "idle", !.last = ctl[c].want] \in Stages
    BY <1>1
  <2> QED
    BY <1>7, <2>1, OutdatedType DEF PatchTemplate, StampTemplate
<1>8. CASE CallFails(c)
  <2>1. [ctl[c] EXCEPT !.stage = "idle"] \in Stages /\ ctl[c].want \in Counts
    BY <1>1
  <2>2. cm' \in Counts /\ late' \subseteq Requests
    BY <1>8, <2>1 DEF CallFails, SetMap
  <2>3. /\ pods' \in [Ordinals -> [up : BOOLEAN, map : Counts, stale : BOOLEAN]]
        /\ stamped' \in BOOLEAN
    BY <1>8, OutdatedType DEF CallFails, StampTemplate
  <2> QED
    BY <1>2, <1>8, <2>1, <2>2, <2>3 DEF CallFails, Event
<1> QED
  BY <1>3, <1>4, <1>5, <1>6, <1>7, <1>8 DEF Reconcile

\* Everything else that goes on in the cluster.
LEMMA ClusterTypes ==
  ASSUME TypeOK,
         \/ \E n \in Counts : Scale(n) \/ Upgrade(n)
         \/ \E q \in Requests : LateArrives(q)
         \/ \E i \in Ordinals : PodStep(i) \/ RestartContainer(i)
         \/ NextSecond
  PROVE  TypeOK'
<1> USE DEF TypeOK
<1>1. \A d \in 0 .. MaxEvents : d < MaxEvents => d + 1 \in 0 .. MaxEvents
  BY BoundsAssumption
<1>2. ASSUME NEW n \in Counts, Scale(n) \/ Upgrade(n) PROVE TypeOK'
  BY <1>1, <1>2, OutdatedType DEF Scale, Upgrade, SetMap, Event
<1>3. ASSUME NEW q \in Requests, LateArrives(q) PROVE TypeOK'
  <2>1. q.call = "update" => q.map \in Counts
    BY DEF Requests, Update, Patch
  <2> QED
    BY <1>3, <2>1, OutdatedType DEF LateArrives, SetMap
<1>4. ASSUME NEW i \in Ordinals, PodStep(i) \/ RestartContainer(i) PROVE TypeOK'
  <2>1. /\ [up |-> TRUE, map |-> cm, stale |-> FALSE] \in [up : BOOLEAN, map : Counts, stale : BOOLEAN]
        /\ [pods[i] EXCEPT !.map = cm] \in [up : BOOLEAN, map : Counts, stale : BOOLEAN]
    OBVIOUS
  <2>2. NoPod \in [up : BOOLEAN, map : Counts, stale : BOOLEAN]
    BY BoundsAssumption DEF NoPod, Counts
  <2> QED
    BY <1>4, <2>1, <2>2 DEF PodStep, StartPod, StopPod, RestartContainer
<1>5. CASE NextSecond
  BY <1>5 DEF NextSecond
<1> QED
  BY <1>2, <1>3, <1>4, <1>5

\* Every variable keeps its type, with late requests, upgrades, failed calls and
\* failovers in any order.
THEOREM TypeCorrect == Spec => []TypeOK
<1>1. TypeOK /\ [Next]_vars => TypeOK'
  <2>1. UNCHANGED vars /\ TypeOK => TypeOK'
    BY DEF vars, kubeVars, TypeOK
  <2> QED
    BY <2>1, ControllerTypes, ClusterTypes DEF Next
<1> QED
  BY <1>1, TypeInit, PTL DEF Spec

-----------------------------------------------------------------------------
(* What the leader has done with is rolled out. *)

LEMMA OutdatedStale == ASSUME TypeOK PROVE \A i \in Ordinals : Outdated[i].up => Outdated[i].stale
BY DEF TypeOK, Outdated

\* Steps of the cluster that leave the map alone, and have pods read it.
LEMMA SameMap ==
  ASSUME RollOutInv, UNCHANGED <<leader, ctl, cm, upgraded>>, Pending' => Pending,
         \A i \in Ordinals : pods'[i].up /\ ~pods'[i].stale =>
            \/ pods'[i].map = cm
            \/ pods[i].up /\ ~pods[i].stale /\ pods'[i].map = pods[i].map
  PROVE  RollOutInv'
<1>1. HandledIsRolledOut'
  BY DEF RollOutInv, HandledIsRolledOut
<1> QED
  BY <1>1 DEF RollOutInv

\* Steps of the cluster that change the map: an upgrade, or the Update of a
\* former leader, which moves the map away from what this one has done with.
LEMMA NewMap ==
  ASSUME TypeOK, TypeOK', RollOutInv, UNCHANGED <<leader, ctl>>, cm' # cm, ~Pending',
         upgraded' \/ Pending
  PROVE  RollOutInv'
<1>1. cm' # -1
  BY DEF TypeOK, Counts
<1>2. ASSUME NEW c \in Controllers, leader = c, ctl[c].last = cm', ~upgraded' PROVE FALSE
  BY <1>1, <1>2 DEF RollOutInv
<1>3. HandledIsRolledOut'
  BY <1>2 DEF HandledIsRolledOut
<1> QED
  BY <1>3 DEF RollOutInv

\* A new resourceVersion fences off every Update that was prepared before.
LEMMA Fenced ==
  ASSUME NEW n, NEW L, SetMap(n, L), L \subseteq late
  PROVE  cm' = n /\ (Pending' => Pending) /\ (n # cm => ~Pending')
<1>1. \A m : Update(m) # Patch
  BY DEF Update, Patch
<1> QED
  BY <1>1 DEF SetMap, Pending

LEMMA ClusterRollsOut ==
  ASSUME TypeOK, TypeOK', RollOutInv,
         \/ \E n \in Counts : Scale(n) \/ Upgrade(n)
         \/ \E q \in Requests : LateArrives(q)
         \/ \E i \in Ordinals : PodStep(i) \/ RestartContainer(i)
         \/ NextSecond
  PROVE  RollOutInv'
<1>1. ASSUME NEW n \in Counts, Scale(n) PROVE RollOutInv'
  BY <1>1, SameMap DEF Scale, Pending
<1>2. ASSUME NEW n \in Counts, Upgrade(n) PROVE RollOutInv'
  <2>1. SetMap(n, late) /\ n # cm /\ upgraded' = TRUE /\ UNCHANGED <<leader, ctl>>
    BY <1>2 DEF Upgrade
  <2> QED
    BY <2>1, Fenced, NewMap
<1>3. ASSUME NEW q \in Requests, LateArrives(q) PROVE RollOutInv'
  <2>1. UNCHANGED <<leader, ctl>> /\ q \in late
    BY <1>3 DEF LateArrives
  <2>2. CASE q.call = "update"
    <3>1. SetMap(q.map, late \ {q}) /\ pods' = pods /\ upgraded' = FALSE
      BY <1>3, <2>2 DEF LateArrives, Patch, Requests, Update
    <3>2. Pending
      BY <2>1, <2>2 DEF Requests, Update, Patch, Pending
    <3>3. cm' = q.map /\ (Pending' => Pending) /\ (q.map # cm => ~Pending')
      BY <3>1, Fenced
    <3>4. CASE q.map # cm
      BY <2>1, <3>2, <3>3, <3>4, NewMap
    <3>5. CASE q.map = cm
      <4>1. HandledIsRolledOut'
        BY <2>1, <3>1, <3>2, <3>3, <3>5 DEF HandledIsRolledOut, RollOutInv, TypeOK, Counts
      <4> QED
        BY <2>1, <3>1, <3>3, <3>5, <4>1 DEF RollOutInv
    <3> QED
      BY <3>4, <3>5
  <2>3. CASE q.call = "patch"
    <3>1. SetMap(cm, late \ {q}) /\ pods' = Outdated /\ upgraded' = upgraded
      BY <1>3, <2>3 DEF LateArrives
    <3>2. cm' = cm /\ (Pending' => Pending)
      BY <3>1, Fenced
    <3>3. \A i \in Ordinals : ~(pods'[i].up /\ ~pods'[i].stale)
      BY <3>1, OutdatedStale
    <3> QED
      BY <2>1, <3>1, <3>2, <3>3, SameMap
  <2> QED
    BY <1>3, <2>2, <2>3 DEF LateArrives
<1>4. ASSUME NEW i \in Ordinals, PodStep(i) \/ RestartContainer(i) PROVE RollOutInv'
  <2>1. UNCHANGED <<leader, ctl, cm, upgraded, late>>
    BY <1>4 DEF PodStep, StartPod, StopPod, RestartContainer
  <2>2. PICK p : pods' = [pods EXCEPT ![i] = p] /\ (p.up /\ ~p.stale => p.map = cm)
    BY <1>4 DEF PodStep, StartPod, StopPod, RestartContainer, NoPod, TypeOK
  <2>3. \A j \in Ordinals : pods'[j] = IF j = i THEN p ELSE pods[j]
    BY <2>2 DEF TypeOK
  <2>4. Pending' => Pending
    BY <2>1 DEF Pending
  <2> QED
    BY <2>1, <2>2, <2>3, <2>4, SameMap
<1>5. CASE NextSecond
  BY <1>5, SameMap DEF NextSecond, Pending
<1> QED
  BY <1>1, <1>2, <1>3, <1>4, <1>5

\* The leader moves the map away from what it has done with, and is done with
\* the next count when the patch has outdated every pod.
LEMMA LeaderRollsOut ==
  ASSUME TypeOK, TypeOK', RollOutInv, NEW c \in Controllers,
         Acquire(c) \/ Lose(c) \/ Reconcile(c) \/ CallFails(c), PatchesApart
  PROVE  RollOutInv'
<1>1. CASE Acquire(c)
  <2>1. leader' = c /\ ctl'[c] = Fresh /\ cm' = cm
    BY <1>1 DEF Acquire, TypeOK, kubeVars
  <2>2. cm # -1
    BY DEF TypeOK, Counts
  <2>3. HandledIsRolledOut'
    BY <2>1, <2>2 DEF HandledIsRolledOut, Fresh
  <2> QED
    BY <2>1, <2>3 DEF RollOutInv, Fresh
<1>2. CASE Lose(c)
  BY <1>2, ControllerAssumption DEF Lose, RollOutInv, HandledIsRolledOut
<1>3. leader = c /\ (Reconcile(c) \/ CallFails(c)) => leader' = c
  BY DEF Reconcile, ReadReplicas, WriteMap, PatchTemplate, CallFails
<1>4. CASE ReadReplicas(c)
  <2>1. /\ leader = c /\ UNCHANGED <<leader, cm, late, pods, upgraded>>
        /\ ctl'[c].stage = "writing" /\ ctl'[c].want = replicas /\ ctl'[c].last = ctl[c].last
        /\ replicas # ctl[c].last
    BY <1>4 DEF ReadReplicas, TypeOK, kubeVars
  <2>2. HandledIsRolledOut'
    BY <2>1 DEF HandledIsRolledOut, RollOutInv
  <2> QED
    BY <2>1, <2>2 DEF RollOutInv, Pending
<1>5. CASE WriteMap(c)
  <2>1. /\ leader = c /\ UNCHANGED <<leader, pods>> /\ SetMap(ctl[c].want, late)
        /\ ctl[c].stage = "writing" /\ ctl'[c].stage = "patching"
        /\ ctl'[c].want = ctl[c].want /\ ctl'[c].last = ctl[c].last /\ upgraded' = FALSE
    BY <1>5 DEF WriteMap, TypeOK
  <2>2. cm' = ctl[c].want /\ (Pending' => Pending) /\ (ctl[c].want # cm => ~Pending')
    BY <2>1, Fenced
  <2>3. ctl[c].want # ctl[c].last
    BY <2>1 DEF RollOutInv
  <2>4. HandledIsRolledOut'
    BY <2>1, <2>2, <2>3 DEF HandledIsRolledOut
  <2> QED
    BY <2>1, <2>2, <2>3, <2>4 DEF RollOutInv
<1>6. CASE PatchTemplate(c)
  <2>1. /\ leader = c /\ UNCHANGED <<leader, cm, late, upgraded>> /\ pods' = Outdated
        /\ ctl[c].stage = "patching" /\ ctl'[c].stage = "idle" /\ ctl'[c].last = ctl[c].want
    BY <1>6 DEF PatchTemplate, StampTemplate, PatchesApart, TypeOK
  <2>2. \A i \in Ordinals : pods'[i].up => pods'[i].stale
    BY <2>1, OutdatedStale
  <2>3. HandledIsRolledOut'
    BY <2>2 DEF HandledIsRolledOut
  <2> QED
    BY <2>1, <2>3 DEF RollOutInv, Pending
<1>7. CASE CallFails(c)
  <2>1. /\ leader = c /\ leader' = leader
        /\ ctl'[c].stage = "idle" /\ ctl'[c].last = ctl[c].last
    BY <1>7 DEF CallFails, TypeOK
  <2>2. CASE ctl[c].stage = "writing" /\ SetMap(ctl[c].want, late) /\ upgraded' = FALSE
    <3>1. cm' = ctl[c].want /\ (Pending' => Pending) /\ (ctl[c].want # cm => ~Pending')
      BY <2>2, Fenced
    <3>2. ctl[c].want # ctl[c].last
      BY <2>1, <2>2 DEF RollOutInv
    <3>3. HandledIsRolledOut'
      BY <2>1, <3>1, <3>2 DEF HandledIsRolledOut
    <3> QED
      BY <2>1, <3>1, <3>2, <3>3 DEF RollOutInv
  <2>3. CASE UNCHANGED <<cm, late, upgraded>>
    <3>1. pods' = pods \/ pods' = Outdated
      BY <1>7 DEF CallFails, StampTemplate
    <3>2. HandledIsRolledOut'
      BY <2>1, <2>3, <3>1, OutdatedStale DEF HandledIsRolledOut, RollOutInv
    <3> QED
      BY <2>1, <2>3, <3>2 DEF RollOutInv, Pending
  <2> QED
    BY <1>7, <2>2, <2>3 DEF CallFails
<1> QED
  BY <1>1, <1>2, <1>4, <1>5, <1>6, <1>7 DEF Reconcile

LEMMA RollOutStep ==
  TypeOK /\ TypeOK' /\ RollOutInv /\ [Next]_vars /\ [PatchesApart]_vars => RollOutInv'
<1>1. CASE UNCHANGED vars
  BY <1>1 DEF vars, kubeVars, RollOutInv, HandledIsRolledOut, Pending
<1>2. CASE Next /\ PatchesApart
  BY <1>2, ClusterRollsOut, LeaderRollsOut DEF Next
<1> QED
  BY <1>1, <1>2

LEMMA RollOutInit == Init => RollOutInv
BY ControllerAssumption DEF Init, RollOutInv, HandledIsRolledOut

\* In every execution in which no two patches fall into the same second, and
\* for any number of controllers, replicas and failures, a pod of the current
\* template has read the map that the leader has done with (main.go:176-240).
THEOREM RolledOut == Spec /\ [][PatchesApart]_vars => []HandledIsRolledOut
<1>1. RollOutInv => HandledIsRolledOut
  BY DEF RollOutInv
<1> QED
  BY <1>1, TypeCorrect, RollOutInit, RollOutStep, PTL DEF Spec

-----------------------------------------------------------------------------
(* And then each key has one pod. *)

LEMMA SettledIs == TypeOK /\ HandledIsRolledOut => SettledIsPartitioned
<1> SUFFICES ASSUME TypeOK, HandledIsRolledOut, Settled, replicas > 0, NEW k \in Partitions
             PROVE  Cardinality({i \in Ordinals : k \in Serves(i)}) = 1
  BY DEF SettledIsPartitioned, OneOwnerEach
<1>1. replicas \in Int /\ replicas <= MaxReplicas /\ MaxReplicas \in Nat /\ NumPods(replicas) = replicas
  BY BoundsAssumption DEF TypeOK, Counts, NumPods
<1>2. PodsOf(replicas) \subseteq Ordinals /\ \A i \in Ordinals : i \in PodsOf(replicas) <=> i < replicas
  BY <1>1 DEF PodsOf, Ordinals
<1>3. ASSUME NEW i \in Ordinals
      PROVE  Serves(i) = IF i \in PodsOf(replicas) THEN Slice(replicas, i) ELSE {}
  <2>1. CASE i \in PodsOf(replicas)
    <3>1. pods[i].up /\ pods[i].map = replicas
      BY <1>2, <2>1 DEF Settled, HandledIsRolledOut
    <3> QED
      BY <2>1, <3>1 DEF Serves, Loaded
  <2>2. CASE i \notin PodsOf(replicas)
    BY <1>2, <2>2 DEF Settled, Serves
  <2> QED
    BY <2>1, <2>2
<1>4. PICK i \in PodsOf(replicas) : k \in Slice(replicas, i)
  BY <1>1, NoKeyLost DEF EveryKeyServed
<1>5. \A j \in PodsOf(replicas) : k \in Slice(replicas, j) => j = i
  BY <1>1, <1>4, NoKeyShared DEF SlicesDisjoint
<1>6. {j \in Ordinals : k \in Serves(j)} = {i}
  BY <1>2, <1>3, <1>4, <1>5
<1> QED
  BY <1>6, FS_Singleton

\* Once the pods have been replaced, each partition key has exactly one reader,
\* for any number of partitions and replicas.
THEOREM PartitionedWhenSettled == Spec /\ [][PatchesApart]_vars => []SettledIsPartitioned
BY RolledOut, TypeCorrect, SettledIs, PTL

=============================================================================
