--------------------------- MODULE CollectorProofs ---------------------------
(***************************************************************************)
(* No well-formed message is lost between the queue and the telemetry      *)
(* table, for any messages, leases, collectors and pods: the invariant     *)
(* IInv of Collector is inductive and NothingLost is part of it; and so    *)
(* queue and collectors together implement Delivery.                       *)
(***************************************************************************)
EXTENDS Collector, TLAPS

\* Nothing has happened yet: the invariant is true of empty tables.
LEMMA CollectorInit == Init => IInv
<1> SUFFICES ASSUME Init PROVE IInv
  OBVIOUS
<1>1. \A c \in Collectors : cycle[c] = NoCycle
  BY DEF Init
<1>2. TypeOK
  <2>1. Queue!TypeOK
    BY DEF Init, Queue!Init, Queue!TypeOK
  <2>2. NoCycle \in [stage : {"idle", "leased", "persisted"},
                     lease : Leases \cup {NoLease}, batch : SUBSET Rows]
    BY DEF NoCycle
  <2>3. 0 \in 0 .. MaxLost
    BY BoundsAssumption
  <2> QED
    BY <2>1, <2>2, <2>3 DEF Init, TypeOK
<1>3. NothingLost
  BY DEF Init, Queue!Init, NothingLost
<1>4. AckedRows
  BY <1>1, RowsAssumption DEF Init, Queue!Init, AckedRows, CycleKnown, NoCycle
<1> QED
  BY <1>2, <1>3, <1>4 DEF IInv

\* The steps of the queue keep its types (VisibilityQueue), whatever rows and
\* leases they are about.
LEMMA QueueTypes ==
  ASSUME Queue!TypeOK,
         \/ \E r \in Rows : Queue!Enqueue(r)
         \/ \E p \in Pods, L \in SUBSET Leases : Queue!Release(p, L)
         \/ \E p \in Pods, l \in Leases :
              Queue!Ack(p, l) \/ \E S \in SUBSET Rows : Queue!Serve(p, l, S)
  PROVE  Queue!TypeOK'
<1>1. CASE \E r \in Rows : Queue!Enqueue(r)
  BY <1>1 DEF Queue!TypeOK, Queue!Enqueue
<1>2. ASSUME NEW p \in Pods, NEW L \in SUBSET Leases, Queue!Release(p, L)
      PROVE  Queue!TypeOK'
  BY <1>2 DEF Queue!TypeOK, Queue!Release, Queue!Settle, Queue!Flush
<1>3. ASSUME NEW p \in Pods, NEW l \in Leases, Queue!Ack(p, l)
      PROVE  Queue!TypeOK'
  BY <1>3 DEF Queue!TypeOK, Queue!Ack, Queue!Settle, Queue!Flush
<1>4. ASSUME NEW p \in Pods, NEW l \in Leases, NEW S \in SUBSET Rows, Queue!Serve(p, l, S)
      PROVE  Queue!TypeOK'
  <2>1. queue' \subseteq queue /\ born' = born /\ settled' \in [Pods -> SUBSET Rows]
    BY <1>4 DEF Queue!TypeOK, Queue!Serve, Queue!Refill, Queue!Flush
  <2>2. loaded' \in [Pods -> SUBSET Rows]
    BY <1>4, <2>1 DEF Queue!TypeOK, Queue!Serve
  <2> QED
    BY <1>4, <2>1, <2>2 DEF Queue!TypeOK, Queue!Serve
<1> QED
  BY <1>1, <1>2, <1>3, <1>4

\* Every step keeps the types.
LEMMA CollectorTypes == IInv /\ [Next]_vars => TypeOK'
<1> SUFFICES ASSUME TypeOK, AckedRows, [Next]_vars PROVE TypeOK'
  BY DEF IInv
<1> USE DEF TypeOK
<1>1. NoCycle \in [stage : {"idle", "leased", "persisted"},
                   lease : Leases \cup {NoLease}, batch : SUBSET Rows]
  BY DEF NoCycle
<1>2. ASSUME UNCHANGED queueVars PROVE Queue!TypeOK'
  BY <1>2 DEF queueVars, Queue!TypeOK
<1>3. CASE UNCHANGED vars
  BY <1>2, <1>3 DEF vars, queueVars
<1>4. ASSUME NEW r \in Rows, Enqueue(r) PROVE TypeOK'
  BY <1>4, QueueTypes DEF Enqueue
<1>5. ASSUME NEW p \in Pods, NEW L \in SUBSET Leases, Release(p, L) PROVE TypeOK'
  BY <1>5, QueueTypes DEF Release
<1>6. CASE LeaseLost
  BY <1>6, QueueTypes, BoundsAssumption DEF LeaseLost, FreshLeases
<1>7. ASSUME NEW c \in Collectors, Lease(c) PROVE TypeOK'
  <2>1. PICK p \in Pods, l \in FreshLeases, S \in SUBSET Rows :
          /\ Queue!Serve(p, l, S)
          /\ cycle' = [cycle EXCEPT ![c] = [stage |-> "leased", lease |-> l, batch |-> S]]
    BY <1>7 DEF Lease
  <2>2. Queue!TypeOK' /\ l \in Leases
    BY <2>1, QueueTypes DEF FreshLeases
  <2>3. cycle' \in [Collectors -> [stage : {"idle", "leased", "persisted"},
                                   lease : Leases \cup {NoLease}, batch : SUBSET Rows]]
    BY <2>1, <2>2
  <2> QED
    BY <1>7, <2>2, <2>3 DEF Lease
<1>8. ASSUME NEW c \in Collectors, SkipBatch(c) \/ Stop(c) PROVE TypeOK'
  BY <1>1, <1>2, <1>8 DEF SkipBatch, Stop
<1>9. ASSUME NEW c \in Collectors, Persist(c) \/ PersistFails(c) PROVE TypeOK'
  <2>1. Parsed(cycle[c].batch) \subseteq Rows
    BY DEF Parsed
  <2> QED
    BY <1>1, <1>2, <1>9, <2>1 DEF Persist, PersistFails
<1>10. ASSUME NEW c \in Collectors, SendAck(c) PROVE TypeOK'
  <2>1. cycle[c].lease \in Leases
    BY <1>10, SMT DEF SendAck, AckedRows, CycleKnown
  <2> QED
    BY <1>1, <1>2, <1>10, <2>1 DEF SendAck
<1>11. ASSUME NEW p \in Pods, NEW l \in Leases, AckArrives(p, l) PROVE TypeOK'
  BY <1>2, <1>11, QueueTypes DEF AckArrives
<1>12. ASSUME NEW l \in Leases, AckLost(l) PROVE TypeOK'
  BY <1>2, <1>12 DEF AckLost
<1> QED
  BY <1>3, <1>4, <1>5, <1>6, <1>7, <1>8, <1>9, <1>10, <1>11, <1>12 DEF Next

\* What a collector knows of its lease stays true while leases only end and
\* rows are only added to telemetry ...
LEMMA LeasesEnd ==
  ASSUME IInv, cycle' = cycle, telemetry \subseteq telemetry',
         \A q \in Pods, m \in Leases : leased'[q][m] \in {leased[q][m], {}}
  PROVE  \A c \in Collectors : CycleKnown(c)'
<1> SUFFICES ASSUME NEW c \in Collectors PROVE CycleKnown(c)'
  OBVIOUS
<1>1. CycleKnown(c)
  BY DEF IInv, AckedRows
<1> QED
  BY <1>1 DEF CycleKnown

\* ... and when its cycle, or another collector's, is over.
LEMMA CycleEnds ==
  ASSUME IInv, NEW c \in Collectors, cycle' = [cycle EXCEPT ![c] = NoCycle],
         telemetry \subseteq telemetry', leased' = leased
  PROVE  \A d \in Collectors : CycleKnown(d)'
<1> SUFFICES ASSUME NEW d \in Collectors PROVE CycleKnown(d)'
  OBVIOUS
<1>1. CycleKnown(d)
  BY DEF IInv, AckedRows
<1>2. cycle'[d] = IF d = c THEN NoCycle ELSE cycle[d]
  BY DEF IInv, TypeOK
<1>3. CASE d = c
  BY <1>2, <1>3, RowsAssumption DEF CycleKnown, NoCycle
<1>4. CASE d # c
  BY <1>1, <1>2, <1>4 DEF CycleKnown
<1> QED
  BY <1>3, <1>4

\* An ack that arrives settles rows which are persisted or malformed, or finds
\* no lease.
LEMMA AckStep ==
  ASSUME IInv, NEW p \in Pods, NEW l \in Leases, AckArrives(p, l)
  PROVE  NothingLost' /\ AckedRows'
<1>1. /\ telemetry' = telemetry /\ cycle' = cycle /\ acks' \subseteq acks
      /\ l \in acks /\ leased[p][l] \subseteq telemetry \cup Malformed
  BY DEF IInv, AckedRows, AckArrives
<1>2. CASE UNCHANGED queueVars
  BY <1>1, <1>2 DEF IInv, NothingLost, AckedRows, queueVars, CycleKnown
<1>3. CASE Queue!Ack(p, l)
  <2>1. /\ born' = born
        /\ \A q \in Pods : settled'[q] \subseteq settled[q] \cup leased[p][l]
        /\ queue \ (settled[p] \cup leased[p][l]) \subseteq queue'
    BY <1>3 DEF Queue!Ack, Queue!Settle, Queue!Flush, IInv, TypeOK, Queue!TypeOK
  <2>2. \A q \in Pods, m \in Leases : leased'[q][m] \in {leased[q][m], {}}
    BY <1>3 DEF Queue!Ack, IInv, TypeOK, Queue!TypeOK
  <2>3. NothingLost'
    BY <1>1, <2>1 DEF IInv, NothingLost, AckedRows
  <2>4. \A c \in Collectors : CycleKnown(c)'
    BY <1>1, <2>2, LeasesEnd
  <2>5. AckedRows'
    BY <1>1, <2>1, <2>2, <2>4 DEF IInv, TypeOK, AckedRows
  <2> QED
    BY <2>3, <2>5
<1> QED
  BY <1>2, <1>3 DEF AckArrives

\* A lease is served under an id that nobody knows, whoever gets the reply.
LEMMA ServeStep ==
  ASSUME IInv, NEW p \in Pods, NEW l \in FreshLeases, NEW S \in SUBSET Rows,
         Queue!Serve(p, l, S), telemetry' = telemetry, acks' = acks
  PROVE  /\ NothingLost'
         /\ \A q \in Pods : settled'[q] \subseteq telemetry' \cup Malformed
         /\ \A q \in Pods, m \in Leases :
              leased'[q][m] = IF q = p /\ m = l THEN S ELSE leased[q][m]
<1>1. /\ born' = born
      /\ \A q \in Pods : settled'[q] \subseteq settled[q]
      /\ queue \ settled[p] \subseteq queue'
  BY DEF Queue!Serve, Queue!Refill, Queue!Flush, IInv, TypeOK, Queue!TypeOK
<1>2. leased' = [leased EXCEPT ![p][l] = S] /\ leased \in [Pods -> [Leases -> SUBSET Rows]]
  BY DEF Queue!Serve, IInv, TypeOK, Queue!TypeOK
<1>3. NothingLost'
  BY <1>1 DEF IInv, NothingLost, AckedRows
<1> QED
  BY <1>1, <1>2, <1>3 DEF IInv, AckedRows

\* Every step preserves the inductive invariant.
LEMMA CollectorStep == IInv /\ [Next]_vars => IInv'
<1> SUFFICES ASSUME IInv, [Next]_vars PROVE NothingLost' /\ AckedRows'
  BY CollectorTypes DEF IInv
<1>1. CASE UNCHANGED vars
  BY <1>1 DEF vars, queueVars, IInv, NothingLost, AckedRows, CycleKnown
<1>2. ASSUME NEW r \in Rows, Enqueue(r) PROVE NothingLost' /\ AckedRows'
  BY <1>2 DEF Enqueue, Queue!Enqueue, IInv, NothingLost, AckedRows, CycleKnown
<1>3. ASSUME NEW p \in Pods, NEW L \in SUBSET Leases, Release(p, L)
      PROVE  NothingLost' /\ AckedRows'
  <2>1. /\ born' = born /\ \A q \in Pods : settled'[q] \subseteq settled[q]
        /\ queue \ settled[p] \subseteq queue'
    BY <1>3 DEF Release, Queue!Release, Queue!Settle, Queue!Flush, IInv, TypeOK, Queue!TypeOK
  <2>2. \A q \in Pods, m \in Leases : leased'[q][m] \in {leased[q][m], {}}
    BY <1>3 DEF Release, Queue!Release, IInv, TypeOK, Queue!TypeOK
  <2>3. cycle' = cycle /\ acks' = acks /\ telemetry' = telemetry
    BY <1>3 DEF Release
  <2>4. NothingLost'
    BY <2>1, <2>3 DEF IInv, NothingLost, AckedRows
  <2>5. \A c \in Collectors : CycleKnown(c)'
    BY <2>2, <2>3, LeasesEnd
  <2>6. AckedRows'
    BY <2>1, <2>2, <2>3, <2>5 DEF IInv, TypeOK, AckedRows
  <2> QED
    BY <2>4, <2>6
<1>4. CASE LeaseLost
  <2>1. PICK p \in Pods, l \in FreshLeases, S \in SUBSET Rows : Queue!Serve(p, l, S)
    BY <1>4 DEF LeaseLost
  <2>2. cycle' = cycle /\ acks' = acks /\ telemetry' = telemetry
    BY <1>4 DEF LeaseLost
  <2>3. /\ l \in Leases /\ l \notin acks
        /\ \A d \in Collectors : cycle[d].lease # l
    BY DEF FreshLeases
  <2>4. /\ NothingLost' /\ \A q \in Pods : settled'[q] \subseteq telemetry' \cup Malformed
        /\ \A q \in Pods, m \in Leases :
             leased'[q][m] = IF q = p /\ m = l THEN S ELSE leased[q][m]
    BY <2>1, <2>2, ServeStep
  <2>5. ASSUME NEW d \in Collectors PROVE CycleKnown(d)'
    <3>1. CycleKnown(d)
      BY DEF IInv, AckedRows
    <3>2. cycle[d].lease \in Leases =>
            \A q \in Pods : leased'[q][cycle[d].lease] = leased[q][cycle[d].lease]
      BY <2>3, <2>4
    <3> QED
      BY <2>2, <3>1, <3>2 DEF CycleKnown
  <2>6. \A q \in Pods, m \in acks' : leased'[q][m] \subseteq telemetry' \cup Malformed
    BY <2>2, <2>3, <2>4 DEF IInv, TypeOK, AckedRows
  <2> QED
    BY <2>4, <2>5, <2>6 DEF AckedRows
<1>5. ASSUME NEW c \in Collectors, Lease(c) PROVE NothingLost' /\ AckedRows'
  <2>1. PICK p \in Pods, l \in FreshLeases, S \in SUBSET Rows :
          /\ Queue!Serve(p, l, S)
          /\ cycle' = [cycle EXCEPT ![c] = [stage |-> "leased", lease |-> l, batch |-> S]]
    BY <1>5 DEF Lease
  <2>2. acks' = acks /\ telemetry' = telemetry /\ l \in Leases /\ l \notin acks
    BY <1>5 DEF Lease, FreshLeases
  <2>3. /\ NothingLost' /\ \A q \in Pods : settled'[q] \subseteq telemetry' \cup Malformed
        /\ \A q \in Pods, m \in Leases :
             leased'[q][m] = IF q = p /\ m = l THEN S ELSE leased[q][m]
    BY <2>1, <2>2, ServeStep
  <2>4. \A d \in Collectors :
          cycle'[d] = IF d = c THEN [stage |-> "leased", lease |-> l, batch |-> S] ELSE cycle[d]
    BY <2>1 DEF IInv, TypeOK
  <2>5. /\ \A d \in Collectors : cycle[d].lease # l
        /\ \A q \in Pods : leased[q][l] = {}
    BY DEF FreshLeases
  <2>6. ASSUME NEW d \in Collectors PROVE CycleKnown(d)'
    <3>1. CycleKnown(d)
      BY DEF IInv, AckedRows
    <3>2. CASE d = c
      <4>1. cycle'[d] = [stage |-> "leased", lease |-> l, batch |-> S]
        BY <2>4, <3>2
      <4>2. \A q \in Pods : leased'[q][l] \in {{}, S}
        BY <2>2, <2>3, <2>5
      <4> QED
        BY <2>2, <4>1, <4>2 DEF CycleKnown
    <3>3. CASE d # c
      <4>1. cycle'[d] = cycle[d]
        BY <2>4, <3>3
      <4>2. cycle[d].lease \in Leases =>
              \A q \in Pods : leased'[q][cycle[d].lease] = leased[q][cycle[d].lease]
        BY <2>3, <2>5
      <4> QED
        BY <2>2, <3>1, <4>1, <4>2 DEF CycleKnown
    <3> QED
      BY <3>2, <3>3
  <2>7. \A q \in Pods, m \in acks' : leased'[q][m] \subseteq telemetry' \cup Malformed
    BY <2>2, <2>3 DEF IInv, TypeOK, AckedRows
  <2> QED
    BY <2>3, <2>6, <2>7 DEF AckedRows
<1>6. ASSUME NEW c \in Collectors, SkipBatch(c) \/ Stop(c) PROVE NothingLost' /\ AckedRows'
  <2>1. /\ cycle' = [cycle EXCEPT ![c] = NoCycle]
        /\ UNCHANGED queueVars /\ acks' = acks /\ telemetry' = telemetry
    BY <1>6 DEF SkipBatch, Stop
  <2>2. \A d \in Collectors : CycleKnown(d)'
    BY <2>1, CycleEnds DEF queueVars
  <2> QED
    BY <2>1, <2>2 DEF queueVars, IInv, NothingLost, AckedRows
<1>7. ASSUME NEW c \in Collectors, Persist(c) PROVE NothingLost' /\ AckedRows'
  <2>1. \A d \in Collectors :
          cycle'[d] = IF d = c THEN [cycle[c] EXCEPT !.stage = "persisted"] ELSE cycle[d]
    BY <1>7 DEF Persist, IInv, TypeOK
  <2>2. cycle[c] \in [stage : {"idle", "leased", "persisted"},
                      lease : Leases \cup {NoLease}, batch : SUBSET Rows]
    BY DEF IInv, TypeOK
  <2>3. /\ telemetry' = telemetry \cup Parsed(cycle[c].batch) /\ cycle[c].stage = "leased"
        /\ UNCHANGED queueVars /\ acks' = acks
    BY <1>7 DEF Persist
  <2>4. ASSUME NEW d \in Collectors PROVE CycleKnown(d)'
    <3>1. CycleKnown(d) /\ CycleKnown(c)
      BY DEF IInv, AckedRows
    <3>2. CASE d = c
      BY <2>1, <2>2, <2>3, <3>1, <3>2 DEF CycleKnown, queueVars
    <3>3. CASE d # c
      BY <2>1, <2>3, <3>1, <3>3 DEF CycleKnown, queueVars
    <3> QED
      BY <3>2, <3>3
  <2> QED
    BY <2>3, <2>4 DEF queueVars, IInv, NothingLost, AckedRows
<1>8. ASSUME NEW c \in Collectors, PersistFails(c) PROVE NothingLost' /\ AckedRows'
  <2>1. /\ cycle' = [cycle EXCEPT ![c] = NoCycle]
        /\ telemetry \subseteq telemetry' /\ UNCHANGED queueVars /\ acks' = acks
    BY <1>8 DEF PersistFails
  <2>2. \A d \in Collectors : CycleKnown(d)'
    BY <2>1, CycleEnds DEF queueVars
  <2> QED
    BY <2>1, <2>2 DEF queueVars, IInv, NothingLost, AckedRows
<1>9. ASSUME NEW c \in Collectors, SendAck(c) PROVE NothingLost' /\ AckedRows'
  <2>1. cycle' = [cycle EXCEPT ![c] = NoCycle]
    BY <1>9 DEF SendAck
  <2>2. /\ acks' = acks \cup {cycle[c].lease} /\ telemetry' = telemetry
        /\ UNCHANGED queueVars /\ cycle[c].stage = "persisted"
    BY <1>9 DEF SendAck
  <2>3. \A p \in Pods : leased[p][cycle[c].lease] \subseteq telemetry \cup Malformed
    BY <2>2, SMT DEF IInv, AckedRows, CycleKnown, Parsed
  <2>4. NothingLost'
    BY <2>2 DEF queueVars, IInv, NothingLost
  <2>5. \A p \in Pods : settled'[p] \subseteq telemetry' \cup Malformed
    BY <2>2 DEF queueVars, IInv, AckedRows
  <2>6. \A p \in Pods, l \in acks' : leased'[p][l] \subseteq telemetry' \cup Malformed
    BY <2>2, <2>3 DEF queueVars, IInv, AckedRows
  <2>7. \A d \in Collectors : CycleKnown(d)'
    BY <2>1, <2>2, CycleEnds DEF queueVars
  <2> QED
    BY <2>4, <2>5, <2>6, <2>7 DEF AckedRows
<1>10. ASSUME NEW p \in Pods, NEW l \in Leases, AckArrives(p, l) PROVE NothingLost' /\ AckedRows'
  BY <1>10, AckStep
<1>11. ASSUME NEW l \in Leases, AckLost(l) PROVE NothingLost' /\ AckedRows'
  BY <1>11 DEF AckLost, queueVars, IInv, NothingLost, AckedRows, CycleKnown
<1> QED
  BY <1>1, <1>2, <1>3, <1>4, <1>5, <1>6, <1>7, <1>8, <1>9, <1>10, <1>11 DEF Next

\* Every variable keeps its type; in particular an ack always names a lease
\* (SendAck is reached from a persisted batch only).
THEOREM TypeCorrect == Spec => []TypeOK
<1>1. IInv => TypeOK
  BY DEF IInv
<1> QED
  BY <1>1, CollectorInit, CollectorStep, PTL DEF Spec

\* In every execution, what has left the queue has been persisted, or did not
\* parse (processOnce acks after PersistBatch only, collector.go:228-246).
THEOREM NothingIsLost == Spec => []NothingLost
<1>1. IInv => NothingLost
  BY DEF IInv
<1> QED
  BY <1>1, CollectorInit, CollectorStep, PTL DEF Spec

-----------------------------------------------------------------------------
(* Refinement. *)

\* Nobody comes to hold a row that was not published: what pods load is in the
\* queue, and what collectors hold a pod has served.
LEMMA HeldStep == IInv /\ HeldIsBorn /\ [Next]_vars => HeldIsBorn'
<1> SUFFICES ASSUME IInv, HeldIsBorn, [Next]_vars PROVE HeldIsBorn'
  OBVIOUS
<1>1. /\ queue \subseteq born /\ loaded \in [Pods -> SUBSET Rows]
      /\ leased \in [Pods -> [Leases -> SUBSET Rows]]
      /\ cycle \in [Collectors -> [stage : {"idle", "leased", "persisted"},
                                   lease : Leases \cup {NoLease}, batch : SUBSET Rows]]
  BY DEF IInv, TypeOK, Queue!TypeOK
<1>2. NoCycle.batch = {}
  BY DEF NoCycle
<1>3. CASE UNCHANGED vars
  BY <1>3 DEF vars, queueVars, HeldIsBorn
<1>4. ASSUME NEW r \in Rows, Enqueue(r) PROVE HeldIsBorn'
  BY <1>4 DEF Enqueue, Queue!Enqueue, HeldIsBorn
<1>5. ASSUME NEW p \in Pods, NEW L \in SUBSET Leases, Release(p, L) PROVE HeldIsBorn'
  <2>1. /\ born' = born /\ cycle' = cycle
        /\ \A q \in Pods : loaded'[q] \subseteq loaded[q]
        /\ \A q \in Pods, m \in Leases : leased'[q][m] \subseteq leased[q][m]
    BY <1>1, <1>5 DEF Release, Queue!Release
  <2> QED
    BY <2>1 DEF HeldIsBorn
<1>6. ASSUME NEW p \in Pods, NEW l \in Leases, NEW S \in SUBSET Rows, Queue!Serve(p, l, S)
      PROVE  /\ born' = born /\ S \subseteq born
             /\ \A q \in Pods : loaded'[q] \subseteq born
             /\ \A q \in Pods, m \in Leases : leased'[q][m] \subseteq born
  <2>1. born' = born /\ queue' \subseteq queue
    BY <1>6 DEF Queue!Serve, Queue!Refill, Queue!Flush
  <2>2. S \subseteq born /\ \A q \in Pods : loaded'[q] \subseteq born
    BY <1>1, <1>6, <2>1 DEF Queue!Serve, HeldIsBorn
  <2>3. \A q \in Pods, m \in Leases : leased'[q][m] \in {S, leased[q][m]}
    BY <1>1, <1>6 DEF Queue!Serve
  <2> QED
    BY <2>1, <2>2, <2>3 DEF HeldIsBorn
<1>7. CASE LeaseLost
  <2>1. cycle' = cycle
    BY <1>7 DEF LeaseLost
  <2>2. PICK p \in Pods, l \in Leases, S \in SUBSET Rows : Queue!Serve(p, l, S)
    BY <1>7 DEF LeaseLost, FreshLeases
  <2> QED
    BY <1>6, <2>1, <2>2 DEF HeldIsBorn
<1>8. ASSUME NEW c \in Collectors, Lease(c) PROVE HeldIsBorn'
  <2>1. PICK p \in Pods, l \in Leases, S \in SUBSET Rows :
          /\ Queue!Serve(p, l, S)
          /\ cycle' = [cycle EXCEPT ![c] = [stage |-> "leased", lease |-> l, batch |-> S]]
    BY <1>8 DEF Lease, FreshLeases
  <2>2. \A d \in Collectors : cycle'[d].batch \in {S, cycle[d].batch}
    BY <1>1, <2>1
  <2> QED
    BY <1>6, <2>1, <2>2 DEF HeldIsBorn
<1>9. ASSUME NEW c \in Collectors,
             SkipBatch(c) \/ Persist(c) \/ PersistFails(c) \/ SendAck(c) \/ Stop(c)
      PROVE  HeldIsBorn'
  <2>1. UNCHANGED queueVars
    BY <1>9 DEF SkipBatch, Persist, PersistFails, SendAck, Stop
  <2>2. \A d \in Collectors : cycle'[d].batch \in {{}, cycle[d].batch}
    BY <1>1, <1>2, <1>9 DEF SkipBatch, Persist, PersistFails, SendAck, Stop
  <2> QED
    BY <2>1, <2>2 DEF queueVars, HeldIsBorn
<1>10. ASSUME NEW p \in Pods, NEW l \in Leases, AckArrives(p, l) PROVE HeldIsBorn'
  <2>1. cycle' = cycle
    BY <1>10 DEF AckArrives
  <2>2. born' = born /\ loaded' = loaded
    BY <1>10 DEF AckArrives, queueVars, Queue!Ack
  <2>3. \A q \in Pods, m \in Leases : leased'[q][m] \subseteq leased[q][m]
    BY <1>1, <1>10 DEF AckArrives, queueVars, Queue!Ack
  <2> QED
    BY <2>1, <2>2, <2>3 DEF HeldIsBorn
<1>11. ASSUME NEW l \in Leases, AckLost(l) PROVE HeldIsBorn'
  BY <1>11 DEF AckLost, queueVars, HeldIsBorn
<1> QED
  BY <1>3, <1>4, <1>5, <1>7, <1>8, <1>9, <1>10, <1>11 DEF Next

\* The steps that publish and persist nothing may remove rows that are settled.
LEMMA Removes ==
  ASSUME IInv, UNCHANGED <<born, telemetry>>,
         NEW done, done \subseteq telemetry \cup Malformed,
         queue' \in {queue, queue \ done}
  PROVE  [Promise!Next]_(Promise!vars)
<1>1. PICK S \in SUBSET Rows : S = queue \ queue'
  BY DEF IInv, TypeOK, Queue!TypeOK
<1>2. Promise!Remove(S)
  BY <1>1 DEF Promise!Remove
<1> QED
  BY <1>2 DEF Promise!Next

\* Every step is a step of the promise, or none.
LEMMA DeliveryStep ==
  ASSUME IInv, HeldIsBorn, [Next]_vars PROVE [Promise!Next]_(Promise!vars)
<1>1. CASE UNCHANGED <<queue, born, telemetry>>
  BY <1>1 DEF Promise!vars
<1>2. ASSUME NEW r \in Rows, Enqueue(r) PROVE [Promise!Next]_(Promise!vars)
  <2>1. Promise!Publish(r)
    BY <1>2 DEF Enqueue, Queue!Enqueue, Promise!Publish
  <2> QED
    BY <2>1 DEF Promise!Next
<1>3. ASSUME NEW p \in Pods, NEW L \in SUBSET Leases, Release(p, L)
      PROVE  [Promise!Next]_(Promise!vars)
  <2>1. UNCHANGED <<born, telemetry>> /\ queue' \in {queue, queue \ settled[p]}
    BY <1>3 DEF Release, Queue!Release, Queue!Settle, Queue!Flush
  <2>2. settled[p] \subseteq telemetry \cup Malformed
    BY DEF IInv, AckedRows
  <2> QED
    BY <2>1, <2>2, Removes
<1>4. ASSUME telemetry' = telemetry, NEW p \in Pods, NEW l, NEW S, Queue!Serve(p, l, S)
      PROVE  [Promise!Next]_(Promise!vars)
  <2>1. born' = born /\ queue' \in {queue, queue \ settled[p]}
    BY <1>4 DEF Queue!Serve, Queue!Refill, Queue!Flush
  <2>2. settled[p] \subseteq telemetry \cup Malformed
    BY DEF IInv, AckedRows
  <2> QED
    BY <1>4, <2>1, <2>2, Removes
<1>5. ASSUME NEW c \in Collectors, Persist(c) \/ PersistFails(c) PROVE [Promise!Next]_(Promise!vars)
  <2>1. /\ UNCHANGED <<queue, born>>
        /\ telemetry' \in {telemetry, telemetry \cup Parsed(cycle[c].batch)}
    BY <1>5 DEF Persist, PersistFails, queueVars
  <2>2. PICK S \in SUBSET Rows : S = Parsed(cycle[c].batch)
    BY DEF IInv, TypeOK, Parsed
  <2>3. S \subseteq born \ Malformed
    BY <2>2 DEF HeldIsBorn, Parsed
  <2>4. telemetry' # telemetry => Promise!Persist(S)
    BY <2>1, <2>2, <2>3 DEF Promise!Persist
  <2> QED
    BY <1>1, <2>1, <2>4 DEF Promise!Next
<1>6. ASSUME NEW p \in Pods, NEW l \in Leases, AckArrives(p, l) PROVE [Promise!Next]_(Promise!vars)
  <2>1. CASE UNCHANGED queueVars
    BY <1>1, <1>6, <2>1 DEF AckArrives, queueVars
  <2>2. CASE Queue!Ack(p, l)
    <3>1. /\ UNCHANGED <<born, telemetry>>
          /\ queue' \in {queue, queue \ (settled[p] \cup leased[p][l])}
      BY <1>6, <2>2 DEF AckArrives, Queue!Ack, Queue!Settle, Queue!Flush
    <3>2. settled[p] \cup leased[p][l] \subseteq telemetry \cup Malformed
      BY <1>6 DEF AckArrives, IInv, AckedRows
    <3> QED
      BY <3>1, <3>2, Removes
  <2> QED
    BY <1>6, <2>1, <2>2 DEF AckArrives
<1>7. ASSUME LeaseLost \/ \E c \in Collectors : Lease(c) PROVE [Promise!Next]_(Promise!vars)
  BY <1>4, <1>7 DEF LeaseLost, Lease
<1>8. ASSUME \/ UNCHANGED vars
             \/ \E c \in Collectors : SkipBatch(c) \/ SendAck(c) \/ Stop(c)
             \/ \E l \in Leases : AckLost(l)
      PROVE  UNCHANGED <<queue, born, telemetry>>
  BY <1>8 DEF vars, queueVars, SkipBatch, SendAck, Stop, AckLost
<1> QED
  BY <1>1, <1>2, <1>3, <1>5, <1>6, <1>7, <1>8 DEF Next

\* In every step a message is published, persisted after it was published, or
\* removed after it was persisted (partition.go:201-207 and 318-353,
\* collector.go:163-250): readers and collectors implement Delivery.
THEOREM Refinement == Spec => ImplementsDelivery
<1>1. Init => IInv /\ HeldIsBorn
  <2>1. Init => HeldIsBorn
    BY DEF Init, Queue!Init, HeldIsBorn, NoCycle
  <2> QED
    BY <2>1, CollectorInit
<1>2. IInv /\ HeldIsBorn /\ [Next]_vars => (IInv /\ HeldIsBorn)'
  BY CollectorStep, HeldStep
<1>3. Init => Promise!Init
  BY DEF Init, Queue!Init, Promise!Init
<1>4. IInv /\ HeldIsBorn /\ [Next]_vars => [Promise!Next]_(Promise!vars)
  BY DeliveryStep
<1> QED
  BY <1>1, <1>2, <1>3, <1>4, PTL DEF Spec, ImplementsDelivery, Promise!Spec

=============================================================================
