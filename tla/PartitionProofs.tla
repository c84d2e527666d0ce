--------------------------- MODULE PartitionProofs ---------------------------
(***************************************************************************)
(* Proofs about Partition, for every value of its constants: its type      *)
(* invariant, its safety invariants by way of one inductive invariant, and *)
(* that it implements VisibilityQueue.                                     *)
(***************************************************************************)
EXTENDS Partition, SequenceTheorems, TLAPS

-----------------------------------------------------------------------------
(* What a fetch returns and what a pop leaves. *)

\* A batch that ORDER BY id LIMIT n can return is a sequence of distinct rows.
LEMMA AscendingSeqs ==
  ASSUME NEW b \in Ascending
  PROVE  b \in Seq(Rows) /\ IsInjective(b)
<1>1. PICK n \in 0 .. BatchSize : b \in [1 .. n -> Rows]
  BY DEF Ascending
<1>n. n \in Nat
  BY BoundsAssumption
<1>2. b \in Seq(Rows)
  BY <1>1, <1>n, SeqDef
<1>3. IsInjective(b)
  <2> SUFFICES ASSUME NEW i \in DOMAIN b, NEW j \in DOMAIN b, b[i] = b[j]
               PROVE  i = j
    BY DEF IsInjective
  <2>1. i \in 1 .. n /\ j \in 1 .. n
    BY <1>1
  <2>2. b[i] \in Rows /\ b[j] \in Rows
    BY <1>1, <2>1
  <2>3. i \in Int /\ j \in Int
    BY <2>1, <1>n
  <2>4. b[i] \in Nat /\ b[j] \in Nat
    BY <2>2, RowsAssumption
  <2>5. (i < j => b[i] < b[j]) /\ (j < i => b[j] < b[i])
    BY DEF Ascending
  <2> QED
    BY <2>3, <2>4, <2>5
<1> QED
  BY <1>2, <1>3

\* A fetched batch: distinct rows of the table, none of them leased
\* (FetchBatch and the skip of refill).
LEMMA FetchedRows ==
  ASSUME NEW rows, NEW b \in Fetched(rows)
  PROVE  /\ b \in Seq(Rows) /\ IsInjective(b)
         /\ Range(b) \subseteq rows /\ Range(b) \cap ServedIds = {}
<1>1. b \in Ascending /\ (b = <<>> \/ Range(b) = Oldest(rows, BatchSize) \ ServedIds)
  BY DEF Fetched
<1>2. CASE b = <<>>
  <2>1. Range(b) = {}
    BY <1>2 DEF Range
  <2> QED
    BY <1>1, <2>1, AscendingSeqs
<1>3. CASE Range(b) = Oldest(rows, BatchSize) \ ServedIds
  BY <1>1, <1>3, AscendingSeqs DEF Oldest
<1> QED
  BY <1>1, <1>2, <1>3

\* An empty buffer holds nothing.
LEMMA EmptyRange == Range(<<>>) = {}
BY DEF Range

\* Popping n rows splits a buffer into two disjoint parts.
LEMMA PopSplits ==
  ASSUME NEW buf \in Seq(Rows), IsInjective(buf), NEW n \in 0 .. Len(buf)
  PROVE  /\ SubSeq(buf, n + 1, Len(buf)) \in Seq(Rows)
         /\ IsInjective(SubSeq(buf, n + 1, Len(buf)))
         /\ Range(SubSeq(buf, n + 1, Len(buf))) = Range(buf) \ {buf[i] : i \in 1 .. n}
         /\ {buf[i] : i \in 1 .. n} \subseteq Range(buf) /\ Range(buf) \subseteq Rows
<1> SUFFICES ASSUME NEW ids, ids = {buf[i] : i \in 1 .. n},
                    NEW rest, rest = SubSeq(buf, n + 1, Len(buf))
             PROVE  /\ rest \in Seq(Rows) /\ IsInjective(rest)
                    /\ Range(rest) = Range(buf) \ ids
                    /\ ids \subseteq Range(buf) /\ Range(buf) \subseteq Rows
  OBVIOUS
<1>1. Len(buf) \in Nat /\ DOMAIN buf = 1 .. Len(buf) /\ \A i \in 1 .. Len(buf) : buf[i] \in Rows
  BY LenProperties, ElementOfSeq
<1>2. /\ rest \in Seq(Rows)
      /\ Len(rest) = IF n + 1 <= Len(buf) THEN Len(buf) - n ELSE 0
      /\ \A i \in 1 .. Len(buf) - n : rest[i] = buf[n + i]
  <2>1. \A i \in n + 1 .. Len(buf) : buf[i] \in Rows
    BY <1>1
  <2>2. n + 1 \in Int /\ Len(buf) \in Int
    BY <1>1
  <2>3. /\ rest \in Seq(Rows)
        /\ Len(rest) = IF n + 1 <= Len(buf) THEN Len(buf) - (n + 1) + 1 ELSE 0
        /\ \A i \in 1 .. Len(buf) - (n + 1) + 1 : rest[i] = buf[(n + 1) + i - 1]
    BY <2>1, <2>2, SubSeqProperties
  <2> QED
    BY <2>2, <2>3
<1>3. DOMAIN rest = 1 .. Len(buf) - n
  BY <1>1, <1>2, LenProperties
<1>4. IsInjective(rest)
  BY <1>1, <1>2, <1>3 DEF IsInjective
<1>5. Range(rest) \subseteq Range(buf) \ ids
  <2> SUFFICES ASSUME NEW j \in DOMAIN rest
               PROVE  rest[j] \in Range(buf) \ ids
    BY DEF Range
  <2>1. j \in Int /\ n + j \in 1 .. Len(buf) /\ rest[j] = buf[n + j]
    BY <1>1, <1>2, <1>3
  <2>2. \A i \in 1 .. n : i \in DOMAIN buf /\ i # n + j
    BY <1>1, <1>3, <2>1
  <2>3. rest[j] \notin ids
    BY <1>1, <2>1, <2>2 DEF IsInjective
  <2> QED
    BY <1>1, <2>1, <2>3 DEF Range
<1>6. ids \subseteq Range(buf) /\ Range(buf) \subseteq Rows
  BY <1>1 DEF Range
<1>7. Range(buf) \ ids \subseteq Range(rest)
  <2> SUFFICES ASSUME NEW j \in 1 .. Len(buf), buf[j] \notin ids
               PROVE  buf[j] \in Range(rest)
    BY <1>1 DEF Range
  <2>1. ~(j <= n)
    OBVIOUS
  <2>2. j - n \in 1 .. Len(buf) - n /\ n + (j - n) = j
    BY <1>1, <2>1
  <2>3. rest[j - n] = buf[j]
    BY <1>2, <2>2
  <2> QED
    BY <1>3, <2>2, <2>3 DEF Range
<1> QED
  BY <1>2, <1>4, <1>5, <1>6, <1>7

-----------------------------------------------------------------------------
(* Types. *)

\* A reply leaves call a function from handlers to call records.
LEMMA ReplyType ==
  ASSUME call \in [Handlers -> Calls], NEW to, NEW r \in Calls, Reply(to, r)
  PROVE  call' \in [Handlers -> Calls]
BY DEF Reply

\* Handing out rows of a well-formed buffer keeps the types.
LEMMA HandOutType ==
  ASSUME TypeOK, NEW cmd \in LeaseCmds, NEW buf \in Seq(Rows), HandOut(cmd, buf)
  PROVE  /\ buffer' \in Seq(Rows) /\ served' \in [Leases -> Batches]
         /\ call' \in [Handlers -> Calls]
<1> DEFINE n == IF cmd.max < Len(buf) THEN cmd.max ELSE Len(buf)
           ids == {buf[i] : i \in 1 .. n}
<1>0. cmd.max \in Nat /\ cmd.secs \in Nat
  BY RequestAssumption DEF LeaseCmds
<1>1. /\ Len(buf) \in Nat /\ n \in 0 .. Len(buf)
      /\ \A i \in 1 .. Len(buf) : buf[i] \in Rows
  BY <1>0, LenProperties, ElementOfSeq
<1>2. buffer' = SubSeq(buf, n + 1, Len(buf))
  BY DEF HandOut
<1>3. buffer' \in Seq(Rows)
  <2>1. n + 1 \in Int /\ Len(buf) \in Int /\ \A i \in n + 1 .. Len(buf) : buf[i] \in Rows
    BY <1>1
  <2> HIDE DEF n
  <2> QED
    BY <1>2, <2>1, SubSeqProperties
<1>4. ids \in SUBSET Rows
  BY <1>1
<1>5. CASE n = 0
  <2>1. Reply(cmd.to, [Idle EXCEPT !.stage = "leased"]) /\ UNCHANGED served
    BY <1>5 DEF HandOut
  <2>2. [Idle EXCEPT !.stage = "leased"] \in Calls
    BY DEF Idle, Calls, Stages
  <2> QED
    BY <1>3, <2>1, <2>2, ReplyType DEF TypeOK, Calls, Batches
<1>6. CASE n # 0
  <2>1. PICK l \in FreshLeases :
          /\ served' = [served EXCEPT ![l] = [ids |-> ids, age |-> 0, timeout |-> cmd.secs]]
          /\ Reply(cmd.to, [stage |-> "leased", lease |-> l, ids |-> ids])
    BY <1>6 DEF HandOut
  <2>2. l \in Leases
    BY DEF FreshLeases
  <2> HIDE DEF ids
  <2>3. [stage |-> "leased", lease |-> l, ids |-> ids] \in Calls
    BY <1>4, <2>2 DEF Calls, Stages
  <2>4. [ids |-> ids, age |-> 0, timeout |-> cmd.secs] \in Batches
    BY <1>0, <1>4 DEF Batches
  <2>5. served' \in [Leases -> Batches]
    BY <2>1, <2>4 DEF TypeOK, Batches
  <2> QED
    BY <1>3, <2>1, <2>3, <2>5, ReplyType DEF TypeOK, Calls
<1> QED
  BY <1>5, <1>6

\* Dropping the head of either channel.
LEMMA TailTypes ==
  ASSUME TypeOK
  PROVE  /\ leaseCh # <<>> => /\ Head(leaseCh) \in LeaseCmds
                              /\ Tail(leaseCh) \in Seq(LeaseCmds)
                              /\ Len(Tail(leaseCh)) <= ChanCap
         /\ ackCh # <<>> => /\ Head(ackCh) \in AckCmds
                            /\ Tail(ackCh) \in Seq(AckCmds)
                            /\ Len(Tail(ackCh)) <= ChanCap
<1>1. /\ leaseCh \in Seq(LeaseCmds) /\ Len(leaseCh) <= ChanCap /\ Len(leaseCh) \in Nat
      /\ ackCh \in Seq(AckCmds) /\ Len(ackCh) <= ChanCap /\ Len(ackCh) \in Nat
      /\ ChanCap \in Nat
  BY LenProperties, BoundsAssumption DEF TypeOK
<1>2. leaseCh # <<>> => /\ Head(leaseCh) \in LeaseCmds
                        /\ Tail(leaseCh) \in Seq(LeaseCmds)
                        /\ Len(Tail(leaseCh)) = Len(leaseCh) - 1
  BY <1>1, HeadTailProperties
<1>3. ackCh # <<>> => /\ Head(ackCh) \in AckCmds
                      /\ Tail(ackCh) \in Seq(AckCmds)
                      /\ Len(Tail(ackCh)) = Len(ackCh) - 1
  BY <1>1, HeadTailProperties
<1> QED
  BY <1>1, <1>2, <1>3

\* Giving up on a queued command changes only whom it answers.
LEMMA AbandonTypes ==
  ASSUME TypeOK, NEW h \in Handlers, Abandon(h)
  PROVE  /\ leaseCh' \in Seq(LeaseCmds) /\ Len(leaseCh') = Len(leaseCh)
         /\ ackCh' \in Seq(AckCmds) /\ Len(ackCh') = Len(ackCh)
         /\ DOMAIN ackCh' = DOMAIN ackCh
         /\ \A i \in DOMAIN ackCh : ackCh'[i].lease = ackCh[i].lease
<1>1. /\ leaseCh \in Seq(LeaseCmds) /\ Len(leaseCh) \in Nat /\ DOMAIN leaseCh = 1 .. Len(leaseCh)
      /\ ackCh \in Seq(AckCmds) /\ Len(ackCh) \in Nat /\ DOMAIN ackCh = 1 .. Len(ackCh)
  BY LenProperties DEF TypeOK
<1>2. \A i \in 1 .. Len(leaseCh) : leaseCh[i] \in LeaseCmds
  BY <1>1, ElementOfSeq
<1>3. \A i \in 1 .. Len(ackCh) : ackCh[i] \in AckCmds
  BY <1>1, ElementOfSeq
<1>4. leaseCh' \in [1 .. Len(leaseCh) -> LeaseCmds]
  BY <1>1, <1>2 DEF Abandon, LeaseCmds
<1>5. /\ ackCh' \in [1 .. Len(ackCh) -> AckCmds]
      /\ \A i \in DOMAIN ackCh : ackCh'[i].lease = ackCh[i].lease
  BY <1>1, <1>3 DEF Abandon, AckCmds
<1>6. leaseCh' \in Seq(LeaseCmds) /\ ackCh' \in Seq(AckCmds)
  <2>1. \A S : \A n \in Nat : \A s \in [1 .. n -> S] : s \in Seq(S)
    BY SeqDef
  <2> QED
    BY <1>1, <1>4, <1>5, <2>1
<1>7. Len(leaseCh') = Len(leaseCh) /\ Len(ackCh') = Len(ackCh)
  <2>1. DOMAIN leaseCh' = 1 .. Len(leaseCh') /\ Len(leaseCh') \in Nat
    BY <1>6, LenProperties
  <2>2. DOMAIN ackCh' = 1 .. Len(ackCh') /\ Len(ackCh') \in Nat
    BY <1>6, LenProperties
  <2>3. DOMAIN leaseCh' = 1 .. Len(leaseCh) /\ DOMAIN ackCh' = 1 .. Len(ackCh)
    BY <1>4, <1>5
  <2>4. \A m, n \in Nat : m < n => n \in 1 .. n /\ n \notin 1 .. m
    OBVIOUS
  <2>5. \A m, n \in Nat : 1 .. m = 1 .. n => m = n
    BY <2>4
  <2> QED
    BY <1>1, <2>1, <2>2, <2>3, <2>5
<1> QED
  BY <1>1, <1>5, <1>6, <1>7

\* A pod that has just started is well typed (NewPartition, the head of Run).
LEMMA TypeInit == Init => TypeOK
<1> SUFFICES ASSUME Init PROVE TypeOK
  OBVIOUS
<1>1. leaseCh \in Seq(LeaseCmds) /\ ackCh \in Seq(AckCmds) /\ buffer \in Seq(Rows)
  BY EmptySeq DEF Init
<1>2. Len(leaseCh) <= ChanCap /\ Len(ackCh) <= ChanCap
  BY EmptySeq, BoundsAssumption DEF Init
<1> QED
  BY <1>1, <1>2 DEF Init, TypeOK, NoBatch, Idle, Stages, Calls, Batches

\* Every step keeps the types.
LEMMA TypeStep == TypeOK /\ [Next]_vars => TypeOK'
<1> SUFFICES ASSUME TypeOK, [Next]_vars PROVE TypeOK'
  OBVIOUS
<1> USE DEF dbVars, bufVars, ownerVars, chanVars, clientVars, mainVars
<1>t. /\ call \in [Handlers -> Calls] /\ served \in [Leases -> Batches]
      /\ told \in [Leases -> SUBSET Rows]
      /\ Idle \in Calls /\ [Idle EXCEPT !.stage = "leased"] \in Calls
      /\ [Idle EXCEPT !.stage = "waiting"] \in Calls /\ NoBatch \in Batches
  BY DEF TypeOK, Calls, Batches, Idle, NoBatch, Stages
<1>e. <<>> \in Seq(Rows) /\ <<>> \in Seq(LeaseCmds) /\ <<>> \in Seq(AckCmds)
      /\ Len(<<>>) <= ChanCap
  BY EmptySeq, BoundsAssumption
<1>s. \A rows : \A b \in Seq(Rows), f \in Fetched(rows) : b \o f \in Seq(Rows)
  BY FetchedRows, ConcatProperties
<1>1. CASE InitialFill
  <2>1. buffer' \in Seq(Rows)
    BY <1>1, <1>s DEF InitialFill, TypeOK
  <2> QED
    BY <1>1, <2>1 DEF InitialFill, TypeOK
<1>2. CASE ServeLease
  <2>1. /\ Head(leaseCh) \in LeaseCmds /\ leaseCh' \in Seq(LeaseCmds)
        /\ Len(leaseCh') <= ChanCap
    BY <1>2, TailTypes DEF ServeLease
  <2>2. PICK buf \in Seq(Rows) :
          /\ HandOut(Head(leaseCh), buf)
          /\ db' \subseteq db /\ doneIDs' \subseteq doneIDs
    <3>1. CASE NeedsRefill
      <4>1. PICK d \in Deleted(doneIDs) : \E b \in Fetched(d) :
              db' = d /\ doneIDs' = {} /\ HandOut(Head(leaseCh), buffer \o b)
        BY <1>2, <3>1 DEF ServeLease
      <4>2. d \subseteq db
        BY DEF Deleted
      <4> QED
        BY <4>1, <4>2, <1>s DEF TypeOK
    <3>2. CASE ~NeedsRefill
      BY <1>2, <3>2 DEF ServeLease, TypeOK
    <3> QED
      BY <3>1, <3>2
  <2>3. /\ buffer' \in Seq(Rows) /\ served' \in [Leases -> Batches]
        /\ call' \in [Handlers -> Calls]
    BY <2>1, <2>2, HandOutType
  <2> QED
    BY <1>2, <2>1, <2>2, <2>3 DEF ServeLease, TypeOK, Calls, Batches
<1>3. CASE RefuseLease
  <2>1. leaseCh' \in Seq(LeaseCmds) /\ Len(leaseCh') <= ChanCap
    BY <1>3, TailTypes DEF RefuseLease
  <2>2. call' \in [Handlers -> Calls]
    BY <1>3, <1>t, ReplyType DEF RefuseLease
  <2> QED
    BY <1>3, <2>1, <2>2 DEF RefuseLease, TypeOK, Calls
<1>4. CASE ProcessAck
  <2> DEFINE l == Head(ackCh).lease
  <2>1. l \in Leases /\ ackCh' \in Seq(AckCmds) /\ Len(ackCh') <= ChanCap
    BY <1>4, TailTypes DEF ProcessAck, AckCmds
  <2>2. served[l].ids \in SUBSET Rows
    BY <1>t, <2>1 DEF Batches
  <2>3. call' \in [Handlers -> Calls]
    <3>1. [stage |-> "acked", lease |-> l, ids |-> served[l].ids] \in Calls
      BY <2>1, <2>2 DEF Calls, Stages
    <3> QED
      BY <1>4, <1>t, <3>1, ReplyType DEF ProcessAck
  <2>4. served' \in [Leases -> Batches]
    BY <1>4, <1>t, <2>1 DEF ProcessAck
  <2>5. doneIDs' \subseteq doneIDs \cup served[l].ids /\ db' \subseteq db
        /\ owner' \in {owner, "returned"}
    BY <1>4 DEF ProcessAck, Finish, Flush, Deleted
  <2> QED
    BY <1>4, <2>1, <2>2, <2>3, <2>4, <2>5 DEF ProcessAck, TypeOK, Calls, Batches
<1>5. CASE StartDraining
  BY <1>5, <1>e DEF StartDraining, Finish, Flush, Deleted, TypeOK
<1>6. CASE ExpireTick
  <2>1. served' \in [Leases -> Batches]
    BY <1>6, <1>t DEF ExpireTick
  <2>2. doneIDs' \subseteq doneIDs /\ db' \subseteq db /\ owner' \in {owner, "returned"}
    BY <1>6 DEF ExpireTick, Finish, Flush, Deleted
  <2> QED
    BY <1>6, <2>1, <2>2 DEF ExpireTick, TypeOK, Batches
<1>7. CASE BeginShutdown \/ BeginDrain
  BY <1>7 DEF BeginShutdown, BeginDrain, TypeOK
<1>8. CASE Exit \/ Crash
  <2>1. Halt
    BY <1>8 DEF Exit, Crash
  <2>2. call' \in [Handlers -> Calls] /\ served' \in [Leases -> Batches]
    BY <2>1, <1>t DEF Halt
  <2> QED
    BY <2>1, <2>2, <1>e DEF Halt, TypeOK, Calls, Batches
<1>9. CASE Restart
  BY <1>9 DEF Restart, TypeOK
<1>10. CASE Tick
  <2>1. \A l \in Leases : [served[l] EXCEPT !.age = @ + 1] \in Batches
    BY <1>t DEF Batches
  <2>2. served' \in [Leases -> Batches]
    BY <1>10, <1>t, <2>1 DEF Tick
  <2> QED
    BY <1>10, <2>2 DEF Tick, TypeOK, Batches
<1>11. ASSUME NEW h \in Handlers, HandlerStep(h) PROVE TypeOK'
  <2>1. CASE LeaseArrives(h)
    BY <2>1, <1>t DEF LeaseArrives, TypeOK, Calls, Stages
  <2>2. CASE \E l \in Leases : AckArrives(h, l)
    <3>1. PICK l \in Leases : AckArrives(h, l)
      BY <2>2
    <3>2. [stage |-> "acking", lease |-> l, ids |-> {}] \in Calls
      BY NamesAssumption DEF Calls, Stages
    <3>3. call' \in [Handlers -> Calls] /\ acked' \subseteq Rows
      BY <3>1, <3>2, <1>t DEF AckArrives, TypeOK
    <3> QED
      BY <3>1, <3>3 DEF AckArrives, TypeOK
  <2>3. CASE SendLease(h)
    <3>1. PICK max \in Maxes, secs \in LeaseSecs :
            leaseCh' = Append(leaseCh, [to |-> h, max |-> max, secs |-> secs])
      BY <2>3 DEF SendLease
    <3>2. [to |-> h, max |-> max, secs |-> secs] \in LeaseCmds
      BY DEF LeaseCmds
    <3>3. leaseCh' \in Seq(LeaseCmds) /\ Len(leaseCh') = Len(leaseCh) + 1
      BY <3>1, <3>2, AppendProperties DEF TypeOK
    <3>4. Len(leaseCh') <= ChanCap
      BY <2>3, <3>3, LenProperties, BoundsAssumption DEF SendLease, TypeOK
    <3>5. call' \in [Handlers -> Calls]
      BY <2>3, <1>t DEF SendLease, Calls, Stages
    <3> QED
      BY <2>3, <3>3, <3>4, <3>5 DEF SendLease, TypeOK, Calls
  <2>4. CASE SendAck(h)
    <3>1. [to |-> h, lease |-> call[h].lease] \in AckCmds
      BY <2>4, <1>t DEF SendAck, Calls, AckCmds
    <3>2. ackCh' \in Seq(AckCmds) /\ Len(ackCh') = Len(ackCh) + 1
      BY <2>4, <3>1, AppendProperties DEF SendAck, TypeOK
    <3>3. Len(ackCh') <= ChanCap
      BY <2>4, <3>2, LenProperties, BoundsAssumption DEF SendAck, TypeOK
    <3>4. call' \in [Handlers -> Calls]
      BY <2>4, <1>t DEF SendAck
    <3> QED
      BY <2>4, <3>2, <3>3, <3>4 DEF SendAck, TypeOK
  <2>5. CASE Deliver(h)
    <3>1. told' \in [Leases -> SUBSET Rows]
      BY <2>5, <1>t DEF Deliver, Calls
    <3>2. call' \in [Handlers -> Calls]
      BY <2>5, <1>t DEF Deliver
    <3> QED
      BY <2>5, <3>1, <3>2 DEF Deliver, TypeOK, Calls
  <2>6. CASE Abandon(h)
    <3>1. call' \in [Handlers -> Calls]
      BY <2>6, <1>t DEF Abandon
    <3>2. /\ leaseCh' \in Seq(LeaseCmds) /\ Len(leaseCh') <= ChanCap
          /\ ackCh' \in Seq(AckCmds) /\ Len(ackCh') <= ChanCap
      BY <2>6, AbandonTypes DEF TypeOK
    <3> QED
      BY <2>6, <3>1, <3>2 DEF Abandon, TypeOK, Calls
  <2> QED
    BY <1>11, <2>1, <2>2, <2>3, <2>4, <2>5, <2>6 DEF HandlerStep
<1>12. ASSUME NEW l \in Leases, Forget(l) PROVE TypeOK'
  BY <1>12, <1>t DEF Forget, TypeOK
<1>13. ASSUME NEW r \in Rows, Insert(r) PROVE TypeOK'
  BY <1>13 DEF Insert, TypeOK
<1>14. CASE UNCHANGED vars
  BY <1>14 DEF vars, TypeOK
<1> QED
  BY <1>1, <1>2, <1>3, <1>4, <1>5, <1>6, <1>7, <1>8, <1>9, <1>10, <1>11, <1>12, <1>13, <1>14
  DEF Next, OwnerStep, MainStep

\* Every reachable state is well typed, and neither channel ever holds more
\* commands than its capacity (partition.go:69-80).
THEOREM TypeCorrect == Spec => []TypeOK
BY TypeInit, TypeStep, PTL DEF Spec

-----------------------------------------------------------------------------
(* The inductive invariant. *)

\* A pod that has just started holds nothing, so that the invariant is true.
LEMMA IInvInit == Init => IInv
<1> SUFFICES ASSUME Init PROVE IInv
  OBVIOUS
<1>1. IsInjective(buffer) /\ Range(buffer) = {}
  BY DEF Init, IsInjective, Range
<1> QED
  BY <1>1, TypeInit
  DEF Init, IInv, Apart, AckKnowledge, AckedOnly, Phases, NothingHeld, NoBatch

\* The initial fetch.
LEMMA FillStep == ASSUME IInv, InitialFill PROVE Apart' /\ AckKnowledge' /\ AckedOnly' /\ Phases'
<1> USE DEF dbVars, bufVars, ownerVars, chanVars, clientVars, mainVars
<1>1. PICK b \in Fetched(db) : buffer' = buffer \o b
  BY DEF InitialFill
<1>2. buffer = <<>> /\ doneIDs = {} /\ \A l \in Leases : served[l].ids = {}
  BY DEF InitialFill, IInv, Phases, NothingHeld
<1>3. b \in Seq(Rows) /\ IsInjective(b) /\ Range(b) \subseteq db
  BY FetchedRows
<1>4. buffer' = b
  BY <1>1, <1>2, <1>3, ConcatEmptySeq
<1>5. Apart'
  BY <1>2, <1>3, <1>4 DEF InitialFill, Apart
<1>6. AckKnowledge' /\ AckedOnly'
  BY <1>2 DEF InitialFill, IInv, AckKnowledge, AckedOnly
<1>7. Phases'
  BY DEF InitialFill, IInv, Phases
<1> QED
  BY <1>5, <1>6, <1>7

\* A lease command before Drain: the buffer it pops from, refilled or not, is
\* apart from everything leased and from what is still pending.
LEMMA ServedBuffer ==
  ASSUME IInv, ServeLease
  PROVE  \E buf \in Seq(Rows) :
           /\ HandOut(Head(leaseCh), buf)
           /\ IsInjective(buf) /\ Range(buf) \subseteq db' /\ doneIDs' \subseteq db'
           /\ Range(buf) \cap doneIDs' = {}
           /\ (doneIDs' = doneIDs /\ db' = db) \/ (doneIDs' = {} /\ db' \in {db, db \ doneIDs})
           /\ \A l \in Leases : /\ served[l].ids \subseteq db' /\ served[l].ids \cap doneIDs' = {}
                                /\ served[l].ids \cap Range(buf) = {}
           /\ \/ buf = buffer /\ UNCHANGED <<db, doneIDs>>
              \/ buffer = <<>> /\ Outstanding = {} /\ doneIDs' = {}
<1> DEFINE cmd == Head(leaseCh)
<1>1. CASE NeedsRefill
  <2>1. PICK d \in Deleted(doneIDs) : \E b \in Fetched(d) :
          db' = d /\ doneIDs' = {} /\ HandOut(cmd, buffer \o b)
    BY <1>1 DEF ServeLease
  <2>2. PICK b \in Fetched(d) : db' = d /\ doneIDs' = {} /\ HandOut(cmd, buffer \o b)
    BY <2>1
  <2>3. b \in Seq(Rows) /\ IsInjective(b) /\ Range(b) \subseteq d
    BY FetchedRows
  <2>4. buffer \o b = b
    BY <1>1, <2>3, ConcatEmptySeq DEF NeedsRefill
  <2>5. \A l \in Leases : served[l].ids = {}
    BY <1>1 DEF NeedsRefill, Outstanding
  <2>6. d \in {db, db \ doneIDs}
    BY DEF Deleted
  <2>7. buffer = <<>> /\ Outstanding = {}
    BY <1>1 DEF NeedsRefill
  <2> QED
    BY <2>2, <2>3, <2>4, <2>5, <2>6, <2>7
<1>2. CASE ~NeedsRefill
  <2>1. HandOut(cmd, buffer) /\ UNCHANGED <<db, doneIDs>>
    BY <1>2 DEF ServeLease
  <2> QED
    BY <2>1 DEF IInv, TypeOK, Apart
<1> QED
  BY <1>1, <1>2

\* The rows it hands out leave that buffer.
LEMMA ServeStep == ASSUME IInv, ServeLease PROVE Apart' /\ AckKnowledge' /\ AckedOnly' /\ Phases'
<1> USE DEF dbVars, bufVars, ownerVars, chanVars, clientVars, mainVars
<1> DEFINE cmd == Head(leaseCh)
<1>1. PICK buf \in Seq(Rows) :
        /\ HandOut(cmd, buf)
        /\ IsInjective(buf) /\ Range(buf) \subseteq db' /\ doneIDs' \subseteq db'
        /\ Range(buf) \cap doneIDs' = {}
        /\ (doneIDs' = doneIDs /\ db' = db) \/ (doneIDs' = {} /\ db' \in {db, db \ doneIDs})
        /\ \A l \in Leases : /\ served[l].ids \subseteq db' /\ served[l].ids \cap doneIDs' = {}
                             /\ served[l].ids \cap Range(buf) = {}
  BY ServedBuffer
<1> DEFINE n == IF cmd.max < Len(buf) THEN cmd.max ELSE Len(buf)
           ids == {buf[i] : i \in 1 .. n}
<1>2. n \in 0 .. Len(buf)
  <2>1. cmd.max \in Nat
    BY TailTypes, RequestAssumption DEF IInv, ServeLease, LeaseCmds
  <2> QED
    BY <2>1, LenProperties
<1>3. buffer' = SubSeq(buf, n + 1, Len(buf))
  BY <1>1 DEF HandOut
<1>4. /\ IsInjective(buffer') /\ Range(buffer') \subseteq Range(buf) \ ids
      /\ ids \subseteq Range(buf) /\ Range(buf) \subseteq Rows
  <2> HIDE DEF n
  <2> QED
    BY <1>1, <1>2, <1>3, PopSplits
<1>5. /\ leaseCh' = Tail(leaseCh) /\ owner = "running" /\ ~draining
      /\ UNCHANGED <<born, draining, owner, ackCh, told, acked, life, timer>>
  BY DEF ServeLease
<1>6. AckedOnly'
  BY <1>1, <1>5 DEF IInv, AckedOnly
<1>7. Phases'
  BY <1>5 DEF IInv, Phases
<1>8. CASE n = 0
  <2>1. Reply(cmd.to, [Idle EXCEPT !.stage = "leased"]) /\ UNCHANGED served
    BY <1>1, <1>8 DEF HandOut
  <2>2. Apart'
    BY <1>1, <1>4, <2>1 DEF IInv, Apart
  <2>3. AckKnowledge'
    <3>1. \A h \in Handlers : \/ call'[h] = call[h]
                              \/ call'[h].lease = NoLease
      BY <2>1 DEF Reply, Idle
    <3> QED
      BY <1>5, <2>1, <3>1, NamesAssumption DEF IInv, AckKnowledge
  <2> QED
    BY <1>6, <1>7, <2>2, <2>3
<1>9. CASE n # 0
  <2>1. PICK l \in FreshLeases :
          /\ served' = [served EXCEPT ![l] = [ids |-> ids, age |-> 0, timeout |-> cmd.secs]]
          /\ Reply(cmd.to, [stage |-> "leased", lease |-> l, ids |-> ids])
    BY <1>1, <1>9 DEF HandOut
  <2> HIDE DEF ids, n
  <2>2. /\ l \in Leases /\ told[l] = {}
        /\ \A h \in Handlers : call[h].lease # l
        /\ \A i \in DOMAIN ackCh : ackCh[i].lease # l
    BY DEF FreshLeases
  <2>3. served'[l].ids = ids /\ \A m \in Leases : m # l => served'[m] = served[m]
    BY <2>1, <2>2 DEF IInv, TypeOK
  <2>4. Apart'
    BY <1>1, <1>4, <2>2, <2>3 DEF IInv, Apart
  <2>5. AckKnowledge'
    <3>1. \A h \in Handlers : \/ call'[h] = call[h]
                              \/ call'[h] = [stage |-> "leased", lease |-> l, ids |-> ids]
      BY <2>1 DEF Reply
    <3> QED
      BY <1>5, <2>2, <2>3, <3>1 DEF IInv, AckKnowledge
  <2> QED
    BY <1>6, <1>7, <2>4, <2>5
<1> QED
  BY <1>8, <1>9

\* An ack command: the rows of a standing lease were all named by a client.
LEMMA AckStep == ASSUME IInv, ProcessAck PROVE Apart' /\ AckKnowledge' /\ AckedOnly' /\ Phases'
<1> USE DEF dbVars, bufVars, ownerVars, chanVars, clientVars, mainVars
<1> DEFINE l == Head(ackCh).lease
           ids == served[l].ids
           done == doneIDs \cup ids
<1>1. /\ l \in Leases /\ owner = "running"
      /\ UNCHANGED <<born, buffer, draining, leaseCh, told, acked, life, timer>>
  BY TailTypes DEF ProcessAck, IInv, AckCmds
<1>2. ids \subseteq acked
  <2>1. 1 \in DOMAIN ackCh /\ ackCh[1].lease = l
    BY EmptySeq, LenProperties DEF ProcessAck, IInv, TypeOK
  <2> QED
    BY <1>1, <2>1 DEF IInv, AckKnowledge
<1>3. served'[l].ids = {} /\ \A m \in Leases : m # l => served'[m] = served[m]
  BY <1>1 DEF ProcessAck, NoBatch, IInv, TypeOK
<1>4. \/ db' = db /\ doneIDs' \subseteq done
      \/ db' = db \ done /\ doneIDs' = {}
  BY DEF ProcessAck, Finish, Flush, Deleted
<1>5. owner' = "running" \/ (owner' = "returned" /\ draining /\ ids # {} /\ Outstanding = {l} /\ doneIDs' = {})
  BY <1>1 DEF ProcessAck, Finish, Flush
<1>6. /\ db' \subseteq db /\ db \ db' \subseteq done /\ doneIDs' \subseteq done /\ doneIDs' \subseteq db'
      /\ done \subseteq db
      /\ \A m \in Leases : m # l => served[m].ids \cap done = {}
      /\ Range(buffer) \cap done = {}
  BY <1>1, <1>4 DEF IInv, Apart
<1> HIDE DEF l, ids, done
<1>7. Apart'
  BY <1>1, <1>3, <1>6 DEF IInv, Apart
<1>8. AckedOnly'
  <2>1. done \subseteq acked
    BY <1>2 DEF done, IInv, AckedOnly
  <2> QED
    BY <1>1, <1>6, <2>1 DEF IInv, AckedOnly
<1>9. AckKnowledge'
  <2>1. \A h \in Handlers : call'[h] = call[h] \/ call'[h].stage = "acked"
    BY DEF ProcessAck, Reply
  <2>2. \A i \in DOMAIN ackCh' : i + 1 \in DOMAIN ackCh /\ ackCh'[i] = ackCh[i + 1]
    <3>1. /\ ackCh \in Seq(AckCmds) /\ ackCh # <<>> /\ ackCh' = Tail(ackCh)
          /\ Len(ackCh) \in Nat /\ DOMAIN ackCh = 1 .. Len(ackCh)
      BY LenProperties DEF ProcessAck, IInv, TypeOK
    <3>2. /\ Len(ackCh') = Len(ackCh) - 1 /\ ackCh' \in Seq(AckCmds)
          /\ \A i \in 1 .. Len(ackCh') : ackCh'[i] = ackCh[i + 1]
      BY <3>1, HeadTailProperties
    <3>3. DOMAIN ackCh' = 1 .. Len(ackCh')
      BY <3>2, LenProperties
    <3> QED
      BY <3>1, <3>2, <3>3
  <2> QED
    BY <1>1, <1>3, <2>1, <2>2 DEF IInv, AckKnowledge
<1>10. Phases'
  <2>1. CASE owner' = "running"
    BY <1>1, <2>1 DEF IInv, Phases
  <2>2. CASE owner' = "returned" /\ draining /\ ids # {} /\ Outstanding = {l} /\ doneIDs' = {}
    <3>1. \A m \in Leases : served'[m].ids = {}
      BY <1>1, <1>3, <2>2 DEF Outstanding
    <3> QED
      BY <1>1, <2>2, <3>1 DEF IInv, Phases, NothingHeld
  <2> QED
    BY <1>5, <2>1, <2>2
<1> QED
  BY <1>7, <1>8, <1>9, <1>10

\* Drain received: the buffer is dropped and, with no lease standing, the
\* pending deletions are made.
LEMMA DrainStep == ASSUME IInv, StartDraining PROVE Apart' /\ AckKnowledge' /\ AckedOnly' /\ Phases'
<1> USE DEF dbVars, bufVars, ownerVars, chanVars, clientVars, mainVars
<1>1. /\ buffer' = <<>> /\ owner = "running" /\ life = "drain"
      /\ UNCHANGED <<born, served, leaseCh, ackCh, call, told, acked, life, timer>>
  BY DEF StartDraining
<1>2. Range(buffer') = {} /\ IsInjective(buffer')
  BY <1>1 DEF Range, IsInjective
<1>3. \/ UNCHANGED <<db, doneIDs, owner>>
      \/ /\ owner' = "returned" /\ doneIDs' = {} /\ db' \in {db, db \ doneIDs}
         /\ \A l \in Leases : served[l].ids = {}
  BY DEF StartDraining, Finish, Flush, Deleted, Outstanding
<1>4. Apart'
  BY <1>1, <1>2, <1>3 DEF IInv, Apart
<1>5. AckKnowledge' /\ AckedOnly'
  BY <1>1, <1>3 DEF IInv, AckKnowledge, AckedOnly
<1>6. Phases'
  BY <1>1, <1>3 DEF IInv, Phases, NothingHeld
<1> QED
  BY <1>4, <1>5, <1>6

\* Expiry: rows leave served for nowhere but the table they are still in.
LEMMA ExpireStep == ASSUME IInv, ExpireTick PROVE Apart' /\ AckKnowledge' /\ AckedOnly' /\ Phases'
<1> USE DEF dbVars, bufVars, ownerVars, chanVars, clientVars, mainVars
<1>1. /\ owner = "running"
      /\ UNCHANGED <<born, buffer, draining, leaseCh, ackCh, call, told, acked, life, timer>>
  BY DEF ExpireTick
<1>2. \A l \in Leases : served'[l].ids = {} \/ (l \notin Expired /\ served'[l] = served[l])
  BY DEF ExpireTick, NoBatch
<1>3. \/ UNCHANGED <<db, doneIDs, owner>>
      \/ /\ owner' = "returned" /\ doneIDs' = {} /\ db' \in {db, db \ doneIDs}
         /\ draining /\ Outstanding = Expired
  BY DEF ExpireTick, Finish, Flush, Deleted
<1>4. Apart'
  BY <1>1, <1>2, <1>3 DEF IInv, Apart
<1>5. AckKnowledge' /\ AckedOnly'
  BY <1>1, <1>2, <1>3 DEF IInv, AckKnowledge, AckedOnly
<1>6. Phases'
  <2>1. Outstanding = Expired => \A l \in Leases : served'[l].ids = {}
    BY <1>2 DEF Outstanding
  <2> QED
    BY <1>1, <1>3, <2>1 DEF IInv, Phases, NothingHeld
<1> QED
  BY <1>4, <1>5, <1>6

\* The end of the process.
LEMMA HaltStep == ASSUME IInv, Halt PROVE Apart' /\ AckKnowledge' /\ AckedOnly' /\ Phases'
<1> USE DEF dbVars, clientVars
<1>1. /\ buffer' = <<>> /\ doneIDs' = {} /\ owner' = "returned" /\ ~draining' /\ life' = "down"
      /\ \A l \in Leases : served'[l].ids = {}
      /\ UNCHANGED <<db, born, acked>>
  BY DEF Halt, NoBatch
<1>2. Range(buffer') = {} /\ IsInjective(buffer')
  BY <1>1 DEF Range, IsInjective
<1> QED
  BY <1>1, <1>2 DEF IInv, Apart, AckKnowledge, AckedOnly, Phases, NothingHeld

\* Handlers and clients: whatever they do, what they know of a lease is what
\* the goroutine has recorded for it.
LEMMA HandlerKnowledge ==
  ASSUME IInv, NEW h \in Handlers, HandlerStep(h)
  PROVE  AckKnowledge' /\ acked \subseteq acked'
         /\ UNCHANGED <<db, born, buffer, served, doneIDs, draining, owner, life>>
<1> USE DEF dbVars, bufVars, ownerVars, chanVars, clientVars, mainVars
<1>t. call \in [Handlers -> Calls] /\ told \in [Leases -> SUBSET Rows]
  BY DEF IInv, TypeOK
<1>1. CASE LeaseArrives(h)
  <2>1. call'[h].stage = "leasing" /\ \A g \in Handlers : g # h => call'[g] = call[g]
    BY <1>1, <1>t DEF LeaseArrives, Calls
  <2> QED
    BY <1>1, <2>1 DEF LeaseArrives, IInv, AckKnowledge
<1>2. CASE \E l \in Leases : AckArrives(h, l)
  <2>1. PICK l \in Leases : AckArrives(h, l)
    BY <1>2
  <2>2. /\ call'[h].stage = "acking" /\ call'[h].lease = l
        /\ \A g \in Handlers : g # h => call'[g] = call[g]
    BY <2>1, <1>t DEF AckArrives, Calls
  <2>3. served[l].ids # {} => served[l].ids \subseteq acked'
    BY <2>1 DEF AckArrives, IInv, AckKnowledge
  <2> QED
    BY <2>1, <2>2, <2>3 DEF AckArrives, IInv, AckKnowledge
<1>3. CASE SendLease(h)
  <2>1. call'[h].stage = "waiting" /\ \A g \in Handlers : g # h => call'[g] = call[g]
    BY <1>3, <1>t DEF SendLease, Calls
  <2> QED
    BY <1>3, <2>1 DEF SendLease, IInv, AckKnowledge
<1>4. CASE SendAck(h)
  <2>1. call'[h].stage = "waiting" /\ \A g \in Handlers : g # h => call'[g] = call[g]
    BY <1>4, <1>t DEF SendAck, Idle
  <2>2. [to |-> h, lease |-> call[h].lease] \in AckCmds
    BY <1>4, <1>t DEF SendAck, Calls, AckCmds
  <2>3. \A i \in DOMAIN ackCh' : \/ i \in DOMAIN ackCh /\ ackCh'[i] = ackCh[i]
                                 \/ ackCh'[i].lease = call[h].lease
    <3>1. /\ ackCh' = Append(ackCh, [to |-> h, lease |-> call[h].lease]) /\ ackCh \in Seq(AckCmds)
          /\ Len(ackCh) \in Nat /\ DOMAIN ackCh = 1 .. Len(ackCh)
      BY <1>4, LenProperties DEF SendAck, IInv, TypeOK
    <3>2. /\ ackCh' \in Seq(AckCmds) /\ Len(ackCh') = Len(ackCh) + 1
          /\ \A i \in 1 .. Len(ackCh) : ackCh'[i] = ackCh[i]
          /\ ackCh'[Len(ackCh) + 1] = [to |-> h, lease |-> call[h].lease]
      BY <3>1, <2>2, AppendProperties
    <3>3. DOMAIN ackCh' = 1 .. Len(ackCh) + 1
      BY <3>2, LenProperties
    <3> QED
      BY <3>1, <3>2, <3>3
  <2> QED
    BY <1>4, <2>1, <2>3 DEF SendAck, IInv, AckKnowledge
<1>5. CASE Deliver(h)
  <2>1. call'[h].stage = "idle" /\ \A g \in Handlers : g # h => call'[g] = call[g]
    BY <1>5, <1>t DEF Deliver, Idle
  <2>2. \A l \in Leases : \/ told'[l] = told[l]
                          \/ told'[l] = {}
                          \/ call[h].lease = l /\ call[h].stage = "leased" /\ told'[l] = call[h].ids
    <3> TAKE l \in Leases
    <3>1. told'[l] = IF l # call[h].lease THEN told[l]
                     ELSE IF call[h].stage = "leased" THEN call[h].ids ELSE {}
      BY <1>5 DEF Deliver
    <3> QED
      BY <3>1
  <2> QED
    BY <1>5, <2>1, <2>2 DEF Deliver, IInv, AckKnowledge
<1>6. CASE Abandon(h)
  <2>1. call'[h].stage = "idle" /\ \A g \in Handlers : g # h => call'[g] = call[g]
    BY <1>6, <1>t DEF Abandon, Idle
  <2>2. DOMAIN ackCh' = DOMAIN ackCh /\ \A i \in DOMAIN ackCh : ackCh'[i].lease = ackCh[i].lease
    BY <1>6, AbandonTypes DEF IInv
  <2> QED
    BY <1>6, <2>1, <2>2 DEF Abandon, IInv, AckKnowledge
<1> QED
  BY <1>1, <1>2, <1>3, <1>4, <1>5, <1>6 DEF HandlerStep

\* Every step preserves the inductive invariant.
LEMMA IInvStep == IInv /\ [Next]_vars => IInv'
<1> SUFFICES ASSUME IInv, [Next]_vars PROVE Apart' /\ AckKnowledge' /\ AckedOnly' /\ Phases'
  BY TypeStep DEF IInv
<1> USE DEF dbVars, bufVars, ownerVars, chanVars, clientVars, mainVars
<1>1. CASE OwnerStep
  <2>1. CASE RefuseLease
    <3>1. \A h \in Handlers : call'[h] = call[h] \/ call'[h].lease = NoLease
      BY <2>1 DEF RefuseLease, Reply, Idle
    <3>2. AckKnowledge'
      BY <2>1, <3>1, NamesAssumption DEF RefuseLease, IInv, AckKnowledge
    <3> QED
      BY <2>1, <3>2 DEF RefuseLease, IInv, Apart, AckedOnly, Phases, NothingHeld
  <2> QED
    BY <1>1, <2>1, FillStep, ServeStep, AckStep, DrainStep, ExpireStep DEF OwnerStep
<1>2. CASE MainStep
  <2>1. CASE Exit \/ Crash
    BY <2>1, HaltStep DEF Exit, Crash
  <2>2. CASE BeginShutdown \/ BeginDrain
    BY <2>2 DEF BeginShutdown, BeginDrain, IInv, Apart, AckKnowledge, AckedOnly, Phases, NothingHeld
  <2>3. CASE Restart
    BY <2>3 DEF Restart, IInv, Apart, AckKnowledge, AckedOnly, Phases, NothingHeld
  <2> QED
    BY <1>2, <2>1, <2>2, <2>3 DEF MainStep
<1>3. CASE Tick
  <2>1. \A l \in Leases : served'[l].ids = served[l].ids
    BY <1>3 DEF Tick, IInv, TypeOK, Batches
  <2> QED
    BY <1>3, <2>1 DEF Tick, IInv, Apart, AckKnowledge, AckedOnly, Phases, NothingHeld
<1>4. ASSUME NEW h \in Handlers, HandlerStep(h)
      PROVE  Apart' /\ AckKnowledge' /\ AckedOnly' /\ Phases'
  BY <1>4, HandlerKnowledge DEF IInv, Apart, AckedOnly, Phases, NothingHeld
<1>5. ASSUME NEW l \in Leases, Forget(l)
      PROVE  Apart' /\ AckKnowledge' /\ AckedOnly' /\ Phases'
  <2>1. \A m \in Leases : told'[m] = told[m] \/ told'[m] = {}
    BY <1>5 DEF Forget, IInv, TypeOK
  <2> QED
    BY <1>5, <2>1 DEF Forget, IInv, Apart, AckKnowledge, AckedOnly, Phases, NothingHeld
<1>6. ASSUME NEW r \in Rows, Insert(r)
      PROVE  Apart' /\ AckKnowledge' /\ AckedOnly' /\ Phases'
  BY <1>6 DEF Insert, IInv, Apart, AckKnowledge, AckedOnly, Phases, NothingHeld
<1>7. CASE UNCHANGED vars
  BY <1>7 DEF vars, IInv, Apart, AckKnowledge, AckedOnly, Phases, NothingHeld
<1> QED
  BY <1>1, <1>2, <1>3, <1>4, <1>5, <1>6, <1>7 DEF Next

\* The inductive invariant holds of every reachable state.
THEOREM Invariance == Spec => []IInv
BY IInvInit, IInvStep, PTL DEF Spec

-----------------------------------------------------------------------------
(* The safety properties. *)

\* The named parts of the inductive invariant give the safety properties.
LEMMA IInvImplies ==
  IInv => Exclusive /\ HeldRowsExist /\ OnlyAckedDeleted /\ LeaseAgreement /\ DrainedIsSettled
<1> SUFFICES ASSUME IInv
             PROVE  Exclusive /\ HeldRowsExist /\ OnlyAckedDeleted /\ LeaseAgreement /\ DrainedIsSettled
  OBVIOUS
<1>1. \A x \in ServedIds : \E l \in Leases : x \in served[l].ids
  BY DEF ServedIds
<1>2. Exclusive
  BY <1>1 DEF IInv, Apart, Exclusive
<1>3. HeldRowsExist
  BY <1>1 DEF IInv, Apart, HeldRowsExist
<1>4. OnlyAckedDeleted /\ LeaseAgreement
  BY DEF IInv, AckedOnly, AckKnowledge, OnlyAckedDeleted, LeaseAgreement
<1>5. DrainedIsSettled
  BY DEF IInv, Phases, NothingHeld, DrainedIsSettled, Outstanding
<1> QED
  BY <1>2, <1>3, <1>4, <1>5

\* No row is leased twice at a time, served twice from the buffer or leased
\* again while its deletion is pending, in any execution of a pod.
THEOREM ExclusiveDelivery == Spec => []Exclusive
BY Invariance, IInvImplies, PTL

\* Nothing is deleted that no client asked to have deleted.
THEOREM NoLoss == Spec => []OnlyAckedDeleted
BY Invariance, IInvImplies, PTL

\* No row that is gone from the table is served or about to be.
THEOREM NoGhosts == Spec => []HeldRowsExist
BY Invariance, IInvImplies, PTL

\* Client and goroutine agree on the rows of a standing lease.
THEOREM LeasesAgree == Spec => []LeaseAgreement
BY Invariance, IInvImplies, PTL

\* A drain that reports completion left nothing outstanding or pending.
THEOREM DrainSettles == Spec => []DrainedIsSettled
BY Invariance, IInvImplies, PTL

\* A lease is taken from its holder by its own ack, its timeout or the end of
\* the process only.
LEMMA HonouredStep ==
  ASSUME IInv, [Next]_vars, NEW l \in Leases, served[l].ids # {}, served'[l].ids # served[l].ids
  PROVE  \/ ackCh # <<>> /\ Head(ackCh).lease = l /\ ackCh' = Tail(ackCh)
         \/ served[l].age > served[l].timeout
         \/ life' = "down"
<1> USE DEF dbVars, bufVars, ownerVars, chanVars, clientVars, mainVars
<1>1. CASE OwnerStep
  <2>1. CASE ServeLease
    <3>1. ASSUME NEW cmd, NEW buf, HandOut(cmd, buf) PROVE served'[l] = served[l]
      <4>1. ASSUME NEW m \in FreshLeases, NEW b, served' = [served EXCEPT ![m] = b]
            PROVE  served'[l] = served[l]
        BY <4>1 DEF FreshLeases, IInv, TypeOK
      <4> QED
        BY <3>1, <4>1 DEF HandOut
    <3> QED
      BY <2>1, <3>1 DEF ServeLease
  <2>2. CASE ProcessAck
    BY <2>2 DEF ProcessAck, IInv, TypeOK
  <2>3. CASE ExpireTick
    BY <2>3 DEF ExpireTick, Expired
  <2>4. CASE InitialFill \/ RefuseLease \/ StartDraining
    BY <2>4 DEF InitialFill, RefuseLease, StartDraining
  <2> QED
    BY <1>1, <2>1, <2>2, <2>3, <2>4 DEF OwnerStep
<1>2. CASE MainStep
  BY <1>2 DEF MainStep, BeginShutdown, BeginDrain, Exit, Crash, Restart, Halt
<1>3. CASE Tick
  BY <1>3 DEF Tick, IInv, TypeOK, Batches
<1>4. ASSUME NEW h \in Handlers, HandlerStep(h) PROVE served' = served
  BY <1>4, HandlerKnowledge
<1>5. ASSUME NEW m \in Leases, Forget(m) PROVE served' = served
  BY <1>5 DEF Forget
<1>6. ASSUME NEW r \in Rows, Insert(r) PROVE served' = served
  BY <1>6 DEF Insert
<1>7. CASE UNCHANGED vars
  BY <1>7 DEF vars
<1> QED
  BY <1>1, <1>2, <1>3, <1>4, <1>5, <1>6, <1>7 DEF Next

\* In every execution of a pod, a lease ends by its ack, after its timeout
\* (partition.go:376) or with the process.
THEOREM LeasesHonoured == Spec => LeaseHonoured
<1>1. IInv /\ [Next]_vars =>
        [\A l \in Outstanding :
           served'[l].ids # served[l].ids =>
              \/ ackCh # <<>> /\ Head(ackCh).lease = l /\ ackCh' = Tail(ackCh)
              \/ served[l].age > served[l].timeout
              \/ life' = "down"]_vars
  BY HonouredStep DEF Outstanding
<1> QED
  BY <1>1, Invariance, PTL DEF Spec, LeaseHonoured

-----------------------------------------------------------------------------
(* Refinement. *)

\* An empty table and an empty pod are an empty queue.
LEMMA QueueInit == Init => Queue!Init
<1>1. Range(<<>>) = {}
  BY EmptyRange
<1> QED
  BY <1>1 DEF Init, Queue!Init, NoBatch

\* A change of the only pod is a change of the function over all pods.
LEMMA OnlyPod ==
  ASSUME NEW v, NEW w
  PROVE  /\ [[p \in Pods |-> v] EXCEPT !["this"] = w] = [p \in Pods |-> w]
         /\ [p \in Pods |-> v]["this"] = v /\ "this" \in Pods
BY DEF Pods

\* What may become of pending rows, in the words of the queue.
LEMMA QueueSettles ==
  ASSUME NEW done, (doneIDs' = done /\ db' = db) \/ (doneIDs' = {} /\ db' \in {db, db \ done})
  PROVE  Queue!Settle("this", done)
<1>1. CASE doneIDs' = done /\ db' = db
  BY <1>1, OnlyPod DEF Queue!Settle, Pods
<1>2. CASE doneIDs' = {} /\ db' \in {db, db \ done}
  BY <1>2, OnlyPod DEF Queue!Settle, Queue!Flush, Pods
<1> QED
  BY <1>1, <1>2

\* Leases that end without an ack, and a buffer that is dropped.
LEMMA QueueReleases ==
  ASSUME UNCHANGED born,
         (doneIDs' = doneIDs /\ db' = db) \/ (doneIDs' = {} /\ db' \in {db, db \ doneIDs}),
         Range(buffer') \in {Range(buffer), {}},
         \A l \in Leases : served'[l].ids \in {served[l].ids, {}}
  PROVE  Queue!Next
<1> DEFINE L == {l \in Leases : served'[l].ids = {}}
<1>1. [l \in Leases |-> served'[l].ids] = [l \in Leases |-> IF l \in L THEN {} ELSE served[l].ids]
  OBVIOUS
<1>2. PICK K \in SUBSET Leases : K = L
  OBVIOUS
<1>3. [l \in Leases |-> IF l \in K THEN {} ELSE [m \in Leases |-> served[m].ids][l]]
        = [l \in Leases |-> served'[l].ids]
  BY <1>1, <1>2
<1>4. [[p \in Pods |-> [l \in Leases |-> served[l].ids]] EXCEPT
          !["this"] = [l \in Leases |-> IF l \in K THEN {} ELSE @[l]]]
        = [p \in Pods |-> [l \in Leases |-> served'[l].ids]]
  BY <1>3 DEF Pods
<1>5. [p \in Pods |-> Range(buffer')] \in
        {[p \in Pods |-> Range(buffer)], [[p \in Pods |-> Range(buffer)] EXCEPT !["this"] = {}]}
  BY OnlyPod DEF Pods
<1>6. Queue!Settle("this", [p \in Pods |-> doneIDs]["this"])
  BY QueueSettles, OnlyPod
<1>7. Queue!Release("this", K)
  BY <1>4, <1>5, <1>6 DEF Queue!Release
<1> QED
  BY <1>7, OnlyPod DEF Queue!Next

\* A lease command before Drain is a Serve, after a refill or from memory, or
\* it finds nothing.
LEMMA QueueServes == ASSUME IInv, ServeLease PROVE Queue!Next \/ UNCHANGED Queue!vars
<1> USE DEF dbVars, bufVars, ownerVars, chanVars, clientVars, mainVars
<1>1. PICK buf \in Seq(Rows) :
        /\ HandOut(Head(leaseCh), buf)
        /\ IsInjective(buf) /\ Range(buf) \subseteq db'
        /\ (doneIDs' = doneIDs /\ db' = db) \/ (doneIDs' = {} /\ db' \in {db, db \ doneIDs})
        /\ \/ buf = buffer /\ UNCHANGED <<db, doneIDs>>
           \/ buffer = <<>> /\ Outstanding = {} /\ doneIDs' = {}
  BY ServedBuffer
<1> DEFINE cmd == Head(leaseCh)
           n == IF cmd.max < Len(buf) THEN cmd.max ELSE Len(buf)
           ids == {buf[i] : i \in 1 .. n}
<1>2. n \in 0 .. Len(buf) /\ Len(buf) \in Nat
  <2>1. cmd.max \in Nat
    BY TailTypes, RequestAssumption DEF IInv, ServeLease, LeaseCmds
  <2> QED
    BY <2>1, LenProperties
<1>3. /\ Range(buffer') = Range(buf) \ ids
      /\ ids \subseteq Range(buf) /\ Range(buf) \subseteq Rows
  <2>1. buffer' = SubSeq(buf, n + 1, Len(buf))
    BY <1>1 DEF HandOut
  <2> HIDE DEF n
  <2> QED
    BY <1>1, <1>2, <2>1, PopSplits
<1>4. UNCHANGED born
  BY DEF ServeLease
<1>5. buffer = <<>> => Range(buffer) = {}
  BY EmptyRange
<1>6. Outstanding = {} => \A l \in Leases : served[l].ids = {}
  BY DEF Outstanding
<1>7. CASE buf # buffer
  <2>1. /\ buffer = <<>> /\ Outstanding = {} /\ doneIDs' = {} /\ db' \in {db, db \ doneIDs}
    BY <1>1, <1>7
  <2>2. Queue!Refill("this")
    <3>1. [p \in Pods |-> doneIDs'] = [[p \in Pods |-> doneIDs] EXCEPT !["this"] = {}]
      BY <2>1, OnlyPod DEF Pods
    <3>2. Queue!Flush("this", [p \in Pods |-> doneIDs]["this"])
      BY <2>1, <3>1, OnlyPod DEF Queue!Flush
    <3>3. Queue!Held("this") = {}
      BY <1>6, <2>1 DEF Queue!Held, Pods
    <3> QED
      BY <1>5, <2>1, <3>2, <3>3, OnlyPod DEF Queue!Refill
  <2>3. PICK L \in SUBSET db' : L = Range(buf)
    BY <1>1
  <2>4. CASE n = 0
    <3>1. ids = {}
      BY <2>4
    <3>2. Range(buffer') = L
      BY <1>3, <2>3, <3>1
    <3>3. [p \in Pods |-> Range(buffer')] = [[p \in Pods |-> Range(buffer)] EXCEPT !["this"] = L]
      BY <3>2, OnlyPod
    <3>4. UNCHANGED served
      BY <1>1, <2>4 DEF HandOut
    <3>5. Queue!Load("this")
      BY <1>4, <2>2, <3>3, <3>4 DEF Queue!Load
    <3> QED
      BY <3>5, OnlyPod DEF Queue!Next
  <2>5. CASE n # 0
    <3>1. PICK l \in FreshLeases :
            served' = [served EXCEPT ![l] = [ids |-> ids, age |-> 0, timeout |-> cmd.secs]]
      BY <1>1, <2>5 DEF HandOut
    <3>2. l \in Leases /\ served[l].ids = {}
      BY DEF FreshLeases
    <3>3. buf[1] \in ids
      BY <1>2, <2>5
    <3> HIDE DEF n, ids
    <3>4. PICK S \in SUBSET Rows : S = ids
      BY <1>3
    <3>5. [m \in Leases |-> served'[m].ids] = [[m \in Leases |-> served[m].ids] EXCEPT ![l] = S]
      BY <3>1, <3>2, <3>4 DEF IInv, TypeOK
    <3>6. [p \in Pods |-> [m \in Leases |-> served'[m].ids]]
            = [[p \in Pods |-> [m \in Leases |-> served[m].ids]] EXCEPT !["this"][l] = S]
      BY <3>5 DEF Pods
    <3>7. S \subseteq L
          /\ [p \in Pods |-> Range(buffer')] = [[p \in Pods |-> Range(buffer)] EXCEPT !["this"] = L \ S]
      BY <1>3, <2>3, <3>4, OnlyPod DEF Pods
    <3>8. [p \in Pods |-> [m \in Leases |-> served[m].ids]]["this"][l] = {} /\ S # {}
      BY <3>2, <3>3, <3>4 DEF Pods
    <3>9. Queue!Serve("this", l, S)
      BY <1>4, <2>2, <3>6, <3>7, <3>8 DEF Queue!Serve
    <3> QED
      BY <3>2, <3>9, OnlyPod DEF Queue!Next
  <2> QED
    BY <2>4, <2>5
<1>8. CASE buf = buffer
  <2>1. CASE n = 0
    <3>1. ids = {}
      BY <2>1
    <3>2. Range(buffer') = Range(buffer)
      BY <1>3, <1>8, <3>1
    <3>3. \A l \in Leases : served'[l].ids \in {served[l].ids, {}}
      BY <1>1, <2>1 DEF HandOut
    <3> QED
      BY <1>1, <1>4, <3>2, <3>3, QueueReleases
  <2>2. CASE n # 0
    <3>1. PICK l \in FreshLeases :
            served' = [served EXCEPT ![l] = [ids |-> ids, age |-> 0, timeout |-> cmd.secs]]
      BY <1>1, <2>2 DEF HandOut
    <3>2. l \in Leases /\ served[l].ids = {}
      BY DEF FreshLeases
    <3>3. buf[1] \in ids
      BY <1>2, <2>2
    <3> HIDE DEF n, ids
    <3>4. PICK S \in SUBSET Rows : S = ids
      BY <1>3
    <3>5. [m \in Leases |-> served'[m].ids] = [[m \in Leases |-> served[m].ids] EXCEPT ![l] = S]
      BY <3>1, <3>2, <3>4 DEF IInv, TypeOK
    <3>6. [p \in Pods |-> [m \in Leases |-> served'[m].ids]]
            = [[p \in Pods |-> [m \in Leases |-> served[m].ids]] EXCEPT !["this"][l] = S]
      BY <3>5 DEF Pods
    <3>7. S \subseteq Range(buffer) /\ Range(buffer') = Range(buffer) \ S
      BY <1>3, <1>8, <3>4
    <3>8. [p \in Pods |-> Range(buffer')] = [[p \in Pods |-> Range(buffer)] EXCEPT !["this"] = @ \ S]
          /\ S \subseteq [p \in Pods |-> Range(buffer)]["this"]
      BY <3>7 DEF Pods
    <3>9. [p \in Pods |-> [m \in Leases |-> served[m].ids]]["this"][l] = {} /\ S # {}
      BY <3>2, <3>3, <3>4 DEF Pods
    <3>10. CASE UNCHANGED <<db, doneIDs>>
      <4>1. Queue!Serve("this", l, S)
        BY <1>4, <3>6, <3>8, <3>9, <3>10 DEF Queue!Serve
      <4> QED
        BY <3>2, <4>1, OnlyPod DEF Queue!Next
    <3>11. CASE buffer = <<>>
      BY <1>5, <3>4, <3>7, <3>9, <3>11
    <3> QED
      BY <1>1, <3>10, <3>11
  <2> QED
    BY <2>1, <2>2
<1> QED
  BY <1>7, <1>8

\* Every step of the pod is one of the queue with visibility timeouts.
LEMMA QueueStep == IInv /\ [Next]_vars => [Queue!Next]_(Queue!vars)
<1> SUFFICES ASSUME IInv, [Next]_vars PROVE Queue!Next \/ UNCHANGED Queue!vars
  OBVIOUS
<1> USE DEF dbVars, bufVars, ownerVars, chanVars, clientVars, mainVars
<1>u. ASSUME UNCHANGED <<db, born, buffer, doneIDs>>, \A l \in Leases : served'[l].ids = served[l].ids
      PROVE  UNCHANGED Queue!vars
  BY <1>u DEF Queue!vars
<1>e. Range(<<>>) = {}
  BY EmptyRange
<1>1. CASE OwnerStep
  <2>1. CASE RefuseLease
    BY <2>1, <1>u DEF RefuseLease
  <2>i. CASE InitialFill
    <3>1. buffer = <<>> /\ doneIDs = {} /\ \A l \in Leases : served[l].ids = {}
      BY <2>i DEF InitialFill, IInv, Phases, NothingHeld
    <3>2. PICK b \in Fetched(db) : buffer' = buffer \o b
      BY <2>i DEF InitialFill
    <3>3. b \in Seq(Rows) /\ Range(b) \subseteq db
      BY FetchedRows
    <3>4. buffer' = b
      BY <3>1, <3>2, <3>3, ConcatEmptySeq
    <3>5. UNCHANGED <<db, born, served, doneIDs>>
      BY <2>i DEF InitialFill
    <3>6. PICK L \in SUBSET db' : L = Range(b)
      BY <3>3, <3>5
    <3>7. [p \in Pods |-> Range(buffer')] = [[p \in Pods |-> Range(buffer)] EXCEPT !["this"] = L]
      BY <3>4, <3>6, OnlyPod
    <3>8. Queue!Refill("this")
      <4>1. Queue!Flush("this", [p \in Pods |-> doneIDs]["this"])
        BY <3>1, <3>5, OnlyPod DEF Queue!Flush
      <4>2. Queue!Held("this") = {}
        BY <3>1 DEF Queue!Held, Pods
      <4> QED
        BY <1>e, <3>1, <4>1, <4>2, OnlyPod DEF Queue!Refill
    <3>9. Queue!Load("this")
      BY <3>5, <3>7, <3>8 DEF Queue!Load
    <3> QED
      BY <3>9, OnlyPod DEF Queue!Next
  <2>2. CASE ServeLease
    BY <2>2, QueueServes
  <2>3. CASE ProcessAck
    <3> DEFINE l == Head(ackCh).lease
    <3>1. l \in Leases
      BY <2>3, TailTypes DEF ProcessAck, IInv, AckCmds
    <3>2. served' = [served EXCEPT ![l] = NoBatch] /\ UNCHANGED <<born, buffer>>
      BY <2>3 DEF ProcessAck
    <3>3. CASE served[l].ids = {}
      <4>1. \A m \in Leases : served'[m].ids = served[m].ids
        BY <3>1, <3>2, <3>3 DEF NoBatch, IInv, TypeOK
      <4>2. UNCHANGED <<db, doneIDs>>
        BY <2>3, <3>3 DEF ProcessAck
      <4> QED
        BY <3>2, <4>1, <4>2, <1>u
    <3>4. CASE served[l].ids # {}
      <4> DEFINE done == doneIDs \cup served[l].ids
      <4>1. (doneIDs' = done /\ db' = db) \/ (doneIDs' = {} /\ db' \in {db, db \ done})
        BY <2>3, <3>4 DEF ProcessAck, Finish, Flush, Deleted
      <4>2. [m \in Leases |-> served'[m].ids] = [[m \in Leases |-> served[m].ids] EXCEPT ![l] = {}]
        BY <3>1, <3>2 DEF NoBatch, IInv, TypeOK
      <4>3. PICK m \in Leases : m = l
        BY <3>1
      <4> HIDE DEF l, done
      <4>4. [p \in Pods |-> [k \in Leases |-> served'[k].ids]]
              = [[p \in Pods |-> [k \in Leases |-> served[k].ids]] EXCEPT !["this"][m] = {}]
        BY <4>2, <4>3 DEF Pods
      <4>5. done = [p \in Pods |-> doneIDs]["this"]
                     \cup [p \in Pods |-> [k \in Leases |-> served[k].ids]]["this"][m]
        BY <4>3 DEF Pods, done
      <4>6. Queue!Settle("this", done)
        BY <4>1, QueueSettles
      <4>7. [p \in Pods |-> [k \in Leases |-> served[k].ids]]["this"][m] # {}
        BY <3>4, <4>3 DEF Pods
      <4>8. Queue!Ack("this", m)
        BY <3>2, <4>4, <4>5, <4>6, <4>7 DEF Queue!Ack
      <4> QED
        BY <4>8, OnlyPod DEF Queue!Next
    <3> QED
      BY <3>3, <3>4
  <2>4. CASE StartDraining
    BY <2>4, <1>e, QueueReleases DEF StartDraining, Finish, Flush, Deleted
  <2>5. CASE ExpireTick
    BY <2>5, QueueReleases DEF ExpireTick, Finish, Flush, Deleted, NoBatch
  <2> QED
    BY <1>1, <2>1, <2>i, <2>2, <2>3, <2>4, <2>5 DEF OwnerStep
<1>2. CASE MainStep
  <2>1. CASE Exit \/ Crash
    <3>1. Halt
      BY <2>1 DEF Exit, Crash
    <3> QED
      BY <3>1, <1>e, QueueReleases DEF Halt, NoBatch
  <2>2. CASE BeginShutdown \/ BeginDrain \/ Restart
    BY <2>2, <1>u DEF BeginShutdown, BeginDrain, Restart
  <2> QED
    BY <1>2, <2>1, <2>2 DEF MainStep
<1>3. CASE Tick
  <2>1. \A l \in Leases : served'[l].ids = served[l].ids
    BY <1>3 DEF Tick, IInv, TypeOK, Batches
  <2> QED
    BY <1>3, <2>1, <1>u DEF Tick
<1>4. ASSUME NEW h \in Handlers, HandlerStep(h) PROVE UNCHANGED Queue!vars
  BY <1>4, HandlerKnowledge, <1>u
<1>5. ASSUME NEW l \in Leases, Forget(l) PROVE UNCHANGED Queue!vars
  BY <1>5, <1>u DEF Forget
<1>6. ASSUME NEW r \in Rows, Insert(r) PROVE Queue!Next
  <2>1. Queue!Enqueue(r)
    BY <1>6 DEF Insert, Queue!Enqueue
  <2> QED
    BY <2>1 DEF Queue!Next
<1>7. CASE UNCHANGED vars
  BY <1>7, <1>u DEF vars
<1> QED
  BY <1>1, <1>2, <1>3, <1>4, <1>5, <1>6, <1>7 DEF Next

\* A pod, with its channels, lost replies, failing database, drains, crashes
\* and restarts, implements the queue its clients rely on.
THEOREM Refinement == Spec => ImplementsQueue
BY QueueInit, QueueStep, Invariance, PTL DEF Spec, ImplementsQueue, Queue!Spec

=============================================================================
