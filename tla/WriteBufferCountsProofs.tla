----------------------- MODULE WriteBufferCountsProofs -----------------------
(***************************************************************************)
(* The counts that requests are answered with: the proof, for any          *)
(* requests, sizes and topics, and any number of attempts.                 *)
(* distributeResults divides the totals of a batch with integer division   *)
(* and gives the last request the rest.  So the counts of a batch always   *)
(* add up to its messages; and each request is told of its own, as long as *)
(* a total is all of the batch or nothing.  That it is, when readers have  *)
(* taken nothing between two attempts, because a batch enters the table as *)
(* a whole: no request is in two batches, and no topic is flushed twice.   *)
(* With this the writer implements Publishing.                             *)
(***************************************************************************)
EXTENDS WriteBufferProofs, FiniteSums

\* The requests of a batch are finitely many, with messages to count.
LEMMA BatchIsFinite ==
  ASSUME TypeOK
  PROVE  /\ IsFiniteSet(Batch) /\ Batch \subseteq Requests
         /\ \A r \in Batch : Size[r] \in Nat /\ Size[r] > 0
<1>1. pending \in [1 .. Len(pending) -> ToSet(pending)] /\ Len(pending) \in Nat
  BY DEF TypeOK, ToSet
<1>2. pending \in Surjection(1 .. Len(pending), ToSet(pending))
  BY <1>1 DEF Surjection, ToSet
<1>3. IsFiniteSet(ToSet(pending))
  BY <1>1, <1>2, FS_Interval, FS_Surjection
<1>4. Batch \subseteq ToSet(pending) /\ ToSet(pending) \subseteq Requests
  BY DEF Batch, ToSet, TypeOK
<1> QED
  BY <1>3, <1>4, FS_Subset, RequestAssumption

\* distributeResults hands out nothing of nothing, and of all the messages of
\* the batch to each request its own (buffer.go:163-184).
LEMMA SharesAre ==
  ASSUME TypeOK, NEW r \in Batch
  PROVE  Shared(0, r) = 0 /\ Shared(Messages(Batch), r) = Size[r]
<1> DEFINE M        == Messages(Batch)
           share(t) == [q \in Batch |-> (t * Size[q]) \div M]
           others   == Batch \ {r}
<1>1. IsFiniteSet(Batch) /\ IsFiniteSet(others) /\ \A q \in Batch : Size[q] \in Nat /\ Size[q] > 0
  BY BatchIsFinite, FS_RemoveElement
<1>2. /\ M \in Nat /\ SumFunctionOnSet(Size, others) \in Nat
      /\ M = Size[r] + SumFunctionOnSet(Size, others)
  BY <1>1, SumIsNat, SumRemoves DEF Messages
<1>3. M > 0
  BY <1>1, <1>2
<1> HIDE DEF M
<1>4. \A q \in Batch : share(0)[q] = 0
  BY <1>1, <1>2, <1>3
<1>5. \A m, s \in Nat : m > 0 => (m * s) \div m = s
  OBVIOUS
<1>6. \A q \in Batch : share(M)[q] = Size[q]
  BY <1>1, <1>2, <1>3, <1>5
<1>7. \A t : Shared(t, r) = IF r # LastItem THEN share(t)[r]
                            ELSE t - SumFunctionOnSet(share(t), others)
  BY DEF Shared, M
<1> HIDE DEF share
<1>8. SumFunctionOnSet(share(0), others) = 0
  BY <1>1, <1>4, SumOfZeros
<1>9. SumFunctionOnSet(share(M), others) = SumFunctionOnSet(Size, others)
  BY <1>1, <1>6, SumSame
<1>10. Shared(0, r) = 0
  BY <1>4, <1>7, <1>8
<1>11. Shared(M, r) = Size[r]
  <2>1. CASE r # LastItem
    BY <1>6, <1>7, <2>1
  <2>2. CASE r = LastItem
    <3>1. Shared(M, r) = M - SumFunctionOnSet(Size, others)
      BY <1>7, <1>9, <2>2
    <3> HIDE DEF others
    <3>2. Size[r] \in Nat
      BY <1>1
    <3> QED
      BY <1>2, <3>1, <3>2
  <2> QED
    BY <2>1, <2>2
<1> QED
  BY <1>10, <1>11 DEF M

\* The last item of a batch is one of it.
LEMMA LastIsOne == ASSUME TypeOK, Batch # {} PROVE LastItem \in Batch
<1> DEFINE I         == {i \in DOMAIN pending : pending[i] \in Batch}
           IsLast(i) == pending[i] \in Batch /\ \A j \in DOMAIN pending : pending[j] \in Batch => j <= i
<1>1. pending \in Seq(Requests) /\ DOMAIN pending = 1 .. Len(pending) /\ Len(pending) \in Nat
  BY DEF TypeOK
<1>2. I # {}
  BY DEF Batch, ToSet
<1>3. I \in SUBSET Int /\ IsFiniteSet(I)
  <2>1. IsFiniteSet(1 .. Len(pending)) /\ I \subseteq 1 .. Len(pending)
    BY <1>1, FS_Interval
  <2>2. IsFiniteSet(I)
    BY <2>1, FS_Subset
  <2> QED
    BY <1>1, <2>2
<1>4. \E i \in DOMAIN pending : IsLast(i)
  <2> HIDE DEF I
  <2>1. PICK i \in I : \A j \in I : j <= i
    BY <1>2, <1>3, GreatestOf
  <2> QED
    BY <2>1 DEF I
<1>5. LastItem = pending[CHOOSE i \in DOMAIN pending : IsLast(i)]
  BY DEF LastItem
<1> QED
  BY <1>4, <1>5

\* What distributeResults hands out of a total are natural numbers, and all of it.
LEMMA SharesAddUp ==
  ASSUME TypeOK, NEW t \in 0 .. Messages(Batch)
  PROVE  /\ \A r \in Batch : Shared(t, r) \in Nat
         /\ SumFunctionOnSet([r \in Batch |-> Shared(t, r)], Batch) = t
<1> DEFINE M      == Messages(Batch)
           last   == LastItem
           share  == [q \in Batch |-> (t * Size[q]) \div M]
           shared == [r \in Batch |-> Shared(t, r)]
           others == Batch \ {last}
<1>1. IsFiniteSet(Batch) /\ IsFiniteSet(others) /\ \A q \in Batch : Size[q] \in Nat /\ Size[q] > 0
  BY BatchIsFinite, FS_RemoveElement
<1>2. M \in Nat /\ t \in Nat /\ t <= M
  BY <1>1, SumIsNat DEF Messages
<1>3. CASE Batch = {}
  <2>1. M = 0
    BY <1>3, SumOfNone DEF Messages
  <2> QED
    BY <1>2, <1>3, <2>1, SumOfNone
<1>4. CASE Batch # {}
  <2>1. last \in Batch
    BY <1>4, LastIsOne
  <2> DEFINE o == SumFunctionOnSet(Size, others)
             s == SumFunctionOnSet(share, others)
  <2>2. o \in Nat /\ M = Size[last] + o /\ Size[last] > 0 /\ Size[last] \in Nat
    BY <1>1, <2>1, SumIsNat, SumRemoves DEF Messages
  <2>3. \A r \in Batch : Shared(t, r) = IF r # last THEN share[r]
                                        ELSE t - SumFunctionOnSet(share, Batch \ {r})
    BY DEF Shared
  <2> HIDE DEF M, last
  <2>4. \A a \in Nat, m \in Nat : m > 0 => a \div m \in Nat /\ m * (a \div m) <= a
    OBVIOUS
  <2>5. \A q \in Batch : t * Size[q] \in Nat
    BY <1>1, <1>2
  <2>6. \A q \in Batch : share[q] \in Nat /\ M * share[q] <= t * Size[q]
    BY <1>2, <2>2, <2>4, <2>5
  <2> HIDE DEF share, others
  <2>7. others \subseteq Batch /\ last \notin others
    BY DEF others
  <2>8. s \in Nat /\ M * s <= t * o
    BY <1>1, <1>2, <2>6, <2>7, SumIsNat, SumScaled
  <2>9. s <= t
    <3> HIDE DEF o, s
    <3>1. t * o <= t * M
      BY <1>2, <2>2
    <3>2. M * s <= M * t
      <4>1. t * M = M * t /\ M * s \in Int /\ t * o \in Int /\ t * M \in Int
        BY <1>2, <2>2, <2>8
      <4> QED
        BY <2>8, <3>1, <4>1
    <3>3. \A a, b, m \in Nat : m > 0 /\ m * a <= m * b => a <= b
      OBVIOUS
    <3> QED
      BY <1>2, <2>2, <2>8, <3>2, <3>3
  <2>10. Shared(t, last) = t - s
    BY <2>1, <2>3 DEF others
  <2> DEFINE rest == SumFunctionOnSet(shared, others)
  <2>11. rest = s
    <3>1. \A r \in others : shared[r] = share[r]
      BY <2>3, <2>7
    <3> HIDE DEF shared
    <3> QED
      BY <1>1, <3>1, SumSame
  <2>12. \A r \in Batch : Shared(t, r) \in Nat
    <3>1. t - s \in Nat
      BY <1>2, <2>8, <2>9
    <3> QED
      BY <2>3, <2>6, <2>10, <3>1
  <2>13. SumFunctionOnSet(shared, Batch) = shared[last] + rest
    <3>1. \A r \in Batch : shared[r] \in Nat
      BY <2>12
    <3> HIDE DEF shared
    <3> QED
      BY <1>1, <2>1, <3>1, SumRemoves DEF others
  <2>14. shared[last] = t - s
    BY <2>1, <2>10
  <2> HIDE DEF shared
  <2>15. SumFunctionOnSet(shared, Batch) = t
    <3> HIDE DEF s, rest
    <3> QED
      BY <1>2, <2>8, <2>11, <2>13, <2>14
  <2> QED
    BY <2>12, <2>15 DEF shared
<1> QED
  BY <1>3, <1>4

\* The messages that an attempt finds in the table are of the batch; and all of
\* it or none, if readers have taken nothing out meanwhile.
LEMMA FoundIs ==
  ASSUME BatchInv, flusher = "flushing"
  PROVE  /\ Found \in 0 .. Messages(Batch) /\ Messages(Batch) \in Nat
         /\ (\A r \in Batch : taken[r] = 0) => Found \in {0, Messages(Batch)}
<1> DEFINE found == [r \in Batch |-> IF r \in stored THEN Size[r] - taken[r] ELSE 0]
<1>1. TypeOK /\ WholeBatch
  BY DEF BatchInv
<1>2. IsFiniteSet(Batch) /\ Batch \subseteq Requests /\ \A r \in Batch : Size[r] \in Nat
  BY <1>1, BatchIsFinite
<1>3. \A r \in Batch : taken[r] \in Nat /\ taken[r] <= Size[r]
  BY <1>1, <1>2 DEF TypeOK
<1>4. Found = SumFunctionOnSet(found, Batch)
  BY DEF Found
<1>5. \A r \in Batch : found[r] \in Nat /\ 1 * found[r] <= 1 * Size[r]
  BY <1>2, <1>3
<1>6. CASE Batch \cap stored = {}
  <2>1. \A r \in Batch : found[r] = 0
    BY <1>6
  <2> HIDE DEF found
  <2> QED
    BY <1>2, <1>4, <2>1, SumOfZeros, SumIsNat DEF Messages
<1>7. CASE Batch \subseteq stored
  <2>1. (\A r \in Batch : taken[r] = 0) => \A r \in Batch : found[r] = Size[r]
    BY <1>2, <1>7
  <2> HIDE DEF found
  <2>2. (\A r \in Batch : taken[r] = 0) => Found = Messages(Batch)
    BY <1>2, <1>4, <2>1, SumSame DEF Messages
  <2>3. Found \in Nat /\ Messages(Batch) \in Nat /\ 1 * Found <= 1 * Messages(Batch)
    BY <1>2, <1>4, <1>5, SumIsNat, SumScaled DEF Messages
  <2> QED
    BY <2>2, <2>3
<1> QED
  BY <1>1, <1>6, <1>7 DEF WholeBatch

\* What is in the buffer is pending or in the channel, and if each request is
\* there once, not both.
LEMMA BufferHolds ==
  ASSUME inCh \in Seq(Requests), pending \in Seq(Requests)
  PROVE  /\ ToSet(Buffer) = ToSet(pending) \cup ToSet(inCh)
         /\ (\A i, j \in DOMAIN Buffer : Buffer[i] = Buffer[j] => i = j) =>
               ToSet(pending) \cap ToSet(inCh) = {}
<1> DEFINE m == Len(pending)
           n == Len(inCh)
<1>1. /\ m \in Nat /\ n \in Nat
      /\ DOMAIN pending = 1 .. m /\ DOMAIN inCh = 1 .. n /\ DOMAIN Buffer = 1 .. m + n
      /\ \A i \in 1 .. m : Buffer[i] = pending[i]
      /\ \A i \in 1 .. n : Buffer[m + i] = inCh[i]
  BY DEF Buffer
<1>2. /\ \A i \in 1 .. m : i \in 1 .. m + n
      /\ \A i \in 1 .. n : m + i \in 1 .. m + n /\ m + i \notin 1 .. m
      /\ \A i \in 1 .. m + n : i \in 1 .. m \/ (i - m \in 1 .. n /\ m + (i - m) = i)
  BY <1>1
<1> HIDE DEF m, n
<1>3. ToSet(Buffer) = ToSet(pending) \cup ToSet(inCh)
  <2>1. ASSUME NEW r \in ToSet(Buffer) PROVE r \in ToSet(pending) \cup ToSet(inCh)
    <3>1. PICK i \in 1 .. m + n : Buffer[i] = r
      BY <1>1, <2>1 DEF ToSet
    <3>2. CASE i \in 1 .. m
      BY <1>1, <3>1, <3>2 DEF ToSet
    <3>3. CASE i - m \in 1 .. n /\ m + (i - m) = i
      <4>1. Buffer[i] = inCh[i - m]
        BY <1>1, <3>3
      <4> QED
        BY <1>1, <3>1, <3>3, <4>1 DEF ToSet
    <3> QED
      BY <1>2, <3>2, <3>3
  <2>2. ToSet(pending) \subseteq ToSet(Buffer)
    BY <1>1, <1>2 DEF ToSet
  <2>3. ASSUME NEW r \in ToSet(inCh) PROVE r \in ToSet(Buffer)
    <3>1. PICK i \in 1 .. n : inCh[i] = r
      BY <1>1, <2>3 DEF ToSet
    <3>2. m + i \in DOMAIN Buffer /\ Buffer[m + i] = r
      BY <1>1, <1>2, <3>1
    <3> QED
      BY <3>2 DEF ToSet
  <2> QED
    BY <2>1, <2>2, <2>3
<1>4. ASSUME \A i, j \in DOMAIN Buffer : Buffer[i] = Buffer[j] => i = j,
             NEW r \in ToSet(pending) \cap ToSet(inCh)
      PROVE  FALSE
  <2>1. PICK i \in 1 .. m : pending[i] = r
    BY <1>1, <1>4 DEF ToSet
  <2>2. PICK j \in 1 .. n : inCh[j] = r
    BY <1>1, <1>4 DEF ToSet
  <2>3. /\ i \in DOMAIN Buffer /\ m + j \in DOMAIN Buffer /\ i # m + j
        /\ Buffer[i] = r /\ Buffer[m + j] = r
    BY <1>1, <1>2, <2>1, <2>2
  <2> QED
    BY <1>4, <2>3
<1> QED
  BY <1>3, <1>4

\* Two facts about a request that is appended.
LEMMA AppendAdds ==
  ASSUME NEW s \in Seq(Requests), NEW r \in Requests
  PROVE  ToSet(Append(s, r)) = ToSet(s) \cup {r}
<1> DEFINE n == Len(s)
<1>1. /\ n \in Nat /\ DOMAIN s = 1 .. n /\ DOMAIN Append(s, r) = 1 .. n + 1
      /\ \A i \in 1 .. n : Append(s, r)[i] = s[i]
      /\ Append(s, r)[n + 1] = r
  OBVIOUS
<1>2. \A i : i \in 1 .. n + 1 <=> i \in 1 .. n \/ i = n + 1
  BY <1>1
<1> HIDE DEF n
<1>3. ASSUME NEW q \in ToSet(Append(s, r)) PROVE q \in ToSet(s) \cup {r}
  BY <1>1, <1>2, <1>3 DEF ToSet
<1>4. ToSet(s) \subseteq ToSet(Append(s, r))
  BY <1>1, <1>2 DEF ToSet
<1>5. r \in ToSet(Append(s, r))
  BY <1>1, <1>2 DEF ToSet
<1> QED
  BY <1>3, <1>4, <1>5

LEMMA AppendsLast ==
  ASSUME NEW s \in Seq(Requests), NEW t \in Seq(Requests), NEW r \in Requests
  PROVE  s \o Append(t, r) = Append(s \o t, r)
<1> DEFINE a == s \o Append(t, r)
           b == Append(s \o t, r)
           n == Len(s) + Len(t)
<1>1. Len(s) \in Nat /\ Len(t) \in Nat /\ n \in Nat
  OBVIOUS
<1>2. a \in Seq(Requests) /\ b \in Seq(Requests) /\ Len(a) = n + 1 /\ Len(b) = n + 1
  OBVIOUS
<1>3. ASSUME NEW i \in 1 .. n + 1 PROVE a[i] = b[i]
  <2>1. CASE i \in 1 .. Len(s)
    BY <1>1, <2>1
  <2>2. CASE i > Len(s) /\ i <= n
    BY <1>1, <2>2
  <2>3. CASE i = n + 1
    <3>1. a[i] = Append(t, r)[Len(t) + 1]
      BY <1>1, <2>3
    <3>2. Append(t, r)[Len(t) + 1] = r /\ b[i] = r
      BY <1>1, <2>3
    <3> QED
      BY <3>1, <3>2
  <2> QED
    BY <1>1, <2>1, <2>2, <2>3
<1> HIDE DEF a, b
<1>4. a = b
  BY <1>1, <1>2, <1>3
<1> QED
  BY <1>4 DEF a, b

\* The steps that leave the buffer and the table alone, and have no handler begin
\* again.
LEMMA BatchKept ==
  ASSUME BatchInv, TypeOK', UNCHANGED <<inCh, pending, flusher, todo, stored>>,
         \A r \in Requests : handler'[r] \in {"new", "sending"} => handler[r] \in {"new", "sending"}
  PROVE  BatchInv'
<1>1. Buffer' = Buffer /\ Batch' = Batch
  BY DEF Buffer, Batch
<1>2. WholeBatch'
  BY <1>1 DEF BatchInv, WholeBatch
<1>3. \A r \in Requests : handler'[r] \in {"new", "sending"} => r \notin ToSet(Buffer) \cup stored
  BY DEF BatchInv
<1>4. /\ \A i, j \in DOMAIN Buffer : Buffer[i] = Buffer[j] => i = j
      /\ ToSet(inCh) \cap stored = {}
      /\ IF flusher = "flushing"
         THEN /\ todo # <<>> /\ \A k, l \in DOMAIN todo : todo[k] = todo[l] => k = l
              /\ \A r \in ToSet(pending) \cap stored, k \in DOMAIN todo : todo[k] = Topic[r] => k = 1
         ELSE ToSet(pending) \cap stored = {}
  BY DEF BatchInv
<1> QED
  BY <1>1, <1>2, <1>3, <1>4 DEF BatchInv, ToSet

\* A handler sends a request that is nowhere yet.
LEMMA SendBatch == ASSUME BatchInv, NEW r \in Requests, Send(r) PROVE BatchInv'
<1>1. /\ inCh' = Append(inCh, r) /\ Len(inCh) < ChanCap
      /\ UNCHANGED <<reply, closed, pending, flusher, todo, attempts, timer, stored, taken, proc>>
      /\ handler' = [handler EXCEPT ![r] = "waiting"] /\ handler[r] = "sending"
  BY DEF Send
<1>2. TypeOK
  BY DEF BatchInv
<1>3. TypeOK'
  <2>1. inCh' \in Seq(Requests) /\ Len(inCh') <= ChanCap
    BY <1>1, <1>2, BoundsAssumption DEF TypeOK
  <2>2. handler' \in [Requests -> {"new", "ok", "failed"} \cup Working]
    BY <1>1, <1>2 DEF TypeOK, Working
  <2> QED
    BY <1>1, <1>2, <2>1, <2>2 DEF TypeOK
<1>4. inCh \in Seq(Requests) /\ pending \in Seq(Requests)
  BY <1>2 DEF TypeOK
<1>5. r \notin ToSet(Buffer) /\ r \notin stored
  BY <1>1 DEF BatchInv
<1>6. \A q \in Requests : q # r => handler'[q] = handler[q]
  BY <1>1, <1>2 DEF TypeOK
<1> DEFINE n == Len(Buffer)
<1>7. /\ n \in Nat /\ DOMAIN Buffer = 1 .. n /\ DOMAIN Buffer' = 1 .. n + 1
      /\ \A i \in 1 .. n : Buffer'[i] = Buffer[i]
      /\ Buffer'[n + 1] = r
  <2>1. Buffer' = Append(Buffer, r)
    BY <1>1, <1>4, AppendsLast DEF Buffer
  <2>2. Buffer \in Seq(Requests)
    BY <1>4 DEF Buffer
  <2> QED
    BY <2>1, <2>2
<1>8. \A i \in 1 .. n + 1 : i \in 1 .. n \/ i = n + 1
  BY <1>7
<1>9. ToSet(Buffer') = ToSet(Buffer) \cup {r} /\ ToSet(inCh') = ToSet(inCh) \cup {r}
  <2>1. Buffer' = Append(Buffer, r) /\ Buffer \in Seq(Requests)
    BY <1>1, <1>4, AppendsLast DEF Buffer
  <2> QED
    BY <1>1, <1>4, <2>1, AppendAdds
<1> HIDE DEF n
<1>10. \A i, j \in DOMAIN Buffer' : Buffer'[i] = Buffer'[j] => i = j
  <2>1. \A i \in 1 .. n : Buffer[i] # r
    BY <1>5, <1>7 DEF ToSet
  <2>2. \A i, j \in 1 .. n : Buffer[i] = Buffer[j] => i = j
    BY <1>7 DEF BatchInv
  <2> QED
    BY <1>7, <1>8, <2>1, <2>2
<1>11. Batch' = Batch
  BY <1>1 DEF Batch
<1>12. WholeBatch'
  BY <1>1, <1>11 DEF BatchInv, WholeBatch
<1>13. \A q \in Requests : handler'[q] \in {"new", "sending"} => q \notin ToSet(Buffer') \cup stored'
  <2>1. handler'[r] = "waiting"
    BY <1>1, <1>2 DEF TypeOK
  <2> QED
    BY <1>1, <1>6, <1>9, <2>1 DEF BatchInv
<1>14. ToSet(inCh') \cap stored' = {}
  BY <1>1, <1>5, <1>9 DEF BatchInv
<1> QED
  BY <1>1, <1>3, <1>10, <1>12, <1>13, <1>14 DEF BatchInv

\* A flush goes through a topic once.
LEMMA TopicsOnce ==
  ASSUME NEW items \in Seq(Requests), items # <<>>, StartFlush(items)
  PROVE  \A k, l \in DOMAIN todo' : todo'[k] = todo'[l] => k = l
<1> DEFINE S == {Topic[r] : r \in ToSet(items)}
<1>1. todo' \in [1 .. Cardinality(S) -> S]
      /\ \A i, j \in 1 .. Cardinality(S) : i # j => todo'[i] # todo'[j]
  BY DEF StartFlush, SetToSeqs
<1> QED
  BY <1>1

\* Run receives, or begins to flush what is pending: nothing of it is stored.
LEMMA CollectBatch == ASSUME BatchInv, Take \/ TimerFires \/ ChannelClosed PROVE BatchInv'
<1>1. UNCHANGED <<handler, reply, closed, attempts, stored, taken, proc>>
  BY DEF Take, TimerFires, ChannelClosed
<1>2. TypeOK
  BY DEF BatchInv
<1>3. inCh \in Seq(Requests) /\ pending \in Seq(Requests)
  BY <1>2 DEF TypeOK
<1>4. /\ Buffer' = Buffer /\ pending' \in Seq(Requests) /\ inCh' \in Seq(Requests)
      /\ Len(inCh') <= ChanCap
      /\ ToSet(inCh') \subseteq ToSet(inCh)
      /\ ToSet(pending') \subseteq ToSet(pending) \cup ToSet(inCh)
  <2>1. CASE Take
    <3>1. inCh # <<>> /\ pending' = Append(pending, Head(inCh)) /\ inCh' = Tail(inCh)
      BY <2>1 DEF Take
    <3>2. /\ Head(inCh) \in Requests /\ Head(inCh) = inCh[1] /\ 1 \in DOMAIN inCh
          /\ Tail(inCh) \in Seq(Requests) /\ Len(Tail(inCh)) = Len(inCh) - 1 /\ Len(inCh) \in Nat
          /\ \A i \in DOMAIN Tail(inCh) : i + 1 \in DOMAIN inCh /\ Tail(inCh)[i] = inCh[i + 1]
      BY <1>3, <3>1
    <3>3. Buffer' = Buffer /\ pending' \in Seq(Requests)
      BY <1>3, <3>1, <3>2, TakeMoves DEF Buffer
    <3>4. Len(inCh') <= ChanCap
      BY <1>2, <3>1, <3>2, BoundsAssumption DEF TypeOK
    <3>5. ToSet(inCh') \subseteq ToSet(inCh)
      BY <3>1, <3>2 DEF ToSet
    <3>6. ToSet(pending') = ToSet(pending) \cup {Head(inCh)}
      BY <1>3, <3>1, <3>2, AppendAdds
    <3>7. Head(inCh) \in ToSet(inCh)
      BY <3>2 DEF ToSet
    <3> QED
      BY <3>1, <3>2, <3>3, <3>4, <3>5, <3>6, <3>7
  <2>2. CASE TimerFires \/ ChannelClosed
    BY <1>2, <1>3, <2>2 DEF TimerFires, ChannelClosed, Buffer, TypeOK
  <2> QED
    BY <2>1, <2>2
<1>5. flusher = "receiving" /\ timer' \in BOOLEAN
  BY <1>2 DEF Take, TimerFires, ChannelClosed, TypeOK
<1>6. ToSet(inCh') \cap stored = {} /\ ToSet(pending') \cap stored = {}
  BY <1>4, <1>5 DEF BatchInv
<1>7. Batch' \subseteq ToSet(pending')
  BY DEF Batch
<1>8. WholeBatch'
  BY <1>1, <1>6, <1>7 DEF BatchInv, WholeBatch
<1>9. /\ \A i, j \in DOMAIN Buffer' : Buffer'[i] = Buffer'[j] => i = j
      /\ \A r \in Requests : handler'[r] \in {"new", "sending"} => r \notin ToSet(Buffer') \cup stored
  BY <1>1, <1>4 DEF BatchInv
<1>10. CASE pending' # <<>> /\ StartFlush(pending')
  <2>1. flusher' = "flushing" /\ todo' \in Seq(Topics) /\ todo' # <<>>
    BY <1>4, <1>10, EveryTopic
  <2>2. \A k, l \in DOMAIN todo' : todo'[k] = todo'[l] => k = l
    BY <1>4, <1>10, TopicsOnce
  <2>3. TypeOK'
    BY <1>1, <1>2, <1>4, <1>5, <2>1 DEF TypeOK
  <2> QED
    BY <1>1, <1>6, <1>8, <1>9, <2>1, <2>2, <2>3 DEF BatchInv
<1>11. CASE flusher' \in {"receiving", "returned"} /\ todo' = todo
  <2>1. TypeOK'
    BY <1>1, <1>2, <1>4, <1>5, <1>11 DEF TypeOK
  <2> QED
    BY <1>1, <1>6, <1>8, <1>9, <1>11, <2>1 DEF BatchInv
<1>12. Take => pending' # <<>>
  BY <1>3 DEF Take
<1> QED
  BY <1>5, <1>10, <1>11, <1>12 DEF Take, TimerFires, ChannelClosed

\* What a request may be told, and how many of its messages readers may have.
Results == [kind : {"none", "ok", "error"}, accepted : Nat, duplicates : Nat]
MayBeTaken(f) == f \in [Requests -> Nat] /\ \A r \in Requests : f[r] <= Size[r]

\* A topic is done: what was inserted is of no topic that follows, not in the
\* channel, and not of a handler that has yet to send.
LEMMA AnswerBatch ==
  ASSUME BatchInv, flusher = "flushing", UNCHANGED <<handler, proc>>,
         stored \subseteq stored', stored' \subseteq stored \cup Batch,
         MayBeTaken(taken'),
         NEW result, Answer(result), \A r \in Batch : result[r] \in Results
  PROVE  BatchInv'
<1>1. /\ UNCHANGED <<inCh, closed>> /\ todo' = Tail(todo) /\ attempts' = 0
      /\ reply' = [r \in Requests |-> IF r \in Batch THEN result[r] ELSE reply[r]]
  BY DEF Answer
<1>2. TypeOK
  BY DEF BatchInv
<1>3. /\ inCh \in Seq(Requests) /\ pending \in Seq(Requests)
      /\ todo \in Seq(Topics) /\ todo # <<>> /\ \A k, l \in DOMAIN todo : todo[k] = todo[l] => k = l
  BY <1>2 DEF TypeOK, BatchInv
<1>5. reply' \in [Requests -> [kind : {"none", "ok", "error"}, accepted : Nat, duplicates : Nat]]
  BY <1>1, <1>2 DEF Results, TypeOK
<1>6. Batch \subseteq ToSet(pending) /\ \A r \in Batch : Topic[r] = todo[1]
  BY <1>3 DEF Batch
<1>7. stored' \subseteq Requests
  BY <1>2, BatchIsFinite DEF TypeOK
<1>8. /\ ToSet(Buffer) = ToSet(pending) \cup ToSet(inCh)
      /\ ToSet(pending) \cap ToSet(inCh) = {}
  BY <1>3, BufferHolds DEF BatchInv
<1>9. ToSet(inCh') \cap stored' = {}
  BY <1>1, <1>6, <1>8 DEF BatchInv
<1>10. \A r \in Requests : handler'[r] \in {"new", "sending"} => r \notin ToSet(Buffer) \cup stored'
  BY <1>6, <1>8 DEF BatchInv
<1>11. /\ todo' \in Seq(Topics)
       /\ \A k \in DOMAIN todo' : k \in Nat /\ k >= 1 /\ k + 1 \in DOMAIN todo /\ todo'[k] = todo[k + 1]
  BY <1>1, <1>3
<1>12. \A k, l \in DOMAIN todo' : todo'[k] = todo'[l] => k = l
  BY <1>3, <1>11
<1>13. ASSUME NEW r \in ToSet(pending) \cap stored', NEW k \in DOMAIN todo', todo'[k] = Topic[r]
       PROVE  FALSE
  <2>1. k + 1 \in DOMAIN todo /\ todo[k + 1] = Topic[r] /\ k + 1 # 1 /\ 1 \in DOMAIN todo
    BY <1>3, <1>11, <1>13
  <2>2. CASE r \in stored
    BY <1>13, <2>1, <2>2 DEF BatchInv
  <2>3. CASE r \in Batch
    BY <1>3, <1>6, <2>1, <2>3
  <2> QED
    BY <1>13, <2>2, <2>3
<1>14. CASE todo' # <<>>
  <2>1. UNCHANGED <<flusher, pending, timer>> /\ Buffer' = Buffer
    BY <1>1, <1>14 DEF Answer, Buffer
  <2>2. TypeOK'
    BY <1>1, <1>2, <1>5, <1>7, <1>11, <2>1, BoundsAssumption DEF TypeOK, MayBeTaken
  <2>3. Batch' \cap stored' = {}
    <3>1. 1 \in DOMAIN todo' /\ Head(todo') = todo'[1]
      BY <1>11, <1>14
    <3> QED
      BY <1>13, <2>1, <3>1 DEF Batch
  <2>4. WholeBatch'
    BY <2>3 DEF WholeBatch
  <2> QED
    BY <1>9, <1>10, <1>12, <1>13, <1>14, <2>1, <2>2, <2>4 DEF BatchInv
<1>15. CASE todo' = <<>>
  <2>1. pending' = <<>> /\ flusher' = "receiving" /\ timer' = TRUE /\ Buffer' = inCh
    BY <1>1, <1>3, <1>15 DEF Answer, Buffer
  <2>2. TypeOK'
    BY <1>1, <1>2, <1>5, <1>7, <1>11, <2>1, BoundsAssumption DEF TypeOK, MayBeTaken
  <2>3. WholeBatch' /\ ToSet(pending') = {}
    BY <2>1 DEF WholeBatch, ToSet
  <2>4. \A r \in Requests : handler'[r] \in {"new", "sending"} => r \notin ToSet(Buffer') \cup stored'
    BY <1>8, <1>10, <2>1
  <2>5. \A i, j \in DOMAIN inCh : inCh[i] = inCh[j] => i = j
    <3>1. SUFFICES ASSUME NEW i \in DOMAIN inCh, NEW j \in DOMAIN inCh, inCh[i] = inCh[j]
                   PROVE  i = j
      OBVIOUS
    <3>2. /\ Len(pending) \in Nat /\ Len(pending) + i \in DOMAIN Buffer /\ Len(pending) + j \in DOMAIN Buffer
          /\ Buffer[Len(pending) + i] = inCh[i] /\ Buffer[Len(pending) + j] = inCh[j]
      BY <1>3 DEF Buffer
    <3>3. Len(pending) + i = Len(pending) + j
      BY <3>1, <3>2 DEF BatchInv
    <3> QED
      BY <1>3, <3>2, <3>3
  <2> QED
    BY <1>9, <2>1, <2>2, <2>3, <2>4, <2>5 DEF BatchInv
<1> QED
  BY <1>14, <1>15

\* What readers take between the attempts is forgotten with the last of them.
LEMMA TakenStays ==
  ASSUME TypeOK, Insert \/ Rollback
  PROVE  /\ stored' = stored \/ stored' = stored \cup Batch
         /\ MayBeTaken(taken')
<1>1. NoTaken \in [Requests -> Nat] /\ \A r \in Requests : NoTaken[r] <= Size[r]
  BY RequestAssumption DEF NoTaken
<1>2. taken' = taken \/ taken' = NoTaken
  BY DEF Insert, Rollback
<1> QED
  BY <1>1, <1>2 DEF TypeOK, MayBeTaken, Insert, Rollback

\* The results of an attempt that succeeds.
Counts == [r \in Batch |-> [kind       |-> "ok",
                            accepted   |-> Shared(Messages(Batch) - Found, r),
                            duplicates |-> Shared(Found, r)]]

\* An attempt inserts what is not in the table of a batch, and counts the rest
\* (Store.Publish), or fails, with or without effect (flushWithRetry).
LEMMA AttemptBatch == ASSUME BatchInv, AttemptSucceeds \/ AttemptFails PROVE BatchInv'
<1>1. flusher = "flushing" /\ UNCHANGED <<handler, proc>> /\ (Insert \/ Rollback)
  BY DEF AttemptSucceeds, AttemptFails
<1>2. TypeOK /\ WholeBatch
  BY DEF BatchInv
<1>3. /\ Batch \subseteq Requests
      /\ stored' = stored \/ stored' = stored \cup Batch
      /\ MayBeTaken(taken')
  BY <1>1, <1>2, BatchIsFinite, TakenStays
<1>4. CASE AttemptSucceeds
  <2>1. Found \in 0 .. Messages(Batch) /\ Messages(Batch) - Found \in 0 .. Messages(Batch)
    BY <1>1, FoundIs
  <2>2. \A r \in Batch : Shared(Found, r) \in Nat /\ Shared(Messages(Batch) - Found, r) \in Nat
    BY <1>2, <2>1, SharesAddUp
  <2>3. \A r \in Batch : Counts[r] \in Results
    BY <2>2 DEF Counts, Results
  <2>4. Answer(Counts)
    BY <1>4 DEF AttemptSucceeds, Counts
  <2> QED
    BY <1>1, <1>3, <2>3, <2>4, AnswerBatch
<1>5. CASE AttemptFails /\ attempts + 1 < MaxRetries
  <2>1. /\ UNCHANGED <<reply, inCh, closed, pending, flusher, todo, timer>>
        /\ attempts' = attempts + 1
    BY <1>5 DEF AttemptFails
  <2>2. TypeOK'
    BY <1>1, <1>2, <1>3, <1>5, <2>1, BoundsAssumption DEF TypeOK, MayBeTaken
  <2>3. Batch' = Batch /\ Buffer' = Buffer
    BY <2>1 DEF Batch, Buffer
  <2>4. WholeBatch'
    BY <1>3, <2>1, <2>3 DEF BatchInv, WholeBatch
  <2>5. /\ Batch \subseteq ToSet(pending) /\ ToSet(Buffer) = ToSet(pending) \cup ToSet(inCh)
        /\ ToSet(pending) \cap ToSet(inCh) = {}
    BY <1>2, BufferHolds DEF Batch, BatchInv, TypeOK
  <2>6. /\ ToSet(inCh) \cap stored' = {}
        /\ \A r \in Requests : handler[r] \in {"new", "sending"} => r \notin ToSet(Buffer) \cup stored'
    BY <1>3, <2>5 DEF BatchInv
  <2>7. ASSUME NEW r \in ToSet(pending) \cap stored', NEW k \in DOMAIN todo, todo[k] = Topic[r]
        PROVE  k = 1
    <3>1. CASE r \in stored
      BY <1>1, <2>7, <3>1 DEF BatchInv
    <3>2. CASE r \in Batch
      <4>1. todo \in Seq(Topics) /\ todo # <<>> /\ Topic[r] = Head(todo)
        BY <1>1, <1>2, <3>2 DEF BatchInv, TypeOK, Batch
      <4>2. 1 \in DOMAIN todo /\ todo[1] = Topic[r]
        BY <4>1
      <4> QED
        BY <1>1, <2>7, <4>2 DEF BatchInv
    <3> QED
      BY <1>3, <2>7, <3>1, <3>2
  <2> QED
    BY <1>1, <2>1, <2>2, <2>3, <2>4, <2>6, <2>7 DEF BatchInv
<1>6. CASE AttemptFails /\ ~(attempts + 1 < MaxRetries)
  <2>1. Answer([r \in Batch |-> Failed])
    BY <1>6 DEF AttemptFails
  <2>2. \A r \in Batch : [q \in Batch |-> Failed][r] \in Results
    BY DEF Results, Failed, NoResult
  <2> QED
    BY <1>1, <1>3, <2>1, <2>2, AnswerBatch
<1> QED
  BY <1>4, <1>5, <1>6

\* A reader takes out messages that are there.
LEMMA TakenBatch == ASSUME BatchInv, NEW r \in Requests, ReaderTakes(r) PROVE BatchInv'
<1>1. /\ UNCHANGED <<handler, reply, inCh, pending, todo, flusher, closed, attempts, timer, stored, proc>>
      /\ taken' = [taken EXCEPT ![r] = @ + 1] /\ taken[r] < Size[r]
  BY DEF ReaderTakes, bufferVars
<1>2. TypeOK
  BY DEF BatchInv
<1>3. taken' \in [Requests -> Nat] /\ \A q \in Requests : taken'[q] <= Size[q]
  BY <1>1, <1>2, RequestAssumption DEF TypeOK
<1>4. TypeOK'
  BY <1>1, <1>2, <1>3 DEF TypeOK
<1> QED
  BY <1>1, <1>4, BatchKept

\* What a new process knows of results and of readers.
LEMMA NothingYet ==
  /\ NoReply \in [Requests -> [kind : {"none", "ok", "error"}, accepted : Nat, duplicates : Nat]]
  /\ NoTaken \in [Requests -> Nat] /\ \A r \in Requests : NoTaken[r] <= Size[r]
BY RequestAssumption DEF NoReply, NoResult, NoTaken

\* Every step preserves the invariant.
LEMMA BatchStep == BatchInv /\ [Next]_vars => BatchInv'
<1> SUFFICES ASSUME BatchInv, [Next]_vars PROVE BatchInv'
  OBVIOUS
<1>0. TypeOK
  BY DEF BatchInv
<1>1. CASE UNCHANGED vars
  <2>1. TypeOK'
    BY <1>0, <1>1 DEF vars, bufferVars, TypeOK
  <2> QED
    BY <1>1, <2>1, BatchKept DEF vars, bufferVars
<1>2. ASSUME NEW r \in Requests, Publish(r) \/ SendPanics(r) \/ Receive(r) \/ GiveUp(r)
      PROVE  BatchInv'
  <2>1. UNCHANGED <<inCh, pending, todo, flusher, closed, attempts, timer, stored, taken, proc>>
    BY <1>2 DEF Publish, SendPanics, Receive, GiveUp, bufferVars
  <2>2. PICK a \in {"sending", "ok", "failed"} :
          /\ handler' = [handler EXCEPT ![r] = a]
          /\ a = "sending" => handler[r] = "new"
    BY <1>2 DEF Publish, SendPanics, Receive, GiveUp
  <2>3. handler' \in [Requests -> {"new", "ok", "failed"} \cup Working]
    BY <1>0, <2>2 DEF TypeOK, Working
  <2>4. \A q \in Requests : handler'[q] = IF q = r THEN a ELSE handler[q]
    BY <1>0, <2>2 DEF TypeOK
  <2>5. TypeOK'
    <3>1. NoResult \in [kind : {"none", "ok", "error"}, accepted : Nat, duplicates : Nat]
      BY DEF NoResult
    <3>2. reply' = reply \/ reply' = [q \in Requests |-> IF q = r THEN NoResult ELSE reply[q]]
      BY <1>2 DEF Publish, SendPanics, Receive, GiveUp
    <3>3. reply' \in [Requests -> [kind : {"none", "ok", "error"}, accepted : Nat, duplicates : Nat]]
      BY <1>0, <3>1, <3>2 DEF TypeOK
    <3> QED
      BY <1>0, <2>1, <2>3, <3>3 DEF TypeOK
  <2>6. \A q \in Requests : handler'[q] \in {"new", "sending"} => handler[q] \in {"new", "sending"}
    BY <2>2, <2>4
  <2> QED
    BY <2>1, <2>5, <2>6, BatchKept
<1>3. ASSUME NEW r \in Requests, Send(r) PROVE BatchInv'
  BY <1>3, SendBatch
<1>4. CASE FlusherStep
  BY <1>4, CollectBatch, AttemptBatch DEF FlusherStep
<1>5. CASE BeginShutdown \/ CloseBuffer \/ Restart
  <2>1. UNCHANGED <<handler, reply, inCh, pending, todo, flusher, attempts, timer, stored, taken>>
    BY <1>5 DEF BeginShutdown, CloseBuffer, Restart, bufferVars
  <2>2. closed' \in BOOLEAN /\ proc' \in {"up", "shutting", "closing", "down"}
    BY <1>0, <1>5 DEF BeginShutdown, CloseBuffer, Restart, bufferVars, TypeOK
  <2>3. TypeOK'
    BY <1>0, <2>1, <2>2 DEF TypeOK
  <2> QED
    BY <2>1, <2>3, BatchKept
<1>6. CASE Exit \/ Crash
  <2>1. /\ inCh' = <<>> /\ pending' = <<>> /\ todo' = <<>> /\ flusher' = "receiving"
        /\ closed' = FALSE /\ attempts' = 0 /\ timer' = TRUE /\ proc' = "down"
        /\ reply' = NoReply /\ taken' = NoTaken /\ stored' = stored
        /\ handler' = [r \in Requests |-> IF handler[r] \in Working THEN "failed" ELSE handler[r]]
    BY <1>6 DEF Exit, Crash, Die
  <2>2. /\ handler' \in [Requests -> {"new", "ok", "failed"} \cup Working]
        /\ \A r \in Requests : handler'[r] \in {"new", "sending"} => handler[r] = "new"
    BY <1>0, <2>1 DEF TypeOK, Working
  <2>3. TypeOK'
    <3>1. /\ inCh' \in Seq(Requests) /\ pending' \in Seq(Requests) /\ todo' \in Seq(Topics)
          /\ Len(inCh') <= ChanCap /\ attempts' \in 0 .. MaxRetries - 1
      BY <2>1, BoundsAssumption
    <3>2. /\ flusher' \in {"receiving", "flushing", "returned"} /\ closed' \in BOOLEAN /\ timer' \in BOOLEAN
          /\ proc' \in {"up", "shutting", "closing", "down"}
      BY <2>1
    <3>3. /\ reply' \in [Requests -> [kind : {"none", "ok", "error"}, accepted : Nat, duplicates : Nat]]
          /\ taken' \in [Requests -> Nat] /\ \A r \in Requests : taken'[r] <= Size[r]
      BY <2>1, NothingYet
    <3> QED
      BY <1>0, <2>1, <2>2, <3>1, <3>2, <3>3 DEF TypeOK
  <2>4. ToSet(Buffer') = {} /\ DOMAIN Buffer' = {} /\ ToSet(inCh') = {} /\ ToSet(pending') = {}
    BY <2>1 DEF Buffer, ToSet
  <2>5. WholeBatch'
    BY <2>1 DEF BatchInv, WholeBatch
  <2> QED
    BY <2>1, <2>2, <2>3, <2>4, <2>5 DEF BatchInv
<1>7. ASSUME NEW r \in Requests, ReaderTakes(r) PROVE BatchInv'
  BY <1>7, TakenBatch
<1> QED
  BY <1>1, <1>2, <1>3, <1>4, <1>5, <1>6, <1>7 DEF Next, HandlerStep, MainStep

LEMMA BatchInit == Init => BatchInv
<1> SUFFICES ASSUME Init PROVE BatchInv
  OBVIOUS
<1>1. /\ inCh = <<>> /\ pending = <<>> /\ todo = <<>> /\ flusher = "receiving" /\ stored = {}
      /\ reply = NoReply /\ taken = NoTaken
  BY DEF Init
<1>2. TypeOK
  <2>1. /\ inCh \in Seq(Requests) /\ pending \in Seq(Requests) /\ todo \in Seq(Topics)
        /\ Len(inCh) <= ChanCap /\ attempts \in 0 .. MaxRetries - 1
    BY <1>1, BoundsAssumption DEF Init
  <2>2. handler \in [Requests -> {"new", "ok", "failed"} \cup Working]
    BY DEF Init
  <2> QED
    BY <1>1, <2>1, <2>2, NothingYet DEF Init, TypeOK
<1>3. ToSet(Buffer) = {} /\ DOMAIN Buffer = {} /\ ToSet(inCh) = {} /\ ToSet(pending) = {}
  BY <1>1 DEF Buffer, ToSet
<1>4. WholeBatch
  BY <1>1 DEF WholeBatch
<1> QED
  BY <1>1, <1>2, <1>3, <1>4 DEF BatchInv

\* Types, for any sizes and any number of attempts: what a request is told are
\* natural numbers.
THEOREM TypeCorrect == Spec => []TypeOK
<1>1. BatchInv => TypeOK
  BY DEF BatchInv
<1> QED
  BY <1>1, BatchInit, BatchStep, PTL DEF Spec

\* A batch enters queue_messages whole, whatever attempts were made again, and
\* however often the process stopped on the way (store.go:40-72).
THEOREM BatchesEnterWhole == Spec => []WholeBatch
<1>1. BatchInv => WholeBatch
  BY DEF BatchInv
<1> QED
  BY <1>1, BatchInit, BatchStep, PTL DEF Spec

\* Only an attempt that succeeds answers requests with counts, and it answers the
\* batch.
LEMMA AnsweredAre ==
  ASSUME BatchInv, [Next]_vars
  PROVE  \/ Answered = {}
         \/ /\ AttemptSucceeds /\ flusher = "flushing" /\ Answered = Batch /\ Batch \subseteq Requests
            /\ \A r \in Batch : reply'[r] = Counts[r]
<1>0. NoResult.kind # "ok" /\ Failed.kind # "ok" /\ \A r \in Batch : Counts[r].kind = "ok"
  BY DEF NoResult, Failed, Counts
<1>1. CASE AttemptSucceeds
  <2>1. flusher = "flushing" /\ Answer(Counts)
    BY <1>1 DEF AttemptSucceeds, Counts
  <2>2. Batch \subseteq Requests
    BY BatchIsFinite DEF BatchInv
  <2>3. /\ \A r \in Batch : reply[r] = NoResult /\ reply'[r] = Counts[r]
        /\ \A r \in Requests \ Batch : reply'[r] = reply[r]
    BY <2>1, <2>2 DEF Answer
  <2>4. Answered = Batch
    BY <1>0, <2>2, <2>3 DEF Answered
  <2> QED
    BY <1>1, <2>1, <2>2, <2>3, <2>4
<1>2. CASE \A r \in Requests : reply'[r] \in {reply[r], NoResult, Failed}
  BY <1>0, <1>2 DEF Answered
<1>3. ASSUME Die PROVE \A r \in Requests : reply'[r] = NoResult
  BY <1>3 DEF Die, NoReply
<1>4. ASSUME NEW r \in Requests, Receive(r)
      PROVE  \A q \in Requests : reply'[q] \in {reply[q], NoResult}
  BY <1>4 DEF Receive
<1>5. ASSUME AttemptFails
      PROVE  \A r \in Requests : reply'[r] \in {reply[r], Failed}
  <2>1. reply' = reply \/ Answer([r \in Batch |-> Failed])
    BY <1>5 DEF AttemptFails
  <2> QED
    BY <2>1 DEF Answer
<1>6. ASSUME NEW r \in Requests,
             Publish(r) \/ Send(r) \/ SendPanics(r) \/ GiveUp(r) \/ ReaderTakes(r)
      PROVE  reply' = reply
  BY <1>6 DEF Publish, Send, SendPanics, GiveUp, ReaderTakes
<1>7. ASSUME UNCHANGED vars \/ Take \/ TimerFires \/ ChannelClosed
             \/ BeginShutdown \/ CloseBuffer \/ Restart
      PROVE  reply' = reply
  BY <1>7 DEF vars, Take, TimerFires, ChannelClosed, BeginShutdown, CloseBuffer, Restart
<1> QED
  BY <1>1, <1>2, <1>3, <1>4, <1>5, <1>6, <1>7
     DEF Next, HandlerStep, FlusherStep, MainStep, Exit, Crash

\* What an attempt that succeeds hands out.
LEMMA CountsTotal ==
  ASSUME BatchInv, flusher = "flushing", Batch \subseteq Requests, Answered = Batch,
         \A r \in Batch : reply'[r] = Counts[r]
  PROVE  Told("accepted") + Told("duplicates") = Messages(Answered)
<1> DEFINE new         == Messages(Batch) - Found
           Total(t)    == SumFunctionOnSet([r \in Batch |-> Shared(t, r)], Batch)
           told(count) == [r \in Requests |-> reply'[r][count]]
<1>1. TypeOK /\ IsFiniteSet(Batch)
  BY BatchIsFinite DEF BatchInv
<1>2. /\ Found \in 0 .. Messages(Batch) /\ new \in 0 .. Messages(Batch)
      /\ Messages(Batch) \in Nat
  BY FoundIs
<1>3. \A r \in Batch : /\ told("accepted")[r] = [q \in Batch |-> Shared(new, q)][r]
                       /\ told("duplicates")[r] = [q \in Batch |-> Shared(Found, q)][r]
  <2>1. \A r \in Batch : /\ reply'[r]["accepted"] = Shared(new, r)
                         /\ reply'[r]["duplicates"] = Shared(Found, r)
    <3> SUFFICES ASSUME NEW r \in Batch
                 PROVE  reply'[r].accepted = Shared(new, r) /\ reply'[r].duplicates = Shared(Found, r)
      OBVIOUS
    <3>1. reply'[r] = [kind |-> "ok", accepted |-> Shared(new, r), duplicates |-> Shared(Found, r)]
      BY DEF Counts
    <3> QED
      BY <3>1
  <2>2. \A count : \A r \in Batch : told(count)[r] = reply'[r][count]
    OBVIOUS
  <2> HIDE DEF told, new
  <2> QED
    BY <2>1, <2>2
<1>4. Told("accepted") = Total(new) /\ Told("duplicates") = Total(Found)
  <2> HIDE DEF new
  <2>1. \A count : Told(count) = SumFunctionOnSet(told(count), Batch)
    BY DEF Told
  <2> DEFINE a == told("accepted")
             d == told("duplicates")
             f == [q \in Batch |-> Shared(new, q)]
             g == [q \in Batch |-> Shared(Found, q)]
  <2>2. (\A r \in Batch : a[r] = f[r]) /\ (\A r \in Batch : d[r] = g[r])
    BY <1>3
  <2>3. Told("accepted") = SumFunctionOnSet(a, Batch) /\ Told("duplicates") = SumFunctionOnSet(d, Batch)
    BY <2>1
  <2> HIDE DEF a, d, f, g
  <2>4. SumFunctionOnSet(a, Batch) = SumFunctionOnSet(f, Batch)
        /\ SumFunctionOnSet(d, Batch) = SumFunctionOnSet(g, Batch)
    BY <1>1, <2>2, SumSame
  <2> QED
    BY <2>3, <2>4 DEF f, g
<1>5. Total(new) = new /\ Total(Found) = Found
  BY <1>1, <1>2, SharesAddUp
<1>6. new + Found = Messages(Batch)
  BY <1>2
<1> QED
  BY <1>4, <1>5, <1>6

LEMMA CountsOwn ==
  ASSUME BatchInv, flusher = "flushing", \A r \in Batch : taken[r] = 0,
         NEW r \in Batch, reply'[r] = Counts[r]
  PROVE  reply'[r].accepted + reply'[r].duplicates = Size[r]
<1> DEFINE M   == Messages(Batch)
           new == M - Found
<1>1. TypeOK /\ Size[r] \in Nat
  BY BatchIsFinite DEF BatchInv
<1>2. M \in Nat /\ (Found = 0 \/ Found = M)
  BY FoundIs
<1>3. Shared(0, r) = 0 /\ Shared(M, r) = Size[r]
  BY <1>1, SharesAre
<1>4. reply'[r].accepted = Shared(new, r) /\ reply'[r].duplicates = Shared(Found, r)
  BY DEF Counts
<1> HIDE DEF M
<1>5. CASE Found = 0
  <2>1. new = M
    BY <1>2, <1>5
  <2> QED
    BY <1>1, <1>3, <1>4, <1>5, <2>1
<1>6. CASE Found = M
  <2>1. new = 0
    BY <1>2, <1>6
  <2> QED
    BY <1>1, <1>3, <1>4, <1>6, <2>1
<1> QED
  BY <1>2, <1>5, <1>6

\* In every execution of the writer, the counts that the requests of a batch are
\* told add up to their messages (buffer.go:155-185).
THEOREM CountsOfABatch == Spec => CountsAddUp
<1>1. BatchInv /\ [Next]_vars => [Told("accepted") + Told("duplicates") = Messages(Answered)]_vars
  <2>1. SUFFICES ASSUME BatchInv, [Next]_vars
                 PROVE  Told("accepted") + Told("duplicates") = Messages(Answered)
    OBVIOUS
  <2>2. CASE Answered = {}
    BY <2>2, SumOfNone DEF Told, Messages
  <2> QED
    BY <2>1, <2>2, AnsweredAre, CountsTotal
<1> QED
  BY <1>1, BatchInit, BatchStep, PTL DEF Spec, CountsAddUp

\* In every execution, a request is told of exactly its own messages, if readers
\* took none of its batch between two attempts.
THEOREM CountsOfARequest == Spec => OwnCounts
<1>1. BatchInv /\ [Next]_vars =>
        [(\A r \in Answered : taken[r] = 0) =>
            \A r \in Answered : reply'[r].accepted + reply'[r].duplicates = Size[r]]_vars
  BY AnsweredAre, CountsOwn
<1> QED
  BY <1>1, BatchInit, BatchStep, PTL DEF Spec, OwnCounts

-----------------------------------------------------------------------------
(* Refinement. *)

\* What a handler does next, and what its producer sees of it.
Seen(a) == IF a \in Working THEN "open" ELSE a

\* An attempt inserts the messages of producers that have asked for it.
LEMMA AttemptInserts ==
  ASSUME BatchInv, AttemptSucceeds \/ AttemptFails
  PROVE  [Promise!Next]_(Promise!vars)
<1>1. handler' = handler /\ stored' \in {stored, stored \cup Batch}
  BY DEF AttemptSucceeds, AttemptFails, Insert, Rollback
<1>2. inCh \in Seq(Requests) /\ pending \in Seq(Requests) /\ TypeOK
  BY DEF BatchInv, TypeOK
<1>3. Batch \in SUBSET Requests
  BY <1>2, BatchIsFinite
<1>4. \A r \in Batch : handler[r] # "new"
  <2>1. Batch \subseteq ToSet(Buffer)
    BY <1>2, BufferHolds DEF Batch
  <2> QED
    BY <1>3, <2>1 DEF BatchInv
<1>5. CASE stored' = stored
  BY <1>1, <1>5 DEF Promise!vars
<1>6. CASE stored' = stored \cup Batch
  <2>1. \A r \in Batch : [q \in Requests |-> Seen(handler[q])][r] # "new"
    BY <1>3, <1>4 DEF Seen
  <2>2. Promise!Insert(Batch)
    BY <1>1, <1>6, <2>1 DEF Promise!Insert, Seen
  <2> QED
    BY <1>3, <2>2 DEF Promise!Next
<1> QED
  BY <1>1, <1>5, <1>6

\* Requests of producers that wait are refused, and nothing is inserted.
LEMMA Refuses ==
  ASSUME NEW R \in SUBSET Requests, \A r \in R : handler[r] \in Working, stored' = stored,
         \A r \in Requests : handler'[r] = IF r \in R THEN "failed" ELSE handler[r]
  PROVE  Promise!Next
<1>1. "failed" \notin Working
  BY DEF Working
<1>2. Promise!Refuse(R)
  BY <1>1 DEF Promise!Refuse
<1> QED
  BY <1>2 DEF Promise!Next

\* Every step is a step of the promise, or none.
LEMMA PublishingStep ==
  ASSUME IInv, BatchInv, [Next]_vars PROVE [Promise!Next]_(Promise!vars)
<1>1. CASE UNCHANGED <<handler, stored>>
  BY <1>1 DEF Promise!vars
<1>2. ASSUME NEW r \in Requests, NEW a, handler' = [handler EXCEPT ![r] = a]
      PROVE  \A q \in Requests : handler'[q] = IF q = r THEN a ELSE handler[q]
  BY <1>2 DEF IInv, OkResults
<1>3. ASSUME NEW r \in Requests, Publish(r) PROVE Promise!Next
  <2>1. handler[r] = "new" /\ stored' = stored
        /\ \A q \in Requests : handler'[q] = IF q = r THEN "sending" ELSE handler[q]
    BY <1>2, <1>3 DEF Publish
  <2>2. Promise!Ask(r)
    BY <2>1 DEF Promise!Ask, Working
  <2> QED
    BY <2>2 DEF Promise!Next
<1>4. ASSUME NEW r \in Requests, Send(r) PROVE UNCHANGED Promise!vars
  <2>1. handler[r] = "sending" /\ stored' = stored
        /\ \A q \in Requests : handler'[q] = IF q = r THEN "waiting" ELSE handler[q]
    BY <1>2, <1>4 DEF Send
  <2> QED
    BY <2>1 DEF Promise!vars, Working
<1>5. ASSUME NEW r \in Requests, handler[r] \in Working, stored' = stored,
             handler' = [handler EXCEPT ![r] = "failed"]
      PROVE  Promise!Next
  <2>1. \A q \in Requests : handler'[q] = IF q = r THEN "failed" ELSE handler[q]
    BY <1>2, <1>5
  <2>2. PICK R \in SUBSET Requests : R = {r}
    OBVIOUS
  <2> QED
    BY <1>5, <2>1, <2>2, Refuses
<1>6. ASSUME NEW r \in Requests, SendPanics(r) \/ GiveUp(r) PROVE Promise!Next
  BY <1>5, <1>6 DEF SendPanics, GiveUp, Working
<1>7. ASSUME NEW r \in Requests, Receive(r) PROVE Promise!Next
  <2>1. CASE reply[r].kind = "ok"
    <3>1. handler[r] = "waiting" /\ stored' = stored /\ r \in stored
          /\ \A q \in Requests : handler'[q] = IF q = r THEN "ok" ELSE handler[q]
      BY <1>2, <1>7, <2>1 DEF Receive, IInv, OkResults
    <3>2. Promise!Confirm(r)
      BY <3>1 DEF Promise!Confirm, Working
    <3> QED
      BY <3>2 DEF Promise!Next
  <2>2. CASE reply[r].kind # "ok"
    BY <1>5, <1>7, <2>2 DEF Receive, Working
  <2> QED
    BY <2>1, <2>2
<1>8. CASE Die
  <2>1. PICK R \in SUBSET Requests : R = {r \in Requests : handler[r] \in Working}
    OBVIOUS
  <2>2. /\ stored' = stored
        /\ \A r \in Requests : handler'[r] = IF r \in R THEN "failed" ELSE handler[r]
    BY <1>8, <2>1 DEF Die
  <2>3. Promise!Next
    BY <2>1, <2>2, Refuses
  <2> QED
    BY <2>3
<1>9. ASSUME UNCHANGED vars \/ Take \/ TimerFires \/ ChannelClosed
             \/ BeginShutdown \/ CloseBuffer \/ Restart \/ \E r \in Requests : ReaderTakes(r)
      PROVE  UNCHANGED <<handler, stored>>
  BY <1>9 DEF vars, Take, TimerFires, ChannelClosed, BeginShutdown, CloseBuffer, Restart, ReaderTakes
<1>10. CASE FlusherStep
  BY <1>1, <1>9, <1>10, AttemptInserts DEF FlusherStep
<1> QED
  BY <1>1, <1>3, <1>4, <1>6, <1>7, <1>8, <1>9, <1>10
     DEF Next, HandlerStep, MainStep, Exit, Crash

\* In every step a producer asks, what it asked for is inserted with the rest
\* of a batch, or it is told so, or it is refused (handler.go:57-110,
\* buffer.go:45-184): the writer implements Publishing.
THEOREM Refinement == Spec => ImplementsPublishing
<1>1. Init => IInv /\ BatchInv
  <2>1. Init => IInv
    BY DEF Init, IInv, OkResults, OkIsStored, NoReply, NoResult
  <2> QED
    BY <2>1, BatchInit
<1>2. IInv /\ BatchInv /\ [Next]_vars => (IInv /\ BatchInv)'
  BY OkStep, BatchStep
<1>3. Init => Promise!Init
  BY DEF Init, Promise!Init, Working
<1>4. IInv /\ BatchInv /\ [Next]_vars => [Promise!Next]_(Promise!vars)
  BY PublishingStep
<1> QED
  BY <1>1, <1>2, <1>3, <1>4, PTL DEF Spec, ImplementsPublishing, Promise!Spec

=============================================================================
