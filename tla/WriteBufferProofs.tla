-------------------------- MODULE WriteBufferProofs --------------------------
(***************************************************************************)
(* An answer of 200 means the request is in queue_messages: the proof, for *)
(* any requests, topics, sizes, capacities and number of attempts.  The    *)
(* invariant says the same one step earlier, of the results that are on    *)
(* their way to the handlers; the rest is that rows are never taken back.  *)
(***************************************************************************)
EXTENDS WriteBuffer, FiniteSetTheorems, TLAPS

\* the inductive invariant
OkResults ==
    /\ handler \in [Requests -> {"new", "ok", "failed"} \cup Working]
    /\ \A r \in Requests : reply[r].kind = "ok" => r \in stored

IInv == OkResults /\ OkIsStored

\* Steps that send no results keep the invariant if no handler answers 200
\* without one.
LEMMA HandlersKeep ==
  ASSUME IInv, stored \subseteq stored',
         \A r \in Requests : reply'[r].kind = "ok" => reply[r].kind = "ok",
         handler' \in [Requests -> {"new", "ok", "failed"} \cup Working],
         \A r \in Requests : handler'[r] = "ok" => handler[r] = "ok" \/ reply[r].kind = "ok"
  PROVE  IInv'
BY DEF IInv, OkResults, OkIsStored

\* The flusher answers a batch after it was inserted, or with an error
\* (WriteBuffer.flushWithRetry and distributeResults).
LEMMA FlusherKeeps == IInv /\ FlusherStep => IInv'
<1> SUFFICES ASSUME IInv, FlusherStep PROVE IInv'
  OBVIOUS
<1>1. handler' = handler
  BY DEF FlusherStep, Take, TimerFires, ChannelClosed, AttemptSucceeds, AttemptFails
<1>2. CASE Take \/ TimerFires \/ ChannelClosed
  BY <1>1, <1>2, HandlersKeep DEF Take, TimerFires, ChannelClosed, IInv, OkResults
<1>3. CASE AttemptSucceeds
  <2>1. stored' = stored \cup Batch
    BY <1>3 DEF AttemptSucceeds, Insert
  <2>2. PICK result : Answer(result)
    BY <1>3 DEF AttemptSucceeds
  <2>3. \A r \in Requests : reply'[r].kind = "ok" => r \in Batch \/ reply[r].kind = "ok"
    BY <2>2 DEF Answer
  <2> QED
    BY <1>1, <2>1, <2>3 DEF IInv, OkResults, OkIsStored
<1>4. CASE AttemptFails
  <2>1. stored \subseteq stored'
    BY <1>4 DEF AttemptFails, Insert, Rollback
  <2>2. CASE reply' = reply
    BY <1>1, <2>1, <2>2, HandlersKeep DEF IInv, OkResults
  <2>3. CASE Answer([r \in Batch |-> Failed])
    <3>1. \A r \in Requests : reply'[r].kind = "ok" => reply[r].kind = "ok"
      BY <2>3 DEF Answer, Failed, NoResult
    <3> QED
      BY <1>1, <2>1, <3>1 DEF IInv, OkResults, OkIsStored
  <2> QED
    BY <1>4, <2>2, <2>3 DEF AttemptFails
<1> QED
  BY <1>2, <1>3, <1>4 DEF FlusherStep

\* Every step preserves the invariant.
LEMMA OkStep == IInv /\ [Next]_vars => IInv'
<1> SUFFICES ASSUME IInv, [Next]_vars PROVE IInv'
  OBVIOUS
<1> USE DEF Working
<1>1. CASE UNCHANGED vars
  BY <1>1 DEF vars, IInv, OkResults, OkIsStored
<1>2. ASSUME NEW r \in Requests,
             Publish(r) \/ Send(r) \/ SendPanics(r) \/ Receive(r) \/ GiveUp(r)
      PROVE  IInv'
  <2>1. stored' = stored /\ \A q \in Requests : reply'[q].kind = "ok" => reply[q].kind = "ok"
    <3>1. NoResult.kind # "ok"
      BY DEF NoResult
    <3>2. reply' = reply \/ reply' = [q \in Requests |-> IF q = r THEN NoResult ELSE reply[q]]
      BY <1>2 DEF Publish, Send, SendPanics, Receive, GiveUp
    <3>3. \A q \in Requests : reply'[q].kind = "ok" => reply[q].kind = "ok"
      BY <3>1, <3>2
    <3> QED
      BY <1>2, <3>3 DEF Publish, Send, SendPanics, Receive, GiveUp
  <2>2. PICK a \in {"sending", "waiting", "ok", "failed"} :
          /\ handler' = [handler EXCEPT ![r] = a]
          /\ a = "ok" => reply[r].kind = "ok"
    BY <1>2 DEF Publish, Send, SendPanics, Receive, GiveUp
  <2> QED
    BY <2>1, <2>2, HandlersKeep DEF IInv, OkResults
<1>3. CASE FlusherStep
  BY <1>3, FlusherKeeps
<1>4. ASSUME BeginShutdown \/ CloseBuffer \/ Restart \/ \E r \in Requests : ReaderTakes(r)
      PROVE  IInv'
  <2>1. UNCHANGED <<handler, reply, stored>>
    BY <1>4 DEF BeginShutdown, CloseBuffer, Restart, ReaderTakes
  <2> QED
    BY <2>1, HandlersKeep DEF IInv, OkResults
<1>5. CASE Exit \/ Crash
  <2>1. \A r \in Requests : reply'[r].kind # "ok"
    BY <1>5 DEF Exit, Crash, Die, NoReply, NoResult
  <2> QED
    BY <1>5, <2>1, HandlersKeep DEF Exit, Crash, Die, IInv, OkResults
<1> QED
  BY <1>1, <1>2, <1>3, <1>4, <1>5 DEF Next, HandlerStep, MainStep

\* In every execution a request answered with 200 is in queue_messages.
THEOREM AnsweredIsStored == Spec => []OkIsStored
<1>1. Init => IInv
  BY DEF Init, IInv, OkResults, OkIsStored, NoReply, NoResult
<1>2. IInv => OkIsStored
  BY DEF IInv
<1> QED
  BY <1>1, <1>2, OkStep, PTL DEF Spec

-----------------------------------------------------------------------------
(* Nobody who waits is forgotten. *)

LEMMA BufferIs ==
  ASSUME inCh \in Seq(Requests), pending \in Seq(Requests)
  PROVE  /\ Buffer \in Seq(Requests) /\ Len(Buffer) = Len(pending) + Len(inCh)
         /\ DOMAIN Buffer = 1 .. Len(pending) + Len(inCh)
         /\ Len(pending) \in Nat /\ DOMAIN pending = 1 .. Len(pending)
         /\ \A i \in DOMAIN pending : i \in DOMAIN Buffer /\ Buffer[i] = pending[i]
BY DEF Buffer

\* Run receives: the request stays where it is among those of the buffer.
LEMMA TakeMoves ==
  ASSUME NEW s \in Seq(Requests), NEW t \in Seq(Requests), t # <<>>
  PROVE  Append(s, Head(t)) \o Tail(t) = s \o t
<1> DEFINE a == Append(s, Head(t)) \o Tail(t)
           b == s \o t
<1>1. Head(t) \in Requests /\ Head(t) = t[1] /\ Len(t) \in Nat /\ Len(t) >= 1 /\ Len(s) \in Nat
  OBVIOUS
<1>2. /\ Tail(t) \in Seq(Requests) /\ Len(Tail(t)) = Len(t) - 1
      /\ \A i \in 1 .. Len(t) - 1 : Tail(t)[i] = t[i + 1]
  OBVIOUS
<1>3. /\ Append(s, Head(t)) \in Seq(Requests) /\ Len(Append(s, Head(t))) = Len(s) + 1
      /\ \A i \in 1 .. Len(s) : Append(s, Head(t))[i] = s[i]
      /\ Append(s, Head(t))[Len(s) + 1] = t[1]
  BY <1>1
<1>4. /\ a \in Seq(Requests) /\ b \in Seq(Requests)
      /\ Len(a) = Len(s) + Len(t) /\ Len(b) = Len(s) + Len(t)
  BY <1>1, <1>2, <1>3
<1>5. ASSUME NEW i \in 1 .. Len(s) + Len(t) PROVE a[i] = b[i]
  <2>1. CASE i \in 1 .. Len(s)
    BY <1>1, <1>2, <1>3, <2>1
  <2>2. CASE i = Len(s) + 1
    <3>1. a[i] = t[1]
      BY <1>1, <1>2, <1>3, <2>2
    <3>2. b[i] = t[i - Len(s)] /\ i - Len(s) = 1
      BY <1>1, <2>2
    <3> QED
      BY <3>1, <3>2
  <2>3. CASE i > Len(s) + 1
    <3>1. a[i] = Tail(t)[i - (Len(s) + 1)] /\ i - (Len(s) + 1) \in 1 .. Len(t) - 1
      BY <1>1, <1>2, <1>3, <2>3
    <3>2. b[i] = t[i - Len(s)]
      BY <1>1, <2>3
    <3>3. (i - (Len(s) + 1)) + 1 = i - Len(s)
      BY <1>1
    <3> QED
      BY <1>2, <3>1, <3>2, <3>3
  <2> QED
    BY <1>1, <2>1, <2>2, <2>3
<1> HIDE DEF a, b
<1>6. a = b
  BY <1>4, <1>5
<1> QED
  BY <1>6 DEF a, b

\* A flush goes through every topic of the items (the range over the map in
\* doFlush).
LEMMA EveryTopic ==
  ASSUME NEW items \in Seq(Requests), items # <<>>, StartFlush(items)
  PROVE  /\ flusher' = "flushing" /\ todo' \in Seq(Topics) /\ todo' # <<>>
         /\ \A i \in DOMAIN items : \E k \in DOMAIN todo' : todo'[k] = Topic[items[i]]
<1> DEFINE S == {Topic[r] : r \in ToSet(items)}
           n == Cardinality(S)
           f == [i \in 1 .. Len(items) |-> Topic[items[i]]]
<1>1. \A r \in ToSet(items) : r \in Requests /\ \E i \in 1 .. Len(items) : items[i] = r
  BY DEF ToSet
<1>2. \A i \in 1 .. Len(items) : items[i] \in ToSet(items)
  BY DEF ToSet
<1>3. Len(items) \in Nat /\ f \in Surjection(1 .. Len(items), S)
  BY <1>1, <1>2 DEF Surjection
<1>4. IsFiniteSet(1 .. Len(items))
  BY <1>3, FS_Interval
<1>5. IsFiniteSet(S)
  BY <1>3, <1>4, FS_Surjection
<1>6. n \in Nat
  BY <1>5, FS_CardinalityType
<1>7. IsFiniteSet(1 .. n) /\ Cardinality(1 .. n) = n
  BY <1>6, FS_Interval
<1>8. todo' \in [1 .. n -> S] /\ \A i, j \in 1 .. n : i # j => todo'[i] # todo'[j]
  BY DEF StartFlush, SetToSeqs
<1>9. todo' \in Injection(1 .. n, S)
  BY <1>8 DEF Injection, IsInjective
<1>10. todo' \in Surjection(1 .. n, S)
  BY <1>5, <1>7, <1>9, FS_Injection
<1>11. S \subseteq Topics
  BY <1>1, RequestAssumption
<1> HIDE DEF n, S
<1>12. todo' \in Seq(Topics) /\ DOMAIN todo' = 1 .. n
  BY <1>6, <1>8, <1>11
<1>13. \A s \in S : \E k \in DOMAIN todo' : todo'[k] = s
  BY <1>10, <1>12 DEF Surjection
<1>14. \A i \in DOMAIN items : Topic[items[i]] \in S
  BY <1>2 DEF S
<1>15. 1 \in DOMAIN items
  OBVIOUS
<1>16. todo' # <<>>
  <2>1. PICK k \in DOMAIN todo' : todo'[k] = Topic[items[1]]
    BY <1>13, <1>14, <1>15
  <2> QED
    BY <2>1
<1> QED
  BY <1>12, <1>13, <1>14, <1>16 DEF StartFlush

\* The steps that leave the buffer as it is, or empty, and start nobody to wait.
LEMMA BufferKept ==
  ASSUME BufferInv, UNCHANGED <<inCh, pending, todo>>,
         handler' \in [Requests -> {"new", "ok", "failed"} \cup Working],
         \A r \in Requests : Waiting(r)' => Waiting(r),
         \A r \in Requests : handler'[r] \in {"new", "sending"} => handler[r] \in {"new", "sending"},
         flusher' = "flushing" => flusher = "flushing",
         flusher' = "returned" => closed' /\ Buffer = <<>>
  PROVE  BufferInv'
<1>1. Buffer' = Buffer
  BY DEF Buffer
<1>2. \A i \in DOMAIN pending : pending[i] \in Requests
  BY DEF BufferInv
<1> QED
  BY <1>1, <1>2 DEF BufferInv

\* A handler sends, and waits from now on.
LEMMA SendStep == ASSUME BufferInv, NEW r \in Requests, Send(r) PROVE BufferInv'
<1>1. /\ inCh' = Append(inCh, r) /\ UNCHANGED <<pending, todo, flusher, reply, closed>>
      /\ handler' = [handler EXCEPT ![r] = "waiting"] /\ handler[r] = "sending" /\ ~closed
  BY DEF Send
<1>2. /\ inCh' \in Seq(Requests) /\ pending' \in Seq(Requests) /\ todo' \in Seq(Topics)
      /\ handler' \in [Requests -> {"new", "ok", "failed"} \cup Working]
  BY <1>1 DEF BufferInv, Working
<1> DEFINE n == Len(pending) + Len(inCh) + 1
<1>3. /\ n \in Nat /\ n >= 1 /\ DOMAIN Buffer = 1 .. n - 1 /\ DOMAIN Buffer' = 1 .. n
      /\ \A i \in 1 .. n - 1 : Buffer'[i] = Buffer[i] /\ Buffer[i] # r
      /\ Buffer'[n] = r
  <2>1. Len(inCh) \in Nat /\ Len(pending) \in Nat /\ Len(inCh') = Len(inCh) + 1
    BY <1>1 DEF BufferInv
  <2>2. DOMAIN Buffer = 1 .. n - 1 /\ DOMAIN Buffer' = 1 .. n
    BY <1>1, <1>2, <2>1 DEF BufferInv, Buffer
  <2>3. \A i \in 1 .. n - 1 : Buffer'[i] = Buffer[i]
    BY <1>1, <1>2, <2>1 DEF BufferInv, Buffer
  <2>4. Buffer'[n] = r
    BY <1>1, <1>2, <2>1 DEF BufferInv, Buffer
  <2>5. \A i \in 1 .. n - 1 : Buffer[i] # r
    BY <1>1, <2>2 DEF BufferInv
  <2> QED
    BY <2>1, <2>2, <2>3, <2>4, <2>5
<1> HIDE DEF n
<1>4. \A q \in Requests : q # r => handler'[q] = handler[q]
  BY <1>1 DEF BufferInv
<1>5. ASSUME NEW q \in Requests, Waiting(q)'
      PROVE  \E i \in DOMAIN Buffer' : \A j \in DOMAIN Buffer' : Buffer'[j] = q <=> j = i
  <2>1. CASE q = r
    <3>1. n \in DOMAIN Buffer' /\ \A j \in DOMAIN Buffer' : Buffer'[j] = q <=> j = n
      <4>1. \A j \in 1 .. n : j \in 1 .. n - 1 \/ j = n
        BY <1>3
      <4> QED
        BY <1>3, <2>1, <4>1
    <3> QED
      BY <3>1
  <2>2. CASE q # r
    <3>1. PICK i \in DOMAIN Buffer : \A j \in DOMAIN Buffer : Buffer[j] = q <=> j = i
      BY <1>1, <1>4, <1>5, <2>2 DEF Waiting, BufferInv
    <3>2. i \in DOMAIN Buffer' /\ i # n /\ \A j \in 1 .. n : j \in 1 .. n - 1 \/ j = n
      BY <1>3
    <3> QED
      BY <1>3, <2>2, <3>1, <3>2
  <2> QED
    BY <2>1, <2>2
<1>6. ASSUME NEW q \in Requests, handler'[q] \in {"new", "sending"}
      PROVE  \A i \in DOMAIN Buffer' : Buffer'[i] # q
  <2>1. q # r /\ handler[q] \in {"new", "sending"}
    BY <1>1, <1>4, <1>6 DEF BufferInv
  <2>2. \A j \in 1 .. n : j \in 1 .. n - 1 \/ j = n
    BY <1>3
  <2> QED
    BY <1>3, <2>1, <2>2 DEF BufferInv
<1>7. ASSUME flusher' = "flushing", NEW q \in Requests, NEW i \in DOMAIN pending',
             pending'[i] = q, Waiting(q)'
      PROVE  \E k \in DOMAIN todo' : todo'[k] = Topic[q]
  <2>1. q # r
    BY <1>1, <1>7, BufferIs DEF BufferInv
  <2>2. Waiting(q)
    BY <1>1, <1>4, <1>7, <2>1 DEF Waiting
  <2> QED
    BY <1>1, <1>7, <2>2 DEF BufferInv
<1>8. flusher' # "returned" /\ (flusher' = "flushing" => todo' # <<>>)
  BY <1>1 DEF BufferInv
<1> QED
  BY <1>2, <1>5, <1>6, <1>7, <1>8 DEF BufferInv

\* Run receives from the channel, or begins to flush what is pending.
LEMMA CollectStep == ASSUME BufferInv, Take \/ TimerFires \/ ChannelClosed PROVE BufferInv'
<1>1. UNCHANGED <<handler, reply, closed>>
  BY DEF Take, TimerFires, ChannelClosed
<1>2. \A r : Waiting(r)' = Waiting(r)
  BY <1>1 DEF Waiting
<1>3. Buffer' = Buffer /\ pending' \in Seq(Requests) /\ inCh' \in Seq(Requests)
  <2>1. CASE Take
    <3>1. /\ inCh # <<>> /\ pending' = Append(pending, Head(inCh)) /\ inCh' = Tail(inCh)
          /\ inCh \in Seq(Requests) /\ pending \in Seq(Requests)
      BY <2>1 DEF Take, BufferInv
    <3> QED
      BY <3>1, TakeMoves DEF Buffer
  <2>2. CASE TimerFires \/ ChannelClosed
    BY <2>2 DEF TimerFires, ChannelClosed, Buffer, BufferInv
  <2> QED
    BY <2>1, <2>2
<1>4. CASE pending' # <<>> /\ StartFlush(pending')
  <2>1. /\ flusher' = "flushing" /\ todo' \in Seq(Topics) /\ todo' # <<>>
        /\ \A i \in DOMAIN pending' : \E k \in DOMAIN todo' : todo'[k] = Topic[pending'[i]]
    BY <1>3, <1>4, EveryTopic
  <2>2. /\ \A r \in Requests : Waiting(r)' =>
             \E i \in DOMAIN Buffer' : \A j \in DOMAIN Buffer' : Buffer'[j] = r <=> j = i
        /\ \A r \in Requests : handler'[r] \in {"new", "sending"} =>
             \A i \in DOMAIN Buffer' : Buffer'[i] # r
    BY <1>1, <1>2, <1>3 DEF BufferInv
  <2>3. handler' \in [Requests -> {"new", "ok", "failed"} \cup Working]
    BY <1>1 DEF BufferInv, Working
  <2>4. flusher' # "returned"
    BY <2>1
  <2>5. \A r \in Requests, i \in DOMAIN pending' :
          pending'[i] = r => \E k \in DOMAIN todo' : todo'[k] = Topic[r]
    BY <2>1
  <2> QED
    BY <1>3, <2>1, <2>2, <2>3, <2>4, <2>5 DEF BufferInv, Working
<1>5. CASE flusher' # "flushing" /\ todo' = todo /\ (flusher' = "returned" => closed /\ Buffer = <<>>)
  BY <1>1, <1>2, <1>3, <1>5 DEF BufferInv
<1>6. <<>> \o <<>> = <<>>
  OBVIOUS
<1>7. Take => pending' # <<>>
  BY DEF Take, BufferInv
<1> QED
  BY <1>4, <1>5, <1>6, <1>7 DEF Take, TimerFires, ChannelClosed, Buffer

\* A topic is done: every handler with an item of it has a result, and after the
\* last one nobody with a pending item waits without one.
LEMMA AnswerStep ==
  ASSUME BufferInv, flusher = "flushing", handler' = handler, NEW result, Answer(result),
         \A r \in Batch : result[r] # NoResult
  PROVE  BufferInv'
<1>1. /\ UNCHANGED <<inCh, closed>> /\ todo' = Tail(todo)
      /\ \A r \in Requests : reply'[r] = IF r \in Batch THEN result[r] ELSE reply[r]
  BY DEF Answer
<1>2. \A r \in Requests : Waiting(r)' => Waiting(r) /\ r \notin Batch
  BY <1>1 DEF Waiting
<1>3. \A r \in Requests, i \in DOMAIN pending :
         pending[i] = r /\ Topic[r] = Head(todo) => r \in Batch
  BY DEF BufferInv, Batch, ToSet
<1>4. ASSUME NEW r \in Requests, NEW i \in DOMAIN pending, pending[i] = r, Waiting(r)'
      PROVE  \E k \in DOMAIN todo' : todo'[k] = Topic[r]
  <2>1. PICK k \in DOMAIN todo : todo[k] = Topic[r]
    BY <1>2, <1>4 DEF BufferInv
  <2>2. todo \in Seq(Topics) /\ Len(todo) \in Nat /\ k \in 1 .. Len(todo) /\ todo # <<>>
    BY <2>1 DEF BufferInv
  <2>3. k # 1
    BY <1>2, <1>3, <1>4, <2>1, <2>2
  <2>4. k - 1 \in DOMAIN todo' /\ todo'[k - 1] = todo[k]
    BY <1>1, <2>2, <2>3
  <2> QED
    BY <2>1, <2>2, <2>4
<1>5. todo' \in Seq(Topics)
  BY <1>1 DEF BufferInv, Answer
<1>6. CASE todo' # <<>>
  <2>1. pending' = pending /\ flusher' = flusher /\ Buffer' = Buffer
    BY <1>1, <1>6 DEF Answer, Buffer
  <2>2. \A r \in Requests, i \in DOMAIN pending' :
           pending'[i] = r /\ Waiting(r)' => \E k \in DOMAIN todo' : todo'[k] = Topic[r]
    BY <1>4, <2>1
  <2>3. /\ \A r \in Requests : Waiting(r)' =>
             \E i \in DOMAIN Buffer' : \A j \in DOMAIN Buffer' : Buffer'[j] = r <=> j = i
        /\ \A r \in Requests : handler'[r] \in {"new", "sending"} =>
             \A i \in DOMAIN Buffer' : Buffer'[i] # r
    BY <1>2, <2>1 DEF BufferInv
  <2>4. handler' \in [Requests -> {"new", "ok", "failed"} \cup Working]
    BY DEF BufferInv, Working
  <2>5. flusher' # "returned" /\ pending' \in Seq(Requests) /\ inCh' \in Seq(Requests)
    BY <1>1, <2>1 DEF BufferInv
  <2> QED
    BY <1>5, <1>6, <2>2, <2>3, <2>4, <2>5 DEF BufferInv, Working
<1>7. CASE todo' = <<>>
  <2>1. pending' = <<>> /\ flusher' = "receiving" /\ Buffer' = inCh
    BY <1>1, <1>7 DEF Answer, Buffer, BufferInv
  <2>2. \A r \in Requests, i \in DOMAIN pending : pending[i] = r => ~Waiting(r)'
    <3>1. DOMAIN todo' = {}
      BY <1>7
    <3> QED
      BY <1>4, <3>1
  <2> DEFINE m == Len(pending)
  <2>3. /\ m \in Nat /\ Len(inCh) \in Nat /\ DOMAIN inCh = 1 .. Len(inCh)
        /\ DOMAIN Buffer = 1 .. m + Len(inCh) /\ DOMAIN pending = 1 .. m
        /\ \A i \in 1 .. m : Buffer[i] = pending[i]
        /\ \A i \in 1 .. Len(inCh) : Buffer[m + i] = inCh[i]
    BY DEF BufferInv, Buffer
  <2> HIDE DEF m
  <2>4. ASSUME NEW r \in Requests, Waiting(r)'
        PROVE  \E i \in DOMAIN inCh : \A j \in DOMAIN inCh : inCh[j] = r <=> j = i
    <3>1. PICK i \in DOMAIN Buffer : \A j \in DOMAIN Buffer : Buffer[j] = r <=> j = i
      BY <1>2, <2>4 DEF BufferInv
    <3>2. i \notin 1 .. m
      BY <2>2, <2>3, <2>4, <3>1
    <3>3. i - m \in DOMAIN inCh
      BY <2>3, <3>1, <3>2
    <3>4. \A j \in DOMAIN inCh : inCh[j] = r <=> j = i - m
      <4>1. SUFFICES ASSUME NEW j \in DOMAIN inCh PROVE inCh[j] = r <=> j = i - m
        OBVIOUS
      <4>2. m + j \in DOMAIN Buffer /\ Buffer[m + j] = inCh[j]
        BY <2>3
      <4>3. m + j = i <=> j = i - m
        BY <2>3, <3>1
      <4> QED
        BY <3>1, <4>2, <4>3
    <3> QED
      BY <3>3, <3>4
  <2>5. ASSUME NEW r \in Requests, handler[r] \in {"new", "sending"}
        PROVE  \A j \in DOMAIN inCh : inCh[j] # r
    <3>1. \A j \in DOMAIN inCh : m + j \in DOMAIN Buffer /\ Buffer[m + j] = inCh[j]
      BY <2>3
    <3> QED
      BY <2>5, <3>1 DEF BufferInv
  <2>6. pending' \in Seq(Requests) /\ inCh' \in Seq(Requests)
    BY <1>1, <2>1 DEF BufferInv
  <2> QED
    BY <1>1, <1>5, <2>1, <2>4, <2>5, <2>6 DEF BufferInv
<1> QED
  BY <1>6, <1>7

LEMMA AttemptStep == ASSUME BufferInv, AttemptSucceeds \/ AttemptFails PROVE BufferInv'
<1>1. flusher = "flushing" /\ handler' = handler
  BY DEF AttemptSucceeds, AttemptFails
<1>2. CASE AttemptSucceeds
  <2>1. PICK result : Answer(result) /\ \A r \in Batch : result[r].kind = "ok"
    BY <1>2 DEF AttemptSucceeds
  <2>2. \A r \in Batch : result[r] # NoResult
    BY <2>1 DEF NoResult
  <2> QED
    BY <1>1, <2>1, <2>2, AnswerStep
<1>3. CASE AttemptFails /\ attempts + 1 < MaxRetries
  <2>1. UNCHANGED <<reply, inCh, pending, todo, flusher, closed>>
    BY <1>3 DEF AttemptFails
  <2> QED
    BY <1>1, <2>1, BufferKept DEF BufferInv, Waiting
<1>4. CASE AttemptFails /\ ~(attempts + 1 < MaxRetries)
  <2>1. Answer([r \in Batch |-> Failed])
    BY <1>4 DEF AttemptFails
  <2>2. Failed # NoResult
    BY DEF Failed, NoResult
  <2>3. \A r \in Batch : [q \in Batch |-> Failed][r] # NoResult
    BY <2>2
  <2> QED
    BY <1>1, <2>1, <2>3, AnswerStep
<1> QED
  BY <1>2, <1>3, <1>4

\* Every step preserves the invariant.
LEMMA BufferStep == BufferInv /\ [Next]_vars => BufferInv'
<1> SUFFICES ASSUME BufferInv, [Next]_vars PROVE BufferInv'
  OBVIOUS
<1>1. CASE UNCHANGED vars
  BY <1>1, BufferKept DEF vars, bufferVars, BufferInv, Waiting
<1>2. ASSUME NEW r \in Requests, Publish(r) \/ SendPanics(r) \/ Receive(r) \/ GiveUp(r)
      PROVE  BufferInv'
  <2>1. /\ UNCHANGED <<inCh, pending, todo, flusher, closed>>
        /\ reply' = reply \/ Receive(r)
    BY <1>2 DEF Publish, SendPanics, Receive, GiveUp, bufferVars
  <2>2. PICK a \in {"sending", "ok", "failed"} :
          /\ handler' = [handler EXCEPT ![r] = a]
          /\ a = "sending" => handler[r] = "new"
    BY <1>2 DEF Publish, SendPanics, Receive, GiveUp
  <2>3. handler' \in [Requests -> {"new", "ok", "failed"} \cup Working]
    BY <2>2 DEF BufferInv, Working
  <2>4. \A q \in Requests : handler'[q] = IF q = r THEN a ELSE handler[q]
    BY <2>2 DEF BufferInv
  <2>5. \A q \in Requests : Waiting(q)' => Waiting(q) /\ q # r
    <3>1. \A q \in Requests : q # r => reply'[q] = reply[q]
      BY <2>1 DEF Receive
    <3> QED
      BY <2>4, <3>1 DEF Waiting
  <2> QED
    BY <2>1, <2>2, <2>3, <2>4, <2>5, BufferKept DEF BufferInv
<1>3. ASSUME NEW r \in Requests, Send(r) PROVE BufferInv'
  BY <1>3, SendStep
<1>4. CASE FlusherStep
  BY <1>4, CollectStep, AttemptStep DEF FlusherStep
<1>5. ASSUME BeginShutdown \/ CloseBuffer \/ Restart \/ \E r \in Requests : ReaderTakes(r)
      PROVE  BufferInv'
  <2>1. UNCHANGED <<handler, reply, inCh, pending, todo, flusher>> /\ (closed => closed')
    BY <1>5 DEF BeginShutdown, CloseBuffer, Restart, ReaderTakes, bufferVars
  <2> QED
    BY <2>1, BufferKept DEF BufferInv, Waiting
<1>6. CASE Exit \/ Crash
  <2>1. /\ inCh' = <<>> /\ pending' = <<>> /\ todo' = <<>> /\ flusher' = "receiving"
        /\ \A r \in Requests : handler'[r] \notin Working /\ (handler'[r] = "new" => handler[r] = "new")
        /\ handler' \in [Requests -> {"new", "ok", "failed"} \cup Working]
    BY <1>6 DEF Exit, Crash, Die, BufferInv, Working
  <2>2. Buffer' = <<>> /\ DOMAIN Buffer' = {} /\ DOMAIN pending' = {}
    BY <2>1 DEF Buffer
  <2>3. \A r \in Requests : ~Waiting(r)'
    BY <2>1 DEF Waiting, Working
  <2> QED
    BY <2>1, <2>2, <2>3 DEF BufferInv
<1> QED
  BY <1>1, <1>2, <1>3, <1>4, <1>5, <1>6 DEF Next, HandlerStep, MainStep

\* A handler that waits has its result, or its request is in the channel or in
\* the batch, once, and somebody will take it (buffer.go:45-75, 150-190).
THEOREM NobodyIsForgotten == Spec => []NobodyForgotten
<1>1. Init => BufferInv
  <2> SUFFICES ASSUME Init PROVE BufferInv
    OBVIOUS
  <2>1. inCh = <<>> /\ pending = <<>> /\ todo = <<>> /\ flusher = "receiving"
        /\ handler = [r \in Requests |-> "new"]
    BY DEF Init
  <2>2. Buffer = <<>> /\ DOMAIN Buffer = {} /\ DOMAIN pending = {}
    BY <2>1 DEF Buffer
  <2> QED
    BY <2>1, <2>2 DEF BufferInv, Waiting
<1>2. BufferInv => NobodyForgotten
  <2> SUFFICES ASSUME BufferInv, NEW r \in Requests, Waiting(r)
               PROVE  flusher # "returned" /\ Cardinality({i \in DOMAIN Buffer : Buffer[i] = r}) = 1
    BY DEF NobodyForgotten, Waiting, Buffer
  <2>1. PICK i \in DOMAIN Buffer : \A j \in DOMAIN Buffer : Buffer[j] = r <=> j = i
    BY DEF BufferInv
  <2>2. {j \in DOMAIN Buffer : Buffer[j] = r} = {i}
    BY <2>1
  <2>3. Buffer # <<>>
    BY <2>1
  <2> QED
    BY <2>2, <2>3, FS_Singleton DEF BufferInv
<1> QED
  BY <1>1, <1>2, BufferStep, PTL DEF Spec

=============================================================================
