----------------------------- MODULE WriteBuffer -----------------------------
(***************************************************************************)
(* The write side of the queue (internal/mqwriter, cmd/mqwriter): HTTP     *)
(* handlers submit publish requests to a channel, one flusher goroutine    *)
(* collects them and inserts them by topic, each topic in a transaction    *)
(* that is tried MaxRetries times, and shares the counts out among the     *)
(* handlers that wait.                                                     *)
(*                                                                         *)
(* The messages of a request have fresh uuids and enter the table in one   *)
(* transaction, so what is inserted is a set of requests.  An attempt may  *)
(* report an error after its commit took effect; the uuids keep the next   *)
(* attempt from inserting again what readers have not taken out meanwhile, *)
(* and it counts duplicates.                                               *)
(***************************************************************************)
EXTENDS Integers, SequencesExt

CONSTANTS
    Requests,    \* publish requests
    Topics,
    Topic,       \* request -> topic
    Size,        \* request -> number of messages
    ChanCap,     \* capacity of inCh (256)
    MaxSize,     \* MQ_BUFFER_SIZE: messages pending that start a flush
    MaxRetries   \* maxRetries of flushWithRetry (3)

ASSUME RequestAssumption == /\ Topic \in [Requests -> Topics]
                            /\ Size \in [Requests -> Nat \ {0}]
ASSUME BoundsAssumption  == /\ ChanCap \in Nat \ {0} /\ MaxSize \in Nat \ {0}
                            /\ MaxRetries \in Nat \ {0}

VARIABLES
    handler,   \* request -> its handler: what it does, or what it has answered
    reply,     \* request -> what is in its reply channel, which holds one result
    inCh,      \* WriteBuffer.inCh
    closed,    \* inCh is closed
    pending,   \* Run: items collected
    flusher,   \* Run: receives, flushes, has returned
    todo,      \* doFlush: the topics still to insert, in the order of the map
    attempts,  \* flushWithRetry: attempts made at the first of them
    timer,     \* Run: the timer is running
    stored,    \* requests whose messages have been inserted into queue_messages
    taken,     \* request -> messages taken out of the table between its attempts
    proc       \* main: runs, waits for handlers, waits for the flusher, is gone

bufferVars == <<inCh, closed, pending, flusher, todo, attempts, timer>>
vars == <<handler, reply, bufferVars, stored, taken, proc>>

NoResult == [kind |-> "none", accepted |-> 0, duplicates |-> 0]
Failed   == [NoResult EXCEPT !.kind = "error"]
NoReply  == [r \in Requests |-> NoResult]
NoTaken  == [r \in Requests |-> 0]
Working  == {"sending", "waiting"}
Messages(R) == SumFunctionOnSet(Size, R)

TypeOK ==
    /\ handler \in [Requests -> {"new", "ok", "failed"} \cup Working]
    /\ reply \in [Requests -> [kind : {"none", "ok", "error"}, accepted : Nat, duplicates : Nat]]
    /\ inCh \in Seq(Requests) /\ Len(inCh) <= ChanCap /\ pending \in Seq(Requests)
    /\ flusher \in {"receiving", "flushing", "returned"} /\ todo \in Seq(Topics)
    /\ attempts \in 0 .. MaxRetries - 1 /\ closed \in BOOLEAN /\ timer \in BOOLEAN
    /\ stored \subseteq Requests
    /\ taken \in [Requests -> Nat] /\ \A r \in Requests : taken[r] <= Size[r]
    /\ proc \in {"up", "shutting", "closing", "down"}

Init == /\ inCh = <<>> /\ pending = <<>> /\ closed = FALSE /\ flusher = "receiving"
        /\ todo = <<>> /\ attempts = 0 /\ timer = TRUE
        /\ handler = [r \in Requests |-> "new"] /\ reply = NoReply
        /\ stored = {} /\ taken = NoTaken /\ proc = "up"

-----------------------------------------------------------------------------
(* Handlers: Publish and WriteBuffer.Submit. *)

\* A valid request; the server takes none once Shutdown has begun.
Publish(r) ==
    /\ proc = "up" /\ handler[r] = "new"
    /\ handler' = [handler EXCEPT ![r] = "sending"]
    /\ UNCHANGED <<reply, bufferVars, stored, taken, proc>>

Send(r) ==
    /\ handler[r] = "sending" /\ ~closed /\ Len(inCh) < ChanCap
    /\ inCh' = Append(inCh, r)
    /\ handler' = [handler EXCEPT ![r] = "waiting"]
    /\ UNCHANGED <<reply, closed, pending, flusher, todo, attempts, timer, stored, taken, proc>>

\* The send on the closed channel panics, and Recoverer answers 500.
SendPanics(r) ==
    /\ handler[r] = "sending" /\ closed
    /\ handler' = [handler EXCEPT ![r] = "failed"]
    /\ UNCHANGED <<reply, bufferVars, stored, taken, proc>>

Receive(r) ==
    /\ handler[r] = "waiting" /\ reply[r].kind # "none"
    /\ handler' = [handler EXCEPT ![r] = IF reply[r].kind = "ok" THEN "ok" ELSE "failed"]
    /\ reply' = [q \in Requests |-> IF q = r THEN NoResult ELSE reply[q]]
    /\ UNCHANGED <<bufferVars, stored, taken, proc>>

\* The request's context ends; what has been sent stays in the buffer.
GiveUp(r) ==
    /\ handler[r] \in Working
    /\ handler' = [handler EXCEPT ![r] = "failed"]
    /\ UNCHANGED <<reply, bufferVars, stored, taken, proc>>

-----------------------------------------------------------------------------
(* The flusher: WriteBuffer.Run. *)

StartFlush(items) ==
    /\ flusher' = "flushing"
    /\ todo' \in SetToSeqs({Topic[r] : r \in ToSet(items)})

Take ==
    /\ flusher = "receiving" /\ inCh # <<>>
    /\ pending' = Append(pending, Head(inCh)) /\ inCh' = Tail(inCh)
    /\ IF Messages(ToSet(pending')) >= MaxSize THEN StartFlush(pending')
       ELSE UNCHANGED <<flusher, todo>>
    /\ UNCHANGED <<handler, reply, closed, attempts, timer, stored, taken, proc>>

\* mutant: only doFlush resets the timer, and it returns early when there is
\* nothing to flush
TimerFiresOnce ==
    /\ flusher = "receiving" /\ timer /\ timer' = FALSE
    /\ IF pending = <<>> THEN UNCHANGED <<flusher, todo>> ELSE StartFlush(pending)
    /\ UNCHANGED <<handler, reply, inCh, closed, pending, attempts, stored, taken, proc>>

\* (With nothing pending the timer is just reset.)
TimerFires ==
    /\ flusher = "receiving" /\ timer /\ pending # <<>>
    /\ StartFlush(pending) /\ timer' = FALSE
    /\ UNCHANGED <<handler, reply, inCh, closed, pending, attempts, stored, taken, proc>>

\* mutant: returns without a last flush
ChannelClosedDrops ==
    /\ flusher = "receiving" /\ closed /\ inCh = <<>>
    /\ flusher' = "returned"
    /\ UNCHANGED <<handler, reply, inCh, closed, pending, todo, attempts, timer, stored, taken, proc>>

\* The closed channel is empty: a last flush, and return.
ChannelClosed ==
    /\ flusher = "receiving" /\ closed /\ inCh = <<>>
    /\ IF pending = <<>> THEN flusher' = "returned" /\ todo' = todo ELSE StartFlush(pending)
    /\ UNCHANGED <<handler, reply, inCh, closed, pending, attempts, timer, stored, taken, proc>>

\* doFlush: the items of the topic whose turn it is, and the last that came.
Batch    == {r \in ToSet(pending) : Topic[r] = Head(todo)}
LastItem == LET i == CHOOSE i \in DOMAIN pending :
                       /\ pending[i] \in Batch
                       /\ \A j \in DOMAIN pending : pending[j] \in Batch => j <= i
            IN  pending[i]

\* mutant: each item is told the counts of the whole batch
SharedWhole(total, r) == total

\* mutant: the items' sizes do not matter
SharedEvenly(total, r) ==
    LET share == total \div Cardinality(Batch)
    IN  IF r # LastItem THEN share ELSE total - share * (Cardinality(Batch) - 1)

\* distributeResults: an item's part of a count; the last item gets the rest.
Shared(total, r) ==
    LET share == [q \in Batch |-> (total * Size[q]) \div Messages(Batch)]
    IN  IF r # LastItem THEN share[r]
        ELSE total - SumFunctionOnSet(share, Batch \ {r})

\* mutant: pending is not emptied
AnswerKeepsPending(result) ==
    /\ \A r \in Batch : reply[r] = NoResult
    /\ reply' = [r \in Requests |-> IF r \in Batch THEN result[r] ELSE reply[r]]
    /\ attempts' = 0 /\ todo' = Tail(todo) /\ pending' = pending
    /\ IF todo' = <<>> THEN flusher' = "receiving" /\ timer' = TRUE ELSE UNCHANGED <<flusher, timer>>
    /\ UNCHANGED <<inCh, closed>>

\* The first topic is done: its items get their results (their channels are
\* empty, or the send would block for ever).  After the last topic the buffer
\* is emptied and the timer started again.
Answer(result) ==
    /\ \A r \in Batch : reply[r] = NoResult
    /\ reply' = [r \in Requests |-> IF r \in Batch THEN result[r] ELSE reply[r]]
    /\ attempts' = 0 /\ todo' = Tail(todo)
    /\ IF todo' = <<>> THEN flusher' = "receiving" /\ pending' = <<>> /\ timer' = TRUE
       ELSE UNCHANGED <<flusher, pending, timer>>
    /\ UNCHANGED <<inCh, closed>>

\* Store.Publish inserts the messages of the batch that are not in the table,
\* and counts the others; or it is rolled back.
Insert   == stored' = stored \cup Batch /\ taken' = NoTaken
Rollback == stored' = stored /\ taken' = IF attempts + 1 < MaxRetries THEN taken ELSE NoTaken

Found == LET found == [r \in Batch |-> IF r \in stored THEN Size[r] - taken[r] ELSE 0]
         IN  SumFunctionOnSet(found, Batch)

\* It commits and reports what it inserted and what was there.
AttemptSucceeds ==
    /\ flusher = "flushing" /\ Insert
    /\ Answer([r \in Batch |-> [kind       |-> "ok",
                                accepted   |-> Shared(Messages(Batch) - Found, r),
                                duplicates |-> Shared(Found, r)]])
    /\ UNCHANGED <<handler, proc>>

\* mutant: the last error is not returned
AttemptFailsSilently ==
    /\ flusher = "flushing"
    /\ Insert \/ Rollback
    /\ IF attempts + 1 < MaxRetries
       THEN attempts' = attempts + 1 /\ UNCHANGED <<reply, inCh, closed, pending, flusher, todo, timer>>
       ELSE Answer([r \in Batch |-> [kind |-> "ok", accepted |-> Size[r], duplicates |-> 0]])
    /\ UNCHANGED <<handler, proc>>

\* mutant: one attempt too many
AttemptFailsOnceMore ==
    /\ flusher = "flushing"
    /\ Insert \/ Rollback
    /\ IF attempts < MaxRetries
       THEN attempts' = attempts + 1 /\ UNCHANGED <<reply, inCh, closed, pending, flusher, todo, timer>>
       ELSE Answer([r \in Batch |-> Failed])
    /\ UNCHANGED <<handler, proc>>

\* It returns an error: nothing was inserted, or the commit took effect and its
\* answer was lost.
AttemptFails ==
    /\ flusher = "flushing"
    /\ Insert \/ Rollback
    /\ IF attempts + 1 < MaxRetries
       THEN attempts' = attempts + 1 /\ UNCHANGED <<reply, inCh, closed, pending, flusher, todo, timer>>
       ELSE Answer([r \in Batch |-> Failed])
    /\ UNCHANGED <<handler, proc>>

\* A reader deletes a message of the batch that was acked.
ReaderTakes(r) ==
    /\ flusher = "flushing" /\ r \in Batch \cap stored /\ taken[r] < Size[r]
    /\ taken' = [taken EXCEPT ![r] = @ + 1]
    /\ UNCHANGED <<handler, reply, bufferVars, stored, proc>>

-----------------------------------------------------------------------------
(* main. *)

BeginShutdown ==
    /\ proc = "up" /\ proc' = "shutting"
    /\ UNCHANGED <<handler, reply, bufferVars, stored, taken>>

\* srv.Shutdown returns, since no handler is left or after 15 seconds; Close.
CloseBuffer ==
    /\ proc = "shutting" /\ proc' = "closing" /\ closed' = TRUE
    /\ UNCHANGED <<handler, reply, inCh, pending, flusher, todo, attempts, timer, stored, taken>>

\* The process ends and takes its handlers and its memory along.
Die == /\ proc' = "down"
       /\ inCh' = <<>> /\ pending' = <<>> /\ closed' = FALSE /\ flusher' = "receiving"
       /\ todo' = <<>> /\ attempts' = 0 /\ timer' = TRUE
       /\ handler' = [r \in Requests |-> IF handler[r] \in Working THEN "failed" ELSE handler[r]]
       /\ reply' = NoReply /\ taken' = NoTaken /\ UNCHANGED stored

Exit    == proc = "closing" /\ flusher = "returned" /\ Die
Crash   == proc # "down" /\ Die
Restart == proc = "down" /\ proc' = "up" /\ UNCHANGED <<handler, reply, bufferVars, stored, taken>>

-----------------------------------------------------------------------------

HandlerStep(r) == Send(r) \/ SendPanics(r) \/ Receive(r)
FlusherStep == Take \/ TimerFires \/ ChannelClosed \/ AttemptSucceeds \/ AttemptFails
MainStep    == CloseBuffer \/ Exit

Next == \/ \E r \in Requests : Publish(r) \/ HandlerStep(r) \/ GiveUp(r) \/ ReaderTakes(r)
        \/ FlusherStep \/ MainStep
        \/ BeginShutdown \/ Crash \/ Restart

Spec == Init /\ [][Next]_vars

\* The flusher runs, an attempt ends (it has 10 seconds), goroutines that wait
\* to send are served in turn, and Shutdown returns.
Fairness == /\ WF_vars(FlusherStep) /\ WF_vars(MainStep)
            /\ \A r \in Requests : SF_vars(HandlerStep(r))

LiveSpec == Spec /\ Fairness

-----------------------------------------------------------------------------
(* Properties. *)

\* "Submit ... blocks until the batch containing it is flushed" (buffer.go:45):
\* a request answered with 200 is in queue_messages, whatever attempts failed,
\* was sent twice, or stopped on the way.
OkIsStored == \A r \in Requests : handler[r] = "ok" => r \in stored

\* The counts that distributeResults shares out among the requests it answers
\* account for exactly their messages, whatever was inserted, found, or taken out
\* and inserted again.
Answered == {r \in Requests : reply[r] = NoResult /\ reply'[r].kind = "ok"}
Told(count) == SumFunctionOnSet([r \in Requests |-> reply'[r][count]], Answered)

CountsAddUp == [][Told("accepted") + Told("duplicates") = Messages(Answered)]_vars

\* Each request is told of exactly its own messages, also when an attempt whose
\* commit was not reported is made again, unless readers have been there
\* between the two.
OwnCounts ==
    [][(\A r \in Answered : taken[r] = 0) =>
          \A r \in Answered : reply'[r].accepted + reply'[r].duplicates = Size[r]]_vars

\* queries.go:7: "ON CONFLICT makes retries idempotent": what readers have taken
\* out of the table by the time of the retry is not inserted again.
RetriesIdempotent == [][\A r \in Answered : taken[r] = 0]_vars

\* A batch has been inserted as a whole, by an attempt whose commit was not
\* reported, or nothing of it.
WholeBatch ==
    flusher = "flushing" => Batch \subseteq stored \/ Batch \cap stored = {}

\* The inductive invariant of the three: a request is in the buffer once, and
\* before it is sent not at all; and what has been inserted is not new, not in
\* the channel, and pending only while the topics that follow its own are
\* inserted.
Buffer == pending \o inCh

BatchInv ==
    /\ TypeOK /\ WholeBatch
    /\ \A i, j \in DOMAIN Buffer : Buffer[i] = Buffer[j] => i = j
    /\ \A r \in Requests : handler[r] \in {"new", "sending"} => r \notin ToSet(Buffer) \cup stored
    /\ ToSet(inCh) \cap stored = {}
    /\ IF flusher = "flushing"
       THEN /\ todo # <<>> /\ \A k, l \in DOMAIN todo : todo[k] = todo[l] => k = l
            /\ \A r \in ToSet(pending) \cap stored, k \in DOMAIN todo : todo[k] = Topic[r] => k = 1
       ELSE ToSet(pending) \cap stored = {}

\* A handler that waits has its result or is in the buffer of a flusher that
\* has not returned, once.
NobodyForgotten ==
    \A r \in Requests : handler[r] = "waiting" /\ reply[r] = NoResult =>
        /\ flusher # "returned"
        /\ Cardinality({i \in DOMAIN (pending \o inCh) : (pending \o inCh)[i] = r}) = 1

\* The inductive invariant of NobodyForgotten, for handlers that wait for a
\* result: they are in the buffer, once; those that have not sent are not; of
\* the requests in a flush some have their result, the others a topic to come.
Waiting(r) == handler[r] = "waiting" /\ reply[r] = NoResult

BufferInv ==
    /\ handler \in [Requests -> {"new", "ok", "failed"} \cup Working]
    /\ inCh \in Seq(Requests) /\ pending \in Seq(Requests) /\ todo \in Seq(Topics)
    /\ \A r \in Requests : Waiting(r) =>
         \E i \in DOMAIN Buffer : \A j \in DOMAIN Buffer : Buffer[j] = r <=> j = i
    /\ \A r \in Requests : handler[r] \in {"new", "sending"} => \A i \in DOMAIN Buffer : Buffer[i] # r
    /\ flusher = "flushing" =>
         /\ todo # <<>>
         /\ \A r \in Requests, i \in DOMAIN pending :
              pending[i] = r /\ Waiting(r) => \E k \in DOMAIN todo : todo[k] = Topic[r]
    /\ flusher = "returned" => closed /\ Buffer = <<>>

\* The writer as producers see it: Publish, Submit, the flusher with all its
\* attempts, and crashes.
Promise == INSTANCE Publishing
             WITH state <- [r \in Requests |-> IF handler[r] \in Working THEN "open" ELSE handler[r]],
                  table <- stored
ImplementsPublishing == Promise!Spec

\* A request that was taken is answered, without its context having to end: by
\* the size of the batch, the timer or the closing of the channel.  (Each request
\* is made once, so that all are answered when in the end nobody waits.)
EveryRequestAnswered == <>[](\A r \in Requests : handler[r] \notin Working)

\* A shutdown ends, full channel and failing database or not.
ShutdownEnds == proc = "shutting" ~> proc = "down"

=============================================================================
