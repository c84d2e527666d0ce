------------------------------ MODULE Partition ------------------------------
(***************************************************************************)
(* One mqreader pod: the owner goroutine of internal/mqreader/partition.go *)
(* (Run), the HTTP handler goroutines that reach it through the lease and  *)
(* ack channels, the rows of queue_messages it serves, the main goroutine  *)
(* of cmd/mqreader that shuts it down, and the clients that hold leases.   *)
(*                                                                         *)
(* Each `case' of the select in Run is one action, with the database calls *)
(* it makes: the goroutine does nothing else while a call is in progress.  *)
(* A row is its id.  A lease id is drawn from a pool: uuids are only ever  *)
(* compared, so one nobody remembers may stand for the next new one.       *)
(* Time is the age of each lease and one timer of the main goroutine.      *)
(***************************************************************************)
EXTENDS Integers, Sequences, FiniteSets, Functions

CONSTANTS
    Rows,          \* ids of the rows whose partition_key lies in the pod's range
    Leases,        \* lease ids
    NoLease,       \* the lease id of a reply without messages
    Handlers,      \* HTTP handler goroutines of the pod
    Nobody,        \* a reply channel whose handler has given up
    BatchSize,     \* READER_POLL_BATCH
    ChanCap,       \* capacity of leaseCh and of ackCh
    Maxes,         \* values of "max" in a lease request
    LeaseSecs,     \* values of "lease_seconds"
    ShutdownSecs,  \* deadline of srv.Shutdown
    DrainSecs      \* deadline of Drain

ASSUME RowsAssumption    == Rows \subseteq Nat
ASSUME NamesAssumption   == NoLease \notin Leases /\ Nobody \notin Handlers
ASSUME BoundsAssumption  == BatchSize \in Nat /\ ChanCap \in Nat \ {0}
ASSUME RequestAssumption == Maxes \subseteq Nat \ {0} /\ LeaseSecs \subseteq Nat \ {0}
ASSUME TimerAssumption   == ShutdownSecs \in Nat /\ DrainSecs \in Nat

VARIABLES
    db,        \* rows of the range in queue_messages
    born,      \* rows ever inserted (ids are never reused)
    buffer,    \* ready rows, in serving order
    served,    \* lease id -> the batch handed out under it
    doneIDs,   \* acked rows whose deletion is pending
    draining,  \* Drain has been received
    owner,     \* the goroutine: "starting", "running" or "returned"
    leaseCh,   \* queued lease commands
    ackCh,     \* queued ack commands
    call,      \* handler -> where its Lease() or Ack() call stands
    told,      \* client side: lease id -> rows received under it
    acked,     \* history: rows for which some client has sent an ack
    life,      \* the process: "up", "shutdown", "drain" or "down"
    timer      \* seconds spent in Shutdown or in Drain

dbVars     == <<db, born>>
bufVars    == <<buffer, served, doneIDs>>
ownerVars  == <<draining, owner>>
chanVars   == <<leaseCh, ackCh>>
clientVars == <<told, acked>>
mainVars   == <<life, timer>>
vars == <<dbVars, bufVars, ownerVars, chanVars, call, clientVars, mainVars>>

-----------------------------------------------------------------------------
(* Data. *)

NoBatch == [ids |-> {}, age |-> 0, timeout |-> 0]
Idle    == [stage |-> "idle", lease |-> NoLease, ids |-> {}]

LeaseCmds == [to : Handlers \cup {Nobody}, max : Maxes, secs : LeaseSecs]
AckCmds   == [to : Handlers \cup {Nobody}, lease : Leases]
Stages    == {"idle", "leasing", "acking", "waiting", "leased", "acked"}
Calls     == {c \in [stage : Stages, lease : Leases \cup {NoLease}, ids : SUBSET Rows] :
                c.stage = "acking" => c.lease # NoLease}
Batches   == [ids : SUBSET Rows, age : Nat, timeout : Nat]

Outstanding == {l \in Leases : served[l].ids # {}}
ServedIds   == UNION {served[l].ids : l \in Leases}

TypeOK ==
    /\ db \subseteq born /\ born \subseteq Rows /\ acked \subseteq Rows
    /\ buffer \in Seq(Rows)
    /\ served \in [Leases -> Batches]
    /\ doneIDs \subseteq Rows
    /\ draining \in BOOLEAN
    /\ owner \in {"starting", "running", "returned"}
    /\ leaseCh \in Seq(LeaseCmds) /\ Len(leaseCh) <= ChanCap
    /\ ackCh \in Seq(AckCmds) /\ Len(ackCh) <= ChanCap
    /\ call \in [Handlers -> Calls]
    /\ told \in [Leases -> SUBSET Rows]
    /\ life \in {"up", "shutdown", "drain", "down"}
    /\ timer \in Nat

\* ORDER BY id LIMIT n
Oldest(S, n) == {r \in S : Cardinality({q \in S : q < r}) < n}

\* the results a FetchBatch can have, before the skip
Ascending == {s \in UNION {[1 .. n -> Rows] : n \in 0 .. BatchSize} :
                \A i, j \in DOMAIN s : i < j => s[i] < s[j]}

\* mutant: deletes everything up to the newest acked id
DeletedUpToNewest(done) == {{r \in db : \A q \in done : q < r}, db}

\* What DeleteByIDs may leave in the table: an error is reported whether or
\* not the statement took effect, and every caller ignores it.
Deleted(done) == {db \ done, db}

\* What refill appends to the buffer when the table holds rows: the batch
\* without the rows now leased, or nothing when the query fails.
Fetched(rows) == {b \in Ascending : \/ b = <<>>
                                    \/ Range(b) = Oldest(rows, BatchSize) \ ServedIds}

Reply(to, r) == call' = [h \in Handlers |-> IF h = to THEN r ELSE call[h]]

Init ==
    /\ db = {} /\ born = {}
    /\ buffer = <<>> /\ served = [l \in Leases |-> NoBatch] /\ doneIDs = {}
    /\ draining = FALSE /\ owner = "starting"
    /\ leaseCh = <<>> /\ ackCh = <<>>
    /\ call = [h \in Handlers |-> Idle]
    /\ told = [l \in Leases |-> {}] /\ acked = {}
    /\ life = "up" /\ timer = 0

-----------------------------------------------------------------------------
(* The writer (external to the pod): a transaction inserts a row.  Ids come  *)
(* from a sequence before the commit, so rows may appear out of id order.    *)

Insert(r) ==
    /\ r \notin born
    /\ db' = db \cup {r} /\ born' = born \cup {r}
    /\ UNCHANGED <<bufVars, ownerVars, chanVars, call, clientVars, mainVars>>

-----------------------------------------------------------------------------
(* Clients and handler goroutines. *)

\* POST /v1/lease reaches the handler, which calls Partition.Lease.
LeaseArrives(h) ==
    /\ life = "up" /\ call[h] = Idle
    /\ call' = [call EXCEPT ![h].stage = "leasing"]
    /\ UNCHANGED <<dbVars, bufVars, ownerVars, chanVars, clientVars, mainVars>>

\* POST /v1/ack for a lease the client was given, whatever became of it since.
AckArrives(h, l) ==
    /\ life = "up" /\ call[h] = Idle /\ told[l] # {}
    /\ call' = [call EXCEPT ![h] = [stage |-> "acking", lease |-> l, ids |-> {}]]
    /\ acked' = acked \cup told[l]
    /\ UNCHANGED <<dbVars, bufVars, ownerVars, chanVars, told, mainVars>>

\* mutant: queues the command whether or not the channel has room
SendLeaseUnbounded(h) ==
    /\ call[h].stage = "leasing"
    /\ \E max \in Maxes, secs \in LeaseSecs :
         leaseCh' = Append(leaseCh, [to |-> h, max |-> max, secs |-> secs])
    /\ call' = [call EXCEPT ![h].stage = "waiting"]
    /\ UNCHANGED <<dbVars, bufVars, ownerVars, ackCh, clientVars, mainVars>>

\* The first select of Lease: the command fits in the channel.
SendLease(h) ==
    /\ call[h].stage = "leasing" /\ Len(leaseCh) < ChanCap
    /\ \E max \in Maxes, secs \in LeaseSecs :
         leaseCh' = Append(leaseCh, [to |-> h, max |-> max, secs |-> secs])
    /\ call' = [call EXCEPT ![h].stage = "waiting"]
    /\ UNCHANGED <<dbVars, bufVars, ownerVars, ackCh, clientVars, mainVars>>

\* The first select of Ack.
SendAck(h) ==
    /\ call[h].stage = "acking" /\ Len(ackCh) < ChanCap
    /\ ackCh' = Append(ackCh, [to |-> h, lease |-> call[h].lease])
    /\ call' = [call EXCEPT ![h] = [Idle EXCEPT !.stage = "waiting"]]
    /\ UNCHANGED <<dbVars, bufVars, ownerVars, leaseCh, clientVars, mainVars>>

\* The second select returns the reply and the response reaches the client,
\* which keeps what it leased and forgets what it acked.
Deliver(h) ==
    /\ call[h].stage \in {"leased", "acked"}
    /\ told' = [l \in Leases |-> IF l # call[h].lease THEN told[l]
                                 ELSE IF call[h].stage = "leased" THEN call[h].ids ELSE {}]
    /\ call' = [call EXCEPT ![h] = Idle]
    /\ UNCHANGED <<dbVars, bufVars, ownerVars, chanVars, acked, mainVars>>

\* The request's context ends (client gone, middleware timeout) in either
\* select, or the response is lost; a queued command stays queued.
Abandon(h) ==
    /\ call[h] # Idle
    /\ call' = [call EXCEPT ![h] = Idle]
    /\ leaseCh' = [i \in DOMAIN leaseCh |->
                     IF leaseCh[i].to = h THEN [leaseCh[i] EXCEPT !.to = Nobody] ELSE leaseCh[i]]
    /\ ackCh' = [i \in DOMAIN ackCh |->
                     IF ackCh[i].to = h THEN [ackCh[i] EXCEPT !.to = Nobody] ELSE ackCh[i]]
    /\ UNCHANGED <<dbVars, bufVars, ownerVars, clientVars, mainVars>>

\* A client drops a lease without acking it: it failed to persist, or died.
Forget(l) ==
    /\ told[l] # {}
    /\ told' = [told EXCEPT ![l] = {}]
    /\ UNCHANGED <<dbVars, bufVars, ownerVars, chanVars, call, acked, mainVars>>

-----------------------------------------------------------------------------
(* The owner goroutine. *)

\* refill() before the loop; doneIDs is still empty.
InitialFill ==
    /\ owner = "starting"
    /\ owner' = "running"
    /\ \E b \in Fetched(db) : buffer' = buffer \o b
    /\ UNCHANGED <<dbVars, served, doneIDs, draining, chanVars, call, clientVars, mainVars>>

\* mutants: refills a buffer that still holds rows; or only once the pending
\* deletions have been made by the ack case
NeedsRefillNonempty == Outstanding = {}
NeedsRefillNoDone   == buffer = <<>> /\ Outstanding = {} /\ doneIDs = {}

NeedsRefill == buffer = <<>> /\ Outstanding = {}

\* mutant: an id that is only new among the leases of this process
FreshLeasesLocal == {l \in Leases : served[l].ids = {}}

\* uuid.New(): an id that no lease, client or pending ack carries
FreshLeases == {l \in Leases : /\ served[l].ids = {} /\ told[l] = {}
                               /\ \A h \in Handlers : call[h].lease # l
                               /\ \A i \in DOMAIN ackCh : ackCh[i].lease # l}

\* Pop up to cmd.max rows of buf and lease them.
HandOut(cmd, buf) ==
    LET n == IF cmd.max < Len(buf) THEN cmd.max ELSE Len(buf)
        ids == {buf[i] : i \in 1 .. n}
    IN  /\ buffer' = SubSeq(buf, n + 1, Len(buf))
        /\ IF n = 0
           THEN Reply(cmd.to, [Idle EXCEPT !.stage = "leased"]) /\ UNCHANGED served
           ELSE \E l \in FreshLeases :
                  /\ served' = [served EXCEPT ![l] =
                                  [ids |-> ids, age |-> 0, timeout |-> cmd.secs]]
                  /\ Reply(cmd.to, [stage |-> "leased", lease |-> l, ids |-> ids])

\* case cmd := <-p.leaseCh, before Drain
ServeLease ==
    /\ owner = "running" /\ ~draining /\ leaseCh # <<>>
    /\ leaseCh' = Tail(leaseCh)
    /\ \/ /\ NeedsRefill
          /\ \E d \in Deleted(doneIDs) : \E b \in Fetched(d) :
               /\ db' = d /\ doneIDs' = {}
               /\ HandOut(Head(leaseCh), buffer \o b)
       \/ /\ ~NeedsRefill
          /\ HandOut(Head(leaseCh), buffer)
          /\ UNCHANGED <<db, doneIDs>>
    /\ UNCHANGED <<born, ownerVars, ackCh, clientVars, mainVars>>

\* case cmd := <-p.leaseCh, after Drain
RefuseLease ==
    /\ owner = "running" /\ draining /\ leaseCh # <<>>
    /\ leaseCh' = Tail(leaseCh)
    /\ Reply(Head(leaseCh).to, [Idle EXCEPT !.stage = "leased"])
    /\ UNCHANGED <<dbVars, bufVars, ownerVars, ackCh, clientVars, mainVars>>

\* mutant: doneIDs is not reset
FlushKeepsIDs(done) == db' \in Deleted(done) /\ doneIDs' = done

\* DeleteByIDs on the whole pending set, which is cleared in every case
Flush(done) == db' \in Deleted(done) /\ doneIDs' = {}

\* what a draining owner does once nothing is outstanding: flushDone, return
Finish(done) == Flush(done) /\ owner' = "returned"

\* case cmd := <-p.ackCh
ProcessAck ==
    /\ owner = "running" /\ ackCh # <<>>
    /\ ackCh' = Tail(ackCh)
    /\ LET l    == Head(ackCh).lease
           ids  == served[l].ids
           done == doneIDs \cup ids
       IN /\ Reply(Head(ackCh).to, [stage |-> "acked", lease |-> l, ids |-> ids])
          /\ served' = [served EXCEPT ![l] = NoBatch]
          /\ \/ ids = {} /\ UNCHANGED <<db, doneIDs, owner>>
             \/ /\ ids # {} /\ draining /\ Outstanding = {l}
                /\ Finish(done)
             \/ /\ ids # {} /\ ~draining /\ buffer = <<>> /\ Outstanding = {l}
                /\ Flush(done) /\ UNCHANGED owner
             \/ /\ ids # {} /\ (Outstanding # {l} \/ (~draining /\ buffer # <<>>))
                /\ doneIDs' = done /\ UNCHANGED <<db, owner>>
    /\ UNCHANGED <<born, buffer, draining, leaseCh, clientVars, mainVars>>

\* mutant: does not wait for the outstanding leases
StartDrainingNoWait ==
    /\ owner = "running" /\ life = "drain" /\ ~draining
    /\ draining' = TRUE /\ buffer' = <<>>
    /\ Finish(doneIDs)
    /\ UNCHANGED <<born, served, chanVars, call, clientVars, mainVars>>

\* case done := <-p.drainCh
StartDraining ==
    /\ owner = "running" /\ life = "drain" /\ ~draining
    /\ draining' = TRUE /\ buffer' = <<>>
    /\ IF Outstanding = {} THEN Finish(doneIDs) ELSE UNCHANGED <<db, doneIDs, owner>>
    /\ UNCHANGED <<born, served, chanVars, call, clientVars, mainVars>>

\* mutants: the lease ends at its timeout, not after it; only a drain expires leases
ExpiredAtTimeout == {l \in Outstanding : served[l].age >= served[l].timeout}
ExpiredInDrain   == {l \in Outstanding : draining /\ served[l].age > served[l].timeout}

Expired == {l \in Outstanding : served[l].age > served[l].timeout}

\* mutant: the rows of an expired lease are queued for deletion
ExpireTickSettles ==
    /\ owner = "running"
    /\ served' = [l \in Leases |-> IF l \in Expired THEN NoBatch ELSE served[l]]
    /\ doneIDs' = doneIDs \cup UNION {served[l].ids : l \in Expired}
    /\ UNCHANGED <<dbVars, buffer, ownerVars, chanVars, call, clientVars, mainVars>>

\* case <-expireTicker.C
ExpireTick ==
    /\ owner = "running"
    /\ served' = [l \in Leases |-> IF l \in Expired THEN NoBatch ELSE served[l]]
    /\ IF draining /\ Outstanding = Expired
       THEN Finish(doneIDs) ELSE UNCHANGED <<db, doneIDs, owner>>
    /\ UNCHANGED <<born, buffer, draining, chanVars, call, clientVars, mainVars>>

-----------------------------------------------------------------------------
(* The main goroutine, the process and time. *)

\* SIGTERM or a listener error: srv.Shutdown refuses new requests.
BeginShutdown ==
    /\ life = "up"
    /\ life' = "shutdown" /\ timer' = 0
    /\ UNCHANGED <<dbVars, bufVars, ownerVars, chanVars, call, clientVars>>

\* mutant: Shutdown has no deadline
BeginDrainNoDeadline ==
    /\ life = "shutdown"
    /\ \A h \in Handlers : call[h] = Idle
    /\ life' = "drain" /\ timer' = 0
    /\ UNCHANGED <<dbVars, bufVars, ownerVars, chanVars, call, clientVars>>

\* Shutdown returns, all handlers done or its deadline over; Drain is called.
BeginDrain ==
    /\ life = "shutdown"
    /\ timer >= ShutdownSecs \/ \A h \in Handlers : call[h] = Idle
    /\ life' = "drain" /\ timer' = 0
    /\ UNCHANGED <<dbVars, bufVars, ownerVars, chanVars, call, clientVars>>

\* The process ends: only the table and the clients' memory survive.
Halt ==
    /\ life' = "down" /\ timer' = 0
    /\ buffer' = <<>> /\ served' = [l \in Leases |-> NoBatch] /\ doneIDs' = {}
    /\ draining' = FALSE /\ owner' = "returned"
    /\ leaseCh' = <<>> /\ ackCh' = <<>>
    /\ call' = [h \in Handlers |-> Idle]
    /\ UNCHANGED <<dbVars, clientVars>>

\* Drain returns, done or out of time; cancel() and the end of main.
Exit == life = "drain" /\ (owner = "returned" \/ timer >= DrainSecs) /\ Halt

\* The process is killed.
Crash == life # "down" /\ Halt

\* Kubernetes starts the pod again.
Restart ==
    /\ life = "down"
    /\ life' = "up" /\ owner' = "starting"
    /\ UNCHANGED <<dbVars, bufVars, draining, chanVars, call, clientVars, timer>>

\* One second passes.  Ages stop one past the timeout and the timer at its
\* longest deadline: nothing distinguishes the values beyond.
Tick ==
    /\ served' = [l \in Leases |->
                    IF l \in Outstanding /\ served[l].age <= served[l].timeout
                    THEN [served[l] EXCEPT !.age = @ + 1] ELSE served[l]]
    /\ timer' = IF life \in {"shutdown", "drain"} /\ (timer < ShutdownSecs \/ timer < DrainSecs)
                THEN timer + 1 ELSE timer
    /\ UNCHANGED <<dbVars, buffer, doneIDs, ownerVars, chanVars, call, clientVars, life>>

OwnerStep == InitialFill \/ ServeLease \/ RefuseLease \/ ProcessAck \/ StartDraining \/ ExpireTick
HandlerStep(h) == \/ LeaseArrives(h) \/ SendLease(h) \/ SendAck(h) \/ Deliver(h) \/ Abandon(h)
                  \/ \E l \in Leases : AckArrives(h, l)
MainStep == BeginShutdown \/ BeginDrain \/ Exit \/ Crash \/ Restart

Next ==
    \/ OwnerStep
    \/ MainStep
    \/ Tick
    \/ \E h \in Handlers : HandlerStep(h)
    \/ \E l \in Leases : Forget(l)
    \/ \E r \in Rows : Insert(r)

Spec == Init /\ [][Next]_vars

-----------------------------------------------------------------------------
(* Safety. *)

\* A row is in one place of the goroutine's memory at most, and there once:
\* nothing is leased to two clients at a time, and nothing acked is leased
\* again while its deletion is pending (refill's gate and its flush before
\* the fetch, partition.go:197-233 and 275).
Exclusive ==
    /\ IsInjective(buffer)
    /\ Range(buffer) \cap (ServedIds \cup doneIDs) = {}
    /\ ServedIds \cap doneIDs = {}
    /\ \A l, m \in Leases : l # m => served[l].ids \cap served[m].ids = {}

\* A row leaves the table only if a client that received it has sent an ack
\* for it, through expiry, lost replies, drains, crashes and restarts.
OnlyAckedDeleted == born \ db \subseteq acked

\* The pod never holds, leases or queues for deletion a row that is gone.
HeldRowsExist == Range(buffer) \cup ServedIds \cup doneIDs \subseteq db

\* While a lease stands, the client and the goroutine mean the same rows by
\* it, so that an ack settles what the client received and nothing else.
LeaseAgreement ==
    \A l \in Leases : told[l] # {} /\ served[l].ids # {} => told[l] = served[l].ids

\* When Drain reports completion no lease stands, no deletion is pending and
\* nothing is left to serve (flushDone's callers, partition.go:350, 368, 385).
DrainedIsSettled ==
    life = "drain" /\ owner = "returned" =>
        Outstanding = {} /\ doneIDs = {} /\ buffer = <<>>

\* A lease ends by an ack that names it, by its timeout, or with the process:
\* no other lease, refill or drain takes rows from a client that holds them.
LeaseHonoured ==
    [][\A l \in Outstanding :
         served'[l].ids # served[l].ids =>
            \/ ackCh # <<>> /\ Head(ackCh).lease = l /\ ackCh' = Tail(ackCh)
            \/ served[l].age > served[l].timeout
            \/ life' = "down"]_vars

\* README, "Graceful drain", step 4: the shutdown "batch-deletes all completed
\* (acked) message IDs from the DB".
ShutdownFlushesAcked == [][Exit => doneIDs = {}]_vars

\* The pod as a queue with visibility timeouts: every step of it, failures
\* included, is a step of VisibilityQueue or changes nothing there.
Pods  == {"this"}
Queue == INSTANCE VisibilityQueue
           WITH queue <- db, loaded <- [p \in Pods |-> Range(buffer)],
                leased <- [p \in Pods |-> [l \in Leases |-> served[l].ids]],
                settled <- [p \in Pods |-> doneIDs]
ImplementsQueue == Queue!Spec

-----------------------------------------------------------------------------
(* The inductive invariant behind the safety properties.                     *)

\* Exclusive and HeldRowsExist, lease by lease
Apart ==
    /\ IsInjective(buffer)
    /\ Range(buffer) \subseteq db /\ doneIDs \subseteq db /\ Range(buffer) \cap doneIDs = {}
    /\ \A l \in Leases :
         /\ served[l].ids \subseteq db
         /\ served[l].ids \cap doneIDs = {} /\ served[l].ids \cap Range(buffer) = {}
         /\ \A m \in Leases : l # m => served[l].ids \cap served[m].ids = {}

\* Whoever can name a standing lease got its rows from it, and an ack that is
\* on its way was counted when it was sent.
AckKnowledge ==
    \A l \in Leases : served[l].ids # {} =>
        /\ told[l] # {} => told[l] = served[l].ids
        /\ \A h \in Handlers : call[h].lease = l =>
             /\ call[h].stage = "leased" => call[h].ids = served[l].ids
             /\ call[h].stage = "acking" => served[l].ids \subseteq acked
        /\ \A i \in DOMAIN ackCh : ackCh[i].lease = l => served[l].ids \subseteq acked

AckedOnly == doneIDs \subseteq acked /\ born \ db \subseteq acked

NothingHeld == buffer = <<>> /\ doneIDs = {} /\ \A l \in Leases : served[l].ids = {}

\* How the process, the goroutine and its memory go together.
Phases ==
    /\ draining => life = "drain" /\ owner # "starting" /\ buffer = <<>>
    /\ owner # "running" => NothingHeld
    /\ owner = "returned" => life \in {"drain", "down"}
    /\ life = "down" => owner = "returned"

IInv == TypeOK /\ Apart /\ AckKnowledge /\ AckedOnly /\ Phases

-----------------------------------------------------------------------------
(* Liveness.  The goroutine, the main goroutine and the clock do not stop;   *)
(* select is uniform over its ready cases, so none is passed over for ever;  *)
(* the table answers now and then; clients keep polling and, by their own    *)
(* request deadlines, do not keep a lease in mind for ever.  Nothing is      *)
(* assumed of acks, of replies arriving or of crashes.                       *)

Fairness ==
    /\ WF_vars(InitialFill \/ ProcessAck) /\ SF_vars(ServeLease /\ served' # served)
    /\ WF_vars(ExpireTick) /\ WF_vars(Tick)
    /\ WF_vars(BeginDrain \/ Exit)
    /\ \A h \in Handlers : /\ SF_vars(LeaseArrives(h)) /\ SF_vars(SendLease(h))
                           /\ WF_vars(SendAck(h) \/ Deliver(h))
    /\ \A l \in Leases : WF_vars(Forget(l))

LiveSpec == Spec /\ Fairness

\* A row is handed out again and again as long as it is among the BatchSize
\* oldest (queryFetchBatch), whatever leases are lost on the way: they expire
\* and the refill they block takes place.  Only a full batch of older rows that
\* nobody ever acks can keep a row from its clients.
InBatch(r) == r \in db /\ Cardinality({q \in db : q < r}) < BatchSize
EveryRowServed ==
    \A r \in Rows : <>[](InBatch(r) /\ life = "up") => []<>(r \in ServedIds)

\* A pending deletion does not wait for ever behind the batch it belongs to.
PendingDeletesFlushed == \A r \in Rows : r \in doneIDs ~> r \notin doneIDs

\* A shutdown ends, with leases nobody acks and requests nobody answers.
ShutdownEnds == life = "shutdown" ~> life = "down"

=============================================================================
