# TLA+ models of the telemetry pipeline

Specifications, model-checking configurations and machine-checked proofs for the Go services of this repository. The
code under `src/` is the reference; file and line numbers below are relative to it. `PROJECT.json` maps every
definition to the lines it stands for and lists runs, mutants, findings, hazards and theorems.

    tlasany Partition.tla                                 # parse
    tlc -workers 2 -config MCPartition.cfg MCPartition.tla # model-check (MC<X>.cfg with the MC module of the same system)
    tlapm PartitionProofs.tla                             # check the proofs

## 1. The system

    producer/streamer --publish--> mqwriter --INSERT--> queue_messages <--poll/DELETE-- mqreader pods
                                                                                          ^  |
                                     telemetry <--INSERT-- collector ---lease / ack-------+  |
                                                                   <--------messages---------+
    partition-controller --ConfigMap, restart--> mqreader pods            apigw --SELECT--> telemetry

| component | state | operations | hard behaviour | correct means |
|---|---|---|---|---|
| **mqreader partition** `internal/mqreader/partition.go`, `store.go` | buffer, served leases, doneIDs, draining; rows of its range | refill, lease, ack, drain, expiry tick: the `select` of one goroutine | handlers that give up while their command is queued; deletion batched behind the ack and allowed to fail; expiry against late acks; kill with everything in memory | one lease per row; only acked rows deleted; every row served in the end; drains end |
| **mqreader service** `handler.go`, `cmd/mqreader/main.go` | HTTP calls, shutdown stages, the loaded range | lease and ack handlers, SIGTERM -> Shutdown -> Drain -> exit, `loadPartitionRange` | three deadlines that overlap; fallback to the whole range | shutdown ends; the range belongs to the pod |
| **mqwriter** `internal/mqwriter`, `cmd/mqwriter` | `inCh`, pending batch, reply channels, timer | Publish/Submit, flush by size, timer or Close, three attempts per topic | commits whose answer is lost; handlers that give up; Close while handlers still send | 200 means stored; a batch is stored whole or not at all; everybody is answered; counts add up |
| **collector** `internal/collector`, `cmd/collector` | one cycle: lease, batch | lease, parse, persist, ack | lost replies, ambiguous commits, late, repeated and misdirected acks, partly malformed batches, two collectors with the same rows | nothing leaves the queue unpersisted; everything well-formed is persisted |
| **partition-controller** `cmd/partition-controller` | `lastReplicas`, the lock | reconcile (Get, Update, Patch), leader election | failures and failovers between the calls; requests that outlive their leader; scaling during a rollout; upgrades that write the chart's map; pods that start from an older map | one pod for each key in the end |
| **streamer** `internal/streamer`, `cmd/streamer` | rows in memory, the CSV file and its temporary name, `msgCh` | reader: stamp, rewrite the CSV, send; sender: publish | a crash or an error at any step of a rewrite; replicas with one volume; a full channel; shutdown with rows in the channel | the file is whole and current; every reading is published or given up, in order; `Run` returns |
| **httpx** `internal/httpx` | none | `Do`: attempts with backoff | an attempt that failed may have taken effect; a body that was read can be sent again on a kept-alive connection only; a context that ends meanwhile | bounded attempts, hence bounded copies |
| **apigw**, **db**, **config**, **models** | none | SQL queries, pool, migrations, environment | none | - |

They interact by HTTP (streamer to mqwriter, collector to mqreader), through two tables (mqwriter, mqreader and
collector never talk about a row otherwise), and through the Kubernetes API (controller to pods). Inside mqreader and
mqwriter one goroutine owns the state and handlers reach it through channels; there are no locks.

## 2. The modules

| module | models | uses |
|---|---|---|
| `Partition` | one mqreader pod: owner goroutine, handlers, main, table rows, clients | - |
| `VisibilityQueue` | the abstract queue, one table and any number of pods: Enqueue, Load, Serve, Ack, Release | - |
| `Collector` | collectors, pods behind one address and the telemetry table | the actions of `VisibilityQueue` by INSTANCE |
| `Delivery` | the abstract path of a message from queue to telemetry: Publish, Persist, Remove | - |
| `WriteBuffer` | mqwriter: handlers, flusher, main, table | - |
| `Publishing` | what a producer is promised: Ask, Insert, Confirm, Refuse | - |
| `PartitionRanges` | what `computePartitionsYAML` and `loadPartitionRange` compute | - |
| `PartitionController` | the controllers, the Kubernetes objects, the pods' ranges | extends `PartitionRanges` |
| `Reporting` | the abstract way of a reading: Send, Store, Drop, Lose | - |
| `CSVFile` | the directory that holds the CSV: what `WriteCSV` does to it, step by step | - |
| `Streamer` | reader, channel, sender with `Client.Do`, process | extends `CSVFile` |
| `PartitionProofs`, `CollectorProofs`, `WriteBufferProofs`, `StreamerProofs`, `PartitionRangesProofs`, `PartitionControllerProofs` | theorems | extend the module of that name |
| `WriteBufferCountsProofs` | types, batches and counts of `WriteBuffer`, and its refinement | extends `WriteBufferProofs`, `FiniteSums` |
| `FiniteSums` | lemmas about sums over finite sets | - |
| `MC*` | instances for TLC | |

**Partition.** `db`, `buffer`, `served`, `doneIDs`, `draining`, `leaseCh`, `ackCh` are the variables of `Run` and of
the table; `owner` says where the goroutine is, `call[h]` where handler `h` is in `Partition.Lease` or `Ack`, `told`
what a client has received under a lease, `life` and `timer` the stage of `main`. Each `case` of the select is one
action (`ServeLease`, `RefuseLease`, `ProcessAck`, `StartDraining`, `ExpireTick`) with its database calls, because the
goroutine does nothing else meanwhile; the first fill is `InitialFill`. `Flush` and `Fetched` have the failures: a
delete reports an error whether or not it took effect and its callers ignore it, a fetch that fails appends nothing.
`Abandon` is a request context that ends, before or after the command was queued (the command stays queued, its reply
goes nowhere); `Insert` is the writer committing rows in any order of ids; `Forget` is a client that loses interest in
a lease. `acked` and `born` are history variables, for the properties only. Lease ids are drawn from a pool and reused
once nobody can name them, which stands for fresh uuids.

**VisibilityQueue** is the promise: a pod leases a row to one client at a time, an ack settles the rows of its lease,
settled rows are removed lazily or become available again, nothing else is removed. It has one table and any number of
pods, and leaves open which rows a pod loads: while a change of the replica count rolls out the ranges of two pods
overlap, and one may hold rows that the other has removed. `Partition` implements it for one pod, with `queue <- db`,
`loaded <- rows in buffer`, `leased <- ids of served`, `settled <- doneIDs`.

**Collector.** One action per step of `processOnce`, with its error returns (`SkipBatch`, `PersistFails`, `Stop`),
over the pods as `VisibilityQueue` describes them. A lease comes from any pod (`Lease` includes the fill that the pod
makes when it starts). `acks` holds the ack requests under way: they reach whichever pod the service picks, whenever
they like, never, or several times, as httpx repeats a request whose answer it did not get; a pod that does not know
the lease answers and changes nothing. `telemetry` is a set because of the unique index on `msg_uuid`. `Delivery` is
what all this promises of a message, with `queue`, `born` and `telemetry` as they are: it leaves the queue only when
it has been persisted or cannot be parsed, and only what was published is persisted.

**WriteBuffer.** `handler[r]` is the goroutine of publish request `r`, `reply[r]` its result channel of capacity one,
`inCh`, `pending`, `timer` those of `WriteBuffer`; `todo` and `attempts` are the place in `doFlush` and
`flushWithRetry`. An attempt is one transaction per topic: it commits, fails, or commits and reports an error. A
result is sent only into an empty channel, as Go would block otherwise. The table is a set of requests: the messages
of one get fresh uuids and are inserted by one transaction. `ReaderTakes` is an mqreader that deletes acked messages
of a batch whose commit took effect and was not reported: the uuids are gone with the rows, so the next attempt
inserts these messages again and finds the others. `taken[r]` counts them, until the batch is inserted or given up.
`Shared` is `distributeResults` with its integer divisions, for any totals. The panic of a send on the closed channel
is `SendPanics` (Recoverer answers 500). `Publishing` is what a producer sees of this: it asks, its messages are
inserted together with those of others, it is told so, or it is refused, and then they may be there all the same.

**PartitionRanges / PartitionController.** A map is represented by the replica count it was computed for. `reconcile`
is `ReadReplicas`, `WriteMap`, `PatchTemplate`, with `CallFails` for a call that fails whether or not it took effect,
and `Lose` between any two. What a leader had sent when it lost the lock stays in `late` and may arrive at any time
(`LateArrives`). `SetMap` is the fence that the Kubernetes API provides: an Update carries the resourceVersion of the
Get before it and is refused once another map has been written; an Update that writes the same text does not change
the version and fences nothing; a Patch is never refused. Scaling, the start, stop and restart of pods and `Upgrade`
(helm writes the chart's map for its own replica count) are external actions written from what the charts ask for
(`podManagementPolicy: Parallel`, rolling update from the highest ordinal down). Simplifications: a pod that starts
sees the current ConfigMap; what is deleted is deleted at once.

**CSVFile / Streamer.** A file is a function from its lines to the time stamps on them (`content`), the two names
`path` and `path.tmp` are the variables `csv` and `tmp`, and `fd[p]` is what process `p` writes. Creating the
temporary file truncates whatever has that name. `WriteCSV` is `CreateTmp`, one `WriteLine` per row and `RenameTmp`;
`DiskFails` is any of its error returns, after which `readLoop` goes on in memory only; `Exit` may fall between any
two. The writer buffers its lines, so that they reach the file later than `WriteLine` says but in this order and
before the rename. `Stamp`, `Send` and `ReaderReturns` are `readLoop`; a reading is a row with its stamp, numbered by
time. `Take`, `Published`, `Refused`, `Failed`, `Retry` and `GiveUp` are the sender and the loop of `Client.Do`; an
attempt that failed may have stored its message (`MayStore`). After `cancel()` a reading that is taken from the
channel is dropped at once. `main` does not wait for `Run`, so `Exit` may come at any time and what was under way is
lost. `fate` and `copies` are history variables; a message that a timed-out request still leaves, however late, is
counted in `copies` when its attempt ends or the process does. `Reporting` states over the two what becomes of a
reading: it is sent once, taken for published only with a message stored, and not tried again once it has an end. One
process stands for the chart as it is, with the CSV in each pod; several stand for replicas that mount one volume.

## 3. The runs

| run | configuration | shows | bounds |
|---|---|---|---|
| `partition` | `MCPartition.cfg` | `TypeOK`, `Exclusive`, `OnlyAckedDeleted`, `HeldRowsExist`, `LeaseAgreement`, `DrainedIsSettled`, `LeaseHonoured`, `ImplementsQueue` | 2 rows, 2 leases, 2 handlers, batches of 2, channels of 1 |
| `partition_live` | `MCPartitionLive.cfg` | `ImplementsQueue`, `EveryRowServed`, `PendingDeletesFlushed`, `ShutdownEnds` | 3 rows, batches of 2, 1 lease, 1 handler, leases of 1 row |
| `collector` | `MCCollector.cfg` | `TypeOK`, `NothingLost`, `ImplementsDelivery`, `EveryMessagePersisted` | 2 rows, one malformed, 2 leases, 2 collectors, 2 pods, 1 lost reply |
| `write_buffer` | `MCWriteBuffer.cfg` | `TypeOK`, `OkIsStored`, `WholeBatch`, `NobodyForgotten`, `CountsAddUp`, `OwnCounts`, `ImplementsPublishing`, `EveryRequestAnswered`, `ShutdownEnds` | 3 requests of sizes 1, 2, 1 and 2 topics, channel of 1, flush at 3 messages, 2 attempts |
| `partition_controller` | `MCPartitionController.cfg` | `TypeOK`, `HandledIsRolledOut`, `SettledIsPartitioned`, `RedistributedOrReverted` | 4 keys, up to 3 pods, 2 controllers, 3 events |
| `streamer` | `MCStreamer.cfg` | `TypeOK`, `FileIsWhole`, `FileReflectsRows`, `Accounted`, `CopiesBounded`, `ImplementsReporting`, `NeverStuck`, `EveryReadingConcluded`, `RunReturns` | 1 process, 2 rows, 2 files, channel of 1, 1 retry (`cmd/streamer/main.go:34`), 3 readings |
| `partition_drain`, `collector_partial`, `write_buffer_retry`, `controller_revert`, `controller_stamp`, `streamer_shared_csv` | as named (`MCWriteBufferRetry.cfg`; the last `MCStreamerShared.cfg`: 2 processes, 4 files, 2 readings) | violations, see section 6 | |

The bounds keep what makes the cases interesting. A handler, lease or row more than two that conflict adds only
further copies: with two leases one is handed out while the other, expired one can still be named by a late ack.
Channels of one are full as soon as a handler is slow. Rows beyond the batch matter only to a refill
(`partition_live`, whose three rows also give `ImplementsQueue` a batch that does not cover the table). The requests
of one topic have different sizes, so that the division of the counts has a remainder; two attempts are the first that
the commit of another may precede. Four keys and three pods give a remainder, and counts from 0 up. The three events
in `partition_controller` are any three of scalings, upgrades, failed calls and failovers (with or without a request
that stays under way); they suffice for a change of the count that is undone in between, after which the ranges are
not redistributed: `RedistributedOrReverted` says that nothing else has this effect, and the run `controller_revert`
that this one has. `CoarseStamp` is FALSE in it: two patches within the same second are told apart, as if they never
shared one; with the resolution the code has (`CoarseStamp` TRUE, run `controller_stamp`) the property fails. Three
readings of two rows make the reader come round to the first row, and fill the channel while the sender retries; two
files are the one under the path and the one that is written. Symmetry is used on leases and handlers in safety runs
only. Deadlock is checked, but for the controller, which rests when nothing happens to it, and the streamer, whose
readings are bounded.

**Fairness.** `Partition`: goroutines run, `select` chooses uniformly among ready cases (strong fairness where a case
can be overtaken, namely a lease being served while acks and ticks are ready), the clock ticks, clients poll and
forget leases when their own deadlines pass, and the fetch succeeds now and then. Nothing is assumed of acks, of
replies arriving, or of crashes. `EveryRowServed` speaks of rows that stay in the batch, among the `BatchSize` oldest
of the table, while the pod stays up: rows beyond it wait for the older ones to go. `Collector`: some pod serves each
row again and again (what `EveryRowServed` says), leases end, an ack is not repeated for ever, at most `MaxLost`
replies to leases are lost, and a row that is leased for ever is persisted once: neither database failures nor stops
hit the same row for ever. `WriteBuffer`: the flusher runs, attempts end after their ten seconds, blocked senders are
served in turn (Go queues them), Shutdown returns. No request has to give up for the others to be answered. Each
request is made once, so that "every request is answered" is said as: in the end nobody waits. `PartitionController`:
the leader works on (informers resync every 30 seconds), a free lock is taken, the StatefulSet controller does its
work; a late request may never arrive. `Streamer`: the two goroutines run, and an attempt ends with its 10 seconds at
the latest; nothing is assumed of the disk, of the writer's answers or of the process.

Every property of a passing run has a mutant in `PROJECT.json`: a plausible slip in one definition, kept in the module
as an operator marked `mutant`, under which the run finds the property violated.

## 4. What is proved

| theorem | statement | argument |
|---|---|---|
| `PartitionProofs!TypeCorrect` | `Spec => []TypeOK` | one step per action; helper lemmas for what a fetch and a pop of the buffer return |
| `PartitionProofs!Invariance` and `ExclusiveDelivery`, `NoLoss`, `NoGhosts`, `LeasesAgree`, `DrainSettles` | `[]IInv` and the five safety invariants of run `partition` | `IInv` |
| `PartitionProofs!LeasesHonoured` | the action property `LeaseHonoured` | each action that changes `served`, under `IInv` |
| `PartitionProofs!Refinement` | `Spec => ImplementsQueue`, for one pod | initial states map to initial states, each step to a step or stutter, under `IInv` |
| `CollectorProofs!TypeCorrect` | `Spec => []TypeOK` | one step per action |
| `CollectorProofs!NothingIsLost` | `Spec => []NothingLost`, for any number of pods | `AckedRows` |
| `CollectorProofs!Refinement` | `Spec => ImplementsDelivery` | each step is one of `Delivery` or a stutter, under `IInv` and `HeldIsBorn` |
| `WriteBufferProofs!AnsweredIsStored` | `Spec => []OkIsStored` | the same of the results on their way |
| `WriteBufferProofs!NobodyIsForgotten` | `Spec => []NobodyForgotten` | `BufferInv` |
| `WriteBufferCountsProofs!TypeCorrect`, `BatchesEnterWhole` | `[]TypeOK`, `[]WholeBatch` | `BatchInv` |
| `WriteBufferCountsProofs!CountsOfABatch`, `CountsOfARequest` | the action properties `CountsAddUp`, `OwnCounts` | `BatchInv`, and what the shares of a total are |
| `WriteBufferCountsProofs!Refinement` | `Spec => ImplementsPublishing` | `BatchInv` and the invariant of `OkIsStored` |
| `StreamerProofs!TypeCorrect`, `NothingUnaccounted`, `CopiesAreBounded` | `[]TypeOK`, `[]Accounted`, `[]CopiesBounded`, for any number of processes | `IInv` |
| `StreamerProofs!Refinement` | `Spec => ImplementsReporting`, for any number of processes, with one volume or several | `IInv`: what is tried was sent, and has an attempt left |
| `StreamerProofs!FileStaysWhole`, `FileIsCurrent` | `[]FileIsWhole`, `[]FileReflectsRows`, assuming `OnePerVolume` | `FileInv` |
| `PartitionControllerProofs!TypeCorrect` | `Spec => []TypeOK` | one step per action |
| `PartitionControllerProofs!RolledOut` | `Spec /\ [][PatchesApart]_vars => []HandledIsRolledOut` | `RollOutInv` |
| `PartitionControllerProofs!PartitionedWhenSettled` | `Spec /\ [][PatchesApart]_vars => []SettledIsPartitioned` | `RolledOut` and the theorems about the ranges |
| `PartitionRangesProofs!NoKeyLost`, `NoKeyShared` | every key in exactly one range, for every number of partitions and pods | arithmetic of the quotient |

The assumptions are the named ASSUMEs of the modules: ids are numbers, special values differ from ordinary ones,
capacities and limits are positive. None bounds the number of rows, leases, handlers, collectors, requests, pods or
processes. `OnePerVolume`, that no two processes share the CSV, is assumed by the two theorems that need it:
`streamer_shared_csv` shows that the file does not stay whole without it. `PatchesApart`, that no patch falls into the
second of the patch before, is a hypothesis about the execution and not about constants: scalings are usually further
apart, and `controller_stamp` shows what happens when they are not.

`Partition!IInv` is stronger than the invariants it proves. `OnlyAckedDeleted` is not inductive: that a deletion was
acked must be known when the row enters `doneIDs`, before that when the ack is in `ackCh`, and before that when the
handler carries it (`AckKnowledge`). That the ack then settles the right rows needs that a client and the goroutine
agree on the lease (`told`), and that lease ids still in use are not handed out again. `Apart` is exclusiveness
together with "held rows exist", because a refill keeps rows apart only if what it fetches excludes what is leased,
and the flush before it has removed what was pending. `Phases` ties the memory to the stage of the process, so that a
restart starts empty.

`Collector!AckedRows` says that what an acknowledgement under way will remove is already persisted or malformed, and
that a standing lease, on whichever pod, holds what its collector was given or nothing; `VisibilityQueue!TypeOK` is
carried along. `HeldIsBorn`, that pods and collectors hold only what was published, is what the refinement of
`Delivery` needs besides.

`WriteBuffer!BufferInv` ties a handler that waits to the one place where its item is: the channel, the batch with its
topic still to be flushed, or its reply channel.

`WriteBuffer!BatchInv` is about what has been inserted. `WholeBatch` is not inductive: that a batch which comes up for
its first attempt has nothing in the table needs that no request is in the buffer twice, that what is in the channel
or not yet sent has not been inserted, and that of what is pending only the topics already flushed, or the one under
way, have; hence that no topic is in `todo` twice. The counts then rest on sums: whatever the total, the shares that
`distributeResults` rounds down add up to at most the total, so that the rest for the last request is a natural number
and the sum is exact (`SharesAddUp`); and of a total that is nothing or the whole batch each gets its own
(`SharesAre`), because (m * s) \div m = s. `FiniteSums` has the facts about `SumFunctionOnSet` for any finite set:
that it does not matter which element is taken out first, monotonicity, sums of equal terms. The library's induction
theorems cannot be used (they take an operator), but well-foundedness of the strict subsets can, for a set of good
subsets (`SubsetInduction`).

`PartitionController!RollOutInv` adds to `HandledIsRolledOut` that the count the leader works on is not the one it has
done with, and that as long as an Update of a former leader can still take effect neither the map has changed since
nor the release has been upgraded: an Update that changes the map fences off all others, so one that is still open
finds the map as its leader read it.

`Streamer!IInv` counts: an attempt adds at most one copy, so what is stored of a reading is bounded by the attempts of
the one sender that has it (`SenderKnown`), which needs that a reading has one owner (`OneOwner`), that a reading in
the channel has no copy, and that the reader's own reading is newer than all that are pending (`RowInHand`), hence in
no second place. `FileInv` says what the temporary file holds at each step of a rewrite and that its name and the path
are different files.

Only model-checked: the liveness properties (fairness and ENABLED are beyond the prover), among them
`RedistributedOrReverted`. Every safety invariant, every action property and every refinement of the passing runs is
the statement of a theorem.

## 5. What is not modelled

`apigw` answers read-only SQL queries and keeps nothing; `db` opens a pool and runs migrations at start; `config` and
`models` are environment parsing and plain data: none has state transitions, and the values that matter are CONSTANTS.
Health and metrics endpoints only read. The contents of payloads, the hash `PartitionFor`, topics at the reader (which
ignores them) and logging are abstracted. PostgreSQL is a set with atomic statements; a commit whose answer is lost is
taken to have happened at once. A truncated CSV that ends exactly between two lines is read as a shorter one by
`ReadCSV`; the model takes no file that lacks a row. Crashes are those of a process: `WriteCSV` renames without
`f.Sync` (csv.go:151-162), so that after a crash of the host the file system decides what the path holds, and
`FileIsWhole` does not cover it. A row without a `gpu_id` is `Refused`.

`Partition` and `Collector` are composed through `VisibilityQueue`, which `Partition` implements, not as one state
space. What this leaves out is the effect of a batch on progress: rows that no collector can ack stay the oldest and
fill the batch, and `EveryRowServed` promises nothing to the rows behind them. `Collector` assumes that every row is
served.

## 6. Findings

* `partition_drain`: a drain that runs out of its 30 seconds ends the process with acked rows still in the table
  (`cmd/mqreader/main.go:128`), against README.md:493.
* `collector_partial`: a batch that parses only in part is acked as a whole (`collector.go:246`); the skipped rows are
  in no table afterwards, against collector.go:245 and README.md:98. A batch in which nothing parses is never acked.
* `write_buffer_retry`: the uuid conflict makes a retry idempotent (queries.go:7) only as long as the rows are there.
  Messages that readers have deleted by the time of the retry (`flushWithRetry`, buffer.go:143) are inserted again,
  delivered again, and dropped by the unique index of the telemetry table; the totals of the retry are then part
  accepted, part duplicates, and the integer shares may tell a request of a message more or less than it has.
* `controller_revert`: `reconcile` compares with `lastReplicas` alone, so a failed change that is undone leaves the
  wrong map for ever (`cmd/partition-controller/main.go:190`). The Update of a leader that lost the lock has the same
  effect if it arrives after the count has gone back and the next leader has written the map that was there already.
* `controller_stamp`: two restarts within one second are one (`main.go:227`).
* `streamer_shared_csv`: the temporary file of a rewrite has one name for all processes with the path (`csv.go:109`).
  With `pvc.enabled` (README.md:473) every replica mounts the same claim; one truncates the file that another renames
  over the CSV, against csv.go:105. A restart then fails in `ReadCSV`, and the process stays up, healthy, with nothing
  to publish.

Known behaviour that the properties take into account: while a change of the count rolls out two pods serve the same
keys (README.md:496 relies on the telemetry table to drop what is delivered twice, and `NothingLost` holds with any
overlap); after an upgrade of the release the chart's map stays until the next change of the count (`upgraded` in
`PartitionController`); the reader of the streamer does wait for the sender when the channel is full, other than the
comment at streamer.go:66 says, but never for ever (`NeverStuck`).

## 7. Plan

Done: `VisibilityQueue`, `Partition`; `PartitionRanges`, `PartitionController`; `Collector`, `Delivery`;
`WriteBuffer`, `Publishing`; `CSVFile`, `Streamer`, `Reporting`; each with its proofs.
What is left, in order of what matters:

1. What follows from the refinements together, from a reading of the streamer to the telemetry table, as one statement
   over `Reporting`, `Publishing`, `VisibilityQueue` and `Delivery`.
2. What remains true of a CSV that several processes share, without `OnePerVolume`.
