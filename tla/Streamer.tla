------------------------------ MODULE Streamer ------------------------------
(***************************************************************************)
(* The streamer (internal/streamer, cmd/streamer): a reader goroutine that *)
(* stamps one row after the other, rewrites the CSV and sends the row into *)
(* a buffered channel, and a sender goroutine that publishes what it       *)
(* receives through httpx (internal/httpx/client.go).                      *)
(*                                                                         *)
(* A reading is a row with its time stamp; readings are numbered in the    *)
(* order of their stamps.  mqwriter is external: an attempt to publish may *)
(* store the reading and still fail, and it may fail without reaching the  *)
(* writer at all: after a request whose body was read, net/http can send   *)
(* the clone again on a kept-alive connection only, and reports a body of  *)
(* length 0 on a new one.  The health endpoints only read.                 *)
(***************************************************************************)
EXTENDS CSVFile, SequencesExt

CONSTANTS
    ChannelBuffer,  \* STREAMER_CHANNEL_BUFFER
    MaxRetries,     \* of httpx.NewClient: attempts after the first
    MaxReadings     \* bound: readings

ASSUME CapacityAssumption == ChannelBuffer \in Nat \ {0}
ASSUME BoundsAssumption   == MaxRetries \in Nat /\ MaxReadings \in Nat

VARIABLES
    life,    \* process -> up, cancelled (the context of Run) or down
    reader,  \* process -> place in readLoop and WriteCSV
    rows,    \* process -> the time stamps of the rows in memory
    line,    \* process -> index of the row readLoop is at
    at,      \* process -> index of the row WriteCSV writes next
    disk,    \* process -> diskWritable
    channel, \* process -> readings in msgCh
    sender,  \* process -> place in sender and Client.Do
    clock,   \* the time: readings so far
    fate,    \* reading -> what became of it (history)
    copies   \* reading -> messages its attempts so far leave in queue_messages (history)

readerVars == <<reader, rows, line, at, disk>>
vars == <<csvVars, life, readerVars, channel, sender, clock, fate, copies>>

Readings == 1 .. MaxReadings
Resting  == [stage |-> "idle", reading |-> 0, attempt |-> 0]
Senders  == [stage : {"idle", "trying", "backoff", "returned"},
             reading : 0 .. MaxReadings, attempt : 0 .. MaxRetries]

TypeOK ==
    /\ content \in [Files -> [Lines -> {Missing} \cup 0 .. MaxReadings]]
    /\ csv \in Files /\ tmp \in Files \cup {NoFile}
    /\ fd \in [Procs -> Files \cup {NoFile}]
    /\ life \in [Procs -> {"up", "cancelled", "down"}]
    /\ reader \in [Procs -> {"start", "create", "write", "rename", "send", "pause", "returned"}]
    /\ rows \in [Procs -> [Lines -> 0 .. MaxReadings]]
    /\ line \in [Procs -> 0 .. NumRows] /\ at \in [Procs -> Lines]
    /\ disk \in [Procs -> BOOLEAN]
    /\ channel \in [Procs -> Seq(Readings)]
    /\ \A p \in Procs : Len(channel[p]) <= ChannelBuffer
    /\ sender \in [Procs -> Senders]
    /\ clock \in 0 .. MaxReadings
    /\ fate \in [Readings -> {"none", "sent", "published", "dropped", "lost"}]
    /\ copies \in [Readings -> 0 .. MaxRetries + 1]

Init ==
    /\ CSVInit
    /\ life = [p \in Procs |-> "down"] /\ reader = [p \in Procs |-> "returned"]
    /\ rows = [p \in Procs |-> [i \in Lines |-> 0]]
    /\ line = [p \in Procs |-> 0] /\ at = [p \in Procs |-> 1]
    /\ disk = [p \in Procs |-> TRUE]
    /\ channel = [p \in Procs |-> <<>>]
    /\ sender = [p \in Procs |-> [Resting EXCEPT !.stage = "returned"]]
    /\ clock = 0
    /\ fate = [n \in Readings |-> "none"] /\ copies = [n \in Readings |-> 0]

-----------------------------------------------------------------------------
(* The reader: readLoop and WriteCSV. *)

\* the reading that the reader has in hand
Current(p) == rows[p][line[p]]

\* The next row, from the first again after the last, gets the time.
Stamp(p) ==
    /\ reader[p] \in {"start", "pause"} /\ clock < MaxReadings
    /\ clock' = clock + 1
    /\ line' = [line EXCEPT ![p] = (@ % NumRows) + 1]
    /\ rows' = [rows EXCEPT ![p][line'[p]] = clock']
    /\ reader' = [reader EXCEPT ![p] = IF disk[p] THEN "create" ELSE "send"]
    /\ UNCHANGED <<csvVars, life, at, disk, channel, sender, fate, copies>>

CreateTmp(p) ==
    /\ reader[p] = "create" /\ Create(p)
    /\ reader' = [reader EXCEPT ![p] = "write"] /\ at' = [at EXCEPT ![p] = 1]
    /\ UNCHANGED <<life, rows, line, disk, channel, sender, clock, fate, copies>>

WriteLine(p) ==
    /\ reader[p] = "write" /\ Write(p, at[p], rows[p][at[p]])
    /\ IF at[p] < NumRows
       THEN at' = [at EXCEPT ![p] = @ + 1] /\ UNCHANGED reader
       ELSE reader' = [reader EXCEPT ![p] = "rename"] /\ UNCHANGED at
    /\ UNCHANGED <<life, rows, line, disk, channel, sender, clock, fate, copies>>

RenameTmp(p) ==
    /\ reader[p] = "rename" /\ Rename(p)
    /\ reader' = [reader EXCEPT ![p] = "send"]
    /\ UNCHANGED <<life, rows, line, at, disk, channel, sender, clock, fate, copies>>

\* mutant: tries again with the next row
DiskFailsOnce(p) ==
    /\ reader[p] \in {"create", "write", "rename"} /\ Discard(p)
    /\ reader' = [reader EXCEPT ![p] = "send"]
    /\ UNCHANGED <<life, rows, line, at, disk, channel, sender, clock, fate, copies>>

\* WriteCSV returns an error: the reader goes on in memory only.
DiskFails(p) ==
    /\ reader[p] \in {"create", "write", "rename"} /\ Discard(p)
    /\ reader' = [reader EXCEPT ![p] = "send"] /\ disk' = [disk EXCEPT ![p] = FALSE]
    /\ UNCHANGED <<life, rows, line, at, channel, sender, clock, fate, copies>>

\* mutants: no regard to the capacity; a full channel drops the reading
SendUnbounded(p) ==
    /\ reader[p] = "send"
    /\ channel' = [channel EXCEPT ![p] = Append(@, Current(p))]
    /\ fate' = [fate EXCEPT ![Current(p)] = "sent"]
    /\ reader' = [reader EXCEPT ![p] = "pause"]
    /\ UNCHANGED <<csvVars, life, rows, line, at, disk, sender, clock, copies>>

SendOrSkip(p) ==
    /\ reader[p] = "send"
    /\ channel' = IF Len(channel[p]) < ChannelBuffer
                  THEN [channel EXCEPT ![p] = Append(@, Current(p))] ELSE channel
    /\ fate' = [fate EXCEPT ![Current(p)] = "sent"]
    /\ reader' = [reader EXCEPT ![p] = "pause"]
    /\ UNCHANGED <<csvVars, life, rows, line, at, disk, sender, clock, copies>>

\* out <- row: waits for room
Send(p) ==
    /\ reader[p] = "send" /\ Len(channel[p]) < ChannelBuffer
    /\ channel' = [channel EXCEPT ![p] = Append(@, Current(p))]
    /\ fate' = [fate EXCEPT ![Current(p)] = "sent"]
    /\ reader' = [reader EXCEPT ![p] = "pause"]
    /\ UNCHANGED <<csvVars, life, rows, line, at, disk, sender, clock, copies>>

\* ctx.Done in one of the two selects: readLoop returns, Run closes msgCh.
ReaderReturns(p) ==
    /\ reader[p] \in {"send", "pause"} /\ life[p] = "cancelled"
    /\ reader' = [reader EXCEPT ![p] = "returned"]
    /\ UNCHANGED <<csvVars, life, rows, line, at, disk, channel, sender, clock, fate, copies>>

-----------------------------------------------------------------------------
(* The sender: sender, publishMessage and Client.Do. *)

\* The sender is done with its reading.
Conclude(p, end) ==
    /\ fate' = [fate EXCEPT ![sender[p].reading] = end]
    /\ sender' = [sender EXCEPT ![p] = Resting]

\* mutant: looks at the context before it receives
TakeUnlessCancelled(p) ==
    /\ sender[p].stage = "idle" /\ channel[p] # <<>> /\ life[p] = "up"
    /\ channel' = [channel EXCEPT ![p] = Tail(@)]
    /\ sender' = [sender EXCEPT ![p] = [stage |-> "trying", reading |-> Head(channel[p]), attempt |-> 0]]
    /\ UNCHANGED <<csvVars, life, readerVars, clock, fate, copies>>

\* row := range in: publishMessage begins.  With a cancelled context every
\* attempt fails before anything is sent, and the backoff ends at once.
Take(p) ==
    /\ sender[p].stage = "idle" /\ channel[p] # <<>>
    /\ channel' = [channel EXCEPT ![p] = Tail(@)]
    /\ LET n == Head(channel[p]) IN
         IF life[p] = "up"
         THEN /\ sender' = [sender EXCEPT ![p] = [stage |-> "trying", reading |-> n, attempt |-> 0]]
              /\ UNCHANGED fate
         ELSE fate' = [fate EXCEPT ![n] = "dropped"] /\ UNCHANGED sender
    /\ UNCHANGED <<csvVars, life, readerVars, clock, copies>>

\* The attempt under way leaves a message in queue_messages or not (a request
\* that timed out may be stored after its attempt has ended; it counts here).
MayStore(p) ==
    \E stored \in {0, 1} : copies' = [copies EXCEPT ![sender[p].reading] = @ + stored]

\* 200 (whether or not its body decodes)
Published(p) ==
    /\ sender[p].stage = "trying"
    /\ copies' = [copies EXCEPT ![sender[p].reading] = @ + 1]
    /\ Conclude(p, "published")
    /\ UNCHANGED <<csvVars, life, readerVars, channel, clock>>

\* mutant: does not look at the status
RefusedUnseen(p) ==
    /\ sender[p].stage = "trying" /\ Conclude(p, "published")
    /\ UNCHANGED <<csvVars, life, readerVars, channel, clock, copies>>

\* 4xx: the writer does not take the row (one without a gpu_id)
Refused(p) ==
    /\ sender[p].stage = "trying" /\ Conclude(p, "dropped")
    /\ UNCHANGED <<csvVars, life, readerVars, channel, clock, copies>>

\* mutants: one attempt too many; for ever
FailedOnceMore(p) ==
    /\ sender[p].stage = "trying" /\ MayStore(p)
    /\ IF sender[p].attempt <= MaxRetries
       THEN sender' = [sender EXCEPT ![p].stage = "backoff"] /\ UNCHANGED fate
       ELSE Conclude(p, "dropped")
    /\ UNCHANGED <<csvVars, life, readerVars, channel, clock>>

FailedForEver(p) ==
    /\ sender[p].stage = "trying"
    /\ sender' = [sender EXCEPT ![p].stage = "backoff", ![p].attempt = 0]
    /\ UNCHANGED <<csvVars, life, readerVars, channel, clock, fate, copies>>

\* A network error, the 10 s of the client, a context cancelled meanwhile, or
\* a 5xx, at whatever stage of the attempt.
Failed(p) ==
    /\ sender[p].stage = "trying" /\ MayStore(p)
    /\ IF sender[p].attempt < MaxRetries
       THEN sender' = [sender EXCEPT ![p].stage = "backoff"] /\ UNCHANGED fate
       ELSE Conclude(p, "dropped")
    /\ UNCHANGED <<csvVars, life, readerVars, channel, clock>>

\* The backoff has passed.
Retry(p) ==
    /\ sender[p].stage = "backoff" /\ life[p] = "up"
    /\ sender' = [sender EXCEPT ![p].stage = "trying", ![p].attempt = @ + 1]
    /\ UNCHANGED <<csvVars, life, readerVars, channel, clock, fate, copies>>

\* ctx.Done while backing off (or the timer first, and the attempt fails).
GiveUp(p) ==
    /\ sender[p].stage = "backoff" /\ life[p] = "cancelled" /\ Conclude(p, "dropped")
    /\ UNCHANGED <<csvVars, life, readerVars, channel, clock, copies>>

\* msgCh is closed and empty.
SenderReturns(p) ==
    /\ sender[p].stage = "idle" /\ channel[p] = <<>> /\ reader[p] = "returned"
    /\ sender' = [sender EXCEPT ![p].stage = "returned"]
    /\ UNCHANGED <<csvVars, life, readerVars, channel, clock, fate, copies>>

-----------------------------------------------------------------------------
(* The process. *)

\* main starts Run, which loads the CSV.  A file that is not whole is not
\* taken (one that ends between two lines would be, as a shorter CSV): Run
\* returns, and the process stays up without it.
Start(p) ==
    /\ life[p] = "down" /\ clock < MaxReadings
    /\ life' = [life EXCEPT ![p] = "up"]
    /\ IF Whole(csv)
       THEN /\ rows' = [rows EXCEPT ![p] = content[csv]]
            /\ reader' = [reader EXCEPT ![p] = "start"]
            /\ sender' = [sender EXCEPT ![p] = Resting]
       ELSE UNCHANGED <<rows, reader, sender>>
    /\ line' = [line EXCEPT ![p] = 0] /\ disk' = [disk EXCEPT ![p] = TRUE]
    /\ UNCHANGED <<csvVars, at, channel, clock, fate, copies>>

\* SIGTERM: cancel().  main does not wait for Run.
Signal(p) ==
    /\ life[p] = "up" /\ life' = [life EXCEPT ![p] = "cancelled"]
    /\ UNCHANGED <<csvVars, readerVars, channel, sender, clock, fate, copies>>

\* readings of p on their way from its reader to an end
Pending(p) == Range(channel[p]) \cup (IF sender[p].stage \in {"trying", "backoff"}
                                      THEN {sender[p].reading} ELSE {})

\* The process ends, killed or at the end of main, at whatever step; a request
\* that is under way may be stored nevertheless.
Exit(p) ==
    /\ life[p] # "down" /\ life' = [life EXCEPT ![p] = "down"]
    /\ fate' = [n \in Readings |-> IF n \in Pending(p) THEN "lost" ELSE fate[n]]
    /\ reader' = [reader EXCEPT ![p] = "returned"]
    /\ channel' = [channel EXCEPT ![p] = <<>>]
    /\ sender' = [sender EXCEPT ![p] = [Resting EXCEPT !.stage = "returned"]]
    /\ IF sender[p].stage = "trying" THEN MayStore(p) ELSE UNCHANGED copies
    /\ Close(p)
    /\ UNCHANGED <<content, csv, tmp, rows, line, at, disk, clock>>

WriterStep(p)  == CreateTmp(p) \/ WriteLine(p) \/ RenameTmp(p) \/ DiskFails(p)
ReaderStep(p)  == Stamp(p) \/ WriterStep(p) \/ Send(p) \/ ReaderReturns(p)
AttemptEnds(p) == Published(p) \/ Refused(p) \/ Failed(p)
SenderStep(p)  == Take(p) \/ AttemptEnds(p) \/ Retry(p) \/ GiveUp(p) \/ SenderReturns(p)

Next == \E p \in Procs : \/ ReaderStep(p) \/ SenderStep(p)
                         \/ Start(p) \/ Signal(p) \/ Exit(p)

Spec == Init /\ [][Next]_vars

\* The goroutines run, and an attempt ends with its timeout at the latest.
Fairness == \A p \in Procs : WF_vars(ReaderStep(p)) /\ WF_vars(SenderStep(p))

LiveSpec == Spec /\ Fairness

-----------------------------------------------------------------------------
(* Safety. *)

\* WriteCSV: "It writes to a temporary file first, then renames it over the
\* original to avoid partial writes on crash": whoever reads the path, after
\* whatever error or end of a process, finds every row.
FileIsWhole == Whole(csv)

\* TelemetryRow: "the entire CSV is rewritten to disk so the file always
\* reflects the last-processed time for every row": as long as no rewrite has
\* failed, the file agrees with memory on every row that was sent.
FileReflectsRows ==
    \A p \in Procs : reader[p] \in {"send", "pause"} /\ disk[p] => content[csv] = rows[p]

\* No reading falls between reader and sender, and they are published in the
\* order of their stamps: what was sent is in the channel or in the sender's
\* hands until its end, the sender's is the oldest, and a row in hand is
\* younger than all of them.
InOrder ==
    \A p \in Procs :
        LET c == channel[p] IN
        /\ \A i \in DOMAIN c : /\ fate[c[i]] = "sent"
                               /\ sender[p].reading < c[i]
                               /\ \A j \in DOMAIN c : i < j => c[i] < c[j]
        /\ sender[p].reading # 0 => fate[sender[p].reading] = "sent"
        /\ reader[p] = "send" => fate[Current(p)] = "none"
EverySentPending ==
    \A n \in Readings : fate[n] = "sent" => \E p \in Procs : n \in Pending(p)
Accounted == InOrder /\ EverySentPending

\* A reading is stored at most once for each attempt: failures that were none
\* (the writer makes fresh uuids for each request) do not multiply further.
CopiesBounded == \A n \in Readings : copies[n] <= MaxRetries + 1

\* The same of every step (publishMessage, Client.Do): a reading is sent once, is
\* taken for published only with a message stored, and is not tried again when
\* the streamer is done with it.
Promise == INSTANCE Reporting
ImplementsReporting == Promise!Spec

\* The inductive invariant: a row in hand has the newest stamp of its process
\* and has gone nowhere; what a reading may have left in the queue is counted
\* by the attempts of the one sender that has it; readings have one owner.
HasRow(p) == reader[p] \in {"create", "write", "rename", "send"}

RowInHand ==
    \A p \in Procs : HasRow(p) =>
        /\ line[p] \in Lines /\ Current(p) \in 1 .. clock /\ fate[Current(p)] = "none"
        /\ \A n \in Pending(p) : n < Current(p)

OneOwner ==
    \A p, q \in Procs : p # q =>
        /\ Pending(p) \cap Pending(q) = {}
        /\ HasRow(p) /\ HasRow(q) => Current(p) # Current(q)

SenderKnown(p) ==
    LET s == sender[p] IN
    /\ s.stage \in {"idle", "returned"} => s.reading = 0
    /\ s.stage \in {"trying", "backoff"} => s.reading \in Readings
    /\ s.stage = "trying" => copies[s.reading] <= s.attempt
    /\ s.stage = "backoff" => copies[s.reading] <= s.attempt + 1 /\ s.attempt < MaxRetries

CopiesCounted ==
    /\ \A n \in Readings : /\ n > clock => fate[n] = "none"
                           /\ fate[n] = "none" => copies[n] = 0
    /\ \A p \in Procs : /\ SenderKnown(p)
                         /\ \A i \in DOMAIN channel[p] : copies[channel[p][i]] = 0

DownIsEmpty ==
    \A p \in Procs : life[p] = "down" =>
        reader[p] = "returned" /\ sender[p].stage = "returned" /\ channel[p] = <<>>

IInv == /\ TypeOK /\ Accounted /\ CopiesBounded
        /\ RowInHand /\ OneOwner /\ CopiesCounted /\ DownIsEmpty

\* The inductive invariant of the file, where no two processes share it: only
\* path.tmp is open, and it holds what has been written of the rows in memory.
FileInv ==
    /\ TypeOK /\ FileIsWhole /\ FileReflectsRows /\ tmp # csv
    /\ \A p \in Procs :
         /\ reader[p] \in {"write", "rename"} => tmp # NoFile /\ fd[p] = tmp
         /\ reader[p] = "write" => \A i \in Lines : i < at[p] => content[tmp][i] = rows[p][i]
         /\ reader[p] = "rename" => content[tmp] = rows[p]

-----------------------------------------------------------------------------
(* Liveness. *)

\* The reader waits for room in the channel no longer than the sender takes to
\* give up a reading, whatever happens to the writer.
NeverStuck == \A p \in Procs : reader[p] = "send" ~> reader[p] # "send"

\* Every reading that was sent is published, or given up.
EveryReadingConcluded == \A n \in Readings : fate[n] = "sent" ~> fate[n] # "sent"

\* After cancel() both goroutines return ("close channel so sender drains"),
\* unless the process is gone before: main does not wait for them.
RunReturns ==
    \A p \in Procs : life[p] = "cancelled" ~>
        life[p] = "down" \/ (reader[p] = "returned" /\ sender[p].stage = "returned")

=============================================================================
