---------------------------- MODULE StreamerProofs ----------------------------
(***************************************************************************)
(* The streamer, for any processes, rows, capacities, retries and readings *)
(* (Streamer): types, the readings on their way from reader to sender, and *)
(* the messages an attempt that failed may have left behind (IInv); then   *)
(* the CSV that one process rewrites and may crash in the middle of        *)
(* (FileInv).                                                              *)
(***************************************************************************)
EXTENDS Streamer, TLAPS

-----------------------------------------------------------------------------
(* Types. *)

LEMMA TypeInit == Init => TypeOK
<1> SUFFICES ASSUME Init PROVE TypeOK
  OBVIOUS
<1>1. csv \in Files
  BY FilesAssumption DEF Init, CSVInit
<1>2. content \in [Files -> [Lines -> {Missing} \cup 0 .. MaxReadings]]
  BY BoundsAssumption DEF Init, CSVInit, Missing
<1>3. 1 \in Lines /\ 0 \in 0 .. NumRows /\ 0 \in 0 .. MaxReadings /\ 0 \in 0 .. MaxRetries + 1
  BY RowsAssumption, BoundsAssumption DEF Lines
<1>4. [Resting EXCEPT !.stage = "returned"] \in Senders
  BY BoundsAssumption DEF Resting, Senders
<1>5. \A p \in Procs : Len(channel[p]) <= ChannelBuffer
  <2>1. \A p \in Procs : channel[p] = <<>>
    BY DEF Init, Resting
  <2>2. Len(<<>>) = 0 /\ 0 <= ChannelBuffer
    BY CapacityAssumption
  <2> QED
    BY <2>1, <2>2
<1>6. fd \in [Procs -> Files \cup {NoFile}] /\ tmp \in Files \cup {NoFile}
  BY DEF Init, CSVInit, Resting
<1>7. sender \in [Procs -> Senders]
  BY <1>4 DEF Init, Resting
<1>8. rows \in [Procs -> [Lines -> 0 .. MaxReadings]]
  BY <1>3 DEF Init, Resting
<1>9. /\ fate \in [Readings -> {"none", "sent", "published", "dropped", "lost"}]
      /\ copies \in [Readings -> 0 .. MaxRetries + 1]
      /\ clock \in 0 .. MaxReadings
  BY <1>3 DEF Init, Resting
<1>10. channel \in [Procs -> Seq(Readings)]
  BY DEF Init, Resting
<1>11. line \in [Procs -> 0 .. NumRows] /\ at \in [Procs -> Lines]
  BY <1>3 DEF Init, Resting
<1> QED
  BY <1>1, <1>2, <1>5, <1>6, <1>7, <1>8, <1>9, <1>10, <1>11 DEF Init, TypeOK, Resting

\* The steps of the reader keep the types.
LEMMA ReaderTypes == ASSUME TypeOK, RowInHand, NEW p \in Procs, ReaderStep(p) PROVE TypeOK'
<1> USE DEF TypeOK
<1>1. CASE Stamp(p)
  <2>1. clock' \in 0 .. MaxReadings
    BY <1>1, BoundsAssumption DEF Stamp
  <2>2. (line[p] % NumRows) + 1 \in 1 .. NumRows
    BY RowsAssumption
  <2>3. line' \in [Procs -> 0 .. NumRows] /\ rows' \in [Procs -> [Lines -> 0 .. MaxReadings]]
    BY <1>1, <2>1, <2>2 DEF Stamp, Lines
  <2>4. reader' \in [Procs -> {"start", "create", "write", "rename", "send", "pause", "returned"}]
    BY <1>1 DEF Stamp
  <2> QED
    BY <1>1, <2>1, <2>3, <2>4 DEF Stamp, csvVars
<1>2. CASE CreateTmp(p)
  <2>1. tmp' \in Files \cup {NoFile} /\ fd' \in [Procs -> Files \cup {NoFile}] /\ csv' = csv
    BY <1>2 DEF CreateTmp, Create, Unused
  <2>2. content' \in [Files -> [Lines -> {Missing} \cup 0 .. MaxReadings]]
    BY <1>2 DEF CreateTmp, Create, Blank
  <2>3. 1 \in Lines
    BY RowsAssumption DEF Lines
  <2> QED
    BY <1>2, <2>1, <2>2, <2>3 DEF CreateTmp
<1>3. CASE WriteLine(p)
  <2>1. content' \in [Files -> [Lines -> {Missing} \cup 0 .. MaxReadings]]
    <3>1. rows[p][at[p]] \in 0 .. MaxReadings
      OBVIOUS
    <3>2. content' = [content EXCEPT ![fd[p]][at[p]] = rows[p][at[p]]]
      BY <1>3 DEF WriteLine, Write
    <3> QED
      BY <3>1, <3>2
  <2>2. at' \in [Procs -> Lines]
    <3>1. at[p] < NumRows => at[p] + 1 \in Lines
      BY RowsAssumption DEF Lines
    <3> QED
      BY <1>3, <3>1 DEF WriteLine
  <2> QED
    BY <1>3, <2>1, <2>2 DEF WriteLine, Write
<1>4. CASE RenameTmp(p)
  BY <1>4 DEF RenameTmp, Rename, Close
<1>5. CASE DiskFails(p)
  BY <1>5 DEF DiskFails, Discard, Close
<1>6. CASE Send(p)
  <2>1. Current(p) \in 1 .. clock
    BY <1>6 DEF Send, RowInHand, HasRow
  <2>2. Current(p) \in Readings
    BY <2>1, BoundsAssumption DEF Readings
  <2>3. channel' \in [Procs -> Seq(Readings)]
    BY <1>6, <2>2 DEF Send
  <2>4. \A q \in Procs : Len(channel'[q]) <= ChannelBuffer
    BY <1>6, <2>2, CapacityAssumption DEF Send
  <2> QED
    BY <1>6, <2>3, <2>4 DEF Send, csvVars
<1>7. CASE ReaderReturns(p)
  BY <1>7 DEF ReaderReturns, csvVars
<1> QED
  BY <1>1, <1>2, <1>3, <1>4, <1>5, <1>6, <1>7 DEF ReaderStep, WriterStep

\* An attempt that failed, or that nobody waits for, has stored the reading or not.
LEMMA StoresOrNot ==
  ASSUME TypeOK, NEW p \in Procs, sender[p].reading \in Readings, MayStore(p)
  PROVE  copies' = copies \/ copies' = [copies EXCEPT ![sender[p].reading] = @ + 1]
<1>1. PICK stored \in {0, 1} : copies' = [copies EXCEPT ![sender[p].reading] = @ + stored]
  BY DEF MayStore
<1>2. CASE stored = 0
  <2>1. copies[sender[p].reading] + 0 = copies[sender[p].reading]
    BY BoundsAssumption DEF TypeOK
  <2>2. copies' = [copies EXCEPT ![sender[p].reading] = copies[sender[p].reading]]
    BY <1>1, <1>2, <2>1
  <2> QED
    BY <2>2 DEF TypeOK
<1> QED
  BY <1>1, <1>2

\* The steps of the sender keep the types: an attempt leaves a message at most,
\* and the attempts are counted.
LEMMA SenderTypes == ASSUME TypeOK, CopiesCounted, NEW p \in Procs, SenderStep(p) PROVE TypeOK'
<1> USE DEF TypeOK
<1>1. SenderKnown(p) /\ sender[p] \in Senders
  BY DEF CopiesCounted
<1>2. Resting \in Senders
  BY BoundsAssumption DEF Resting, Senders
<1>3. CASE Take(p)
  <2>1. channel' \in [Procs -> Seq(Readings)]
        /\ \A q \in Procs : Len(channel'[q]) <= ChannelBuffer
    BY <1>3, CapacityAssumption DEF Take
  <2>2. Head(channel[p]) \in Readings
    BY <1>3 DEF Take
  <2>3. [stage |-> "trying", reading |-> Head(channel[p]), attempt |-> 0] \in Senders
    BY <2>2, BoundsAssumption DEF Senders, Readings
  <2>4. sender' \in [Procs -> Senders]
        /\ fate' \in [Readings -> {"none", "sent", "published", "dropped", "lost"}]
    BY <1>3, <2>3 DEF Take
  <2> QED
    BY <1>3, <2>1, <2>4 DEF Take, csvVars, readerVars
<1>4. CASE AttemptEnds(p)
  <2>1. /\ sender[p].stage = "trying"
        /\ UNCHANGED <<csvVars, life, readerVars, channel, clock>>
        /\ \/ Conclude(p, "published") \/ Conclude(p, "dropped")
           \/ sender' = [sender EXCEPT ![p].stage = "backoff"] /\ fate' = fate
    BY <1>4 DEF AttemptEnds, Published, Refused, Failed
  <2>2. sender[p].reading \in Readings /\ copies[sender[p].reading] <= sender[p].attempt
    BY <1>1, <2>1 DEF SenderKnown
  <2>3. copies' \in {copies, [copies EXCEPT ![sender[p].reading] = @ + 1]}
    <3>1. CASE copies' = copies \/ copies' = [copies EXCEPT ![sender[p].reading] = @ + 1]
      BY <3>1
    <3>2. CASE MayStore(p)
      <4>1. PICK stored \in {0, 1} : copies' = [copies EXCEPT ![sender[p].reading] = @ + stored]
        BY <3>2 DEF MayStore
      <4>2. CASE stored = 0
        <5>1. copies[sender[p].reading] + 0 = copies[sender[p].reading]
          BY <2>2
        <5>2. copies' = [copies EXCEPT ![sender[p].reading] = copies[sender[p].reading]]
          BY <4>1, <4>2, <5>1
        <5> QED
          BY <5>2
      <4> QED
        BY <4>1, <4>2
    <3> QED
      BY <1>4, <3>1, <3>2 DEF AttemptEnds, Published, Refused, Failed
  <2>4. sender[p].attempt \in 0 .. MaxRetries
    BY <1>1 DEF Senders
  <2>5. copies' \in [Readings -> 0 .. MaxRetries + 1]
    <3>1. copies[sender[p].reading] + 1 \in 0 .. MaxRetries + 1
      BY <2>2, <2>4, BoundsAssumption
    <3> QED
      BY <2>3, <3>1
  <2>6. [sender[p] EXCEPT !.stage = "backoff"] \in Senders
    BY <1>1 DEF Senders
  <2>7. /\ sender' \in [Procs -> Senders]
        /\ fate' \in [Readings -> {"none", "sent", "published", "dropped", "lost"}]
    BY <1>2, <2>1, <2>6 DEF Conclude
  <2> QED
    BY <2>1, <2>5, <2>7 DEF csvVars, readerVars
<1>6. CASE Retry(p)
  <2>1. sender[p].attempt \in 0 .. MaxRetries /\ sender[p].attempt < MaxRetries
    BY <1>1, <1>6 DEF Retry, SenderKnown, Senders
  <2>2. sender[p].attempt + 1 \in 0 .. MaxRetries
    BY <2>1, BoundsAssumption
  <2>3. [sender[p] EXCEPT !.stage = "trying", !.attempt = @ + 1] \in Senders
    BY <1>1, <2>2 DEF Senders
  <2> QED
    BY <1>6, <2>3 DEF Retry, csvVars, readerVars
<1>7. CASE GiveUp(p)
  BY <1>2, <1>7 DEF GiveUp, Conclude, csvVars, readerVars
<1>8. CASE SenderReturns(p)
  <2>1. [sender[p] EXCEPT !.stage = "returned"] \in Senders
    BY <1>1 DEF Senders
  <2> QED
    BY <1>8, <2>1 DEF SenderReturns, csvVars, readerVars
<1> QED
  BY <1>3, <1>4, <1>6, <1>7, <1>8 DEF SenderStep

\* So do the starts and ends of processes.
LEMMA ProcessTypes ==
  ASSUME TypeOK, CopiesCounted, NEW p \in Procs, Start(p) \/ Signal(p) \/ Exit(p)
  PROVE  TypeOK'
<1> USE DEF TypeOK
<1>0. Resting \in Senders
  BY BoundsAssumption DEF Resting, Senders
<1>1. Resting \in Senders /\ [Resting EXCEPT !.stage = "returned"] \in Senders
  BY <1>0 DEF Senders
<1>2. CASE Start(p)
  <2>1. Whole(csv) => content[csv] \in [Lines -> 0 .. MaxReadings]
    BY DEF Whole
  <2>2. /\ rows' \in [Procs -> [Lines -> 0 .. MaxReadings]]
        /\ reader' \in [Procs -> {"start", "create", "write", "rename", "send", "pause", "returned"}]
        /\ sender' \in [Procs -> Senders]
    BY <1>1, <1>2, <2>1 DEF Start
  <2>3. line' \in [Procs -> 0 .. NumRows]
    BY <1>2, RowsAssumption DEF Start
  <2> QED
    BY <1>2, <2>2, <2>3 DEF Start, csvVars
<1>3. CASE Signal(p)
  BY <1>3 DEF Signal, csvVars, readerVars
<1>4. CASE Exit(p)
  <2>1. channel' \in [Procs -> Seq(Readings)]
        /\ \A q \in Procs : Len(channel'[q]) <= ChannelBuffer
    BY <1>4, CapacityAssumption DEF Exit, Resting
  <2>2. sender' \in [Procs -> Senders]
    BY <1>1, <1>4 DEF Exit, Resting
  <2>3. fate' \in [Readings -> {"none", "sent", "published", "dropped", "lost"}]
    BY <1>4 DEF Exit, Resting
  <2>4. fd' \in [Procs -> Files \cup {NoFile}]
    BY <1>4 DEF Exit, Close, Resting
  <2>5. copies' \in [Readings -> 0 .. MaxRetries + 1]
    <3>1. CASE sender[p].stage = "trying"
      <4>1. sender[p].reading \in Readings /\ copies[sender[p].reading] <= MaxRetries
        BY <3>1, BoundsAssumption DEF CopiesCounted, SenderKnown, Senders
      <4>2. copies' = copies \/ copies' = [copies EXCEPT ![sender[p].reading] = @ + 1]
        BY <1>4, <3>1, <4>1, StoresOrNot DEF Exit
      <4>3. copies[sender[p].reading] + 1 \in 0 .. MaxRetries + 1
        BY <4>1, BoundsAssumption
      <4> QED
        BY <4>2, <4>3
    <3>2. CASE sender[p].stage # "trying"
      BY <1>4, <3>2 DEF Exit
    <3> QED
      BY <3>1, <3>2
  <2> QED
    BY <1>4, <2>1, <2>2, <2>3, <2>4, <2>5 DEF Exit, Resting
<1> QED
  BY <1>2, <1>3, <1>4

-----------------------------------------------------------------------------
(* The readings on their way. *)

Flow == /\ Accounted /\ CopiesBounded
        /\ RowInHand /\ OneOwner /\ CopiesCounted /\ DownIsEmpty

LEMMA PendingIs ==
  ASSUME NEW p \in Procs, NEW n
  PROVE  n \in Pending(p) <=>
           \/ \E i \in DOMAIN channel[p] : channel[p][i] = n
           \/ sender[p].stage \in {"trying", "backoff"} /\ n = sender[p].reading
BY DEF Pending, Range

\* A sender has a reading exactly when it is trying or backing off; it, those in
\* the channel and a row in hand are readings.
LEMMA SenderReading ==
  ASSUME TypeOK, Flow, NEW p \in Procs
  PROVE  /\ sender[p].reading \in Nat
         /\ sender[p].reading # 0 => sender[p].stage \in {"trying", "backoff"}
         /\ sender[p].stage \in {"trying", "backoff"} =>
              sender[p].reading \in Readings /\ sender[p].reading # 0
<1>1. SenderKnown(p) /\ sender[p] \in Senders
  BY DEF Flow, CopiesCounted, TypeOK
<1> QED
  BY <1>1, BoundsAssumption DEF SenderKnown, Senders, Readings

LEMMA PendingTypes ==
  ASSUME TypeOK, Flow, NEW p \in Procs, NEW n \in Pending(p)
  PROVE  n \in Readings /\ fate[n] = "sent"
<1>1. CASE \E i \in DOMAIN channel[p] : channel[p][i] = n
  BY <1>1 DEF TypeOK, Flow, Accounted, InOrder
<1>2. CASE sender[p].stage \in {"trying", "backoff"} /\ n = sender[p].reading
  BY <1>2, SenderReading DEF Flow, Accounted, InOrder
<1> QED
  BY <1>1, <1>2, PendingIs

LEMMA HandReading ==
  ASSUME TypeOK, Flow, NEW p \in Procs, HasRow(p)
  PROVE  Current(p) \in Readings
<1>1. Current(p) \in 1 .. clock
  BY DEF Flow, RowInHand
<1> QED
  BY <1>1, BoundsAssumption DEF TypeOK, Readings

LEMMA FlowInit == Init => Flow
<1> SUFFICES ASSUME Init PROVE Flow
  OBVIOUS
<1>1. \A p \in Procs : channel[p] = <<>> /\ sender[p] = [Resting EXCEPT !.stage = "returned"]
  BY DEF Init, Resting
<1>2. \A p \in Procs : /\ channel[p] = <<>> /\ DOMAIN channel[p] = {}
                       /\ sender[p].stage = "returned" /\ sender[p].reading = 0
  <2>1. DOMAIN <<>> = {}
    OBVIOUS
  <2>2. /\ [Resting EXCEPT !.stage = "returned"].stage = "returned"
        /\ [Resting EXCEPT !.stage = "returned"].reading = 0
    BY DEF Resting
  <2> QED
    BY <1>1, <2>1, <2>2
<1>3. /\ \A p \in Procs : life[p] = "down" /\ reader[p] = "returned"
      /\ \A n \in Readings : fate[n] = "none" /\ copies[n] = 0
  BY DEF Init, Resting
<1>4. Accounted
  BY <1>2, <1>3 DEF Accounted, InOrder, EverySentPending
<1>5. CopiesBounded
  BY <1>3, BoundsAssumption DEF CopiesBounded
<1>6. RowInHand /\ DownIsEmpty
  BY <1>2, <1>3 DEF RowInHand, HasRow, DownIsEmpty
<1>7. OneOwner
  BY <1>2, <1>3, PendingIs DEF OneOwner, HasRow
<1>8. CopiesCounted
  BY <1>2, <1>3 DEF CopiesCounted, SenderKnown
<1> QED
  BY <1>4, <1>5, <1>6, <1>7, <1>8 DEF Flow

\* The steps in which no reading moves: of WriteCSV, of the ends of the
\* goroutines, and the signal.
LEMMA QuietStep ==
  ASSUME TypeOK, Flow, UNCHANGED <<rows, line, channel, clock, fate, copies>>,
         \A p \in Procs : HasRow(p)' => HasRow(p),
         \A p \in Procs :
           \/ sender'[p] = sender[p]
           \/ /\ {sender[p].stage, sender'[p].stage} \subseteq {"idle", "returned"}
              /\ sender'[p].reading = sender[p].reading,
         \A p \in Procs :
           life'[p] = "down" =>
             life[p] = "down" /\ reader'[p] = reader[p] /\ sender'[p] = sender[p]
  PROVE  Flow'
<1>1. \A p \in Procs : Pending(p)' = Pending(p)
  BY DEF Pending, Range
<1>2. \A p \in Procs : Current(p)' = Current(p)
  BY DEF Current
<1>3. \A p \in Procs : reader'[p] = "send" => HasRow(p)
  BY DEF HasRow
<1>4. \A p \in Procs : sender'[p].reading = sender[p].reading
  OBVIOUS
<1>5. InOrder'
  BY <1>2, <1>3, <1>4 DEF Flow, Accounted, InOrder, RowInHand
<1>6. EverySentPending' /\ CopiesBounded'
  BY <1>1 DEF Flow, Accounted, EverySentPending, CopiesBounded
<1>7. RowInHand'
  BY <1>1, <1>2 DEF Flow, RowInHand
<1>8. OneOwner'
  BY <1>1, <1>2 DEF Flow, OneOwner
<1>9. \A p \in Procs : SenderKnown(p)'
  BY DEF Flow, CopiesCounted, SenderKnown
<1>10. CopiesCounted'
  BY <1>9 DEF Flow, CopiesCounted
<1>11. DownIsEmpty'
  BY DEF Flow, DownIsEmpty
<1> QED
  BY <1>5, <1>6, <1>7, <1>8, <1>10, <1>11 DEF Flow, Accounted

\* A row gets the next time stamp: no reading has it yet.
LEMMA StampStep == ASSUME TypeOK, Flow, NEW p \in Procs, Stamp(p) PROVE Flow'
<1>1. /\ clock' = clock + 1 /\ clock' \in Readings /\ clock \in Nat
      /\ UNCHANGED <<life, channel, sender, fate, copies>>
  BY BoundsAssumption DEF Stamp, TypeOK, Readings
<1>2. \A q \in Procs : Pending(q)' = Pending(q)
  BY <1>1 DEF Pending, Range
<1>3. line'[p] \in Lines /\ rows'[p][line'[p]] = clock'
  <2>1. (line[p] % NumRows) + 1 \in 1 .. NumRows
    BY RowsAssumption DEF TypeOK
  <2> QED
    BY <2>1 DEF Stamp, TypeOK, Lines
<1>4. Current(p)' = clock' /\ HasRow(p)'
  BY <1>3 DEF Current, HasRow, Stamp, TypeOK
<1>5. \A q \in Procs : q # p => /\ Current(q)' = Current(q) /\ (HasRow(q)' <=> HasRow(q))
                               /\ reader'[q] = reader[q] /\ line'[q] = line[q]
  BY DEF Current, HasRow, Stamp, TypeOK
<1>6. fate[clock'] = "none"
  BY <1>1 DEF Flow, CopiesCounted
<1>7. \A q \in Procs : \A n \in Pending(q) : n \in Readings /\ fate[n] = "sent"
  BY PendingTypes
<1>8. \A q \in Procs : \A n \in Pending(q) : n < clock'
  BY <1>1, <1>7 DEF Flow, CopiesCounted, Readings
<1>9. InOrder'
  BY <1>1, <1>4, <1>5, <1>6 DEF Flow, Accounted, InOrder
<1>10. EverySentPending' /\ CopiesBounded'
  BY <1>1, <1>2 DEF Flow, Accounted, EverySentPending, CopiesBounded
<1>11. RowInHand'
  <2>1. SUFFICES ASSUME NEW q \in Procs, HasRow(q)'
                 PROVE /\ line'[q] \in Lines /\ Current(q)' \in 1 .. clock'
                       /\ fate'[Current(q)'] = "none" /\ \A n \in Pending(q)' : n < Current(q)'
    BY DEF RowInHand
  <2>2. CASE q = p
    BY <1>1, <1>2, <1>3, <1>4, <1>6, <1>8, <2>2 DEF Readings
  <2>3. CASE q # p
    BY <1>1, <1>2, <1>5, <2>1, <2>3 DEF Flow, RowInHand
  <2> QED
    BY <2>2, <2>3
<1>12. OneOwner'
  <2>1. \A q \in Procs : HasRow(q) => Current(q) # clock'
    BY <1>1 DEF Flow, RowInHand
  <2> QED
    BY <1>2, <1>4, <1>5, <2>1 DEF Flow, OneOwner
<1>13. CopiesCounted'
  <2>1. \A q \in Procs : SenderKnown(q)'
    BY <1>1 DEF Flow, CopiesCounted, SenderKnown
  <2>2. \A n \in Readings : n > clock' => n > clock
    BY <1>1 DEF Readings
  <2> QED
    BY <1>1, <2>1, <2>2 DEF Flow, CopiesCounted
<1>14. DownIsEmpty'
  BY <1>1, <1>5 DEF Flow, DownIsEmpty, Stamp
<1> QED
  BY <1>9, <1>10, <1>11, <1>12, <1>13, <1>14 DEF Flow, Accounted

\* The row in hand goes to the end of the channel, as the youngest reading.
LEMMA SendStep == ASSUME TypeOK, Flow, NEW p \in Procs, Send(p) PROVE Flow'
<1> DEFINE n == Current(p)
<1>1. /\ HasRow(p) /\ n \in Readings /\ n \in 1 .. clock /\ fate[n] = "none" /\ copies[n] = 0
      /\ \A m \in Pending(p) : m < n
  <2>1. HasRow(p) /\ n \in 1 .. clock /\ fate[n] = "none" /\ \A m \in Pending(p) : m < n
    BY DEF Send, HasRow, Flow, RowInHand
  <2>2. n \in Readings
    BY <2>1, BoundsAssumption DEF Readings, TypeOK
  <2> QED
    BY <2>1, <2>2 DEF Flow, CopiesCounted
<1> HIDE DEF n
<1>2. /\ channel' = [channel EXCEPT ![p] = Append(@, n)]
      /\ fate' = [fate EXCEPT ![n] = "sent"]
      /\ UNCHANGED <<life, rows, line, sender, clock, copies>>
  BY DEF Send, n
<1>3. /\ channel[p] \in Seq(Readings) /\ Len(channel[p]) \in Nat
      /\ DOMAIN channel'[p] = 1 .. Len(channel[p]) + 1
      /\ \A i \in DOMAIN channel[p] : channel'[p][i] = channel[p][i]
      /\ channel'[p][Len(channel[p]) + 1] = n
      /\ DOMAIN channel[p] = 1 .. Len(channel[p])
  BY <1>1, <1>2 DEF TypeOK
<1>4. \A q \in Procs : q # p => channel'[q] = channel[q]
  BY <1>2 DEF TypeOK
<1>5. /\ fate'[n] = "sent" /\ \A m \in Readings : m # n => fate'[m] = fate[m]
  BY <1>1, <1>2 DEF TypeOK
<1>6. \A q \in Procs : Pending(q)' = IF q = p THEN Pending(p) \cup {n} ELSE Pending(q)
  <2>1. Pending(p)' = Pending(p) \cup {n}
    BY <1>2, <1>3 DEF Pending, Range
  <2>2. \A q \in Procs : q # p => Pending(q)' = Pending(q)
    BY <1>2, <1>4 DEF Pending, Range
  <2> QED
    BY <2>1, <2>2
<1>7. ~HasRow(p)' /\ \A q \in Procs : q # p => (HasRow(q)' <=> HasRow(q)) /\ reader'[q] = reader[q]
  BY DEF HasRow, Send, TypeOK
<1>8. \A q \in Procs : Current(q)' = Current(q)
  BY <1>2 DEF Current
<1>9. \A q \in Procs : q # p /\ HasRow(q) => Current(q) # n
  BY <1>1 DEF Flow, OneOwner, n
<1>10. \A q \in Procs : \A m \in Pending(q) : m # n /\ m \in Readings
  BY <1>1, PendingTypes
<1>11. InOrder'
  <2> DEFINE Ordered(q) ==
               /\ \A i \in DOMAIN channel[q] : /\ fate[channel[q][i]] = "sent"
                                               /\ sender[q].reading < channel[q][i]
                                               /\ \A j \in DOMAIN channel[q] :
                                                    i < j => channel[q][i] < channel[q][j]
               /\ sender[q].reading # 0 => fate[sender[q].reading] = "sent"
               /\ reader[q] = "send" => fate[Current(q)] = "none"
  <2>1. Ordered(p) /\ \A q \in Procs : Ordered(q)
    BY DEF Flow, Accounted, InOrder
  <2>2. \A i \in DOMAIN channel[p] : channel[p][i] \in Pending(p)
    BY PendingIs
  <2>3. sender[p].reading < n /\ (sender[p].reading # 0 => sender[p].reading \in Pending(p))
    BY <1>1, SenderReading, PendingIs DEF Readings
  <2>4. Ordered(p)'
    <3>1. ASSUME NEW i \in DOMAIN channel'[p]
          PROVE  /\ fate'[channel'[p][i]] = "sent" /\ sender[p].reading < channel'[p][i]
                 /\ \A j \in DOMAIN channel'[p] : i < j => channel'[p][i] < channel'[p][j]
      <4>1. CASE i \in DOMAIN channel[p]
        <5>1. channel'[p][i] = channel[p][i] /\ channel[p][i] < n /\ channel[p][i] # n
              /\ channel[p][i] \in Readings
          BY <1>1, <1>3, <1>10, <2>2, <4>1
        <5>2. \A j \in DOMAIN channel'[p] : i < j => channel'[p][i] < channel'[p][j]
          BY <1>3, <2>1, <4>1, <5>1
        <5> QED
          BY <1>5, <2>1, <4>1, <5>1, <5>2
      <4>2. CASE i = Len(channel[p]) + 1
        BY <1>3, <1>5, <2>3, <4>2
      <4> QED
        BY <1>3, <4>1, <4>2
    <3>2. reader'[p] # "send"
      BY <1>7 DEF HasRow
    <3>3. sender'[p] = sender[p] /\ (sender[p].reading # 0 => fate'[sender[p].reading] = "sent")
      BY <1>2, <1>5, <1>10, <2>1, <2>3
    <3> QED
      BY <3>1, <3>2, <3>3
  <2>5. ASSUME NEW q \in Procs, q # p PROVE Ordered(q)'
    <3>1. \A m \in Pending(q) : fate'[m] = fate[m]
      BY <1>5, <1>10
    <3>2. \A i \in DOMAIN channel[q] : channel[q][i] \in Pending(q)
      BY PendingIs
    <3>3. sender[q].reading # 0 => sender[q].reading \in Pending(q)
      BY SenderReading, PendingIs
    <3>4. reader[q] = "send" => fate'[Current(q)] = "none"
      <4>1. SUFFICES ASSUME reader[q] = "send" PROVE fate'[Current(q)] = "none"
        OBVIOUS
      <4>2. HasRow(q) /\ Current(q) \in Readings /\ fate[Current(q)] = "none"
        BY <4>1, HandReading DEF HasRow, Flow, RowInHand
      <4> QED
        BY <1>5, <1>9, <2>5, <4>2
    <3> QED
      BY <1>2, <1>4, <1>7, <1>8, <2>1, <2>5, <3>1, <3>2, <3>3, <3>4
  <2>6. \A q \in Procs : Ordered(q)'
    BY <2>4, <2>5
  <2> QED
    BY <2>6 DEF InOrder
<1>12. EverySentPending'
  BY <1>5, <1>6 DEF Flow, Accounted, EverySentPending
<1>13. CopiesBounded'
  BY <1>2 DEF Flow, CopiesBounded
<1>14. RowInHand'
  <2>1. \A q \in Procs : q # p /\ HasRow(q) => fate'[Current(q)] = "none"
    BY <1>5, <1>9, HandReading DEF Flow, RowInHand
  <2> QED
    BY <1>2, <1>6, <1>7, <1>8, <2>1 DEF Flow, RowInHand
<1>15. OneOwner'
  <2>1. \A q \in Procs : q # p => n \notin Pending(q)
    BY <1>10
  <2> QED
    BY <1>6, <1>7, <1>8, <2>1 DEF Flow, OneOwner
<1>16. CopiesCounted'
  <2>1. \A q \in Procs : SenderKnown(q)'
    BY <1>2 DEF Flow, CopiesCounted, SenderKnown
  <2>2. \A m \in Readings : (m > clock => fate'[m] = "none") /\ (fate'[m] = "none" => copies[m] = 0)
    BY <1>1, <1>5 DEF Flow, CopiesCounted, TypeOK
  <2>3. \A q \in Procs : \A i \in DOMAIN channel'[q] : copies[channel'[q][i]] = 0
    <3>1. \A i \in DOMAIN channel'[p] : copies[channel'[p][i]] = 0
      BY <1>1, <1>3 DEF Flow, CopiesCounted
    <3> QED
      BY <1>4, <3>1 DEF Flow, CopiesCounted
  <2> QED
    BY <1>2, <2>1, <2>2, <2>3 DEF CopiesCounted
<1>17. DownIsEmpty'
  <2>1. reader[p] # "returned"
    BY DEF Send
  <2> QED
    BY <1>2, <1>4, <1>7, <2>1 DEF Flow, DownIsEmpty
<1> QED
  BY <1>11, <1>12, <1>13, <1>14, <1>15, <1>16, <1>17 DEF Flow, Accounted

\* The oldest reading of the channel goes to the sender, which tries to publish
\* it, or, with the context cancelled, fails to at once.
LEMMA TakeStep == ASSUME TypeOK, Flow, NEW p \in Procs, Take(p) PROVE Flow'
<1> DEFINE n == Head(channel[p])
<1>1. /\ channel' = [channel EXCEPT ![p] = Tail(@)]
      /\ UNCHANGED <<life, reader, rows, line, clock, copies>>
      /\ sender[p].stage = "idle" /\ channel[p] # <<>>
  BY DEF Take, readerVars
<1>2. \/ /\ sender' = [sender EXCEPT ![p] = [stage |-> "trying", reading |-> n, attempt |-> 0]]
         /\ fate' = fate /\ life[p] = "up"
      \/ fate' = [fate EXCEPT ![n] = "dropped"] /\ sender' = sender
  BY DEF Take
<1>3. /\ channel[p] \in Seq(Readings) /\ Len(channel[p]) \in Nat /\ Len(channel[p]) >= 1
      /\ DOMAIN channel[p] = 1 .. Len(channel[p])
      /\ DOMAIN channel'[p] = 1 .. Len(channel[p]) - 1
      /\ \A i \in DOMAIN channel'[p] : channel'[p][i] = channel[p][i + 1]
      /\ n = channel[p][1] /\ 1 \in DOMAIN channel[p]
  BY <1>1 DEF TypeOK
<1> HIDE DEF n
<1>4. n \in Readings /\ n \in Pending(p) /\ fate[n] = "sent" /\ copies[n] = 0
  BY <1>3, PendingIs, PendingTypes DEF Flow, CopiesCounted
<1>5. \A q \in Procs : q # p => channel'[q] = channel[q] /\ sender'[q] = sender[q]
  BY <1>1, <1>2 DEF TypeOK
<1>6. \A i \in DOMAIN channel'[p] : /\ i + 1 \in DOMAIN channel[p] /\ n < channel[p][i + 1]
                                    /\ channel'[p][i] \in Pending(p) /\ channel'[p][i] # n
  <2>1. \A i \in DOMAIN channel'[p] : i + 1 \in DOMAIN channel[p] /\ 1 < i + 1
    BY <1>3
  <2>2. \A i \in DOMAIN channel[p] : 1 < i => n < channel[p][i]
    BY <1>3 DEF Flow, Accounted, InOrder
  <2>3. \A i \in DOMAIN channel'[p] : channel'[p][i] \in Pending(p) /\ channel'[p][i] \in Readings
    BY <1>3, <2>1, PendingIs, PendingTypes
  <2> QED
    BY <1>3, <1>4, <2>1, <2>2, <2>3 DEF Readings
<1>7. \A q \in Procs : q # p => Pending(q)' = Pending(q) /\ n \notin Pending(q)
  BY <1>4, <1>5 DEF Pending, Range, Flow, OneOwner
<1>8. /\ Pending(p)' \subseteq Pending(p)
      /\ \A m \in Pending(p) : m # n => m \in Pending(p)'
      /\ n \in Pending(p)' <=> sender' # sender
  <2>1. \A m : (\E i \in DOMAIN channel'[p] : channel'[p][i] = m) <=>
                 m # n /\ \E i \in DOMAIN channel[p] : channel[p][i] = m
    <3>1. ASSUME NEW i \in DOMAIN channel[p], i # 1
          PROVE  i - 1 \in DOMAIN channel'[p] /\ channel'[p][i - 1] = channel[p][i]
      <4>1. i \in 1 .. Len(channel[p]) /\ i - 1 \in 1 .. Len(channel[p]) - 1
        BY <1>3, <3>1
      <4> QED
        BY <1>3, <4>1
    <3>2. ASSUME NEW m, NEW i \in DOMAIN channel[p], channel[p][i] = m, m # n
          PROVE  \E j \in DOMAIN channel'[p] : channel'[p][j] = m
      BY <1>3, <3>1, <3>2
    <3>3. \A i \in DOMAIN channel'[p] :
            channel'[p][i] # n /\ \E j \in DOMAIN channel[p] : channel[p][j] = channel'[p][i]
      BY <1>3, <1>6
    <3> QED
      BY <3>2, <3>3
  <2>2. \A m : m \in Pending(p)' <=> \/ \E i \in DOMAIN channel'[p] : channel'[p][i] = m
                                     \/ sender'[p].stage \in {"trying", "backoff"} /\ m = sender'[p].reading
    BY DEF Pending, Range
  <2>3. CASE sender' = sender
    BY <1>1, <2>1, <2>2, <2>3, PendingIs
  <2>4. CASE sender' = [sender EXCEPT ![p] = [stage |-> "trying", reading |-> n, attempt |-> 0]]
    <3>1. sender'[p].stage = "trying" /\ sender'[p].reading = n
      BY <2>4 DEF TypeOK
    <3> QED
      BY <1>1, <1>4, <2>1, <2>2, <3>1, PendingIs
  <2> QED
    BY <1>2, <2>3, <2>4
<1>9. \A m \in Readings : m # n => fate'[m] = fate[m]
  BY <1>2, <1>4 DEF TypeOK
<1>10. \A q \in Procs : /\ HasRow(q)' <=> HasRow(q)
                        /\ Current(q)' = Current(q)
                        /\ HasRow(q) => /\ Current(q) # n /\ Current(q) \in Readings
                                        /\ fate'[Current(q)] = "none"
  <2>1. \A q \in Procs : HasRow(q)' = HasRow(q) /\ Current(q)' = Current(q)
    BY <1>1 DEF HasRow, Current
  <2>2. \A q \in Procs : HasRow(q) => Current(q) \in Readings /\ fate[Current(q)] = "none"
    BY HandReading DEF Flow, RowInHand
  <2> QED
    BY <1>4, <1>9, <2>1, <2>2
<1>11. InOrder'
  <2>1. SUFFICES ASSUME NEW q \in Procs
                 PROVE /\ \A i \in DOMAIN channel'[q] :
                            /\ fate'[channel'[q][i]] = "sent"
                            /\ sender'[q].reading < channel'[q][i]
                            /\ \A j \in DOMAIN channel'[q] :
                                 i < j => channel'[q][i] < channel'[q][j]
                       /\ sender'[q].reading # 0 => fate'[sender'[q].reading] = "sent"
                       /\ reader'[q] = "send" => fate'[Current(q)'] = "none"
    BY DEF InOrder
  <2>2. reader'[q] = "send" => fate'[Current(q)'] = "none"
    BY <1>1, <1>10 DEF HasRow
  <2>3. CASE q = p
    <3>1. \A i \in DOMAIN channel'[p] : fate'[channel'[p][i]] = "sent"
      BY <1>6, <1>9, PendingTypes
    <3>2. \A i, j \in DOMAIN channel'[p] : i < j => channel'[p][i] < channel'[p][j]
      <4>1. ASSUME NEW i \in DOMAIN channel'[p], NEW j \in DOMAIN channel'[p], i < j
            PROVE  channel'[p][i] < channel'[p][j]
        <5>1. i + 1 \in DOMAIN channel[p] /\ j + 1 \in DOMAIN channel[p] /\ i + 1 < j + 1
          BY <1>3, <4>1
        <5> QED
          BY <1>3, <5>1 DEF Flow, Accounted, InOrder
      <4> QED
        BY <4>1
    <3>3. CASE sender' = sender
      <4>1. sender[p].reading = 0
        BY <1>1, SenderReading
      <4>2. \A i \in DOMAIN channel'[p] : 0 < channel'[p][i]
        BY <1>6, PendingTypes DEF Readings
      <4> QED
        BY <2>2, <2>3, <3>1, <3>2, <3>3, <4>1, <4>2
    <3>4. CASE sender' = [sender EXCEPT ![p] = [stage |-> "trying", reading |-> n, attempt |-> 0]]
               /\ fate' = fate
      <4>1. sender'[p].reading = n
        BY <3>4 DEF TypeOK
      <4> QED
        BY <1>3, <1>4, <1>6, <2>2, <2>3, <3>1, <3>2, <3>4, <4>1
    <3> QED
      BY <1>2, <3>3, <3>4
  <2>4. CASE q # p
    <3>1. \A i \in DOMAIN channel[q] : channel[q][i] \in Pending(q)
      BY PendingIs
    <3>2. sender[q].reading # 0 => sender[q].reading \in Pending(q)
      BY SenderReading, PendingIs
    <3>3. \A m \in Pending(q) : fate'[m] = fate[m]
      BY <1>7, <1>9, <2>4, PendingTypes
    <3> QED
      BY <1>5, <2>2, <2>4, <3>1, <3>2, <3>3 DEF Flow, Accounted, InOrder
  <2> QED
    BY <2>3, <2>4
<1>12. EverySentPending'
  <2>1. SUFFICES ASSUME NEW m \in Readings, fate'[m] = "sent"
                 PROVE  \E q \in Procs : m \in Pending(q)'
    BY DEF EverySentPending
  <2>2. CASE m = n
    <3>1. sender' # sender
      <4>1. fate' # [fate EXCEPT ![n] = "dropped"]
        BY <1>4, <2>1, <2>2 DEF TypeOK
      <4>2. sender'[p].stage = "trying"
        BY <1>2, <4>1 DEF TypeOK
      <4> QED
        BY <1>1, <4>2
    <3> QED
      BY <1>8, <2>2, <3>1
  <2>3. CASE m # n
    <3>1. PICK q \in Procs : m \in Pending(q)
      BY <1>9, <2>1, <2>3 DEF Flow, Accounted, EverySentPending
    <3> QED
      BY <1>7, <1>8, <2>3, <3>1
  <2> QED
    BY <2>2, <2>3
<1>13. CopiesBounded'
  BY <1>1 DEF Flow, CopiesBounded
<1>14. \A q \in Procs : Pending(q)' \subseteq Pending(q)
  BY <1>7, <1>8
<1>15. RowInHand'
  BY <1>1, <1>10, <1>14 DEF Flow, RowInHand
<1>16. OneOwner'
  BY <1>10, <1>14 DEF Flow, OneOwner
<1>17. CopiesCounted'
  <2>1. ASSUME NEW q \in Procs PROVE SenderKnown(q)'
    <3>1. SenderKnown(q)
      BY DEF Flow, CopiesCounted
    <3>2. CASE sender'[q] = sender[q]
      BY <1>1, <3>1, <3>2 DEF SenderKnown
    <3>3. CASE sender'[q] # sender[q]
      <4>1. q = p /\ sender'[q] = [stage |-> "trying", reading |-> n, attempt |-> 0]
        BY <1>2, <3>3 DEF TypeOK
      <4> QED
        BY <1>1, <1>4, <4>1 DEF SenderKnown
    <3> QED
      BY <3>2, <3>3
  <2>2. \A m \in Readings : (m > clock => fate'[m] = "none") /\ (fate'[m] = "none" => copies[m] = 0)
    BY <1>4, <1>9 DEF Flow, CopiesCounted
  <2>3. \A q \in Procs : \A i \in DOMAIN channel'[q] : copies[channel'[q][i]] = 0
    BY <1>3, <1>5, <1>6 DEF Flow, CopiesCounted
  <2> QED
    BY <1>1, <2>1, <2>2, <2>3 DEF CopiesCounted
<1>18. DownIsEmpty'
  <2>1. life[p] # "down"
    BY <1>1 DEF Flow, DownIsEmpty
  <2> QED
    BY <1>1, <1>5, <2>1 DEF Flow, DownIsEmpty
<1> QED
  BY <1>11, <1>12, <1>13, <1>15, <1>16, <1>17, <1>18 DEF Flow, Accounted

\* What an attempt leaves behind changes the copies of the sender's reading only.
LEMMA CopiesKept ==
  ASSUME TypeOK, Flow, NEW p \in Procs, NEW n \in Readings, n = sender[p].reading,
         sender[p].stage \in {"trying", "backoff"},
         copies' = copies \/ copies' = [copies EXCEPT ![n] = @ + 1]
  PROVE  /\ \A m \in Readings : m # n => copies'[m] = copies[m]
         /\ copies'[n] \in Nat /\ copies'[n] <= copies[n] + 1
         /\ \A q \in Procs : \A i \in DOMAIN channel[q] : channel[q][i] # n /\ copies'[channel[q][i]] = 0
         /\ \A q \in Procs : q # p => sender[q].reading # n
         /\ \A q \in Procs : HasRow(q) => Current(q) # n
<1>1. \A m \in Readings : m # n => copies'[m] = copies[m]
  BY DEF TypeOK
<1>2. copies'[n] \in Nat /\ copies'[n] <= copies[n] + 1
  BY BoundsAssumption DEF TypeOK
<1>3. n \in Pending(p) /\ fate[n] = "sent"
  BY PendingIs, PendingTypes
<1>4. \A q \in Procs : q # p => n \notin Pending(q)
  BY <1>3 DEF Flow, OneOwner
<1>5. \A i \in DOMAIN channel[p] : channel[p][i] # n
  <2>1. \A i \in DOMAIN channel[p] : n < channel[p][i] /\ channel[p][i] \in Readings
    BY PendingIs, PendingTypes DEF Flow, Accounted, InOrder
  <2> QED
    BY <2>1 DEF Readings
<1>6. \A q \in Procs : \A i \in DOMAIN channel[q] : channel[q][i] # n /\ channel[q][i] \in Readings
  BY <1>4, <1>5, PendingIs, PendingTypes
<1>7. \A q \in Procs : q # p => sender[q].reading # n
  <2>1. ASSUME NEW q \in Procs, q # p, sender[q].reading = n PROVE FALSE
    <3>1. sender[q].reading # 0
      BY <2>1 DEF Readings
    <3> QED
      BY <1>4, <2>1, <3>1, SenderReading, PendingIs
  <2> QED
    BY <2>1
<1>8. \A q \in Procs : HasRow(q) => Current(q) # n
  BY <1>3 DEF Flow, RowInHand
<1> QED
  BY <1>1, <1>2, <1>6, <1>7, <1>8 DEF Flow, CopiesCounted

\* The sender is done with its reading, whatever the last attempt left behind.
LEMMA ConcludeStep ==
  ASSUME TypeOK, Flow, NEW p \in Procs, NEW end \in {"published", "dropped"},
         sender[p].stage \in {"trying", "backoff"}, Conclude(p, end),
         \/ copies' = copies
         \/ sender[p].stage = "trying" /\ copies' = [copies EXCEPT ![sender[p].reading] = @ + 1],
         UNCHANGED <<life, readerVars, channel, clock>>
  PROVE  Flow'
<1> DEFINE n == sender[p].reading
<1>1. n \in Readings /\ n # 0 /\ n \in Pending(p) /\ fate[n] = "sent"
  BY SenderReading, PendingIs, PendingTypes
<1>2. /\ \A m \in Readings : m # n => copies'[m] = copies[m]
      /\ copies'[n] \in Nat /\ copies'[n] <= copies[n] + 1
      /\ \A q \in Procs : \A i \in DOMAIN channel[q] : channel[q][i] # n /\ copies'[channel[q][i]] = 0
      /\ \A q \in Procs : q # p => sender[q].reading # n
      /\ \A q \in Procs : HasRow(q) => Current(q) # n
  BY <1>1, CopiesKept
<1>3. copies'[n] <= MaxRetries + 1
  <2>1. copies[n] \in Nat /\ copies[n] <= MaxRetries + 1
    BY <1>1, BoundsAssumption DEF TypeOK
  <2>2. sender[p].stage = "trying" => copies[n] <= sender[p].attempt
    BY DEF Flow, CopiesCounted, SenderKnown
  <2>3. sender[p].attempt \in 0 .. MaxRetries
    BY DEF TypeOK, Senders
  <2> QED
    BY <1>2, <2>1, <2>2, <2>3, BoundsAssumption
<1>4. /\ fate' = [fate EXCEPT ![n] = end] /\ sender' = [sender EXCEPT ![p] = Resting]
  BY DEF Conclude
<1> HIDE DEF n
<1>5. /\ sender'[p].stage = "idle" /\ sender'[p].reading = 0
      /\ \A q \in Procs : q # p => sender'[q] = sender[q]
  BY <1>4 DEF Resting, TypeOK
<1>6. /\ fate'[n] # "sent" /\ fate'[n] # "none"
      /\ \A m \in Readings : m # n => fate'[m] = fate[m]
  BY <1>1, <1>4 DEF TypeOK
<1>7. UNCHANGED <<life, reader, rows, line, channel, clock>>
  BY DEF readerVars
<1>8. \A q \in Procs : HasRow(q)' = HasRow(q) /\ Current(q)' = Current(q)
  BY <1>7 DEF HasRow, Current
<1>9. \A q \in Procs : \A m : m \in Pending(q)' <=>
        \/ \E i \in DOMAIN channel[q] : channel[q][i] = m
        \/ sender'[q].stage \in {"trying", "backoff"} /\ m = sender'[q].reading
  BY <1>7 DEF Pending, Range
<1>10. \A q \in Procs : \A m : m \in Pending(q)' <=> m \in Pending(q) /\ m # n
  <2>1. SUFFICES ASSUME NEW q \in Procs, NEW m PROVE m \in Pending(q)' <=> m \in Pending(q) /\ m # n
    OBVIOUS
  <2>2. CASE q = p
    <3>1. m \in Pending(p)' <=> \E i \in DOMAIN channel[p] : channel[p][i] = m
      BY <1>5, <1>9
    <3>2. m \in Pending(p) <=> (\E i \in DOMAIN channel[p] : channel[p][i] = m) \/ m = n
      BY PendingIs DEF n
    <3> QED
      BY <1>2, <2>2, <3>1, <3>2
  <2>3. CASE q # p
    <3>1. m \in Pending(q)' <=> m \in Pending(q)
      BY <1>5, <1>9, <2>3, PendingIs
    <3>2. n \notin Pending(q)
      BY <1>1, <2>3 DEF Flow, OneOwner
    <3> QED
      BY <3>1, <3>2
  <2> QED
    BY <2>2, <2>3
<1>11. \A q \in Procs : HasRow(q) => fate'[Current(q)] = "none" /\ Current(q) \in Readings
  BY <1>2, <1>6, HandReading DEF Flow, RowInHand
<1>12. InOrder'
  <2>1. SUFFICES ASSUME NEW q \in Procs
                 PROVE /\ \A i \in DOMAIN channel[q] :
                            /\ fate'[channel[q][i]] = "sent"
                            /\ sender'[q].reading < channel[q][i]
                            /\ \A j \in DOMAIN channel[q] :
                                 i < j => channel[q][i] < channel[q][j]
                       /\ sender'[q].reading # 0 => fate'[sender'[q].reading] = "sent"
                       /\ reader[q] = "send" => fate'[Current(q)] = "none"
    BY <1>7, <1>8 DEF InOrder
  <2>2. \A i \in DOMAIN channel[q] : /\ fate'[channel[q][i]] = "sent" /\ 0 < channel[q][i]
    <3>1. \A i \in DOMAIN channel[q] :
            channel[q][i] \in Readings /\ fate[channel[q][i]] = "sent" /\ channel[q][i] # n
      BY <1>2, PendingIs, PendingTypes
    <3> QED
      BY <1>6, <3>1 DEF Readings
  <2>3. reader[q] = "send" => fate'[Current(q)] = "none"
    BY <1>11 DEF HasRow
  <2>4. sender[q].reading # 0 => sender[q].reading \in Readings
    BY SenderReading
  <2>5. CASE q = p
    BY <1>5, <2>2, <2>3, <2>5 DEF Flow, Accounted, InOrder
  <2>6. CASE q # p
    BY <1>2, <1>5, <1>6, <2>2, <2>3, <2>4, <2>6 DEF Flow, Accounted, InOrder
  <2> QED
    BY <2>5, <2>6
<1>13. EverySentPending'
  BY <1>6, <1>10 DEF Flow, Accounted, EverySentPending
<1>14. CopiesBounded'
  BY <1>2, <1>3 DEF Flow, CopiesBounded
<1>15. RowInHand'
  BY <1>7, <1>8, <1>10, <1>11 DEF Flow, RowInHand
<1>16. OneOwner'
  BY <1>8, <1>10 DEF Flow, OneOwner
<1>17. CopiesCounted'
  <2>1. ASSUME NEW q \in Procs PROVE SenderKnown(q)'
    <3>1. CASE q = p
      BY <1>5, <3>1 DEF SenderKnown
    <3>2. CASE q # p
      <4>1. SenderKnown(q) /\ (sender[q].stage \in {"trying", "backoff"} => sender[q].reading \in Readings)
        BY DEF Flow, CopiesCounted, SenderKnown
      <4> QED
        BY <1>2, <1>5, <3>2, <4>1 DEF SenderKnown
    <3> QED
      BY <3>1, <3>2
  <2>2. \A m \in Readings : (m > clock => fate'[m] = "none") /\ (fate'[m] = "none" => copies'[m] = 0)
    BY <1>1, <1>2, <1>6 DEF Flow, CopiesCounted
  <2> QED
    BY <1>2, <1>7, <2>1, <2>2 DEF CopiesCounted
<1>18. DownIsEmpty'
  BY <1>5, <1>7 DEF Flow, DownIsEmpty
<1> QED
  BY <1>12, <1>13, <1>14, <1>15, <1>16, <1>17, <1>18 DEF Flow, Accounted

\* The sender keeps its reading: an attempt has failed and another follows, or
\* it begins.
LEMMA KeepStep ==
  ASSUME TypeOK, Flow, NEW p \in Procs, UNCHANGED <<life, readerVars, channel, clock, fate>>,
         \/ /\ sender[p].stage = "trying" /\ sender[p].attempt < MaxRetries
            /\ sender' = [sender EXCEPT ![p].stage = "backoff"]
            /\ copies' = copies \/ copies' = [copies EXCEPT ![sender[p].reading] = @ + 1]
         \/ Retry(p)
  PROVE  Flow'
<1> DEFINE n == sender[p].reading
<1>1. sender[p].stage \in {"trying", "backoff"} /\ n \in Readings /\ SenderKnown(p)
  BY SenderReading DEF Retry, Flow, CopiesCounted
<1>2. copies' = copies \/ copies' = [copies EXCEPT ![n] = @ + 1]
  BY DEF Retry
<1>3. /\ \A m \in Readings : m # n => copies'[m] = copies[m]
      /\ copies'[n] \in Nat /\ copies'[n] <= copies[n] + 1
      /\ \A q \in Procs : \A i \in DOMAIN channel[q] : channel[q][i] # n /\ copies'[channel[q][i]] = 0
      /\ \A q \in Procs : q # p => sender[q].reading # n
      /\ \A q \in Procs : HasRow(q) => Current(q) # n
  BY <1>1, <1>2, CopiesKept
<1>4. UNCHANGED <<life, reader, rows, line, channel, clock, fate>>
  BY DEF readerVars
<1>5. /\ \A q \in Procs : q # p => sender'[q] = sender[q]
      /\ sender'[p].reading = n /\ sender'[p].stage \in {"trying", "backoff"}
  BY DEF Retry, TypeOK, Senders
<1>6. \A q \in Procs : Pending(q)' = Pending(q) /\ sender'[q].reading = sender[q].reading
  BY <1>1, <1>4, <1>5 DEF Pending, Range
<1>7. \A q \in Procs : HasRow(q)' = HasRow(q) /\ Current(q)' = Current(q)
  BY <1>4 DEF HasRow, Current
<1>8. copies[n] \in Nat /\ sender[p].attempt \in 0 .. MaxRetries
  BY <1>1, BoundsAssumption DEF TypeOK, Senders
<1>9. SenderKnown(p)'
  <2>1. CASE /\ sender[p].stage = "trying" /\ sender[p].attempt < MaxRetries
             /\ sender' = [sender EXCEPT ![p].stage = "backoff"]
    <3>1. /\ sender'[p].stage = "backoff" /\ sender'[p].attempt = sender[p].attempt
      BY <2>1 DEF TypeOK, Senders
    <3>2. copies'[n] <= sender[p].attempt + 1
      BY <1>1, <1>3, <1>8, <2>1, BoundsAssumption DEF SenderKnown
    <3> QED
      BY <1>1, <1>5, <2>1, <3>1, <3>2 DEF SenderKnown
  <2>2. CASE Retry(p)
    <3>1. /\ sender'[p].stage = "trying" /\ sender'[p].attempt = sender[p].attempt + 1
          /\ copies' = copies /\ sender[p].stage = "backoff"
      BY <2>2 DEF Retry, TypeOK, Senders
    <3> QED
      BY <1>1, <1>5, <3>1 DEF SenderKnown
  <2> QED
    BY <2>1, <2>2
<1>10. copies'[n] <= MaxRetries + 1
  <2>1. CASE copies' = copies
    BY <1>1, <2>1 DEF Flow, CopiesBounded
  <2>2. CASE sender[p].stage = "trying"
    BY <1>1, <1>3, <1>8, <2>2, BoundsAssumption DEF SenderKnown
  <2> QED
    BY <2>1, <2>2 DEF Retry
<1> HIDE DEF n
<1>11. InOrder'
  BY <1>4, <1>6, <1>7 DEF Flow, Accounted, InOrder
<1>12. EverySentPending'
  BY <1>4, <1>6 DEF Flow, Accounted, EverySentPending
<1>13. CopiesBounded'
  BY <1>3, <1>10 DEF Flow, CopiesBounded
<1>14. RowInHand'
  BY <1>4, <1>6, <1>7 DEF Flow, RowInHand
<1>15. OneOwner'
  BY <1>6, <1>7 DEF Flow, OneOwner
<1>16. CopiesCounted'
  <2>1. ASSUME NEW q \in Procs, q # p PROVE SenderKnown(q)'
    <3>1. SenderKnown(q) /\ (sender[q].stage \in {"trying", "backoff"} => sender[q].reading \in Readings)
      BY DEF Flow, CopiesCounted, SenderKnown
    <3> QED
      BY <1>3, <1>5, <2>1, <3>1 DEF SenderKnown
  <2>2. fate[n] = "sent"
    BY <1>1, PendingIs, PendingTypes DEF n
  <2>3. \A m \in Readings : (m > clock => fate[m] = "none") /\ (fate[m] = "none" => copies'[m] = 0)
    BY <1>3, <2>2 DEF Flow, CopiesCounted
  <2> QED
    BY <1>3, <1>4, <1>9, <2>1, <2>3 DEF CopiesCounted
<1>17. DownIsEmpty'
  BY <1>1, <1>4, <1>5 DEF Flow, DownIsEmpty
<1> QED
  BY <1>11, <1>12, <1>13, <1>14, <1>15, <1>16, <1>17 DEF Flow, Accounted

\* A process starts: it has nothing in hand, nothing in its channel.
LEMMA StartStep == ASSUME TypeOK, Flow, NEW p \in Procs, Start(p) PROVE Flow'
<1>1. /\ life[p] = "down" /\ reader[p] = "returned" /\ channel[p] = <<>>
      /\ sender[p].stage = "returned" /\ sender[p].reading = 0
  BY DEF Start, Flow, DownIsEmpty, CopiesCounted, SenderKnown
<1>2. /\ UNCHANGED <<channel, clock, fate, copies>>
      /\ \A q \in Procs : q # p => /\ reader'[q] = reader[q] /\ rows'[q] = rows[q]
                                   /\ line'[q] = line[q] /\ sender'[q] = sender[q]
                                   /\ life'[q] = life[q]
      /\ life'[p] = "up"
  BY DEF Start, TypeOK
<1>3. reader'[p] \in {"start", "returned"}
  BY <1>1 DEF Start, TypeOK
<1>4. sender'[p].stage \in {"idle", "returned"} /\ sender'[p].reading = 0
  BY <1>1 DEF Start, TypeOK, Resting
<1>5. \A q \in Procs : Pending(q)' = Pending(q)
  <2>1. \A q \in Procs : q # p => Pending(q)' = Pending(q)
    BY <1>2 DEF Pending, Range
  <2>2. Pending(p)' = Pending(p)
    BY <1>1, <1>2, <1>4 DEF Pending, Range
  <2> QED
    BY <2>1, <2>2
<1>6. ~HasRow(p)' /\ reader'[p] # "send"
  BY <1>3 DEF HasRow
<1>7. \A q \in Procs : q # p => HasRow(q)' = HasRow(q) /\ Current(q)' = Current(q)
  BY <1>2 DEF HasRow, Current
<1>8. DOMAIN channel[p] = {}
  <2>1. DOMAIN <<>> = {}
    OBVIOUS
  <2> QED
    BY <1>1, <2>1
<1>9. InOrder'
  <2>1. SUFFICES ASSUME NEW q \in Procs
                 PROVE /\ \A i \in DOMAIN channel[q] :
                            /\ fate[channel[q][i]] = "sent"
                            /\ sender'[q].reading < channel[q][i]
                            /\ \A j \in DOMAIN channel[q] :
                                 i < j => channel[q][i] < channel[q][j]
                       /\ sender'[q].reading # 0 => fate[sender'[q].reading] = "sent"
                       /\ reader'[q] = "send" => fate[Current(q)'] = "none"
    BY <1>2 DEF InOrder
  <2>2. CASE q = p
    BY <1>4, <1>6, <1>8, <2>2
  <2>3. CASE q # p
    BY <1>2, <1>7, <2>3 DEF Flow, Accounted, InOrder
  <2> QED
    BY <2>2, <2>3
<1>10. EverySentPending' /\ CopiesBounded'
  BY <1>2, <1>5 DEF Flow, Accounted, EverySentPending, CopiesBounded
<1>11. RowInHand'
  BY <1>2, <1>5, <1>6, <1>7 DEF Flow, RowInHand
<1>12. OneOwner'
  BY <1>5, <1>6, <1>7 DEF Flow, OneOwner
<1>13. CopiesCounted'
  <2>1. \A q \in Procs : SenderKnown(q)'
    BY <1>2, <1>4 DEF Flow, CopiesCounted, SenderKnown
  <2> QED
    BY <1>2, <2>1 DEF Flow, CopiesCounted
<1>14. DownIsEmpty'
  BY <1>2 DEF Flow, DownIsEmpty
<1> QED
  BY <1>9, <1>10, <1>11, <1>12, <1>13, <1>14 DEF Flow, Accounted

\* A process ends: what it had on its way is lost, what others have is not.
LEMMA ExitStep == ASSUME TypeOK, Flow, NEW p \in Procs, Exit(p) PROVE Flow'
<1>1. /\ UNCHANGED <<rows, line, clock>>
      /\ \A q \in Procs : q # p => /\ reader'[q] = reader[q] /\ channel'[q] = channel[q]
                                   /\ sender'[q] = sender[q] /\ life'[q] = life[q]
      /\ life'[p] = "down" /\ reader'[p] = "returned" /\ channel'[p] = <<>>
      /\ sender'[p] = [Resting EXCEPT !.stage = "returned"]
  BY DEF Exit, TypeOK, Resting
<1>2. \A n \in Readings : fate'[n] = IF n \in Pending(p) THEN "lost" ELSE fate[n]
  BY DEF Exit, Resting
<1>3. sender'[p].stage = "returned" /\ sender'[p].reading = 0
  BY <1>1 DEF Resting
<1>4. DOMAIN channel'[p] = {}
  <2>1. DOMAIN <<>> = {}
    OBVIOUS
  <2> QED
    BY <1>1, <2>1
<1>5. \A q \in Procs : q # p => Pending(q)' = Pending(q)
  BY <1>1 DEF Pending, Range
<1>6. Pending(p)' = {}
  BY <1>3, <1>4 DEF Pending, Range
<1>7. \A q \in Procs : q # p => \A n \in Pending(q) : n \in Readings /\ fate'[n] = "sent"
  BY <1>2, PendingTypes DEF Flow, OneOwner
<1>8. ~HasRow(p)' /\ reader'[p] # "send"
  BY <1>1 DEF HasRow
<1>9. \A q \in Procs : Current(q)' = Current(q) /\ (q # p => HasRow(q)' = HasRow(q))
  BY <1>1 DEF HasRow, Current
<1>10. \A q \in Procs : HasRow(q) => fate'[Current(q)] = "none"
  <2>1. SUFFICES ASSUME NEW q \in Procs, HasRow(q) PROVE fate'[Current(q)] = "none"
    OBVIOUS
  <2>2. Current(q) \in Readings /\ fate[Current(q)] = "none"
    BY <2>1, HandReading DEF Flow, RowInHand
  <2>3. Current(q) \notin Pending(p)
    BY <2>2, PendingTypes
  <2> QED
    BY <1>2, <2>2, <2>3
<1>11. InOrder'
  <2>1. SUFFICES ASSUME NEW q \in Procs
                 PROVE /\ \A i \in DOMAIN channel'[q] :
                            /\ fate'[channel'[q][i]] = "sent"
                            /\ sender'[q].reading < channel'[q][i]
                            /\ \A j \in DOMAIN channel'[q] :
                                 i < j => channel'[q][i] < channel'[q][j]
                       /\ sender'[q].reading # 0 => fate'[sender'[q].reading] = "sent"
                       /\ reader'[q] = "send" => fate'[Current(q)'] = "none"
    BY DEF InOrder
  <2>2. CASE q = p
    BY <1>3, <1>4, <1>8, <2>2
  <2>3. CASE q # p
    <3>1. \A i \in DOMAIN channel[q] : channel[q][i] \in Pending(q)
      BY PendingIs
    <3>2. sender[q].reading # 0 => sender[q].reading \in Pending(q)
      BY SenderReading, PendingIs
    <3>3. reader'[q] = "send" => fate'[Current(q)'] = "none"
      BY <1>1, <1>9, <1>10, <2>3 DEF HasRow
    <3> QED
      BY <1>1, <1>7, <2>3, <3>1, <3>2, <3>3 DEF Flow, Accounted, InOrder
  <2> QED
    BY <2>2, <2>3
<1>12. EverySentPending'
  <2>1. SUFFICES ASSUME NEW n \in Readings, fate'[n] = "sent"
                 PROVE  \E q \in Procs : n \in Pending(q)'
    BY DEF EverySentPending
  <2>2. n \notin Pending(p) /\ fate[n] = "sent"
    BY <1>2, <2>1
  <2>3. PICK q \in Procs : n \in Pending(q)
    BY <2>2 DEF Flow, Accounted, EverySentPending
  <2> QED
    BY <1>5, <2>2, <2>3
<1>13. /\ CopiesBounded'
       /\ \A n \in Readings : fate[n] # "sent" => copies'[n] = copies[n]
       /\ \A q \in Procs : q # p /\ sender[q].reading \in Readings =>
            copies'[sender[q].reading] = copies[sender[q].reading]
       /\ \A q \in Procs : \A i \in DOMAIN channel[q] : copies'[channel[q][i]] = 0
  <2>1. CASE copies' = copies
    BY <2>1 DEF Flow, CopiesBounded, CopiesCounted
  <2>2. CASE sender[p].stage = "trying" /\ MayStore(p)
    <3> DEFINE n == sender[p].reading
    <3>1. n \in Readings /\ n \in Pending(p) /\ fate[n] = "sent"
      BY <2>2, SenderReading, PendingIs, PendingTypes
    <3>2. copies' = copies \/ copies' = [copies EXCEPT ![n] = @ + 1]
      BY <2>2, <3>1, StoresOrNot
    <3>3. copies[n] <= sender[p].attempt /\ sender[p].attempt <= MaxRetries
      BY <2>2, BoundsAssumption DEF Flow, CopiesCounted, SenderKnown, TypeOK, Senders
    <3>4. /\ \A m \in Readings : m # n => copies'[m] = copies[m]
          /\ copies'[n] \in Nat /\ copies'[n] <= copies[n] + 1
          /\ \A q \in Procs : \A i \in DOMAIN channel[q] : copies'[channel[q][i]] = 0
          /\ \A q \in Procs : q # p => sender[q].reading # n
      BY <2>2, <3>1, <3>2, CopiesKept
    <3>5. copies[n] \in Int /\ sender[p].attempt \in Int
      BY <3>1, BoundsAssumption DEF TypeOK, Senders
    <3>6. copies'[n] <= MaxRetries + 1
      BY <3>3, <3>4, <3>5, BoundsAssumption
    <3> HIDE DEF n
    <3>7. CopiesBounded'
      BY <3>4, <3>6 DEF Flow, CopiesBounded
    <3>8. \A q \in Procs : q # p /\ sender[q].reading \in Readings =>
            copies'[sender[q].reading] = copies[sender[q].reading]
      BY <3>4
    <3>9. \A m \in Readings : fate[m] # "sent" => copies'[m] = copies[m]
      BY <3>1, <3>4
    <3> QED
      BY <3>4, <3>7, <3>8, <3>9
  <2> QED
    BY <2>1, <2>2 DEF Exit
<1>14. RowInHand'
  BY <1>1, <1>5, <1>8, <1>9, <1>10 DEF Flow, RowInHand
<1>15. OneOwner'
  BY <1>5, <1>6, <1>8, <1>9 DEF Flow, OneOwner
<1>16. CopiesCounted'
  <2>1. ASSUME NEW q \in Procs PROVE SenderKnown(q)'
    <3>1. CASE q = p
      BY <1>3, <3>1 DEF SenderKnown
    <3>2. CASE q # p
      <4>1. SenderKnown(q) /\ sender'[q] = sender[q]
        BY <1>1, <3>2 DEF Flow, CopiesCounted
      <4>2. sender[q].reading \in Readings => copies'[sender[q].reading] = copies[sender[q].reading]
        BY <1>13, <3>2
      <4> QED
        BY <4>1, <4>2 DEF SenderKnown
    <3> QED
      BY <3>1, <3>2
  <2>2. \A n \in Readings : fate'[n] = "none" => fate[n] = "none"
    BY <1>2
  <2>3. \A n \in Readings : n > clock => fate'[n] = "none"
    BY <1>2, PendingTypes DEF Flow, CopiesCounted
  <2>4. \A q \in Procs : \A i \in DOMAIN channel'[q] : copies'[channel'[q][i]] = 0
    BY <1>1, <1>4, <1>13
  <2>5. \A n \in Readings : fate'[n] = "none" => copies'[n] = 0
    BY <1>13, <2>2 DEF Flow, CopiesCounted
  <2> QED
    BY <1>1, <2>1, <2>3, <2>4, <2>5 DEF Flow, CopiesCounted
<1>17. DownIsEmpty'
  BY <1>1, <1>3 DEF Flow, DownIsEmpty
<1> QED
  BY <1>11, <1>12, <1>13, <1>14, <1>15, <1>16, <1>17 DEF Flow, Accounted

\* An attempt ends the reading's way, or is followed by another.
LEMMA AttemptStep ==
  ASSUME TypeOK, Flow, NEW p \in Procs, AttemptEnds(p) \/ Retry(p) \/ GiveUp(p)
  PROVE  Flow'
<1>1. /\ sender[p].stage \in {"trying", "backoff"}
      /\ UNCHANGED <<life, readerVars, channel, clock>>
  BY DEF AttemptEnds, Published, Refused, Failed, Retry, GiveUp
<1>2. sender[p].reading \in Readings
  BY <1>1, SenderReading
<1>3. MayStore(p) => copies' = copies \/ copies' = [copies EXCEPT ![sender[p].reading] = @ + 1]
  BY <1>2, StoresOrNot
<1>4. CASE Published(p) \/ Refused(p) \/ GiveUp(p)
  BY <1>1, <1>4, ConcludeStep DEF Published, Refused, GiveUp
<1>5. CASE Failed(p) /\ ~(sender[p].attempt < MaxRetries)
  BY <1>1, <1>3, <1>5, ConcludeStep DEF Failed
<1>6. CASE Failed(p) /\ sender[p].attempt < MaxRetries
  BY <1>1, <1>3, <1>6, KeepStep DEF Failed
<1>7. CASE Retry(p)
  <2>1. fate' = fate
    BY <1>7 DEF Retry
  <2> QED
    BY <1>1, <1>7, <2>1, KeepStep
<1> QED
  BY <1>4, <1>5, <1>6, <1>7 DEF AttemptEnds

\* Every step preserves the invariant.
LEMMA IInvStep == IInv /\ [Next]_vars => IInv'
<1> SUFFICES ASSUME TypeOK, Flow, [Next]_vars PROVE TypeOK' /\ Flow'
  BY DEF IInv, Flow
<1>1. ASSUME UNCHANGED vars PROVE TypeOK' /\ Flow'
  <2>1. TypeOK'
    BY <1>1 DEF vars, csvVars, readerVars, TypeOK
  <2>2. Flow'
    BY <1>1, QuietStep DEF vars, readerVars, HasRow
  <2> QED
    BY <2>1, <2>2
<1>2. ASSUME NEW p \in Procs, ReaderStep(p) PROVE TypeOK' /\ Flow'
  <2>1. TypeOK'
    BY <1>2, ReaderTypes DEF Flow
  <2>2. CASE WriterStep(p) \/ ReaderReturns(p)
    <3>1. /\ UNCHANGED <<life, rows, line, channel, sender, clock, fate, copies>>
          /\ \A q \in Procs : HasRow(q)' => HasRow(q)
          /\ life[p] # "down"
      <4>1. UNCHANGED <<life, rows, line, channel, sender, clock, fate, copies>>
        BY <2>2 DEF WriterStep, CreateTmp, WriteLine, RenameTmp, DiskFails, ReaderReturns
      <4>2. \A q \in Procs : HasRow(q)' => HasRow(q)
        BY <2>2 DEF HasRow, WriterStep, CreateTmp, WriteLine, RenameTmp, DiskFails,
                    ReaderReturns, TypeOK
      <4>3. reader[p] # "returned"
        BY <2>2 DEF WriterStep, CreateTmp, WriteLine, RenameTmp, DiskFails, ReaderReturns
      <4> QED
        BY <4>1, <4>2, <4>3 DEF Flow, DownIsEmpty
    <3>2. \A q \in Procs : q # p => reader'[q] = reader[q]
      BY <2>2 DEF WriterStep, CreateTmp, WriteLine, RenameTmp, DiskFails, ReaderReturns, TypeOK
    <3>3. \A q \in Procs : life'[q] = "down" => reader'[q] = reader[q]
      BY <3>1, <3>2
    <3> QED
      BY <2>1, <3>1, <3>3, QuietStep
  <2> QED
    BY <1>2, <2>1, <2>2, StampStep, SendStep DEF ReaderStep
<1>3. ASSUME NEW p \in Procs, SenderStep(p) PROVE TypeOK' /\ Flow'
  <2>1. TypeOK'
    BY <1>3, SenderTypes DEF Flow
  <2>2. CASE SenderReturns(p)
    <3>1. /\ UNCHANGED <<life, reader, rows, line, channel, clock, fate, copies>>
          /\ sender[p].stage = "idle" /\ sender'[p].stage = "returned"
          /\ sender'[p].reading = sender[p].reading
          /\ \A q \in Procs : q # p => sender'[q] = sender[q]
      BY <2>2 DEF SenderReturns, readerVars, TypeOK, Senders
    <3>2. life[p] # "down"
      BY <3>1 DEF Flow, DownIsEmpty
    <3>3. \A q \in Procs : HasRow(q)' => HasRow(q)
      BY <3>1 DEF HasRow
    <3> QED
      BY <2>1, <3>1, <3>2, <3>3, QuietStep
  <2> QED
    BY <1>3, <2>1, <2>2, TakeStep, AttemptStep DEF SenderStep
<1>4. ASSUME NEW p \in Procs, Start(p) \/ Signal(p) \/ Exit(p) PROVE TypeOK' /\ Flow'
  <2>1. TypeOK'
    BY <1>4, ProcessTypes DEF Flow
  <2>2. CASE Signal(p)
    <3>1. /\ UNCHANGED <<reader, rows, line, channel, sender, clock, fate, copies>>
          /\ \A q \in Procs : life'[q] = "down" => life[q] = "down"
      BY <2>2 DEF Signal, readerVars, TypeOK
    <3>2. \A q \in Procs : HasRow(q)' => HasRow(q)
      BY <3>1 DEF HasRow
    <3> QED
      BY <2>1, <3>1, <3>2, QuietStep
  <2> QED
    BY <1>4, <2>1, <2>2, StartStep, ExitStep
<1> QED
  BY <1>1, <1>2, <1>3, <1>4 DEF Next

LEMMA Invariance == Spec => []IInv
<1>1. Init => IInv
  BY TypeInit, FlowInit DEF IInv, Flow
<1> QED
  BY <1>1, IInvStep, PTL DEF Spec

\* Every variable keeps its type; in particular the channel holds
\* ChannelBuffer readings at most and no reading has more than MaxRetries + 1
\* copies.
THEOREM TypeCorrect == Spec => []TypeOK
<1>1. IInv => TypeOK
  BY DEF IInv
<1> QED
  BY <1>1, Invariance, PTL

\* Between readLoop and sender no reading is lost, doubled or overtaken, and
\* what becomes of each is known (streamer.go:98-145).
THEOREM NothingUnaccounted == Spec => []Accounted
<1>1. IInv => Accounted
  BY DEF IInv
<1> QED
  BY <1>1, Invariance, PTL

\* httpx.Client.Do makes MaxRetries + 1 attempts at most, and no reading is
\* published a second time, whatever the attempts that failed left behind.
THEOREM CopiesAreBounded == Spec => []CopiesBounded
<1>1. IInv => CopiesBounded
  BY DEF IInv
<1> QED
  BY <1>1, Invariance, PTL

-----------------------------------------------------------------------------
(* Refinement. *)

\* The sender is trying a reading that was sent, and has an attempt left.
LEMMA TriesSent ==
  ASSUME IInv, NEW p \in Procs, sender[p].stage \in {"trying", "backoff"}
  PROVE  /\ sender[p].reading \in Readings /\ fate[sender[p].reading] = "sent"
         /\ sender[p].stage = "trying" => copies[sender[p].reading] <= MaxRetries
<1>1. TypeOK /\ Flow
  BY DEF IInv, Flow
<1>2. sender[p].reading \in Pending(p)
  BY PendingIs
<1>3. sender[p].reading \in Readings /\ fate[sender[p].reading] = "sent"
  BY <1>1, <1>2, PendingTypes
<1>4. sender[p].stage = "trying" => copies[sender[p].reading] <= sender[p].attempt
  BY <1>1 DEF Flow, CopiesCounted, SenderKnown
<1>5. /\ copies[sender[p].reading] \in Int /\ sender[p].attempt \in Int
      /\ sender[p].attempt <= MaxRetries
  BY <1>1, <1>3, BoundsAssumption DEF TypeOK, Senders
<1> QED
  BY <1>3, <1>4, <1>5, BoundsAssumption

\* An attempt ends: it has stored the reading or not, and that was the reading's
\* end or not.
LEMMA AttemptReports ==
  ASSUME IInv, NEW p \in Procs, AttemptEnds(p) \/ GiveUp(p)
  PROVE  [Promise!Next]_(Promise!vars)
<1> DEFINE n == sender[p].reading
<1>1. TypeOK /\ fate \in [Readings -> {"none", "sent", "published", "dropped", "lost"}]
  BY DEF IInv, TypeOK
<1>2. n \in Readings /\ fate[n] = "sent"
  BY TriesSent DEF AttemptEnds, Published, Refused, Failed, GiveUp
<1>3. AttemptEnds(p) => copies[n] <= MaxRetries
  BY TriesSent DEF AttemptEnds, Published, Refused, Failed
<1> HIDE DEF n
<1>4. ASSUME copies[n] <= MaxRetries, copies' = [copies EXCEPT ![n] = @ + 1],
             NEW end \in {"sent", "published", "dropped"}, fate' = [fate EXCEPT ![n] = end]
      PROVE  Promise!Next
  BY <1>2, <1>4 DEF Promise!Next, Promise!Store
<1>5. ASSUME copies' = copies, fate' = [fate EXCEPT ![n] = "dropped"] PROVE Promise!Next
  BY <1>2, <1>5 DEF Promise!Next, Promise!Drop
<1>6. fate = [fate EXCEPT ![n] = "sent"]
  BY <1>1, <1>2
<1>7. CASE Published(p)
  BY <1>3, <1>4, <1>7 DEF Published, Conclude, AttemptEnds, n
<1>8. CASE Refused(p) \/ GiveUp(p)
  BY <1>5, <1>8 DEF Refused, GiveUp, Conclude, n
<1>9. CASE Failed(p)
  <2>1. copies' = copies \/ copies' = [copies EXCEPT ![n] = @ + 1]
    BY <1>1, <1>2, <1>9, StoresOrNot DEF Failed, n
  <2>2. fate' = fate \/ fate' = [fate EXCEPT ![n] = "dropped"]
    BY <1>9 DEF Failed, Conclude, n
  <2>3. CASE copies' = copies /\ fate' = fate
    BY <2>3 DEF Promise!vars
  <2> QED
    BY <1>3, <1>4, <1>5, <1>6, <1>9, <2>1, <2>2, <2>3 DEF AttemptEnds
<1> QED
  BY <1>7, <1>8, <1>9 DEF AttemptEnds

\* Every step is a step of the promise, or none.
LEMMA ReportingStep == ASSUME IInv, [Next]_vars PROVE [Promise!Next]_(Promise!vars)
<1>1. TypeOK /\ Flow
  BY DEF IInv, Flow
<1>2. CASE UNCHANGED <<fate, copies>>
  BY <1>2 DEF Promise!vars
<1>3. ASSUME NEW p \in Procs, Send(p) PROVE Promise!Next
  <2>1. Current(p) \in Readings /\ fate[Current(p)] = "none"
    BY <1>1, <1>3, HandReading DEF Send, HasRow, Flow, RowInHand
  <2>2. Promise!Send(Current(p))
    BY <1>3, <2>1 DEF Send, Promise!Send
  <2> QED
    BY <2>1, <2>2 DEF Promise!Next
<1>4. ASSUME NEW p \in Procs, Take(p), fate' # fate PROVE Promise!Next
  <2> DEFINE n == Head(channel[p])
  <2>1. n \in Pending(p)
    <3>1. channel[p] \in Seq(Readings) /\ channel[p] # <<>>
      BY <1>1, <1>4 DEF Take, TypeOK
    <3>2. 1 \in DOMAIN channel[p] /\ channel[p][1] = n
      BY <3>1
    <3> QED
      BY <3>2, PendingIs
  <2>2. n \in Readings /\ fate[n] = "sent"
    BY <1>1, <2>1, PendingTypes
  <2>3. fate' = [fate EXCEPT ![n] = "dropped"] /\ copies' = copies
    BY <1>4 DEF Take
  <2> HIDE DEF n
  <2> QED
    BY <2>2, <2>3 DEF Promise!Next, Promise!Drop
<1>5. ASSUME NEW p \in Procs, Exit(p) PROVE Promise!Next
  <2>1. \A n \in Pending(p) : n \in Readings /\ fate[n] = "sent"
    BY <1>1, PendingTypes
  <2>2. PICK R \in SUBSET Readings : R = Pending(p)
    BY <2>1
  <2>3. \/ copies' = copies
        \/ \E n \in R : copies[n] <= MaxRetries /\ copies' = [copies EXCEPT ![n] = @ + 1]
    <3>1. CASE sender[p].stage = "trying"
      <4>1. sender[p].reading \in Readings /\ copies[sender[p].reading] <= MaxRetries
        BY <3>1, TriesSent
      <4>2. sender[p].reading \in R
        BY <2>2, <3>1, PendingIs
      <4>3. copies' = copies \/ copies' = [copies EXCEPT ![sender[p].reading] = @ + 1]
        BY <1>1, <1>5, <3>1, <4>1, StoresOrNot DEF Exit
      <4> QED
        BY <4>1, <4>2, <4>3
    <3>2. CASE sender[p].stage # "trying"
      BY <1>5, <3>2 DEF Exit
    <3> QED
      BY <3>1, <3>2
  <2>4. Promise!Lose(R)
    BY <1>5, <2>1, <2>2, <2>3 DEF Exit, Promise!Lose
  <2> QED
    BY <2>4 DEF Promise!Next
<1>6. ASSUME NEW p \in Procs,
             Stamp(p) \/ WriterStep(p) \/ ReaderReturns(p) \/ Retry(p) \/ SenderReturns(p)
             \/ Start(p) \/ Signal(p)
      PROVE  UNCHANGED <<fate, copies>>
  BY <1>6 DEF Stamp, WriterStep, CreateTmp, WriteLine, RenameTmp, DiskFails, ReaderReturns,
              Retry, SenderReturns, Start, Signal
<1>7. ASSUME NEW p \in Procs, Take(p) PROVE copies' = copies
  BY <1>7 DEF Take
<1>8. CASE UNCHANGED vars
  BY <1>2, <1>8 DEF vars
<1>9. ASSUME NEW p \in Procs, SenderStep(p) PROVE [Promise!Next]_(Promise!vars)
  BY <1>2, <1>4, <1>6, <1>7, <1>9, AttemptReports DEF SenderStep
<1>10. ASSUME NEW p \in Procs, ReaderStep(p) PROVE [Promise!Next]_(Promise!vars)
  BY <1>2, <1>3, <1>6, <1>10 DEF ReaderStep
<1> QED
  BY <1>2, <1>5, <1>6, <1>8, <1>9, <1>10 DEF Next

\* In every step a reading is sent, an attempt stores it or not, it has its end,
\* or nothing of this (streamer.go:98-190, httpx/client.go:35-67): the streamer
\* implements Reporting, for any number of processes with one volume or several.
THEOREM Refinement == Spec => ImplementsReporting
<1>1. Init => Promise!Init
  BY DEF Init, Promise!Init
<1>2. IInv /\ [Next]_vars => [Promise!Next]_(Promise!vars)
  BY ReportingStep
<1> QED
  BY <1>1, <1>2, Invariance, PTL DEF Spec, ImplementsReporting, Promise!Spec

-----------------------------------------------------------------------------
(* The file, where no two processes share it. *)

OnePerVolume == \A p, q \in Procs : p = q

LEMMA FileInit == Init => FileInv
<1> SUFFICES ASSUME Init PROVE FileInv
  OBVIOUS
<1>1. TypeOK
  BY TypeInit
<1>2. csv \in Files /\ tmp = NoFile
  BY FilesAssumption DEF Init, CSVInit, Resting
<1>3. FileIsWhole
  BY <1>2 DEF Init, CSVInit, Resting, FileIsWhole, Whole, Missing
<1>4. \A p \in Procs : reader[p] = "returned"
  BY DEF Init, Resting
<1> QED
  BY <1>1, <1>2, <1>3, <1>4, FilesAssumption DEF FileInv, FileReflectsRows

\* While the file stays as it is, a reader that does not go on writing keeps
\* the invariant, if what it has rewritten it does not change.
LEMMA FileKept ==
  ASSUME FileInv, TypeOK', UNCHANGED <<content, csv, tmp>>,
         \A p \in Procs :
           \/ reader'[p] \in {"start", "create", "returned"}
           \/ reader'[p] = "send" /\ ~disk'[p]
           \/ /\ UNCHANGED <<rows[p], at[p], disk[p], fd[p]>>
              /\ reader'[p] = reader[p] \/ (reader[p] = "send" /\ reader'[p] = "pause")
  PROVE  FileInv'
<1>1. FileIsWhole'
  BY DEF FileInv, FileIsWhole, Whole, Lines
<1>2. FileReflectsRows'
  BY DEF FileInv, FileReflectsRows
<1>3. \A p \in Procs :
         /\ reader'[p] \in {"write", "rename"} => tmp' # NoFile /\ fd'[p] = tmp'
         /\ reader'[p] = "write" => \A i \in Lines : i < at'[p] => content'[tmp'][i] = rows'[p][i]
         /\ reader'[p] = "rename" => content'[tmp'] = rows'[p]
  BY DEF FileInv
<1> QED
  BY <1>1, <1>2, <1>3 DEF FileInv

\* WriteCSV: only the temporary file is written, and it takes the name of the
\* original when it holds every row.
LEMMA WriterKeeps ==
  ASSUME OnePerVolume, FileInv, TypeOK', NEW p \in Procs, WriterStep(p)
  PROVE  FileInv'
<1> USE DEF TypeOK
<1>1. TypeOK /\ csv \in Files /\ tmp # csv /\ UNCHANGED rows /\ UNCHANGED line
  BY DEF FileInv, WriterStep, CreateTmp, WriteLine, RenameTmp, DiskFails
<1>2. \A q \in Procs : q = p
  BY DEF OnePerVolume
<1>3. CASE CreateTmp(p)
  <2>1. tmp' \in Files /\ tmp' # csv /\ csv' = csv /\ tmp' # NoFile
    BY <1>1, <1>3, FilesAssumption DEF CreateTmp, Create, Unused
  <2>2. content'[csv] = content[csv] /\ fd'[p] = tmp'
    BY <1>1, <1>3, <2>1 DEF CreateTmp, Create
  <2>3. reader'[p] = "write" /\ at'[p] = 1
    BY <1>1, <1>3 DEF CreateTmp
  <2>4. FileIsWhole'
    BY <2>1, <2>2 DEF FileInv, FileIsWhole, Whole, Lines, Missing
  <2>5. \A i \in Lines : ~(i < 1)
    BY DEF Lines
  <2> QED
    BY <1>2, <2>1, <2>2, <2>3, <2>4, <2>5 DEF FileInv, FileReflectsRows
<1>4. CASE WriteLine(p)
  <2>1. /\ UNCHANGED <<csv, tmp, fd>> /\ fd[p] = tmp /\ tmp \in Files /\ at[p] \in Lines
        /\ content' = [content EXCEPT ![tmp][at[p]] = rows[p][at[p]]]
        /\ \A i \in Lines : i < at[p] => content[tmp][i] = rows[p][i]
    BY <1>1, <1>4 DEF WriteLine, Write, FileInv
  <2>2. content'[csv] = content[csv]
    BY <1>1, <2>1
  <2>3. \A i \in Lines : content'[tmp][i] = IF i = at[p] THEN rows[p][i] ELSE content[tmp][i]
    BY <1>1, <2>1
  <2>4. FileIsWhole'
    BY <2>1, <2>2 DEF FileInv, FileIsWhole, Whole, Lines, Missing
  <2>5. CASE at[p] < NumRows
    <3>1. at'[p] = at[p] + 1 /\ reader'[p] = "write" /\ tmp # NoFile
      BY <1>1, <1>4, <2>5 DEF WriteLine, FileInv
    <3>2. \A i \in Lines : i < at'[p] => i < at[p] \/ i = at[p]
      BY <2>1, <3>1 DEF Lines
    <3>3. \A i \in Lines : i < at'[p] => content'[tmp][i] = rows[p][i]
      BY <2>1, <2>3, <3>2
    <3> QED
      BY <1>1, <1>2, <2>1, <2>4, <3>1, <3>3 DEF FileInv, FileReflectsRows
  <2>6. CASE ~(at[p] < NumRows)
    <3>1. reader'[p] = "rename" /\ tmp # NoFile
      BY <1>1, <1>4, <2>6 DEF WriteLine, FileInv
    <3>2. \A i \in Lines : i < at[p] \/ i = at[p]
      BY <2>1, <2>6, RowsAssumption DEF Lines
    <3>3. \A i \in Lines : content'[tmp][i] = rows[p][i]
      BY <2>1, <2>3, <3>2
    <3>4. content'[tmp] \in [Lines -> {Missing} \cup 0 .. MaxReadings] /\ rows[p] \in [Lines -> 0 .. MaxReadings]
      BY <1>1, <2>1
    <3>5. content'[tmp] = rows[p]
      BY <3>3, <3>4
    <3> QED
      BY <1>1, <1>2, <2>1, <2>4, <3>1, <3>5 DEF FileInv, FileReflectsRows
  <2> QED
    BY <2>5, <2>6
<1>5. CASE RenameTmp(p)
  <2>1. csv' = tmp /\ tmp' = NoFile /\ content' = content /\ content[tmp] = rows[p] /\ tmp \in Files
    BY <1>1, <1>5 DEF RenameTmp, Rename, FileInv
  <2>2. reader'[p] = "send"
    BY <1>1, <1>5 DEF RenameTmp
  <2>3. rows[p] \in [Lines -> 0 .. MaxReadings]
    BY <1>1
  <2>4. FileIsWhole'
    <3>1. \A i \in Lines : rows[p][i] # Missing
      BY <2>3, BoundsAssumption DEF Missing
    <3>2. \A i \in Lines : content'[csv'][i] # Missing
      BY <2>1, <3>1
    <3> QED
      BY <3>2 DEF FileIsWhole, Whole, Lines, Missing
  <2>5. FileReflectsRows'
    BY <1>1, <1>2, <2>1 DEF FileReflectsRows
  <2> QED
    BY <1>2, <2>1, <2>2, <2>4, <2>5, FilesAssumption DEF FileInv
<1>6. CASE DiskFails(p)
  <2>1. UNCHANGED <<content, csv>> /\ tmp' \in {tmp, NoFile} /\ reader'[p] = "send" /\ ~disk'[p]
    BY <1>1, <1>6 DEF DiskFails, Discard
  <2>2. FileIsWhole'
    BY <2>1 DEF FileInv, FileIsWhole, Whole, Lines, Missing
  <2> QED
    BY <1>1, <1>2, <2>1, <2>2, FilesAssumption DEF FileInv, FileReflectsRows
<1> QED
  BY <1>3, <1>4, <1>5, <1>6 DEF WriterStep

LEMMA FileStep == ASSUME OnePerVolume, IInv, FileInv, [Next]_vars PROVE FileInv'
<1>1. TypeOK /\ TypeOK'
  BY IInvStep DEF IInv
<1>2. CASE UNCHANGED vars
  BY <1>1, <1>2, FileKept DEF vars, csvVars, readerVars
<1>3. ASSUME NEW p \in Procs, ReaderStep(p) PROVE FileInv'
  <2>1. CASE Stamp(p)
    <3>1. /\ UNCHANGED <<content, csv, tmp>>
          /\ reader'[p] = "create" \/ (reader'[p] = "send" /\ ~disk'[p])
      BY <1>1, <2>1 DEF Stamp, csvVars, TypeOK
    <3> QED
      BY <1>1, <3>1, FileKept DEF OnePerVolume
  <2>2. CASE Send(p) \/ ReaderReturns(p)
    <3>1. /\ UNCHANGED <<content, csv, tmp, fd, rows, at, disk>>
          /\ reader'[p] = "returned" \/ (reader[p] = "send" /\ reader'[p] = "pause")
      BY <1>1, <2>2 DEF Send, ReaderReturns, csvVars, TypeOK
    <3> QED
      BY <1>1, <3>1, FileKept DEF OnePerVolume
  <2> QED
    BY <1>1, <1>3, <2>1, <2>2, WriterKeeps DEF ReaderStep
<1>4. ASSUME NEW p \in Procs, SenderStep(p) \/ Signal(p) PROVE FileInv'
  <2>1. UNCHANGED <<content, csv, tmp, fd, rows, at, disk, reader>>
    BY <1>4 DEF SenderStep, Take, AttemptEnds, Published, Refused, Failed, Retry, GiveUp,
                SenderReturns, Signal, csvVars, readerVars
  <2> QED
    BY <1>1, <2>1, FileKept
<1>5. ASSUME NEW p \in Procs, Start(p) \/ Exit(p) PROVE FileInv'
  <2>1. UNCHANGED <<content, csv, tmp>>
    BY <1>5 DEF Start, Exit, Close, csvVars
  <2>2. reader'[p] \in {"start", "returned"}
    BY <1>1, <1>5 DEF Start, Exit, IInv, DownIsEmpty, TypeOK
  <2> QED
    BY <1>1, <2>1, <2>2, FileKept DEF OnePerVolume
<1> QED
  BY <1>2, <1>3, <1>4, <1>5 DEF Next

\* A crash, an error or a signal at whatever step of WriteCSV leaves a file that
\* the next ReadCSV takes, for any number of rows (csv.go:105-163).
THEOREM FileStaysWhole == ASSUME OnePerVolume PROVE Spec => []FileIsWhole
<1>1. Init => FileInv
  BY FileInit
<1>2. IInv /\ IInv' /\ FileInv /\ [Next]_vars => FileInv'
  BY FileStep
<1>3. FileInv => FileIsWhole
  BY DEF FileInv
<1> QED
  BY <1>1, <1>2, <1>3, Invariance, PTL DEF Spec

\* As long as no rewrite has failed, every row that was sent is in the file with
\* its time stamp (streamer.go:98-130).
THEOREM FileIsCurrent == ASSUME OnePerVolume PROVE Spec => []FileReflectsRows
<1>1. Init => FileInv
  BY FileInit
<1>2. IInv /\ IInv' /\ FileInv /\ [Next]_vars => FileInv'
  BY FileStep
<1>3. FileInv => FileReflectsRows
  BY DEF FileInv
<1> QED
  BY <1>1, <1>2, <1>3, Invariance, PTL DEF Spec

=============================================================================
