------------------------------- MODULE CSVFile -------------------------------
(***************************************************************************)
(* The telemetry CSV on its volume, as WriteCSV rewrites it                *)
(* (internal/streamer/csv.go): into path.tmp, which is then renamed over   *)
(* the original.  A file is a function from its lines to the time stamp    *)
(* each carries; a name of the directory is a variable that holds a file.  *)
(*                                                                         *)
(* Processes that have the same path share both names (a streamer chart    *)
(* with pvc.enabled mounts one volume into every replica): creating        *)
(* path.tmp truncates the file another one is still writing.               *)
(*                                                                         *)
(* A line that was written survives the process.  Nothing is said of the   *)
(* machine: WriteCSV renames without f.Sync, and what a host that loses    *)
(* its power finds under the path depends on the file system.              *)
(***************************************************************************)
EXTENDS Integers

CONSTANTS
    Procs,    \* processes with this path
    NumRows,  \* data rows of the CSV
    Files,    \* files (inodes) of the volume
    NoFile    \* a name that does not exist, a descriptor that is closed

ASSUME RowsAssumption  == NumRows \in Nat \ {0}
ASSUME FilesAssumption == NoFile \notin Files /\ Files # {}

VARIABLES
    content,  \* file -> line -> its stamp, or Missing
    csv,      \* the file under path
    tmp,      \* the file under path.tmp
    fd        \* process -> the file it writes

csvVars == <<content, csv, tmp, fd>>

Lines   == 1 .. NumRows
Missing == -1
Blank   == [i \in Lines |-> Missing]

Whole(f) == \A i \in Lines : content[f][i] # Missing
Unused   == Files \ ({csv, tmp} \cup {fd[p] : p \in Procs})

\* The file as it is shipped: placeholders instead of time stamps, which are
\* read as the zero time.
CSVInit ==
    /\ csv = (CHOOSE f \in Files : TRUE) /\ tmp = NoFile /\ fd = [p \in Procs |-> NoFile]
    /\ content = [f \in Files |-> [i \in Lines |-> IF f = csv THEN 0 ELSE Missing]]

\* mutant: os.Create(path)
CreateInPlace(p) ==
    /\ fd' = [fd EXCEPT ![p] = csv]
    /\ content' = [content EXCEPT ![csv] = Blank]
    /\ UNCHANGED <<csv, tmp>>

\* os.Create(tmp): what the name holds is truncated, whoever is writing it.
Create(p) ==
    /\ tmp' \in IF tmp = NoFile THEN Unused ELSE {tmp}
    /\ fd' = [fd EXCEPT ![p] = tmp']
    /\ content' = [content EXCEPT ![tmp'] = Blank]
    /\ UNCHANGED csv

\* Line i reaches the file.
Write(p, i, stamp) ==
    /\ content' = [content EXCEPT ![fd[p]][i] = stamp]
    /\ UNCHANGED <<csv, tmp, fd>>

Close(p) == fd' = [fd EXCEPT ![p] = NoFile]

\* f.Close, os.Rename(tmp, path): whichever file has the name now.
Rename(p) ==
    /\ tmp # NoFile /\ csv' = tmp /\ tmp' = NoFile
    /\ Close(p) /\ UNCHANGED content

\* An error: the temporary file is removed; os.Rename leaves it, or it is gone.
Discard(p) ==
    /\ tmp' \in {tmp, NoFile}
    /\ Close(p) /\ UNCHANGED <<content, csv>>

=============================================================================
