------------------------------ MODULE WorkLog ------------------------------
(***************************************************************************)
(* internal/logging: DailyCSVWriter over CSVWriter over encoding/csv, and  *)
(* the worklog files it appends to, across runs of the program.            *)
(*                                                                         *)
(* A day stands for its file, YYYY-MM-DD.worklog.  WriteSample buffers a   *)
(* row; encoding/csv (external) passes whole buffers on to the file, its   *)
(* first error is permanent, and a write that fails, or a process that     *)
(* dies, leaves any prefix of the buffer behind, the last row possibly     *)
(* torn; a buffer that is passed on early counts as buffered until Flush.  *)
(* The system clock may be set, so any day can follow any other.           *)
(* As runCollector does, the caller stops at the first error and closes.   *)
(***************************************************************************)
EXTENDS Naturals, SequencesExt

CONSTANTS Days, NoDay,
          MaxRows,   \* bound: rows over all runs
          MaxRuns    \* bound: runs of the program

ASSUME DaysAssumption   == NoDay \notin Days
ASSUME BoundsAssumption == MaxRows \in Nat /\ MaxRuns \in Nat

VARIABLES
    disk,     \* per day, what its file holds
    phase,    \* "down", "up", "failed": an error was returned
    path,     \* w.currentPath
    file,     \* w.file, and the file w.writer writes to
    fds,      \* external: the files the process has open
    buf,      \* rows buffered in w.writer
    broken,   \* external: the permanent error of w.writer
    next,     \* the next row's number
    runs,     \* the number of this run
    acked,    \* history: rows whose Flush, or final Close, returned nil
    begun     \* history: days on which a run began

vars == <<disk, phase, path, file, fds, buf, broken, next, runs, acked, begun>>

Row  == [id : 1..MaxRows, day : Days, by : 1..MaxRuns]
Line == [row : Row, whole : BOOLEAN]

TypeOK ==
    /\ disk \in [Days -> Seq(Line)]
    /\ phase \in {"down", "up", "failed"}
    /\ path \in Days \cup {NoDay} /\ file \in Days \cup {NoDay}
    /\ fds \subseteq Days
    /\ buf \in Seq(Row) /\ broken \in BOOLEAN
    /\ next \in 1..(MaxRows + 1) /\ runs \in 0..MaxRuns
    /\ acked \subseteq Row /\ begun \subseteq Days

Init ==
    /\ disk = [d \in Days |-> <<>>]
    /\ phase = "down" /\ path = NoDay /\ file = NoDay /\ fds = {}
    /\ buf = <<>> /\ broken = FALSE
    /\ next = 1 /\ runs = 0 /\ acked = {} /\ begun = {}

-----------------------------------------------------------------------------
(* The first n rows of b reach the file, and with them perhaps a part of   *)
(* the row after them.                                                     *)
Written(b, n, torn) ==
    LET m == IF torn THEN n + 1 ELSE n
    IN  [disk EXCEPT ![file] = @ \o [i \in 1..m |-> [row |-> b[i], whole |-> i <= n]]]

(* Mutant: csv.Writer.Error is not asked. *)
FlushUnchecked ==
    /\ ~broken
    /\ buf = <<>> \/ file \in fds
    /\ IF buf = <<>> THEN UNCHANGED disk
                     ELSE \E n \in 0..Len(buf) : disk' = Written(buf, n, FALSE)

(* CSVWriter.Flush *)
FlushOk ==
    /\ ~broken
    /\ buf = <<>> \/ file \in fds
    /\ disk' = IF buf = <<>> THEN disk ELSE Written(buf, Len(buf), FALSE)

(* Passing the rows of b on fails. *)
Fails(b) ==
    /\ broken' = TRUE
    /\ buf' = b
    /\ \/ (broken \/ (b # <<>> /\ file \notin fds)) /\ UNCHANGED disk
       \/ /\ ~broken /\ file \in fds
          /\ \E n \in 0..(Len(b) - 1), torn \in BOOLEAN : disk' = Written(b, n, torn)
    /\ UNCHANGED acked

FlushFails == Fails(buf)

-----------------------------------------------------------------------------
(* NewDailyCSVWriter opens the file of the day it is called on; when that  *)
(* fails there is no collector.                                            *)
Open(d) ==
    /\ phase = "down" /\ runs < MaxRuns
    /\ runs' = runs + 1 /\ begun' = begun \cup {d}
    /\ \/ /\ phase' = "up"
          /\ path' = d /\ file' = d /\ fds' = {d}
          /\ buf' = <<>> /\ broken' = FALSE
       \/ UNCHANGED <<phase, path, file, fds, buf, broken>>
    /\ UNCHANGED <<disk, next, acked>>

NextRow(d) == [id |-> next, day |-> d, by |-> runs]

(* WriteSample on the day whose file is open. *)
Write(d) ==
    /\ phase = "up" /\ next <= MaxRows
    /\ d = path
    /\ buf' = Append(buf, NextRow(d))
    /\ next' = next + 1
    /\ UNCHANGED <<disk, phase, path, file, fds, broken, runs, acked, begun>>

(* A row that fills the buffer goes to the file at once, which may fail. *)
WriteFails(d) ==
    /\ phase = "up" /\ next <= MaxRows
    /\ d = path
    /\ Fails(Append(buf, NextRow(d)))
    /\ phase' = "failed" /\ next' = next + 1
    /\ UNCHANGED <<path, file, fds, runs, begun>>

(* Mutant: the buffered rows go along to the new file. *)
RotateUnflushed(d) ==
    /\ phase = "up" /\ next <= MaxRows
    /\ d # path
    /\ path' = d /\ file' = d /\ fds' = (fds \ {file}) \cup {d}
    /\ buf' = Append(buf, NextRow(d))
    /\ next' = next + 1
    /\ UNCHANGED <<disk, phase, broken, runs, acked, begun>>

(* Mutant: a flush that fails does not stop the rotation. *)
RotateRegardless(d) ==
    /\ phase = "up" /\ next <= MaxRows
    /\ d # path
    /\ \/ FlushOk
       \/ \E n \in 0..(Len(buf) - 1) : disk' = Written(buf, n, TRUE)
    /\ path' = d /\ file' = d /\ fds' = (fds \ {file}) \cup {d}
    /\ buf' = <<NextRow(d)>>
    /\ next' = next + 1
    /\ UNCHANGED <<phase, broken, runs, acked, begun>>

(* openFor, then WriteSample: flush the old file, open the new, close the  *)
(* old, and only then switch over.                                         *)
Rotate(d) ==
    /\ phase = "up" /\ next <= MaxRows
    /\ d # path
    /\ FlushOk
    /\ path' = d /\ file' = d /\ fds' = (fds \ {file}) \cup {d}
    /\ buf' = <<NextRow(d)>>
    /\ next' = next + 1
    /\ UNCHANGED <<phase, broken, runs, acked, begun>>

(* Mutant: the new file stays open when closing the old one fails. *)
RotateFailsLeaking(d) ==
    /\ phase = "up" /\ next <= MaxRows
    /\ d # path
    /\ phase' = "failed"
    /\ \/ FlushFails /\ UNCHANGED fds
       \/ /\ FlushOk /\ buf' = <<>>
          /\ fds' \in {fds, (fds \ {file}) \cup {d}}
          /\ UNCHANGED <<broken, acked>>
    /\ UNCHANGED <<path, file, next, runs, begun>>

(* Each of its steps may fail.  os.File.Close gives the file up even when  *)
(* it fails, and the new file is closed again.                             *)
RotateFails(d) ==
    /\ phase = "up" /\ next <= MaxRows
    /\ d # path
    /\ phase' = "failed"
    /\ \/ FlushFails /\ UNCHANGED fds
       \/ FlushOk /\ buf' = <<>> /\ fds' \in {fds, fds \ {file}} /\ UNCHANGED <<broken, acked>>
    /\ UNCHANGED <<path, file, next, runs, begun>>

(* Flush *)
Flush ==
    /\ phase = "up"
    /\ \/ /\ FlushOk /\ buf' = <<>>
          /\ acked' = acked \cup ToSet(buf)
          /\ UNCHANGED <<phase, broken>>
       \/ FlushFails /\ phase' = "failed"
    /\ UNCHANGED <<path, file, fds, next, runs, begun>>

(* Close flushes and closes; the program ends whatever comes of it. *)
Close ==
    /\ phase \in {"up", "failed"}
    /\ phase' = "down"
    /\ \/ FlushOk /\ buf' = <<>> /\ acked' = acked \cup ToSet(buf) /\ UNCHANGED broken
       \/ FlushFails
    /\ fds' = fds \ {file} /\ file' = NoDay
    /\ UNCHANGED <<path, next, runs, begun>>

(* The process dies, between calls or inside one. *)
Crash ==
    /\ phase \in {"up", "failed"}
    /\ phase' = "down"
    /\ \/ UNCHANGED disk
       \/ /\ ~broken /\ file \in fds /\ buf # <<>>
          /\ \E n \in 0..Len(buf), torn \in BOOLEAN :
                 (torn => n < Len(buf)) /\ disk' = Written(buf, n, torn)
    /\ fds' = {} /\ file' = NoDay /\ buf' = <<>>
    /\ UNCHANGED <<path, broken, next, runs, acked, begun>>

Done == phase = "down" /\ runs = MaxRuns /\ UNCHANGED vars

Next ==
    \/ \E d \in Days : Open(d) \/ Write(d) \/ WriteFails(d) \/ Rotate(d) \/ RotateFails(d)
    \/ Flush \/ Close \/ Crash \/ Done

Spec == Init /\ [][Next]_vars

-----------------------------------------------------------------------------
(* A row that Flush reported as written is in the file of its own day,     *)
(* whole and once, whatever fails or crashes later, and whatever rotation  *)
(* happens between WriteSample and Flush (32-57, 63-90).                   *)
AckedRowsSurvive ==
    \A r \in acked :
        Cardinality({i \in DOMAIN disk[r.day] : disk[r.day][i] = [row |-> r, whole |-> TRUE]}) = 1

(* Rows are in the file of the day of their own timestamp, in the order    *)
(* they were sampled, and none is there twice.                             *)
RowsInOrderOfTheirDay ==
    \A d \in Days :
        /\ \A i \in DOMAIN disk[d] : disk[d][i].row.day = d
        /\ \A i, j \in DOMAIN disk[d] : i < j => disk[d][i].row.id < disk[d][j].row.id

(* A run that tore a row writes nothing after it, in no file: a full disk  *)
(* costs one row per run (69-73, runner.go 123-139).                       *)
TornRowIsLast ==
    \A d, e \in Days : \A i \in DOMAIN disk[d], j \in DOMAIN disk[e] :
        ~disk[d][i].whole /\ disk[e][j].row.by = disk[d][i].row.by
            => disk[e][j].row.id <= disk[d][i].row.id

(* Between calls the writer has exactly its current file open, none once   *)
(* closing it failed, and none is left when the program has closed it,     *)
(* whichever step of a rotation failed (75-84).                            *)
NoLeakedFile ==
    /\ phase = "up" => file = path /\ fds = {file}
    /\ phase = "failed" => file = path /\ fds \subseteq {file}
    /\ phase = "down" => fds = {}

(* docs/explanations/linux.md:80: the date in the file name is the local   *)
(* date when collection starts.                                            *)
FileNameIsStartDate == \A d \in Days : disk[d] # <<>> => d \in begun
=============================================================================
