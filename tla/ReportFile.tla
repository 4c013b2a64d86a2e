------------------------------ MODULE ReportFile ------------------------------
(***************************************************************************)
(* Saving a report (WinMTRDialog-exporter.cpp): writeUtf8File() writes a   *)
(* temporary file beside the one the user chose, flushes it, and moves it  *)
(* over the old report.  Every call may fail, WriteFile() may take only a  *)
(* part, the process may end and the power may go at any point.            *)
(*                                                                         *)
(* A file is what the file system shows of it and what of that is on the   *)
(* disk: what was written and not flushed may be lost with the power, a    *)
(* move with MOVEFILE_WRITE_THROUGH may not.                               *)
(***************************************************************************)
EXTENDS Integers, Sequences

CONSTANTS
  MaxReports,    \* bound: the reports saved over one another
  MaxPieces      \* bound: the pieces WriteFile() takes a report in

ASSUME ReportAssumption == MaxReports \in Nat \ {0} /\ MaxPieces \in Nat \ {0}

VARIABLES
  target,        \* the report the user chose, or NoFile
  temporary,     \* the temporary file, or NoFile
  exporter       \* where writeUtf8File() has got to, and its error

reportVars == << target, temporary, exporter >>

\* A file with pieces of a report, so many of them on the disk.
NoFile == [ report |-> 0, written |-> 0, on_disk |-> 0 ]
File   == [ report : 0 .. MaxReports, written : 0 .. MaxPieces, on_disk : 0 .. MaxPieces ]
Whole(file) == file.written = MaxPieces

Steps == { "idle", "create", "write", "flush", "close", "move", "delete" }

ReportInit ==
  /\ target = NoFile /\ temporary = NoFile
  /\ exporter = [ at |-> "idle", report |-> 0, failed |-> FALSE ]

\* exportText() and its like, once a path is chosen: GetTempFileNameW() makes an
\* empty file.
Export ==
  /\ exporter.at = "idle" /\ exporter.report < MaxReports
  /\ \/ /\ temporary' = [NoFile EXCEPT !.report = exporter.report + 1]
        /\ exporter' = [ at |-> "create", report |-> exporter.report + 1, failed |-> FALSE ]
     \/ /\ exporter' = [exporter EXCEPT !.report = @ + 1]
        /\ UNCHANGED temporary
  /\ UNCHANGED target

Goto(step) == exporter' = [exporter EXCEPT !.at = step]
Fail(step) == exporter' = [exporter EXCEPT !.at = step, !.failed = TRUE]

CreateFileW ==
  /\ exporter.at = "create"
  /\ Goto("write") \/ Fail("delete")
  /\ UNCHANGED << target, temporary >>

\* One turn of writeAll().
WriteFile ==
  /\ exporter.at = "write" /\ ~Whole(temporary)
  /\ \/ /\ \E n \in temporary.written + 1 .. MaxPieces :
             temporary' = [temporary EXCEPT !.written = n]
        /\ UNCHANGED exporter
     \/ Fail("close") /\ UNCHANGED temporary
  /\ UNCHANGED target

\* Mutant: the data is left to the cache.
FlushFileBuffers_dropped ==
  /\ exporter.at = "write" /\ Whole(temporary)
  /\ Goto("close") /\ UNCHANGED << target, temporary >>

FlushFileBuffers ==
  /\ exporter.at = "write" /\ Whole(temporary)
  /\ \/ Goto("close") /\ temporary' = [temporary EXCEPT !.on_disk = temporary.written]
     \/ Fail("close") /\ UNCHANGED temporary
  /\ UNCHANGED target

\* The file is closed whatever went wrong.
CloseHandle ==
  /\ exporter.at = "close"
  /\ Goto(IF exporter.failed THEN "delete" ELSE "move") \/ Fail("delete")
  /\ UNCHANGED << target, temporary >>

\* Only now is the old report replaced.
MoveFileExW ==
  /\ exporter.at = "move"
  /\ \/ /\ target' = temporary /\ temporary' = NoFile
        /\ Goto("idle")
     \/ Fail("delete") /\ UNCHANGED << target, temporary >>

\* The temporary file goes, if it can be deleted, and the user is told.
DeleteFileW ==
  /\ exporter.at = "delete"
  /\ Goto("idle")
  /\ temporary' \in { NoFile, temporary }
  /\ UNCHANGED target

\* The system writes the files back in its own time.
WriteBack ==
  \/ /\ temporary.on_disk < temporary.written
     /\ temporary' = [temporary EXCEPT !.on_disk = @ + 1]
     /\ UNCHANGED << target, exporter >>
  \/ /\ target.on_disk < target.written
     /\ target' = [target EXCEPT !.on_disk = @ + 1]
     /\ UNCHANGED << temporary, exporter >>

\* The process ends: its files stay as they are.
ExporterEnds ==
  /\ Goto("idle")
  /\ UNCHANGED << target, temporary >>

\* The power goes: only what is on the disk is left of them.
PowerFails ==
  /\ Goto("idle")
  /\ target' = [target EXCEPT !.written = target.on_disk]
  /\ temporary' = [temporary EXCEPT !.written = temporary.on_disk]

ReportNext ==
  \/ Export \/ CreateFileW \/ WriteFile \/ FlushFileBuffers \/ CloseHandle
  \/ MoveFileExW \/ DeleteFileW
  \/ WriteBack \/ ExporterEnds \/ PowerFails

ReportSpec == ReportInit /\ [][ReportNext]_reportVars

-----------------------------------------------------------------------------
\* Properties

ReportTypeOK ==
  /\ target \in File /\ temporary \in File
  /\ exporter \in [ at : Steps, report : 0 .. MaxReports, failed : BOOLEAN ]

\* Whatever fails and whenever the power goes, the file the user chose is a
\* whole report: the old one, or the new one with all its data on the disk.
ReportIsWhole == target = NoFile \/ Whole(target)
=============================================================================
