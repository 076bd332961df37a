------------------------------- MODULE FioReport -------------------------------
(****************************************************************************)
(* source/script/parase_fio.py, which makes a table of the results that     *)
(* disk_fio_test.sh has left in its directory, a row for each file.  The    *)
(* first file that is read gives the table its head, and only files of the  *)
(* same options get a row; in which order the directory lists them is up to *)
(* the file system.  Nothing keeps the two scripts apart.                   *)
(****************************************************************************)
EXTENDS DiskBenchmark

VARIABLES at,       \* where the report is
          files,    \* the results it has yet to read, as os.walk listed them
          through,  \* was the benchmark done when it was listed?
          head,     \* head_line: the options of the first file, or "none"
          rows      \* the results in the table
report == <<at, files, through, head, rows>>

ReportInit ==
  /\ Init
  /\ at = "idle" /\ files = {} /\ through = FALSE /\ head = "none" /\ rows = {}

Walk ==
  /\ at = "idle" /\ script = "disk_fio_test"
  /\ at' = "file"
  /\ files' = {results[j] : j \in DOMAIN results} /\ through' = (pc = "done")
  /\ UNCHANGED <<head, rows, benchmark>>

\* What the file has when it is opened: the file fio is writing is not read to
\* its end, and one that was removed since is not there.
Content(f) ==
  LET now == {j \in DOMAIN results : results[j].point = f.point /\ results[j].start = f.start}
  IN  IF now = {} THEN "gone" ELSE results[CHOOSE j \in now : TRUE].layout

Readable(f) == f \in files /\ at = "file" /\ Content(f) \in Layouts

\* The first file gives the head, and no row.
RowHead(f) ==
  /\ Readable(f)
  /\ head' = IF head = "none" THEN Content(f) ELSE head
  /\ rows' = IF head = Content(f) THEN rows \cup {f} ELSE rows
  /\ files' = files \ {f}
  /\ UNCHANGED <<at, through, benchmark>>

\* get_fio_result() and the row made of it; or no row, if the head is another.
Row(f) ==
  /\ Readable(f)
  /\ head' = IF head = "none" THEN Content(f) ELSE head
  /\ rows' = IF head' = Content(f) THEN rows \cup {f} ELSE rows
  /\ files' = files \ {f}
  /\ UNCHANGED <<at, through, benchmark>>

\* A file that is not JSON: get_fio_result() prints its name and answers False,
\* and False has no keys().  A file that is gone is FileNotFoundError.
Raise(f) ==
  /\ f \in files /\ at = "file" /\ Content(f) \notin Layouts
  /\ at' = "raised"
  /\ UNCHANGED <<files, through, head, rows, benchmark>>

Close ==
  /\ at = "file" /\ files = {}
  /\ at' = "closed"
  /\ UNCHANGED <<files, through, head, rows, benchmark>>

Next ==
  \/ BenchmarkStep /\ UNCHANGED report
  \/ Walk \/ Close
  \/ \E f \in files : Row(f) \/ Raise(f)
Spec == ReportInit /\ [][Next]_<<benchmark, report>>
-----------------------------------------------------------------------------
(* A table made of a run that was through, whatever was read first: all its *)
(* rows are of one run, one for a point, and have the options its head has; *)
(* and no result with these options is missing.                             *)
TableMatchesGrid ==
  at = "closed" /\ through =>
    LET listed == {results[j] : j \in DOMAIN results}
    IN  /\ rows # {}
        /\ \A f, g \in rows :
             f.layout = head /\ f.start = g.start /\ (f.point = g.point => f = g)
        /\ rows \subseteq listed => {f \in listed : f.layout = head} = rows
=============================================================================
