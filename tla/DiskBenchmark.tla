----------------------------- MODULE DiskBenchmark -----------------------------
(****************************************************************************)
(* source/script/disk_fio_test.sh, io_all.sh and hdd_io_all.sh: one run of  *)
(* fio for each point of a grid of block sizes, directions, jobs and        *)
(* depths.  The first script has fio write each result to a file in a       *)
(* directory; the other two append it to a log.  A script may be killed at  *)
(* any time and started again; fio may fail; and other users run fio too.   *)
(****************************************************************************)
EXTENDS Naturals, Sequences

CONSTANTS Points,     \* the grid, in the order of the nested loops
          Layouts,    \* the options fio may say it was run with, which are
                      \* neither "none" nor "gone"
          MaxStarts   \* bound: how often a script is started

ASSUME DiskBenchmarkAssumption ==
  /\ Points \in Seq({Points[j] : j \in DOMAIN Points}) /\ Points # <<>>
  /\ \A j, l \in DOMAIN Points : Points[j] = Points[l] => j = l
  /\ MaxStarts \in Nat /\ {"none", "gone"} \cap Layouts = {}

VARIABLES script, machine,
          disk,      \* "absent", "mounted" or "free"
          pc, n,     \* the point whose turn it is is Points[n]
          starts,
          results,   \* the files, or the lines of the log, as they came
          others     \* does another user run fio?
benchmark == <<script, machine, disk, pc, n, starts, results, others>>

Scripts == {"disk_fio_test", "io_all", "hdd_io_all"}
Machines == {"x86_64", "aarch64", "riscv64"}

Init ==
  /\ script \in Scripts /\ machine \in Machines /\ disk \in {"absent", "mounted", "free"}
  /\ pc = "exit" /\ n = 1 /\ starts = 0 /\ results = <<>> /\ others = FALSE

unchanged == UNCHANGED <<script, machine, disk, others>>

\* Two scripts look at the disk first, the third at the machine.
MayRun ==
  IF script = "hdd_io_all" THEN machine \in {"x86_64", "aarch64"} ELSE disk = "free"

Start ==
  /\ pc \in {"exit", "done"} /\ starts < MaxStarts
  /\ starts' = starts + 1
  /\ pc' = IF MayRun THEN "clear" ELSE "exit"
  /\ UNCHANGED <<n, results>> /\ unchanged

\* What is there from before is kept, as the dates in the names differ.
ClearNot ==
  /\ pc = "clear"
  /\ pc' = "run" /\ n' = 1
  /\ UNCHANGED <<starts, results>> /\ unchanged

\* rm -rf and mkdir of the directory; the logs emptied; the logs removed.
Clear ==
  /\ pc = "clear"
  /\ pc' = "run" /\ n' = 1 /\ results' = <<>>
  /\ UNCHANGED starts /\ unchanged

\* The file is there, or the start of the line, before there is a result.
Fio ==
  /\ pc = "run" /\ n <= Len(Points)
  /\ pc' = "fio"
  /\ results' = Append(results, [point |-> Points[n], start |-> starts, layout |-> "none"])
  /\ UNCHANGED <<n, starts>> /\ unchanged

Record(layout) == results' = [results EXCEPT ![Len(results)].layout = layout]

\* With "none" fio has failed.  The scripts go on all the same: fio itself has
\* written the file, while the other two wait before they write the line.
FioEnds(layout) ==
  /\ pc = "fio"
  /\ \/ script = "disk_fio_test" /\ pc' = "next" /\ Record(layout)
     \/ script # "disk_fio_test" /\ pc' = "wait" /\ UNCHANGED results
  /\ UNCHANGED <<n, starts>> /\ unchanged

\* while [ "$(pgrep fio)" ], which finds anybody's; then the line gets its result.
Wait(layout) ==
  /\ pc = "wait" /\ ~others
  /\ pc' = "next" /\ Record(layout)
  /\ UNCHANGED <<n, starts>> /\ unchanged

NextPoint ==
  /\ pc = "next"
  /\ pc' = (IF n = Len(Points) THEN "done" ELSE "run") /\ n' = n + 1
  /\ UNCHANGED <<starts, results>> /\ unchanged

Killed ==
  /\ pc \notin {"exit", "done"}
  /\ pc' = "exit"
  /\ UNCHANGED <<n, starts, results>> /\ unchanged

OtherFio ==
  /\ others' = ~others
  /\ UNCHANGED <<script, machine, disk, pc, n, starts, results>>

BenchmarkStep ==
  \/ Start \/ Clear \/ Fio \/ (\E l \in Layouts \cup {"none"} : FioEnds(l) \/ Wait(l))
  \/ NextPoint \/ Killed \/ OtherFio
-----------------------------------------------------------------------------
(* When a script is through, its directory or log has one result for each   *)
(* point of the grid, in the order of the loops, and none of an earlier run *)
(* that was killed, wherever it was.                                        *)
OneResultEach ==
  pc = "done" =>
    /\ Len(results) = Len(Points)
    /\ \A j \in DOMAIN results : results[j].point = Points[j] /\ results[j].start = starts
=============================================================================
