------------------------------- MODULE MCScripts -------------------------------
(* The scripts, one in a behaviour: the disk benchmark with its report, the   *)
(* dump collector and the register readers, or the page visitor.              *)
(*                                                                            *)
(* A grid of three points, two layouts of fio's options, and two starts, so   *)
(* that a run that was killed anywhere is followed by another.  The three     *)
(* dumps of use_sysrq_dump.sh, and the one dump of the register scripts with  *)
(* two registers; a dump has two lines, in a ring that holds one dump and one *)
(* more message, and messages enough for a second round.  Three pages, so     *)
(* that one has pages in front of it and behind it, with up to two images.    *)
EXTENDS FioReport

CONSTANTS Collectors, LogSize, DumpLines, MaxArrived,   \* for SysrqDump
          Pages, Images                                \* for PageVisitor

MCPoints == <<"4k read", "4k write", "4m read">>
MCPages == <<"163", "zhihu", "sina">>
MCCollectors ==
  {[dumps |-> <<"t", "l", "w">>, registers |-> <<>>],
   [dumps |-> <<"w">>, registers |-> <<"L3T", "HHA">>]}

VARIABLES
  part,
  collector, collector_pc, dump, todo, arrived, own, log, dump_file, register_file,
  gap, overrun,
  visit_pc, k, file, pageFile, imageSet, fetched, said
collecting == <<collector, collector_pc, dump, todo, arrived, own, log, dump_file,
                register_file, gap, overrun>>
visiting == <<visit_pc, k, file, pageFile, imageSet, fetched, said>>

Sysrq == INSTANCE SysrqDump WITH
  Scripts <- Collectors, script <- collector, pc <- collector_pc, at <- dump,
  file <- dump_file
Visitor == INSTANCE PageVisitor WITH pc <- visit_pc

ASSUME ScriptsAssumption ==
  Sysrq!SysrqDumpAssumption /\ Visitor!PageVisitorAssumption

\* Scripts that are not started.
BenchmarkAtRest ==
  /\ script = "io_all" /\ machine = "x86_64" /\ disk = "absent"
  /\ pc = "exit" /\ n = 1 /\ starts = 0 /\ results = <<>> /\ others = FALSE
  /\ at = "idle" /\ files = {} /\ through = FALSE /\ head = "none" /\ rows = {}
CollectorAtRest ==
  /\ collector = CHOOSE c \in Collectors : TRUE
  /\ collector_pc = "start" /\ dump = 1 /\ todo = 0 /\ arrived = 0 /\ own = <<>>
  /\ log = <<>> /\ dump_file = <<>> /\ register_file = <<>> /\ gap = {} /\ overrun = {}
VisitorAtRest ==
  /\ visit_pc = "open" /\ k = 1
  /\ file = [p \in Visitor!Names |-> "empty"] /\ pageFile = "empty"
  /\ imageSet = {} /\ fetched = [i \in Images |-> 0] /\ said = {}

ScriptsInit ==
  \/ part = "benchmark" /\ ReportInit /\ CollectorAtRest /\ VisitorAtRest
  \/ part = "collector" /\ BenchmarkAtRest /\ Sysrq!Init /\ VisitorAtRest
  \/ part = "visitor" /\ BenchmarkAtRest /\ CollectorAtRest /\ Visitor!Init

ScriptsNext ==
  /\ UNCHANGED part
  /\ \/ part = "benchmark" /\ Next /\ UNCHANGED <<collecting, visiting>>
     \/ part = "collector" /\ Sysrq!Next /\ UNCHANGED <<benchmark, report, visiting>>
     \/ part = "visitor" /\ Visitor!Next /\ UNCHANGED <<benchmark, report, collecting>>

ScriptsSpec ==
  ScriptsInit /\ [][ScriptsNext]_<<part, benchmark, report, collecting, visiting>>

SectionsHoldTheirDump == Sysrq!SectionsHoldTheirDump
EachMessageOnce == Sysrq!EachMessageOnce
AtMostOneLost == Visitor!AtMostOneLost
FailureIsPassedOver == Visitor!FailureIsPassedOver
=============================================================================
