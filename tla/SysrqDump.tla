------------------------------- MODULE SysrqDump -------------------------------
(****************************************************************************)
(* source/script/use_sysrq_dump.sh and, with registers, read_register.sh    *)
(* and descriptor_read_register.sh: a loop that triggers one kernel dump    *)
(* after another, copies the kernel log to a file after each and clears it, *)
(* and then reads the registers into a second file.  The log is a ring that *)
(* the rest of the kernel writes to at any time, and reading and clearing   *)
(* it are two calls.  Messages are numbered as they arrive.                 *)
(****************************************************************************)
EXTENDS Naturals, SequencesExt

CONSTANTS Scripts,     \* of each: the letters it writes to /proc/sysrq-trigger,
                       \* in turn, and the registers it then reads
          LogSize,     \* messages the ring holds
          DumpLines,   \* messages of one dump
          MaxArrived   \* bound: messages until the model stops

SysrqDumpAssumption ==
  /\ \A c \in Scripts : c.dumps \in Seq(ToSet(c.dumps)) /\ c.dumps # <<>>
  /\ {LogSize, DumpLines, MaxArrived} \subseteq Nat \ {0}

VARIABLES script,
          pc, at,    \* the next command, and which dump it is about
          todo,      \* messages of the dump that the kernel has yet to write
          arrived,   \* how many messages there have been
          own,       \* which of them are a dump's, and whose
          log,       \* the kernel's ring
          file,      \* the sections of dump_file: [title, lines]
          register_file,
          gap,       \* messages from before the loop, or that arrived between
                     \* dmesg -T and dmesg -C
          overrun    \* messages pushed out of the full ring
vars == <<script, pc, at, todo, arrived, own, log, file, register_file, gap, overrun>>

Dumps == script.dumps
Registers == script.registers

Init ==
  /\ script \in Scripts
  /\ pc = "start" /\ at = 1 /\ todo = 0
  /\ arrived \in 0 .. LogSize /\ own = <<>>
  /\ log = [j \in 1 .. arrived |-> j]
  /\ file = <<>> /\ register_file = <<>> /\ gap = 1 .. arrived /\ overrun = {}

\* The next message; a full ring loses its oldest one for it.
Arrive ==
  /\ arrived < MaxArrived
  /\ arrived' = arrived + 1
  /\ LET full == Len(log) = LogSize
     IN  /\ log' = Append(IF full THEN Tail(log) ELSE log, arrived + 1)
         /\ overrun' = IF full THEN overrun \cup {Head(log)} ELSE overrun

\* Any other message of the kernel.
Message ==
  /\ Arrive
  /\ gap' = IF pc \in {"start", "clear"} THEN gap \cup {arrived + 1} ELSE gap
  /\ UNCHANGED <<script, pc, at, todo, own, file, register_file>>

\* The dmesg -C before the loop.
Start ==
  /\ pc = "start"
  /\ pc' = "title" /\ log' = <<>>
  /\ UNCHANGED <<script, register_file, at, todo, arrived, own, file, gap, overrun>>

Title ==
  /\ pc = "title"
  /\ pc' = "trigger"
  /\ file' = Append(file, [title |-> Dumps[at], lines |-> <<>>])
  /\ UNCHANGED <<script, register_file, at, todo, arrived, own, log, gap, overrun>>

\* The write to sysrq-trigger, which returns when the dump is written.
Trigger ==
  /\ pc = "trigger"
  /\ pc' = "dump" /\ todo' = DumpLines
  /\ UNCHANGED <<script, register_file, at, arrived, own, log, file, gap, overrun>>

DumpLine ==
  /\ pc = "dump" /\ todo > 0
  /\ Arrive
  /\ own' = Append(own, [message |-> arrived + 1, title |-> Dumps[at]])
  /\ todo' = todo - 1
  /\ UNCHANGED <<script, pc, at, file, register_file, gap>>

\* dmesg in the background, on its way while the loop goes on.
SnapshotEarly ==
  /\ pc = "dump"
  /\ pc' = "clear" /\ todo' = 0
  /\ file' = [file EXCEPT ![Len(file)].lines = log]
  /\ UNCHANGED <<script, register_file, at, arrived, own, log, gap, overrun>>

\* dmesg -T >> file, and the line of dashes.
Snapshot ==
  /\ pc = "dump" /\ todo = 0
  /\ pc' = "clear"
  /\ file' = [file EXCEPT ![Len(file)].lines = log]
  /\ UNCHANGED <<script, register_file, at, todo, arrived, own, log, gap, overrun>>

\* Without the dmesg -C.
ClearNot ==
  /\ pc = "clear"
  /\ pc' = "title"
  /\ at' = IF at = Len(Dumps) THEN 1 ELSE at + 1
  /\ UNCHANGED <<script, register_file, todo, arrived, own, log, file, gap, overrun>>

\* dmesg -C, and after the last dump the sleep.
Clear ==
  /\ pc = "clear"
  /\ pc' = IF at = Len(Dumps) /\ Registers # <<>> THEN "registers" ELSE "title"
  /\ log' = <<>>
  /\ at' = IF at = Len(Dumps) THEN 1 ELSE at + 1
  /\ UNCHANGED <<script, register_file, todo, arrived, own, file, gap, overrun>>

\* devmem, one register after another, and after the last the sleep.
ReadRegister ==
  /\ pc = "registers"
  /\ LET row == (Len(register_file) % Len(Registers)) + 1
     IN  /\ register_file' = Append(register_file, Registers[row])
         /\ pc' = IF row = Len(Registers) THEN "title" ELSE "registers"
  /\ UNCHANGED <<script, at, todo, arrived, own, log, file, gap, overrun>>

Bounded == arrived = MaxArrived /\ UNCHANGED vars

Next ==
  \/ Start \/ Title \/ Trigger \/ Snapshot \/ Clear \/ ReadRegister
  \/ Message \/ DumpLine \/ Bounded

Spec == Init /\ [][Next]_vars

-----------------------------------------------------------------------------
\* The sections that dmesg has been copied into.
Copied == {j \in DOMAIN file : j < Len(file) \/ pc \notin {"trigger", "dump"}}

\* A section holds the dump its title says and no other, whole, unless so much
\* came after a line of it that the ring lost it.
SectionsHoldTheirDump ==
  \A j \in Copied :
    /\ \A d \in ToSet(own) : d.message \in ToSet(file[j].lines) => d.title = file[j].title
    /\ \A l \in (j - 1) * DumpLines + 1 .. j * DumpLines :
         l \in DOMAIN own /\ own[l].message \in ToSet(file[j].lines) \cup overrun

\* The file has the messages in the order they came, none of them twice, and
\* one that is not in it, nor in the log for the next section, came between a
\* copy and the clearing after it, or was pushed out of the ring.
EachMessageOnce ==
  /\ \A i, j \in DOMAIN file :
       \A a \in DOMAIN file[i].lines, b \in DOMAIN file[j].lines :
         i < j \/ (i = j /\ a < b) => file[i].lines[a] < file[j].lines[b]
  /\ \A m \in 1 .. arrived :
       \/ m \in gap \cup overrun \cup ToSet(log)
       \/ \E j \in DOMAIN file : m \in ToSet(file[j].lines)
=============================================================================
