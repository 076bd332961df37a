------------------------------ MODULE CycleMeter ------------------------------
(****************************************************************************)
(* source/src/rdtsc/rdtsc.c: the cycle counter is read, an alarm is set for *)
(* one second, and the alarm's handler reads the counter again, prints the  *)
(* difference and kills the process.  The handler runs between any two      *)
(* steps of main(), before or in pause(), and some cycles late.             *)
(*                                                                          *)
(* The counter has two words.  "=A" names the pair of registers that rdtsc  *)
(* leaves it in only where a register has 32 bits; where it has 64, it      *)
(* names one register of the two, and so one word.                          *)
(****************************************************************************)
EXTENDS Integers, Sequences

CONSTANTS Base,       \* a word of the counter holds the numbers below it
          Second,     \* cycles of one second
          MaxLate,    \* bound: cycles between an alarm and its handler
          Registers   \* what "=A" names: "edx:eax", or "rax" or "rdx"

CycleMeterAssumption ==
  /\ {Base, Second, MaxLate} \subseteq Nat \ {0}
  /\ Second + 2 * MaxLate < Base * Base
  /\ Registers \in {"edx:eax", "rax", "rdx"}

VARIABLES tsc,       \* the counter
          pc,
          resume,    \* where main() was when the handler took over
          handler,   \* is it registered?
          alarm,     \* is one set and not delivered yet?
          left,      \* cycles until it is due
          t1, t2,
          taken,     \* cycles between the two readings
          buffer     \* the numbers printf() has put in the buffer of stdout
vars == <<tsc, pc, resume, handler, alarm, left, t1, t2, taken, buffer>>

Range64 == Base * Base

Init ==
  /\ tsc \in 0 .. Range64 - 1
  /\ pc = "signal" /\ resume = "signal" /\ handler = FALSE
  /\ alarm = FALSE /\ left = 0
  /\ t1 = 0 /\ t2 = 0 /\ taken = 0
  /\ buffer = <<>>

currentcycles ==
  CASE Registers = "edx:eax" -> tsc
    [] Registers = "rax" -> tsc % Base
    [] Registers = "rdx" -> tsc \div Base

\* With the alarm set first, the handler may come before t1 is read.
SignalAndAlarm ==
  /\ pc = "signal"
  /\ pc' = "read" /\ handler' = TRUE /\ alarm' = TRUE /\ left' = Second
  /\ UNCHANGED <<tsc, resume, t1, t2, taken, buffer>>

Signal ==
  /\ pc = "signal"
  /\ pc' = "read" /\ handler' = TRUE
  /\ UNCHANGED <<tsc, resume, alarm, left, t1, t2, taken, buffer>>

\* t1 = currentcycles()
ReadFirst ==
  /\ pc = "read"
  /\ pc' = "alarm" /\ t1' = currentcycles /\ taken' = 0
  /\ UNCHANGED <<tsc, resume, handler, alarm, left, t2, buffer>>

Alarm ==
  /\ pc = "alarm"
  /\ pc' = "loop" /\ alarm' = TRUE /\ left' = Second
  /\ UNCHANGED <<tsc, resume, handler, t1, t2, taken, buffer>>

\* while (1) pause(): a handler that has run makes pause() return.
Pause ==
  /\ pc = "loop"
  /\ pc' = "pause"
  /\ UNCHANGED <<tsc, resume, handler, alarm, left, t1, t2, taken, buffer>>

-----------------------------------------------------------------------------
\* bound: before the alarm is set, and when it is due, few cycles pass.
Bound == IF pc \in {"read", "alarm"} /\ ~alarm THEN MaxLate ELSE Second + 2 * MaxLate

Cycle ==
  /\ pc \notin {"signal", "printf", "kill", "killed"}
  /\ left > 0 \/ taken < Bound
  /\ tsc' = (tsc + 1) % Range64 /\ taken' = taken + 1
  /\ left' = IF left > 0 THEN left - 1 ELSE 0
  /\ UNCHANGED <<pc, resume, handler, alarm, t1, t2, buffer>>

\* SIGALRM, between two instructions of main() or in pause().
Deliver ==
  /\ pc \in {"read", "alarm", "loop", "pause"}
  /\ alarm /\ left = 0
  /\ alarm' = FALSE /\ resume' = (IF pc = "pause" THEN "loop" ELSE pc)
  /\ pc' = IF handler THEN "handler" ELSE "killed"
  /\ UNCHANGED <<tsc, handler, left, t1, t2, taken, buffer>>

-----------------------------------------------------------------------------
\* t2 = currentcycles()
ReadSecond ==
  /\ pc = "handler"
  /\ pc' = "printf" /\ t2' = currentcycles
  /\ UNCHANGED <<tsc, resume, handler, alarm, left, t1, taken, buffer>>

\* The difference is that of two unsigned numbers, here in cycles and not in
\* millions of them.  The text ends in "/n", not in a new line, so that it stays
\* in the buffer, and is lost with the process unless stdout has none.
Printf ==
  /\ pc = "printf"
  /\ pc' = "kill" /\ buffer' = Append(buffer, (t2 - t1) % Range64)
  /\ UNCHANGED <<tsc, resume, handler, alarm, left, t1, t2, taken>>

\* SIGINT, which nobody handles, ends the process as it is.
Kill ==
  /\ pc = "kill"
  /\ pc' = "killed"
  /\ UNCHANGED <<tsc, resume, handler, alarm, left, t1, t2, taken, buffer>>

Ended == pc = "killed" /\ UNCHANGED vars

Step == Signal \/ ReadFirst \/ Alarm \/ ReadSecond \/ Printf \/ Kill

Next == Step \/ Pause \/ Cycle \/ Deliver \/ Ended

\* The process is given the processor, cycles pass, and a signal is delivered.
Fairness == WF_vars(Step) /\ WF_vars(Cycle) /\ WF_vars(Deliver)
Spec == Init /\ [][Next]_vars /\ Fairness
-----------------------------------------------------------------------------
(* rdtsc.c:27 prints the cycles of the second: what it prints is the cycles *)
(* that passed between the two readings.                                    *)
MeasuresCycles == pc = "kill" => buffer = <<taken>>

(* The process ends, wherever in main() the alarm comes, and has measured.  *)
EndsMeasured == <>(pc = "killed" /\ buffer = <<taken>>)
=============================================================================
