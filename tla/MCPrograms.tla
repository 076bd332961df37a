------------------------------ MODULE MCPrograms ------------------------------
(* Two programs that the system's timing decides about: the threads of        *)
(* HelloThreads, or the alarm of CycleMeter; the other one has ended.         *)
(*                                                                            *)
(* Five threads, as in threads.c, and one task fewer than they and main need. *)
(* A counter of two words below 4, so that it wraps around, and a second of   *)
(* five cycles.                                                               *)
EXTENDS Naturals

CONSTANTS NUM_THREADS, Limit,                  \* for HelloThreads
          Base, Second, MaxLate, Registers     \* for CycleMeter

VARIABLES
  program,
  main, t, thread, arg, other_tasks, status, greetings,
  tsc, meter_pc, resume, handler, alarm, left, t1, t2, taken, buffer
greeting == <<main, t, thread, arg, other_tasks, status, greetings>>
metering == <<tsc, meter_pc, resume, handler, alarm, left, t1, t2, taken, buffer>>

Hello == INSTANCE HelloThreads WITH others <- other_tasks
Meter == INSTANCE CycleMeter WITH pc <- meter_pc

ASSUME ProgramsAssumption == Hello!HelloThreadsAssumption /\ Meter!CycleMeterAssumption

\* A process that could not create its first thread.
ThreadsEnded ==
  /\ main = "creating" /\ t = 0 /\ status = "-1" /\ other_tasks = 0
  /\ thread = [i \in Hello!Threads |-> "none"] /\ arg = [i \in Hello!Threads |-> 0]
  /\ greetings = <<>>

MeterEnded ==
  /\ tsc = 0 /\ meter_pc = "killed" /\ resume = "loop" /\ handler = TRUE
  /\ alarm = FALSE /\ left = 0 /\ t1 = 0 /\ t2 = 0 /\ taken = 0
  /\ buffer = <<0>>

ProgramsInit ==
  \/ program = "threads" /\ Hello!Init /\ MeterEnded
  \/ program = "rdtsc" /\ Meter!Init /\ ThreadsEnded

ProgramsNext ==
  /\ UNCHANGED program
  /\ \/ program = "threads" /\ Hello!Next /\ UNCHANGED metering
     \/ program = "rdtsc" /\ Meter!Next /\ UNCHANGED greeting

ProgramsSpec ==
  /\ ProgramsInit /\ [][ProgramsNext]_<<program, greeting, metering>>
  /\ Hello!Fairness /\ Meter!Fairness

EachGreetsAsItself == Hello!EachGreetsAsItself
AllGreet == Hello!AllGreet
EndsMeasured == Meter!EndsMeasured
=============================================================================
