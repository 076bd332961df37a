----------------------------- MODULE HelloThreads -----------------------------
(****************************************************************************)
(* source/src/getrlimit/threads.c, the program the getrlimit notes run into *)
(* the user's task limit: main() creates threads that greet, sleep and end, *)
(* gives up with exit(-1) when one cannot be created, and otherwise ends    *)
(* its own thread only.                                                     *)
(****************************************************************************)
EXTENDS Integers, Sequences, FiniteSets

CONSTANTS NUM_THREADS,
          Limit     \* the tasks the user may have: main, threads and others

HelloThreadsAssumption == NUM_THREADS \in Nat /\ Limit \in Nat \ {0}

Threads == 0 .. NUM_THREADS - 1

VARIABLES main,     \* "creating" until "over", its own thread then gone
          t,        \* main's loop counter
          thread,   \* what PrintHello is about to do in each thread
          arg,      \* the threadid each was given
          others,   \* the user's other tasks
          status,   \* of the process: "running", "0" or "-1"
          greetings \* the lines "Hello World! It's me", by their number
vars == <<main, t, thread, arg, others, status, greetings>>

\* A threadid that is no number, but where main keeps t.
Address == NUM_THREADS

Live == {i \in Threads : thread[i] \in {"greet", "sleep"}}
Tasks == Cardinality(Live) + others + (IF main = "creating" THEN 1 ELSE 0)

Init ==
  /\ main = "creating" /\ t = 0
  /\ thread = [i \in Threads |-> "none"]
  /\ arg = [i \in Threads |-> 0]
  /\ others \in 0 .. Limit - 1
  /\ status = "running" /\ greetings = <<>>

\* The address of t instead of its value.
CreateByAddress ==
  /\ status = "running" /\ main = "creating" /\ t < NUM_THREADS /\ Tasks < Limit
  /\ thread' = [thread EXCEPT ![t] = "greet"]
  /\ arg' = [arg EXCEPT ![t] = Address]
  /\ t' = t + 1
  /\ UNCHANGED <<main, others, status, greetings>>

\* pthread_create() succeeds.
Create ==
  /\ status = "running" /\ main = "creating" /\ t < NUM_THREADS /\ Tasks < Limit
  /\ thread' = [thread EXCEPT ![t] = "greet"]
  /\ arg' = [arg EXCEPT ![t] = t]
  /\ t' = t + 1
  /\ UNCHANGED <<main, others, status, greetings>>

\* rc # 0: exit(-1) ends the process with every thread in it.
CreateFails ==
  /\ status = "running" /\ main = "creating" /\ t < NUM_THREADS /\ Tasks >= Limit
  /\ status' = "-1"
  /\ UNCHANGED <<main, t, thread, arg, others, greetings>>

\* Returns from main() instead.
MainReturns ==
  /\ status = "running" /\ main = "creating" /\ t = NUM_THREADS
  /\ main' = "over" /\ status' = "0"
  /\ UNCHANGED <<t, thread, arg, others, greetings>>

\* The process has ended when its last thread has.
Last(live) == IF live = {} THEN "0" ELSE "running"

\* pthread_exit() in main().
MainExits ==
  /\ status = "running" /\ main = "creating" /\ t = NUM_THREADS
  /\ main' = "over" /\ status' = Last(Live)
  /\ UNCHANGED <<t, thread, arg, others, greetings>>

Greet(i) ==
  /\ status = "running" /\ thread[i] = "greet"
  /\ greetings' = Append(greetings, IF arg[i] = Address THEN t ELSE arg[i])
  /\ thread' = [thread EXCEPT ![i] = "sleep"]
  /\ UNCHANGED <<main, t, arg, others, status>>

\* sleep() is over, and pthread_exit().
End(i) ==
  /\ status = "running" /\ thread[i] = "sleep"
  /\ thread' = [thread EXCEPT ![i] = "ended"]
  /\ status' = IF main = "over" THEN Last(Live \ {i}) ELSE status
  /\ UNCHANGED <<main, t, arg, others, greetings>>

\* Another process of the user starts or ends a task.
OtherTask ==
  /\ status = "running"
  /\ others' \in {others - 1, others + 1} \cap Nat
  /\ others' > others => Tasks < Limit
  /\ UNCHANGED <<main, t, thread, arg, status, greetings>>

Ended == status # "running" /\ UNCHANGED vars

Next ==
  \/ Create \/ CreateFails \/ MainExits \/ OtherTask \/ Ended
  \/ \E i \in Threads : Greet(i) \/ End(i)

\* main and every thread are scheduled, and a sleep ends.
Fairness ==
  /\ WF_vars(Create \/ CreateFails \/ MainExits)
  /\ \A i \in Threads : WF_vars(Greet(i) \/ End(i))
Spec == Init /\ [][Next]_vars /\ Fairness

-----------------------------------------------------------------------------
\* No greeting carries another thread's number, although main goes on with t
\* before a new thread runs, and none is printed twice.
EachGreetsAsItself ==
  /\ {greetings[j] : j \in DOMAIN greetings} = {i \in Threads : thread[i] \in {"sleep", "ended"}}
  /\ \A j, l \in DOMAIN greetings : greetings[j] = greetings[l] => j = l

\* Once main has created them all, all of them greet, main gone or not.
AllGreet == t = NUM_THREADS ~> Len(greetings) = NUM_THREADS
=============================================================================
