---------------------------- MODULE ProgramsProofs ----------------------------
(****************************************************************************)
(* Proofs about the threads of threads.c, the alarm of rdtsc.c, and the     *)
(* scripts: the disk benchmark and its report, the dump collector and the   *)
(* register readers, and the page visitor.                                  *)
(****************************************************************************)
EXTENDS MCPrograms, MCScripts, Integers, SequenceTheorems, TLAPS

----------------------------------------------------------------------------
(* The threads.                                                             *)

\* Where a thread may be, and those that have greeted.
ThreadStates == {"none", "greet", "sleep", "ended"}
Greeted == {i \in Hello!Threads : thread[i] \in {"sleep", "ended"}}

\* The threads created are those main has counted, and each has its own number.
Numbered ==
  /\ t \in 0 .. NUM_THREADS
  /\ thread \in [Hello!Threads -> ThreadStates] /\ arg \in [Hello!Threads -> Nat]
  /\ \A i \in Hello!Threads : /\ i >= t => thread[i] = "none"
                              /\ thread[i] # "none" => arg[i] = i

\* EachGreetsAsItself, of a sequence and the set of threads that have greeted.
OneOfEach(seq, S) ==
  /\ {seq[j] : j \in DOMAIN seq} = S
  /\ \A j, l \in DOMAIN seq : seq[j] = seq[l] => j = l

ThreadsInv == Numbered /\ greetings \in Seq(Nat) /\ OneOfEach(greetings, Greeted)

\* main counts to a number.
LEMMA HowMany == NUM_THREADS \in Nat
  BY ProgramsAssumption DEF Hello!HelloThreadsAssumption

\* A number that is not in the sequence may be put at its end.
LEMMA OneMore ==
  ASSUME NEW seq \in Seq(Nat), NEW S, OneOfEach(seq, S), NEW i \in Nat, i \notin S
  PROVE  Append(seq, i) \in Seq(Nat) /\ OneOfEach(Append(seq, i), S \cup {i})
<1> DEFINE m == Len(seq)
           longer == Append(seq, i)
<1>1. /\ m \in Nat /\ DOMAIN seq = 1 .. m /\ DOMAIN longer = 1 .. m + 1
      /\ longer \in Seq(Nat)
      /\ longer[m + 1] = i /\ \A j \in 1 .. m : longer[j] = seq[j]
  OBVIOUS
<1>2. \A j \in 1 .. m : seq[j] # i
  BY <1>1 DEF OneOfEach
<1> HIDE DEF longer, m
<1>3. 1 .. m + 1 = (1 .. m) \cup {m + 1}
  BY <1>1
<1>4. {longer[j] : j \in DOMAIN longer} = S \cup {i}
  BY <1>1, <1>3 DEF OneOfEach
<1>5. \A j, l \in DOMAIN longer : longer[j] = longer[l] => j = l
  BY <1>1, <1>2, <1>3 DEF OneOfEach
<1> QED
  BY <1>1, <1>4, <1>5 DEF OneOfEach, longer

\* At the start nobody has greeted.
LEMMA ThreadsInit == Hello!Init => ThreadsInv
<1> SUFFICES ASSUME Hello!Init PROVE ThreadsInv
  OBVIOUS
<1>1. Numbered
  BY HowMany DEF Hello!Init, Numbered, ThreadStates, Hello!Threads
<1>2. Greeted = {} /\ greetings = <<>>
  BY DEF Hello!Init, Greeted
<1> QED
  BY <1>1, <1>2 DEF ThreadsInv, OneOfEach

\* Whatever greets nobody keeps the greetings right.
LEMMA GreetsNobody ==
  ASSUME ThreadsInv, Numbered', Greeted' = Greeted, greetings' = greetings
  PROVE  ThreadsInv'
BY DEF ThreadsInv, OneOfEach

\* The thread that is created gets the number main counts.
LEMMA CreateKeeps == ThreadsInv /\ Hello!Create => ThreadsInv'
<1> SUFFICES ASSUME ThreadsInv, Hello!Create PROVE ThreadsInv'
  OBVIOUS
<1> USE HowMany DEF Hello!Threads
<1>1. t \in Hello!Threads /\ thread[t] = "none" /\ t' = t + 1 /\ greetings' = greetings
  BY DEF ThreadsInv, Numbered, Hello!Create
<1>2. \A i \in Hello!Threads : /\ thread'[i] = IF i = t THEN "greet" ELSE thread[i]
                               /\ arg'[i] = IF i = t THEN t ELSE arg[i]
  BY DEF ThreadsInv, Numbered, Hello!Create
<1>3. Numbered'
  BY <1>1, <1>2 DEF ThreadsInv, Numbered, Hello!Create, ThreadStates
<1>4. Greeted' = Greeted
  BY <1>1, <1>2 DEF Greeted
<1> QED
  BY <1>1, <1>3, <1>4, GreetsNobody

\* A greeting is that of the thread that gives it, which gives no other.
LEMMA GreetKeeps ==
  ASSUME ThreadsInv, NEW i \in Hello!Threads, Hello!Greet(i)
  PROVE  ThreadsInv'
<1> USE HowMany DEF Hello!Threads
<1>1. /\ i \in Nat /\ i # Hello!Address /\ arg[i] = i /\ i \notin Greeted
      /\ greetings' = Append(greetings, i)
  BY DEF ThreadsInv, Numbered, Hello!Greet, Greeted, Hello!Address
<1>2. \A j \in Hello!Threads : thread'[j] = IF j = i THEN "sleep" ELSE thread[j]
  BY DEF ThreadsInv, Numbered, Hello!Greet
<1>3. Numbered'
  BY <1>2 DEF ThreadsInv, Numbered, Hello!Greet, ThreadStates
<1>4. Greeted' = Greeted \cup {i}
  BY <1>2 DEF Greeted
<1> QED
  BY <1>1, <1>3, <1>4, OneMore DEF ThreadsInv

\* A thread that ends has greeted.
LEMMA EndKeeps ==
  ASSUME ThreadsInv, NEW i \in Hello!Threads, Hello!End(i)
  PROVE  ThreadsInv'
<1>1. \A j \in Hello!Threads : thread'[j] = IF j = i THEN "ended" ELSE thread[j]
  BY DEF ThreadsInv, Numbered, Hello!End
<1>2. Numbered'
  BY <1>1, HowMany DEF ThreadsInv, Numbered, Hello!End, ThreadStates, Hello!Threads
<1>3. Greeted' = Greeted
  BY <1>1 DEF Greeted, Hello!End
<1> QED
  BY <1>2, <1>3, GreetsNobody DEF Hello!End

\* Every step of the process and of the tasks next to it keeps the invariant.
LEMMA ThreadsKeep == ThreadsInv /\ [Hello!Next]_Hello!vars => ThreadsInv'
<1> SUFFICES ASSUME ThreadsInv, [Hello!Next]_Hello!vars PROVE ThreadsInv'
  OBVIOUS
<1>1. CASE \/ Hello!CreateFails \/ Hello!MainExits \/ Hello!OtherTask \/ Hello!Ended
           \/ UNCHANGED Hello!vars
  <2>1. UNCHANGED <<t, thread, arg, greetings>>
    BY <1>1 DEF Hello!CreateFails, Hello!MainExits, Hello!OtherTask, Hello!Ended, Hello!vars
  <2> QED
    BY <2>1, GreetsNobody DEF ThreadsInv, Numbered, Greeted
<1> QED
  BY <1>1, CreateKeeps, GreetKeeps, EndKeeps DEF Hello!Next

\* Whatever the number of threads and the limit, whether the process ends by
\* exit(-1) or by its last thread: the greetings are those of the threads that
\* have greeted, one of each.
THEOREM GreetingsAreTrue == ProgramsSpec => []EachGreetsAsItself
<1>1. ThreadsEnded => ThreadsInv
  <2> SUFFICES ASSUME ThreadsEnded PROVE ThreadsInv
    OBVIOUS
  <2> USE DEF ThreadsEnded
  <2>1. Numbered
    BY HowMany DEF Numbered, ThreadStates, Hello!Threads
  <2>2. Greeted = {} /\ greetings = <<>>
    BY DEF Greeted
  <2> QED
    BY <2>1, <2>2 DEF ThreadsInv, OneOfEach
<1>2. ProgramsInit => ThreadsInv
  BY <1>1, ThreadsInit DEF ProgramsInit
<1>3. ThreadsInv /\ [ProgramsNext]_<<program, greeting, metering>> => ThreadsInv'
  BY ThreadsKeep DEF ProgramsNext, Hello!vars, greeting
<1>4. ThreadsInv => EachGreetsAsItself
  BY DEF ThreadsInv, OneOfEach, Greeted, EachGreetsAsItself, Hello!EachGreetsAsItself
<1> QED
  BY <1>2, <1>3, <1>4, PTL DEF ProgramsSpec

----------------------------------------------------------------------------
(* The alarm.                                                               *)

Words == Meter!Range64
Slowest == Second + 2 * MaxLate

\* How the counter reads when some cycles have passed since it read r.
After(r, cycles, now) ==
  /\ r \in 0 .. Words - 1 /\ cycles \in 0 .. Slowest
  /\ now = IF r + cycles < Words THEN r + cycles ELSE r + cycles - Words

\* From the first reading on the counter is that many cycles ahead of it as were
\* counted, and there is time for no more of them than the counter can tell apart.
MeterInv ==
  /\ meter_pc \in {"signal", "read", "alarm", "loop", "pause", "handler", "printf", "kill",
                  "killed"}
  /\ tsc \in 0 .. Words - 1 /\ taken \in Nat /\ left \in Nat
  /\ meter_pc # "signal" => handler
  /\ meter_pc \in {"signal", "read", "alarm"} => ~alarm /\ left = 0
  /\ meter_pc = "alarm" => After(t1, taken, tsc) /\ taken <= MaxLate
  /\ meter_pc \in {"loop", "pause", "handler"} =>
       After(t1, taken, tsc) /\ (left > 0 => taken + left <= Second + MaxLate)
  /\ meter_pc = "printf" => After(t1, taken, t2)
  /\ meter_pc \in {"kill", "killed"} => buffer = <<taken>>
  /\ meter_pc \notin {"kill", "killed"} => buffer = <<>>

\* The bounds of the model: a second and its delays are fewer cycles than the counter has.
LEMMA WordsFacts ==
  /\ Words \in Nat \ {0} /\ Slowest \in Nat /\ Slowest < Words
  /\ Second \in Nat \ {0} /\ MaxLate \in Nat \ {0}
<1>1. /\ Base \in Nat \ {0} /\ Second \in Nat \ {0} /\ MaxLate \in Nat \ {0}
      /\ Second + 2 * MaxLate < Base * Base
  BY ProgramsAssumption DEF Meter!CycleMeterAssumption
<1>2. Base * Base \in Nat \ {0}
  BY <1>1
<1> QED
  BY <1>1, <1>2 DEF Words, Slowest, Meter!Range64

\* What the counter does at its end, and what the difference of two readings is.
LEMMA WrapsAround ==
  ASSUME NEW R \in Nat \ {0}
  PROVE  /\ R % R = 0
         /\ \A x \in 0 .. R - 1 : x % R = x /\ (x - R) % R = x
<1>1. R % R = 0
  OBVIOUS
<1>2. ASSUME NEW x \in 0 .. R - 1 PROVE x % R = x
  OBVIOUS
<1>3. ASSUME NEW x \in 0 .. R - 1 PROVE (x - R) % R = x
  OBVIOUS
<1> QED
  BY <1>1, <1>2, <1>3

\* Another cycle.
LEMMA AfterOneMore ==
  ASSUME NEW r, NEW cycles, NEW now, After(r, cycles, now), cycles + 1 <= Slowest
  PROVE  After(r, cycles + 1, (now + 1) % Words)
<1>1. PICK R \in Nat \ {0} : R = Words /\ Slowest \in Nat /\ Slowest < R
  BY WordsFacts
<1>2. /\ r \in 0 .. R - 1 /\ cycles \in 0 .. Slowest
      /\ now = IF r + cycles < R THEN r + cycles ELSE r + cycles - R
  BY <1>1 DEF After
<1>3. now \in 0 .. R - 1
  BY <1>1, <1>2
<1>4. (now + 1) % R = IF now + 1 = R THEN 0 ELSE now + 1
  <2>1. CASE now + 1 = R
    BY <2>1, WrapsAround
  <2>2. CASE now + 1 # R
    <3>1. now + 1 \in 0 .. R - 1
      BY <1>3, <2>2
    <3> QED
      BY <2>2, <3>1, WrapsAround
  <2> QED
    BY <2>1, <2>2
<1>5. PICK next : next = (now + 1) % R
  OBVIOUS
<1>6. next = IF r + (cycles + 1) < R THEN r + (cycles + 1) ELSE r + (cycles + 1) - R
  BY <1>1, <1>2, <1>3, <1>4, <1>5
<1>7. cycles + 1 \in 0 .. Slowest
  BY <1>1, <1>2
<1> QED
  BY <1>1, <1>2, <1>5, <1>6, <1>7 DEF After

\* The difference of two readings.
LEMMA Difference ==
  ASSUME NEW r, NEW cycles, NEW now, After(r, cycles, now)
  PROVE  (now - r) % Words = cycles
<1>1. PICK R \in Nat \ {0} : R = Words /\ Slowest \in Nat /\ Slowest < R
  BY WordsFacts
<1>2. /\ r \in 0 .. R - 1 /\ cycles \in 0 .. Slowest
      /\ now = IF r + cycles < R THEN r + cycles ELSE r + cycles - R
  BY <1>1 DEF After
<1>3. cycles \in 0 .. R - 1
  BY <1>1, <1>2
<1>4. now - r = cycles \/ now - r = cycles - R
  BY <1>1, <1>2
<1> QED
  BY <1>1, <1>3, <1>4, WrapsAround

\* Nothing is read yet.
LEMMA MeterBegins == Meter!Init => MeterInv
BY WordsFacts DEF Meter!Init, MeterInv, Words

\* A cycle is counted, and the counter goes on by it or begins again.
LEMMA CycleKeeps == MeterInv /\ Meter!Cycle => MeterInv'
<1> SUFFICES ASSUME MeterInv, Meter!Cycle PROVE MeterInv'
  OBVIOUS
<1>1. /\ meter_pc \in {"read", "alarm", "loop", "pause", "handler"}
      /\ tsc' = (tsc + 1) % Words /\ taken' = taken + 1
      /\ left' = (IF left > 0 THEN left - 1 ELSE 0)
      /\ meter_pc' = meter_pc /\ handler' = handler /\ alarm' = alarm
      /\ t1' = t1 /\ buffer' = buffer
  BY DEF Meter!Cycle, MeterInv, Words
<1>2. /\ Words \in Nat \ {0} /\ tsc \in 0 .. Words - 1 /\ taken \in Nat /\ left \in Nat
      /\ Second \in Nat /\ MaxLate \in Nat /\ Slowest = Second + 2 * MaxLate
  BY WordsFacts DEF MeterInv, Slowest
<1>3. tsc' \in 0 .. Words - 1
  <2>1. PICK R \in Nat \ {0} : R = Words
    BY <1>2
  <2>2. (tsc + 1) % R \in 0 .. R - 1
    BY <1>2, <2>1
  <2> QED
    BY <1>1, <2>1, <2>2
<1>4. taken' \in Nat /\ left' \in Nat
  BY <1>1, <1>2
<1>5. left > 0 \/ taken < (IF meter_pc \in {"read", "alarm"} /\ ~alarm THEN MaxLate ELSE Slowest)
  BY <1>2 DEF Meter!Cycle, Meter!Bound
<1>6. CASE meter_pc = "read"
  BY <1>1, <1>3, <1>4, <1>6 DEF MeterInv
<1>7. CASE meter_pc = "alarm"
  <2>1. left = 0 /\ ~alarm /\ taken < MaxLate /\ After(t1, taken, tsc)
    BY <1>2, <1>5, <1>7 DEF MeterInv
  <2>2. taken + 1 <= MaxLate /\ taken + 1 <= Slowest
    BY <1>2, <2>1
  <2>3. After(t1, taken + 1, (tsc + 1) % Words)
    BY <2>1, <2>2, AfterOneMore
  <2> QED
    BY <1>1, <1>3, <1>4, <1>7, <2>1, <2>2, <2>3 DEF MeterInv
<1>8. CASE meter_pc \in {"loop", "pause", "handler"}
  <2>1. After(t1, taken, tsc) /\ (left > 0 => taken + left <= Second + MaxLate)
    BY <1>8 DEF MeterInv
  <2>2. taken + 1 <= Slowest
    BY <1>2, <1>5, <1>8, <2>1
  <2>3. After(t1, taken + 1, (tsc + 1) % Words)
    BY <2>1, <2>2, AfterOneMore
  <2>4. left' > 0 => (taken + 1) + left' <= Second + MaxLate
    BY <1>1, <1>2, <2>1
  <2> QED
    BY <1>1, <1>3, <1>4, <1>8, <2>3, <2>4 DEF MeterInv
<1> QED
  BY <1>1, <1>6, <1>7, <1>8

\* The steps of main() and of the handler, each as early or late as may be.
LEMMA MeterStepKeeps ==
  ASSUME Registers = "edx:eax", MeterInv, Meter!Step \/ Meter!Pause \/ Meter!Deliver
  PROVE  MeterInv'
<1>1. CASE Meter!Signal
  BY <1>1 DEF Meter!Signal, MeterInv
<1>2. CASE Meter!ReadFirst
  <2>1. /\ meter_pc = "read" /\ meter_pc' = "alarm" /\ t1' = tsc /\ taken' = 0 /\ tsc' = tsc
        /\ handler' = handler /\ alarm' = alarm /\ left' = left /\ buffer' = buffer
    BY <1>2 DEF Meter!ReadFirst, Meter!currentcycles
  <2>2. After(tsc, 0, tsc) /\ 0 <= MaxLate
    BY WordsFacts DEF After, MeterInv
  <2> QED
    BY <2>1, <2>2 DEF MeterInv
<1>3. CASE Meter!Alarm
  <2>1. /\ meter_pc = "alarm" /\ meter_pc' = "loop" /\ left' = Second /\ taken' = taken
        /\ t1' = t1 /\ tsc' = tsc /\ handler' = handler /\ buffer' = buffer
    BY <1>3 DEF Meter!Alarm
  <2>2. taken + Second <= Second + MaxLate /\ Second \in Nat
    BY <2>1, WordsFacts DEF MeterInv
  <2> QED
    BY <2>1, <2>2 DEF MeterInv
<1>4. CASE Meter!ReadSecond
  <2>1. /\ meter_pc = "handler" /\ meter_pc' = "printf" /\ t2' = tsc /\ taken' = taken
        /\ t1' = t1 /\ tsc' = tsc /\ handler' = handler /\ buffer' = buffer /\ left' = left
    BY <1>4 DEF Meter!ReadSecond, Meter!currentcycles
  <2> QED
    BY <2>1 DEF MeterInv
<1>5. CASE Meter!Printf
  <2>1. /\ meter_pc = "printf" /\ meter_pc' = "kill" /\ taken' = taken /\ tsc' = tsc
        /\ handler' = handler /\ left' = left
        /\ buffer' = Append(buffer, (t2 - t1) % Words)
    BY <1>5 DEF Meter!Printf, Words
  <2>2. (t2 - t1) % Words = taken /\ buffer = <<>>
    BY <2>1, Difference DEF MeterInv
  <2>3. buffer' = <<taken>>
    BY <2>1, <2>2
  <2> QED
    BY <2>1, <2>3 DEF MeterInv
<1>6. CASE Meter!Kill
  BY <1>6 DEF Meter!Kill, MeterInv
<1>7. CASE Meter!Pause
  BY <1>7 DEF Meter!Pause, MeterInv
<1>8. CASE Meter!Deliver
  <2>1. /\ meter_pc \in {"loop", "pause"} /\ meter_pc' = "handler"
        /\ left' = left /\ taken' = taken /\ t1' = t1 /\ tsc' = tsc /\ handler' = handler
        /\ buffer' = buffer
    BY <1>8 DEF Meter!Deliver, MeterInv
  <2> QED
    BY <2>1 DEF MeterInv
<1> QED
  BY <1>1, <1>2, <1>3, <1>4, <1>5, <1>6, <1>7, <1>8 DEF Meter!Step

\* The alarm comes wherever it comes: with both words of the counter, what is
\* printed is the cycles between the two readings, the counter's end among them.
THEOREM BothWordsMeasure ==
  ASSUME Registers = "edx:eax"
  PROVE  Meter!Spec => []Meter!MeasuresCycles
<1>1. MeterInv /\ [Meter!Next]_Meter!vars => MeterInv'
  <2>1. MeterInv /\ UNCHANGED Meter!vars => MeterInv'
    BY DEF MeterInv, Meter!vars, After
  <2> QED
    BY <2>1, CycleKeeps, MeterStepKeeps DEF Meter!Next, Meter!Ended
<1>2. MeterInv => Meter!MeasuresCycles
  BY DEF MeterInv, Meter!MeasuresCycles
<1> QED
  BY <1>1, <1>2, MeterBegins, PTL DEF Meter!Spec

----------------------------------------------------------------------------
(* The benchmark.                                                           *)

Grid == {Points[j] : j \in DOMAIN Points}
Results == [point : Grid, start : Nat, layout : Layouts \cup {"none"}]

\* The sequence begins the grid, in its order, and is all of one start.
BeginsGrid(seq, start) ==
  \A j \in 1 .. Len(seq) : seq[j].point = Points[j] /\ seq[j].start = start

\* While a script runs, there is one result for each point that has had its
\* turn.
BenchmarkInv ==
  /\ pc \in {"exit", "clear", "run", "fio", "wait", "next", "done"}
  /\ starts \in Nat /\ results \in Seq(Results)
  /\ pc \in {"run", "fio", "wait", "next"} => n \in 1 .. Len(Points)
  /\ pc = "run" => Len(results) = n - 1
  /\ pc \in {"fio", "wait", "next"} => Len(results) = n
  /\ pc = "done" => Len(results) = Len(Points)
  /\ pc \in {"run", "fio", "wait", "next", "done"} => BeginsGrid(results, starts)

\* The grid is a sequence of different points, and no layout is a mark.
LEMMA GridFacts ==
  /\ Points \in Seq(Grid) /\ Len(Points) \in Nat /\ Len(Points) >= 1
  /\ DOMAIN Points = 1 .. Len(Points)
  /\ \A j, l \in 1 .. Len(Points) : Points[j] = Points[l] => j = l
  /\ "none" \notin Layouts /\ "gone" \notin Layouts
<1>1. /\ Points \in Seq(Grid) /\ Points # <<>> /\ "none" \notin Layouts /\ "gone" \notin Layouts
      /\ \A j, l \in DOMAIN Points : Points[j] = Points[l] => j = l
  BY DiskBenchmarkAssumption DEF Grid
<1> QED
  BY <1>1

\* A result without its layout keeps its place.
LEMMA RecordIs ==
  ASSUME NEW layout \in Layouts \cup {"none"}, BenchmarkInv, results # <<>>, Record(layout)
  PROVE  /\ results' \in Seq(Results) /\ Len(results') = Len(results)
         /\ \A j \in 1 .. Len(results) :
              results'[j].point = results[j].point /\ results'[j].start = results[j].start
<1>1. results \in Seq(Results) /\ Len(results) \in Nat /\ Len(results) >= 1
  BY DEF BenchmarkInv
<1>2. results' = [results EXCEPT ![Len(results)].layout = layout]
  BY DEF Record
<1>3. results[Len(results)] \in Results
  BY <1>1
<1> QED
  BY <1>1, <1>2, <1>3 DEF Results

\* The scripts' own steps, and what others do.
LEMMA BenchmarkKeeps == BenchmarkInv /\ BenchmarkStep => BenchmarkInv'
<1> SUFFICES ASSUME BenchmarkInv, BenchmarkStep PROVE BenchmarkInv'
  OBVIOUS
<1>1. /\ Len(Points) \in Nat /\ Len(Points) >= 1 /\ results \in Seq(Results)
      /\ Len(results) \in Nat /\ starts \in Nat
  BY GridFacts DEF BenchmarkInv
<1>2. CASE Start \/ Killed \/ OtherFio
  BY <1>1, <1>2 DEF BenchmarkInv, BeginsGrid, Start, Killed, OtherFio, unchanged
<1>3. CASE Clear
  <2>1. pc' = "run" /\ n' = 1 /\ results' = <<>> /\ starts' = starts
    BY <1>3 DEF Clear
  <2>2. results' \in Seq(Results) /\ Len(results') = 0
    BY <2>1
  <2> QED
    BY <1>1, <2>1, <2>2 DEF BenchmarkInv, BeginsGrid
<1>4. CASE Fio
  <2>1. PICK r : r = [point |-> Points[n], start |-> starts, layout |-> "none"]
    OBVIOUS
  <2>2. /\ pc = "run" /\ n \in 1 .. Len(Points) /\ Len(results) = n - 1 /\ pc' = "fio"
        /\ n' = n /\ starts' = starts /\ results' = Append(results, r)
        /\ BeginsGrid(results, starts)
    BY <1>4, <2>1 DEF BenchmarkInv, Fio
  <2>3. Points[n] \in Grid
    BY <2>2, GridFacts
  <2>4. r \in Results /\ r.point = Points[n] /\ r.start = starts
    BY <1>1, <2>1, <2>3 DEF Results
  <2>5. /\ results' \in Seq(Results) /\ Len(results') = n
        /\ \A j \in 1 .. n - 1 : results'[j] = results[j]
        /\ results'[n] = r
    BY <1>1, <2>2, <2>4
  <2>6. BeginsGrid(results', starts)
    BY <2>2, <2>4, <2>5 DEF BeginsGrid
  <2> QED
    BY <1>1, <2>2, <2>5, <2>6 DEF BenchmarkInv
<1>5. ASSUME NEW layout \in Layouts \cup {"none"}, FioEnds(layout) \/ Wait(layout)
      PROVE  BenchmarkInv'
  <2>1. /\ pc \in {"fio", "wait"} /\ n \in 1 .. Len(Points) /\ Len(results) = n
        /\ pc' \in {"wait", "next"} /\ n' = n /\ starts' = starts
        /\ BeginsGrid(results, starts)
        /\ Record(layout) \/ results' = results
    BY <1>5 DEF BenchmarkInv, FioEnds, Wait
  <2>2. results # <<>>
    BY <2>1
  <2>3. /\ results' \in Seq(Results) /\ Len(results') = n
        /\ \A j \in 1 .. n :
             results'[j].point = results[j].point /\ results'[j].start = results[j].start
    BY <1>1, <2>1, <2>2, RecordIs
  <2>4. BeginsGrid(results', starts)
    BY <2>1, <2>3 DEF BeginsGrid
  <2> QED
    BY <1>1, <2>1, <2>3, <2>4 DEF BenchmarkInv
<1>6. CASE NextPoint
  <2>1. /\ pc = "next" /\ n \in 1 .. Len(Points) /\ Len(results) = n
        /\ pc' = (IF n = Len(Points) THEN "done" ELSE "run") /\ n' = n + 1
        /\ starts' = starts /\ results' = results
        /\ BeginsGrid(results, starts)
    BY <1>6 DEF BenchmarkInv, NextPoint
  <2> QED
    BY <1>1, <2>1 DEF BenchmarkInv
<1> QED
  BY <1>2, <1>3, <1>4, <1>5, <1>6 DEF BenchmarkStep

\* What a run that is through has left.
LEMMA ThroughIs ==
  ASSUME BenchmarkInv, pc = "done"
  PROVE  /\ Len(results) = Len(Points) /\ BeginsGrid(results, starts)
         /\ OneResultEach
<1>1. Len(results) = Len(Points) /\ BeginsGrid(results, starts) /\ results \in Seq(Results)
  BY DEF BenchmarkInv
<1> QED
  BY <1>1 DEF OneResultEach, BeginsGrid

----------------------------------------------------------------------------
(* The report.                                                              *)

Listed == {results[j] : j \in DOMAIN results}

\* L is what a run that was through had left: results of one start, one for a
\* point.
OneRun(L, start) ==
  /\ L # {} /\ L \subseteq Results
  /\ \A f, g \in L : f.start = start /\ (f.point = g.point => f = g)

\* The results of L are still there, all of them, or none is.
AllOrNone(L, start) ==
  /\ start \in Nat /\ start <= starts
  /\ \/ Listed = L /\ pc = "done" /\ start = starts
     \/ Listed = L /\ pc \in {"exit", "clear"} /\ start < starts
     \/ (\A f \in Listed : f.start # start) /\ start < starts

\* The table has those results that have been read and have the head's options.
TableOf(L) ==
  /\ files \subseteq L
  /\ head = "none" => rows = {} /\ files = L
  /\ head # "none" => rows = {f \in L \ files : f.layout = head} /\ rows # {}

ReportInv ==
  /\ at \in {"idle", "file", "raised", "closed"}
  /\ at = "idle" => head = "none" /\ rows = {}
  /\ at = "closed" => files = {}
  /\ at \in {"file", "closed"} /\ through =>
       \E L, start : OneRun(L, start) /\ AllOrNone(L, start) /\ TableOf(L)

\* What is listed of a run that is through.
LEMMA ListedIsOneRun ==
  ASSUME BenchmarkInv, pc = "done"
  PROVE  OneRun(Listed, starts) /\ AllOrNone(Listed, starts)
<1>1. /\ results \in Seq(Results) /\ Len(results) = Len(Points) /\ starts \in Nat
      /\ BeginsGrid(results, starts) /\ Len(Points) \in Nat /\ Len(Points) >= 1
      /\ \A j, l \in 1 .. Len(Points) : Points[j] = Points[l] => j = l
  BY ThroughIs, GridFacts DEF BenchmarkInv
<1>2. /\ DOMAIN results = 1 .. Len(Points) /\ 1 \in DOMAIN results
      /\ \A j \in DOMAIN results :
           /\ results[j] \in Results
           /\ results[j].point = Points[j] /\ results[j].start = starts
  BY <1>1 DEF BeginsGrid
<1>3. Listed # {} /\ Listed \subseteq Results
  BY <1>2 DEF Listed
<1>4. ASSUME NEW f \in Listed, NEW g \in Listed
      PROVE  f.start = starts /\ (f.point = g.point => f = g)
  <2>1. PICK j \in DOMAIN results : f = results[j]
    BY DEF Listed
  <2>2. PICK l \in DOMAIN results : g = results[l]
    BY DEF Listed
  <2> QED
    BY <1>1, <1>2, <2>1, <2>2
<1> QED
  BY <1>1, <1>3, <1>4 DEF OneRun, AllOrNone

\* A file that can be read holds what was listed.
LEMMA ContentIs ==
  ASSUME NEW L, NEW start, OneRun(L, start), AllOrNone(L, start), TableOf(L),
         NEW f \in files, Readable(f)
  PROVE  f \in L /\ Content(f) = f.layout /\ f.layout # "none"
<1>1. f \in L /\ f.start = start /\ \A g \in L : g.point = f.point => g = f
  BY DEF OneRun, TableOf
<1>2. PICK now : now = {j \in DOMAIN results :
                          results[j].point = f.point /\ results[j].start = f.start}
  OBVIOUS
<1>3. Content(f) = IF now = {} THEN "gone" ELSE results[CHOOSE j \in now : TRUE].layout
  BY <1>2 DEF Content
<1>4. Content(f) \in Layouts /\ Content(f) # "gone" /\ Content(f) # "none"
  BY GridFacts DEF Readable
<1>5. now # {}
  BY <1>3, <1>4
<1>6. PICK j \in now : j = CHOOSE l \in now : TRUE
  BY <1>5
<1>7. results[j] \in Listed /\ results[j].point = f.point /\ results[j].start = start
  <2>1. j \in DOMAIN results /\ results[j].point = f.point /\ results[j].start = f.start
    BY <1>2, <1>6
  <2> QED
    BY <1>1, <2>1 DEF Listed
<1>8. Listed = L
  BY <1>7 DEF AllOrNone
<1>9. results[j] = f
  BY <1>1, <1>7, <1>8
<1> QED
  BY <1>1, <1>3, <1>4, <1>5, <1>6, <1>9

\* The benchmark goes on while the table is made.
LEMMA AllOrNoneKeeps ==
  ASSUME BenchmarkInv, BenchmarkStep, NEW L, NEW start,
         OneRun(L, start), AllOrNone(L, start)
  PROVE  AllOrNone(L, start)'
<1>1. /\ starts \in Nat /\ start \in Nat /\ start <= starts /\ L # {}
      /\ results \in Seq(Results) /\ Len(results) \in Nat
      /\ \A f \in L : f.start = start
  BY DEF BenchmarkInv, AllOrNone, OneRun
<1>2. CASE Start
  <2>1. /\ pc \in {"exit", "done"} /\ starts' = starts + 1 /\ results' = results
        /\ pc' \in {"clear", "exit"}
    BY <1>2 DEF Start
  <2>2. Listed' = Listed
    BY <2>1 DEF Listed
  <2> QED
    BY <1>1, <2>1, <2>2 DEF AllOrNone
<1>3. CASE Killed \/ OtherFio
  <2>1. /\ results' = results /\ starts' = starts
        /\ pc' = pc \/ (pc # "done" /\ pc' = "exit")
    BY <1>3 DEF Killed, OtherFio
  <2>2. Listed' = Listed
    BY <2>1 DEF Listed
  <2> QED
    BY <1>1, <2>1, <2>2 DEF AllOrNone
<1>4. CASE Clear
  <2>1. pc = "clear" /\ results' = <<>> /\ starts' = starts
    BY <1>4 DEF Clear
  <2>2. Listed' = {}
    BY <2>1 DEF Listed
  <2> QED
    BY <1>1, <2>1, <2>2 DEF AllOrNone
<1>5. ASSUME pc \in {"run", "fio", "wait", "next"}
      PROVE  start < starts /\ \A j \in 1 .. Len(results) : results[j].start # start
  <2>1. (\A f \in Listed : f.start # start) /\ start < starts
    BY <1>5 DEF AllOrNone
  <2>2. \A j \in 1 .. Len(results) : results[j] \in Listed
    BY <1>1 DEF Listed
  <2> QED
    BY <2>1, <2>2
<1>6. ASSUME start < starts, starts' = starts, results' \in Seq(Results),
             \A j \in 1 .. Len(results') : results'[j].start # start
      PROVE  AllOrNone(L, start)'
  <2>1. ASSUME NEW f \in Listed' PROVE f.start # start
    <3>1. PICK j \in DOMAIN results' : f = results'[j]
      BY <2>1 DEF Listed
    <3>2. j \in 1 .. Len(results')
      BY <1>6, <3>1
    <3> QED
      BY <1>6, <3>1, <3>2
  <2> QED
    BY <1>1, <1>6, <2>1 DEF AllOrNone
<1>7. CASE Fio
  <2>1. PICK r : r = [point |-> Points[n], start |-> starts, layout |-> "none"]
    OBVIOUS
  <2>2. pc = "run" /\ starts' = starts /\ results' = Append(results, r) /\ r.start = starts
    BY <1>7, <2>1 DEF Fio
  <2>3. results' \in Seq(Results)
    BY <1>7, BenchmarkKeeps DEF BenchmarkInv
  <2>4. \A j \in 1 .. Len(results') : results'[j] = r \/ \E l \in 1 .. Len(results) :
                                                           results'[j] = results[l]
    BY <1>1, <2>2
  <2>5. start < starts /\ \A j \in 1 .. Len(results') : results'[j].start # start
    BY <1>1, <1>5, <2>2, <2>4
  <2> QED
    BY <1>6, <2>2, <2>3, <2>5
<1>8. ASSUME NEW layout \in Layouts \cup {"none"}, FioEnds(layout) \/ Wait(layout)
      PROVE  AllOrNone(L, start)'
  <2>1. /\ pc \in {"fio", "wait"} /\ starts' = starts
        /\ Record(layout) \/ results' = results
    BY <1>8 DEF FioEnds, Wait
  <2>2. results # <<>>
    BY <1>1, <2>1, GridFacts DEF BenchmarkInv
  <2>3. /\ results' \in Seq(Results) /\ Len(results') = Len(results)
        /\ \A j \in 1 .. Len(results) : results'[j].start = results[j].start
    BY <1>1, <2>1, <2>2, RecordIs
  <2> QED
    BY <1>5, <1>6, <2>1, <2>3
<1>9. CASE NextPoint
  <2>1. pc = "next" /\ starts' = starts /\ results' = results
    BY <1>9 DEF NextPoint
  <2> QED
    BY <1>1, <1>5, <1>6, <2>1
<1> QED
  BY <1>2, <1>3, <1>4, <1>7, <1>8, <1>9 DEF BenchmarkStep

\* A step that leaves the report alone.
LEMMA BenchmarkStepKeepsReport ==
  BenchmarkInv /\ ReportInv /\ BenchmarkStep /\ UNCHANGED report => ReportInv'
<1> SUFFICES ASSUME BenchmarkInv, ReportInv, BenchmarkStep, UNCHANGED report PROVE ReportInv'
  OBVIOUS
<1>1. at' = at /\ files' = files /\ through' = through /\ head' = head /\ rows' = rows
  BY DEF report
<1>2. ASSUME at \in {"file", "closed"} /\ through
      PROVE  \E L, start : OneRun(L, start)' /\ AllOrNone(L, start)' /\ TableOf(L)'
  <2>1. PICK L, start : OneRun(L, start) /\ AllOrNone(L, start) /\ TableOf(L)
    BY <1>2 DEF ReportInv
  <2>2. AllOrNone(L, start)'
    BY <2>1, AllOrNoneKeeps
  <2>3. OneRun(L, start)' /\ TableOf(L)'
    BY <2>1, <1>1 DEF OneRun, TableOf
  <2> QED
    BY <2>2, <2>3
<1>3. at' \in {"file", "closed"} /\ through' =>
        \E L, start : OneRun(L, start)' /\ AllOrNone(L, start)' /\ TableOf(L)'
  BY <1>1, <1>2
<1> QED
  BY <1>1, <1>3 DEF ReportInv

\* os.walk lists what is there.
LEMMA WalkKeeps == BenchmarkInv /\ ReportInv /\ Walk => ReportInv'
<1> SUFFICES ASSUME BenchmarkInv, ReportInv, Walk PROVE ReportInv'
  OBVIOUS
<1>1. /\ at = "idle" /\ at' = "file" /\ files' = Listed /\ through' = (pc = "done")
      /\ head' = head /\ rows' = rows /\ head = "none" /\ rows = {}
      /\ results' = results /\ pc' = pc /\ starts' = starts
  BY DEF Walk, ReportInv, Listed, benchmark
<1>2. ASSUME pc = "done"
      PROVE  \E L, start : OneRun(L, start)' /\ AllOrNone(L, start)' /\ TableOf(L)'
  <2>1. PICK L : L = Listed
    OBVIOUS
  <2>2. OneRun(L, starts) /\ AllOrNone(L, starts)
    BY <1>2, <2>1, ListedIsOneRun
  <2>3. Listed' = Listed
    BY <1>1 DEF Listed
  <2>4. PICK s0 : s0 = starts
    OBVIOUS
  <2>5. OneRun(L, s0)' /\ AllOrNone(L, s0)'
    BY <1>1, <2>2, <2>3, <2>4 DEF OneRun, AllOrNone
  <2>6. TableOf(L)'
    BY <1>1, <2>1 DEF TableOf
  <2> QED
    BY <2>5, <2>6
<1> QED
  BY <1>1, <1>2 DEF ReportInv

\* A row, or none, for the file that is read.
LEMMA RowKeeps == ASSUME ReportInv, NEW f \in files, Row(f) PROVE ReportInv'
<1>1. /\ at = "file" /\ at' = at /\ through' = through /\ Readable(f)
      /\ head' = (IF head = "none" THEN Content(f) ELSE head)
      /\ rows' = (IF head' = Content(f) THEN rows \cup {f} ELSE rows)
      /\ files' = files \ {f}
      /\ results' = results /\ pc' = pc /\ starts' = starts
  BY DEF Row, Readable, benchmark
<1>2. ASSUME through
      PROVE  \E L, start : OneRun(L, start)' /\ AllOrNone(L, start)' /\ TableOf(L)'
  <2>1. PICK L, start : OneRun(L, start) /\ AllOrNone(L, start) /\ TableOf(L)
    BY <1>1, <1>2 DEF ReportInv
  <2>2. f \in L /\ Content(f) = f.layout /\ f.layout # "none"
    BY <1>1, <2>1, ContentIs
  <2>3. Listed' = Listed
    BY <1>1 DEF Listed
  <2>4. OneRun(L, start)' /\ AllOrNone(L, start)'
    BY <1>1, <2>1, <2>3 DEF OneRun, AllOrNone
  <2>5. CASE head = "none"
    <3>1. head' = f.layout /\ rows' = {f} /\ L \ files' = {f} /\ files' \subseteq L
      BY <1>1, <2>1, <2>2, <2>5 DEF TableOf
    <3> QED
      BY <2>2, <2>4, <3>1 DEF TableOf
  <2>6. CASE head # "none"
    <3>1. /\ head' = head /\ rows = {g \in L \ files : g.layout = head} /\ rows # {}
          /\ rows' = (IF head = f.layout THEN rows \cup {f} ELSE rows)
          /\ files \subseteq L /\ L \ files' = (L \ files) \cup {f} /\ files' \subseteq L
      BY <1>1, <2>1, <2>2, <2>6 DEF TableOf
    <3>2. rows' = {g \in L \ files' : g.layout = head}
      BY <3>1
    <3> QED
      BY <2>4, <2>6, <3>1, <3>2 DEF TableOf
  <2> QED
    BY <2>5, <2>6
<1> QED
  BY <1>1, <1>2 DEF ReportInv

\* The end of the table, or of the script that makes it.
LEMMA EndKeepsReport == ReportInv /\ (Close \/ \E f \in files : Raise(f)) => ReportInv'
<1> SUFFICES ASSUME ReportInv, Close \/ \E f \in files : Raise(f) PROVE ReportInv'
  OBVIOUS
<1>1. /\ at = "file" /\ (at' = "raised" \/ (at' = "closed" /\ files = {}))
      /\ files' = files /\ through' = through /\ head' = head /\ rows' = rows
      /\ results' = results /\ pc' = pc /\ starts' = starts
  BY DEF Close, Raise, benchmark
<1>2. Listed' = Listed
  BY <1>1 DEF Listed
<1>3. ASSUME through
      PROVE  \E L, start : OneRun(L, start)' /\ AllOrNone(L, start)' /\ TableOf(L)'
  <2>1. PICK L, start : OneRun(L, start) /\ AllOrNone(L, start) /\ TableOf(L)
    BY <1>1, <1>3 DEF ReportInv
  <2> QED
    BY <1>1, <1>2, <2>1 DEF OneRun, AllOrNone, TableOf
<1> QED
  BY <1>1, <1>3 DEF ReportInv

\* A table of a run that was through.
LEMMA ReportSays == ReportInv => TableMatchesGrid
<1> SUFFICES ASSUME ReportInv, at = "closed", through PROVE TableMatchesGrid
  BY DEF TableMatchesGrid
<1>1. PICK L, start : OneRun(L, start) /\ AllOrNone(L, start) /\ TableOf(L)
  BY DEF ReportInv
<1>2. files = {}
  BY DEF ReportInv
<1>3. rows = {f \in L : f.layout = head} /\ rows # {}
  BY <1>1, <1>2 DEF TableOf, OneRun
<1>4. \A f, g \in rows : f.layout = head /\ f.start = g.start /\ (f.point = g.point => f = g)
  BY <1>1, <1>3 DEF OneRun
<1>5. rows \subseteq Listed => {f \in Listed : f.layout = head} = rows
  <2> SUFFICES ASSUME rows \subseteq Listed PROVE {f \in Listed : f.layout = head} = rows
    OBVIOUS
  <2>1. PICK f \in rows : f \in L /\ f \in Listed /\ f.start = start
    BY <1>1, <1>3 DEF OneRun
  <2>2. Listed = L
    BY <1>1, <2>1 DEF AllOrNone
  <2> QED
    BY <1>3, <2>2
<1> QED
  BY <1>3, <1>4, <1>5 DEF TableMatchesGrid, Listed

----------------------------------------------------------------------------
(* The visitor.                                                             *)

\* Where the visit is: in front of the page whose turn it is every file is
\* whole, and pages have only been printed about up to it.
Visited ==
  /\ k \in 1 .. Len(Pages) + 1 /\ (visit_pc \in {"urlopen", "images"} => k <= Len(Pages))
  /\ \A j \in 1 .. Len(Pages) : j < k => file[Pages[j]] = "page"
  /\ \A p \in said : \E j \in 1 .. Len(Pages) : j <= k /\ p = Pages[j]

\* The buffer is the page's when its images are fetched, and the images that
\* are yet to fetch have not been asked for.
VisitorInv ==
  /\ Visited /\ DOMAIN file = {Pages[j] : j \in 1 .. Len(Pages)}
  /\ visit_pc = "images" => pageFile = "page"
  /\ fetched \in [Images -> {0, 1}]
  /\ visit_pc = "images" => imageSet \subseteq {i \in Images : fetched[i] = 0}

\* What AtMostOneLost says of a step.
OneLost ==
  /\ \A j \in DOMAIN Pages : j < k' => file'[Pages[j]] = "page"
  /\ \A j \in DOMAIN Pages : j > k => file'[Pages[j]] = file[Pages[j]]
  /\ \A p \in said' : file'[p] = "page" \/ p = Visitor!page
  /\ \A i \in Images : fetched'[i] <= 1

\* The pages are a sequence of different names.
LEMMA PagesFacts ==
  /\ Len(Pages) \in Nat /\ DOMAIN Pages = 1 .. Len(Pages)
  /\ \A j, l \in 1 .. Len(Pages) : Pages[j] = Pages[l] => j = l
<1>1. /\ Pages \in Seq({Pages[j] : j \in DOMAIN Pages})
      /\ \A j, l \in DOMAIN Pages : Pages[j] = Pages[l] => j = l
  BY ScriptsAssumption DEF Visitor!PageVisitorAssumption
<1> QED
  BY <1>1

\* The visit begins with the first page.
LEMMA VisitorBegins == (Visitor!Init \/ VisitorAtRest) => VisitorInv
<1> SUFFICES ASSUME Visitor!Init \/ VisitorAtRest PROVE VisitorInv
  OBVIOUS
<1>1. /\ visit_pc = "open" /\ k = 1 /\ said = {} /\ fetched = [i \in Images |-> 0]
      /\ DOMAIN file = {Pages[j] : j \in 1 .. Len(Pages)}
  BY PagesFacts DEF Visitor!Init, VisitorAtRest, Visitor!Names
<1> QED
  BY <1>1, PagesFacts DEF VisitorInv, Visited

\* A file at a time is written, that of the page whose turn it is.
LEMMA FileIs ==
  ASSUME VisitorInv, k <= Len(Pages), NEW text, file' = [file EXCEPT ![Visitor!page] = text]
  PROVE  /\ DOMAIN file' = DOMAIN file /\ file'[Pages[k]] = text
         /\ \A j \in 1 .. Len(Pages) : j # k => file'[Pages[j]] = file[Pages[j]]
         /\ \A j \in 1 .. Len(Pages) : j < k => file'[Pages[j]] = "page"
<1>1. k \in 1 .. Len(Pages) /\ Visitor!page = Pages[k]
  BY PagesFacts DEF VisitorInv, Visited, Visitor!page
<1>2. \A j \in 1 .. Len(Pages) : Pages[j] \in DOMAIN file
  BY DEF VisitorInv
<1>3. \A j \in 1 .. Len(Pages) : j # k => file'[Pages[j]] = file[Pages[j]]
  BY <1>1, <1>2, PagesFacts
<1>4. file'[Pages[k]] = text /\ DOMAIN file' = DOMAIN file
  BY <1>1, <1>2
<1>5. \A j \in 1 .. Len(Pages) : j < k => file'[Pages[j]] = "page"
  BY <1>1, <1>3 DEF VisitorInv, Visited
<1> QED
  BY <1>3, <1>4, <1>5

\* Each step keeps the invariant and costs at most the page whose turn it is.
LEMMA VisitorKeeps == VisitorInv /\ Visitor!Next => VisitorInv' /\ OneLost
<1> SUFFICES ASSUME VisitorInv, Visitor!Next PROVE VisitorInv' /\ OneLost
  OBVIOUS
<1>1. /\ Len(Pages) \in Nat /\ DOMAIN Pages = 1 .. Len(Pages) /\ k \in Nat /\ k >= 1
      /\ Visitor!page = Pages[k]
  BY PagesFacts DEF VisitorInv, Visited, Visitor!page
<1>2. \A i \in Images : fetched[i] <= 1
  BY DEF VisitorInv
<1>3. ASSUME UNCHANGED <<k, file, said>>,
             visit_pc' \in {"urlopen", "images"} => visit_pc \in {"urlopen", "images"}
      PROVE  Visited' /\ DOMAIN file' = DOMAIN file
  BY <1>3 DEF VisitorInv, Visited
<1>4. ASSUME UNCHANGED <<k, file>>,
             \A p \in said' : p \in said \/ (p = Pages[k] /\ k <= Len(Pages)),
             \A i \in Images : fetched'[i] <= 1
      PROVE  OneLost
  <2>1. \A p \in said' : file'[p] = "page" \/ p = Pages[k]
    BY <1>1, <1>4 DEF VisitorInv, Visited
  <2>2. \A j \in 1 .. Len(Pages) : j < k' => file'[Pages[j]] = "page"
    BY <1>4 DEF VisitorInv, Visited
  <2> QED
    BY <1>1, <1>4, <2>1, <2>2 DEF OneLost
<1>5. ASSUME k <= Len(Pages), NEW text, file' = [file EXCEPT ![Visitor!page] = text],
             said' = said, fetched' = fetched, k' = k \/ (k' = k + 1 /\ text = "page"),
             visit_pc' # "images", visit_pc' = "urlopen" => k' = k
      PROVE  VisitorInv' /\ OneLost
  <2>1. /\ DOMAIN file' = DOMAIN file /\ file'[Pages[k]] = text
        /\ \A j \in 1 .. Len(Pages) : j # k => file'[Pages[j]] = file[Pages[j]]
        /\ \A j \in 1 .. Len(Pages) : j < k => file'[Pages[j]] = "page"
    BY <1>5, FileIs
  <2>2. \A j \in 1 .. Len(Pages) : j < k' => file'[Pages[j]] = "page"
    <3> SUFFICES ASSUME NEW j \in 1 .. Len(Pages), j < k' PROVE file'[Pages[j]] = "page"
      OBVIOUS
    <3>1. CASE j < k
      BY <2>1, <3>1
    <3>2. CASE j = k
      BY <1>5, <2>1, <3>2
    <3> QED
      BY <1>1, <1>5, <3>1, <3>2
  <2>3. ASSUME NEW p \in said' PROVE \E j \in 1 .. Len(Pages) : j <= k /\ p = Pages[j]
    BY <1>5, <2>3 DEF VisitorInv, Visited
  <2>4. Visited'
    BY <1>1, <1>5, <2>2, <2>3 DEF VisitorInv, Visited
  <2>5. VisitorInv'
    BY <1>5, <2>1, <2>4 DEF VisitorInv
  <2>6. \A p \in said' : file'[p] = "page" \/ p = Pages[k]
    BY <1>1, <2>1, <2>3
  <2> QED
    BY <1>1, <1>2, <1>5, <2>1, <2>2, <2>5, <2>6 DEF OneLost
<1>6. CASE Visitor!Open
  BY <1>5, <1>6 DEF Visitor!Open
<1>7. CASE Visitor!FetchFails \/ Visitor!RetrieveFails
  <2>1. k <= Len(Pages)
    BY <1>7 DEF VisitorInv, Visited, Visitor!FetchFails, Visitor!RetrieveFails
  <2> QED
    BY <1>5, <1>7, <2>1 DEF Visitor!FetchFails, Visitor!RetrieveFails, Visitor!Raise
<1>8. CASE Visitor!Write
  <2>1. /\ visit_pc = "urlopen" /\ visit_pc' = "images" /\ pageFile' = "page"
        /\ said' = said \cup {Pages[k]} /\ imageSet' \subseteq Images
        /\ fetched' = [i \in Images |-> 0] /\ k' = k /\ file' = file
    BY <1>1, <1>8 DEF Visitor!Write
  <2>2. k \in 1 .. Len(Pages)
    BY <1>1, <2>1 DEF VisitorInv, Visited
  <2>3. Visited'
    BY <1>1, <2>1, <2>2 DEF VisitorInv, Visited
  <2>4. fetched' \in [Images -> {0, 1}] /\ \A i \in Images : fetched'[i] = 0 /\ fetched'[i] <= 1
    BY <2>1
  <2>5. VisitorInv'
    BY <2>1, <2>3, <2>4 DEF VisitorInv
  <2> QED
    BY <1>4, <2>1, <2>2, <2>4, <2>5
<1>9. ASSUME NEW i \in Images, Visitor!Retrieve(i) PROVE VisitorInv' /\ OneLost
  <2>1. /\ visit_pc = "images" /\ i \in imageSet /\ imageSet' = imageSet \ {i}
        /\ fetched' = [fetched EXCEPT ![i] = fetched[i] + 1]
        /\ UNCHANGED <<visit_pc, k, file, pageFile, said>>
    BY <1>9 DEF Visitor!Retrieve
  <2>2. fetched \in [Images -> {0, 1}] /\ imageSet \subseteq {l \in Images : fetched[l] = 0}
    BY <2>1 DEF VisitorInv
  <2>3. /\ fetched' \in [Images -> {0, 1}] /\ imageSet' \subseteq {l \in Images : fetched'[l] = 0}
        /\ \A l \in Images : fetched'[l] <= 1
    BY <2>1, <2>2
  <2>4. Visited' /\ DOMAIN file' = DOMAIN file
    BY <1>3, <2>1
  <2>5. VisitorInv'
    BY <2>1, <2>3, <2>4 DEF VisitorInv
  <2> QED
    BY <1>4, <2>1, <2>3, <2>5
<1>10. CASE Visitor!NextPage
  <2>1. k <= Len(Pages) /\ pageFile = "page"
    BY <1>10 DEF VisitorInv, Visited, Visitor!NextPage
  <2> QED
    BY <1>5, <1>10, <2>1 DEF Visitor!NextPage
<1>11. CASE Visitor!Killed \/ Visitor!Ended
  <2>1. UNCHANGED <<k, file, pageFile, imageSet, fetched, said>>
        /\ (visit_pc' = "ended" \/ visit_pc' = visit_pc)
    BY <1>11 DEF Visitor!Killed, Visitor!Ended, Visitor!vars
  <2>2. Visited' /\ DOMAIN file' = DOMAIN file
    BY <1>3, <2>1
  <2>3. VisitorInv'
    BY <2>1, <2>2 DEF VisitorInv
  <2> QED
    BY <1>2, <1>4, <2>1, <2>3
<1> QED
  BY <1>6, <1>7, <1>8, <1>9, <1>10, <1>11 DEF Visitor!Next

----------------------------------------------------------------------------
(* The collector.                                                           *)

Titles == UNION {{c.dumps[j] : j \in DOMAIN c.dumps} : c \in Collectors}
Sections == [title : Titles, lines : Seq(Nat)]

\* The newest message that is in the log no longer.
Behind == arrived - Len(log)

In(seq) == {seq[j] : j \in 1 .. Len(seq)}

CollectorTypes ==
  /\ collector \in Collectors /\ dump \in 1 .. Len(collector.dumps)
  /\ collector_pc \in {"start", "title", "trigger", "dump", "clear", "registers"}
  /\ todo \in Nat /\ arrived \in Nat
  /\ own \in Seq([message : Nat, title : Titles])
  /\ log \in Seq(Nat) /\ dump_file \in Seq(Sections)

\* The ring holds the newest messages, one after another.
LogIsNewest ==
  /\ Len(log) <= arrived
  /\ \A i \in 1 .. Len(log) : log[i] = Behind + i

\* The messages of dumps, those that the kernel has yet to write included, are
\* as many as the sections ask for.
Due == IF collector_pc = "trigger" THEN DumpLines ELSE IF collector_pc = "dump" THEN todo ELSE 0
Counted ==
  /\ Len(own) + Due = Len(dump_file) * DumpLines
  /\ collector_pc \in {"trigger", "dump"} =>
       /\ Len(dump_file) # 0
       /\ dump_file[Len(dump_file)] =
            [title |-> collector.dumps[dump], lines |-> <<>>]
  /\ collector_pc = "start" => dump_file = <<>> /\ own = <<>>
  /\ \A l \in 1 .. Len(own) : own[l].message <= arrived

\* In front of a dump the log has nothing of the dumps before, and while it is
\* written nothing but it; what it has not of it, the ring has lost.
LogIsOfOneDump ==
  /\ collector_pc \in {"title", "trigger", "registers"} =>
       \A l \in 1 .. Len(own) : own[l].message <= Behind
  /\ collector_pc = "dump" =>
       \A l \in 1 .. Len(own) :
         /\ own[l].message > Behind => own[l].title = dump_file[Len(dump_file)].title
         /\ l > (Len(dump_file) - 1) * DumpLines =>
              own[l].message > Behind \/ own[l].message \in overrun

\* The section has the dump its title says.
Right(j) ==
  /\ \A l \in 1 .. Len(own) :
       own[l].message \in In(dump_file[j].lines) => own[l].title = dump_file[j].title
  /\ \A l \in (j - 1) * DumpLines + 1 .. j * DumpLines :
       l \in 1 .. Len(own) /\ own[l].message \in In(dump_file[j].lines) \cup overrun

Done(j) == j < Len(dump_file) \/ collector_pc \notin {"trigger", "dump"}
SectionsRight == \A j \in 1 .. Len(dump_file) : Done(j) => Right(j)

\* The lines of the file ascend, and the log is ahead of them but between the
\* copy and the clearing.
Ascends ==
  /\ \A i, j \in 1 .. Len(dump_file) :
       \A a \in 1 .. Len(dump_file[i].lines), b \in 1 .. Len(dump_file[j].lines) :
         i < j \/ (i = j /\ a < b) => dump_file[i].lines[a] < dump_file[j].lines[b]
  /\ \A j \in 1 .. Len(dump_file) : \A a \in 1 .. Len(dump_file[j].lines) :
       dump_file[j].lines[a] <= IF collector_pc = "clear" THEN arrived ELSE Behind

\* What is not in the log is in the file or accounted for, and so is what is
\* in the log when that is to be cleared.
InFile(m) == \E j \in 1 .. Len(dump_file) : m \in In(dump_file[j].lines)
Accounted ==
  \A m \in 1 .. arrived :
    /\ m <= Behind => m \in gap \cup overrun \/ InFile(m)
    /\ m > Behind /\ collector_pc \in {"start", "clear"} => m \in gap \/ InFile(m)

CollectorInv ==
  /\ CollectorTypes /\ LogIsNewest /\ Counted /\ LogIsOfOneDump
  /\ SectionsRight /\ Ascends /\ Accounted

\* The bounds of the model, and the scripts.
LEMMA CollectorFacts ==
  /\ LogSize \in Nat /\ LogSize >= 1 /\ DumpLines \in Nat /\ DumpLines >= 1
  /\ \A c \in Collectors : /\ Len(c.dumps) \in Nat /\ Len(c.dumps) >= 1
                           /\ \A j \in 1 .. Len(c.dumps) : c.dumps[j] \in Titles
<1>1. /\ {LogSize, DumpLines, MaxArrived} \subseteq Nat \ {0}
      /\ \A c \in Collectors : c.dumps \in Seq({c.dumps[j] : j \in DOMAIN c.dumps})
                               /\ c.dumps # <<>>
  BY ScriptsAssumption DEF Sysrq!SysrqDumpAssumption, Sysrq!ToSet
<1>2. ASSUME NEW c \in Collectors
      PROVE  /\ Len(c.dumps) \in Nat /\ Len(c.dumps) >= 1 /\ DOMAIN c.dumps = 1 .. Len(c.dumps)
  <2>1. PICK S : S = {c.dumps[j] : j \in DOMAIN c.dumps}
    OBVIOUS
  <2>2. PICK d : d = c.dumps
    OBVIOUS
  <2>3. d \in Seq(S) /\ d # <<>>
    BY <1>1, <2>1, <2>2
  <2>4. Len(d) \in Nat /\ Len(d) >= 1 /\ DOMAIN d = 1 .. Len(d)
    BY <2>3
  <2> QED
    BY <2>2, <2>4
<1>3. ASSUME NEW c \in Collectors, NEW j \in 1 .. Len(c.dumps) PROVE c.dumps[j] \in Titles
  BY <1>2 DEF Titles
<1> QED
  BY <1>1, <1>2, <1>3

\* The types of what the lemmas below are about.
LEMMA CollectorKnows ==
  ASSUME CollectorInv
  PROVE  /\ arrived \in Nat /\ Len(log) \in Nat /\ Len(log) <= arrived
         /\ Behind \in Nat /\ Behind <= arrived /\ arrived = Behind + Len(log)
         /\ Len(own) \in Nat /\ \A l \in 1 .. Len(own) : own[l].message \in Nat
         /\ Len(dump_file) \in Nat
         /\ \A j \in 1 .. Len(dump_file) :
              /\ dump_file[j] \in Sections /\ dump_file[j].lines \in Seq(Nat)
              /\ Len(dump_file[j].lines) \in Nat
              /\ \A a \in 1 .. Len(dump_file[j].lines) : dump_file[j].lines[a] \in Nat
<1>1. CollectorTypes /\ Len(log) <= arrived
  BY DEF CollectorInv, LogIsNewest
<1>2. arrived \in Nat /\ Len(log) \in Nat
  BY <1>1 DEF CollectorTypes
<1>3. Len(own) \in Nat /\ \A l \in 1 .. Len(own) : own[l].message \in Nat
  <2>1. PICK S : S = [message : Nat, title : Titles]
    OBVIOUS
  <2>2. own \in Seq(S)
    BY <1>1, <2>1 DEF CollectorTypes
  <2>3. Len(own) \in Nat /\ \A l \in 1 .. Len(own) : own[l] \in S
    BY <2>2
  <2> QED
    BY <2>1, <2>3
<1>4. Len(dump_file) \in Nat /\ \A j \in 1 .. Len(dump_file) : dump_file[j] \in Sections
  BY <1>1 DEF CollectorTypes
<1>5. ASSUME NEW j \in 1 .. Len(dump_file)
      PROVE  /\ dump_file[j].lines \in Seq(Nat) /\ Len(dump_file[j].lines) \in Nat
             /\ \A a \in 1 .. Len(dump_file[j].lines) : dump_file[j].lines[a] \in Nat
  BY <1>4 DEF Sections
<1> QED
  BY <1>1, <1>2, <1>3, <1>4, <1>5 DEF Behind

\* What the log has, of the messages there were.
LEMMA LogHas ==
  ASSUME CollectorInv, NEW m \in Nat
  PROVE  m \in In(log) <=> m > Behind /\ m <= arrived
<1>1. /\ Len(log) \in Nat /\ Behind \in Nat /\ arrived = Behind + Len(log)
      /\ \A i \in 1 .. Len(log) : log[i] = Behind + i
  BY CollectorKnows DEF CollectorInv, LogIsNewest
<1>2. ASSUME m > Behind, m <= arrived PROVE m \in In(log)
  <2>1. PICK i : i = m - Behind
    OBVIOUS
  <2>2. i \in 1 .. Len(log) /\ Behind + i = m
    BY <1>1, <1>2, <2>1
  <2> QED
    BY <1>1, <2>2 DEF In
<1>3. ASSUME m \in In(log) PROVE m > Behind /\ m <= arrived
  <2>1. PICK i \in 1 .. Len(log) : m = log[i]
    BY <1>3 DEF In
  <2>2. m = Behind + i
    BY <1>1, <2>1
  <2> QED
    BY <1>1, <2>2
<1> QED
  BY <1>2, <1>3

\* A new message.
LEMMA ArriveIs ==
  ASSUME CollectorInv, Sysrq!Arrive
  PROVE  /\ arrived' = arrived + 1 /\ log' \in Seq(Nat) /\ LogIsNewest'
         /\ Behind' \in Nat /\ Behind <= Behind' /\ Behind' <= Behind + 1 /\ Behind' < arrived'
         /\ overrun \subseteq overrun' /\ (Behind' # Behind => Behind' \in overrun')
<1>1. /\ log \in Seq(Nat) /\ arrived \in Nat /\ Len(log) \in Nat /\ Behind \in Nat
      /\ arrived = Behind + Len(log) /\ \A i \in 1 .. Len(log) : log[i] = Behind + i
  BY CollectorKnows DEF CollectorInv, CollectorTypes, LogIsNewest
<1>2. PICK kept : kept = IF Len(log) = LogSize THEN Tail(log) ELSE log
  OBVIOUS
<1>3. /\ arrived' = arrived + 1 /\ log' = Append(kept, arrived + 1)
      /\ overrun' = (IF Len(log) = LogSize THEN overrun \cup {Head(log)} ELSE overrun)
  BY <1>2 DEF Sysrq!Arrive
<1>4. Behind' = arrived' - Len(log')
  BY DEF Behind
<1>5. CASE Len(log) = LogSize
  <2>1. log # <<>> /\ Len(log) >= 1
    BY <1>5, CollectorFacts
  <2>2. Head(log) = Behind + 1
    BY <1>1, <2>1
  <2>3. /\ kept \in Seq(Nat) /\ Len(kept) = Len(log) - 1
        /\ \A i \in 1 .. Len(log) - 1 : kept[i] = log[i + 1]
    BY <1>1, <1>2, <1>5, <2>1
  <2>4. \A i \in 1 .. Len(log) - 1 : kept[i] = (Behind + 1) + i
    BY <1>1, <2>3
  <2>5. /\ log' \in Seq(Nat) /\ Len(log') = Len(log)
        /\ \A i \in 1 .. Len(log) - 1 : log'[i] = kept[i]
        /\ log'[Len(log)] = arrived + 1
    BY <1>1, <1>3, <2>1, <2>3
  <2>6. Behind' = Behind + 1
    <3>1. /\ arrived' = arrived + 1 /\ arrived = Behind + Len(log)
          /\ Len(log) \in Nat /\ Behind \in Nat /\ Behind' = arrived' - Len(log)
      BY <1>1, <1>3, <1>4, <2>5
    <3> QED
      BY <3>1
  <2>7. \A i \in 1 .. Len(log') : log'[i] = Behind' + i
    <3> TAKE i \in 1 .. Len(log')
    <3>1. CASE i = Len(log)
      BY <1>1, <2>5, <2>6, <3>1
    <3>2. CASE i # Len(log)
      <4>1. i \in 1 .. Len(log) - 1
        BY <1>1, <2>5, <3>2
      <4> QED
        BY <2>4, <2>5, <2>6, <4>1
    <3> QED
      BY <3>1, <3>2
  <2>8. LogIsNewest'
    BY <1>1, <1>3, <2>5, <2>7 DEF LogIsNewest
  <2> QED
    BY <1>1, <1>3, <1>5, <2>1, <2>2, <2>5, <2>6, <2>8
<1>6. CASE Len(log) # LogSize
  <2>1. kept = log /\ overrun' = overrun
    BY <1>2, <1>3, <1>6
  <2>2. /\ log' \in Seq(Nat) /\ Len(log') = Len(log) + 1
        /\ \A i \in 1 .. Len(log) : log'[i] = log[i]
        /\ log'[Len(log) + 1] = arrived + 1
    BY <1>1, <1>3, <2>1
  <2>3. Behind' = Behind
    <3>1. /\ arrived' = arrived + 1 /\ arrived = Behind + Len(log)
          /\ Len(log) \in Nat /\ Behind \in Nat /\ Behind' = arrived' - (Len(log) + 1)
      BY <1>1, <1>3, <1>4, <2>2
    <3> QED
      BY <3>1
  <2>4. \A i \in 1 .. Len(log') : log'[i] = Behind' + i
    <3> TAKE i \in 1 .. Len(log')
    <3>1. CASE i = Len(log) + 1
      BY <1>1, <2>2, <2>3, <3>1
    <3>2. CASE i # Len(log) + 1
      <4>1. i \in 1 .. Len(log)
        BY <1>1, <2>2, <3>2
      <4> QED
        BY <1>1, <2>2, <2>3, <4>1
    <3> QED
      BY <3>1, <3>2
  <2>5. LogIsNewest'
    BY <1>1, <1>3, <2>2, <2>4 DEF LogIsNewest
  <2> QED
    BY <1>1, <1>3, <2>1, <2>2, <2>3, <2>5
<1> QED
  BY <1>5, <1>6

\* A step's messages of dumps: those there were, and perhaps the newest one.
OwnGrows ==
  /\ Len(own') \in Nat /\ Len(own) <= Len(own')
  /\ \A l \in 1 .. Len(own) : own'[l] = own[l]
  /\ \A l \in 1 .. Len(own') : l > Len(own) => own'[l].message = arrived + 1

\* The newest message that a line of the file may be.
Copyable == IF collector_pc = "clear" THEN arrived ELSE Behind

\* A section that is copied stays right.
LEMMA RightStays ==
  ASSUME CollectorInv, NEW j \in 1 .. Len(dump_file), Right(j), OwnGrows,
         dump_file'[j] = dump_file[j], overrun \subseteq overrun'
  PROVE  Right(j)'
<1>1. /\ arrived \in Nat /\ Behind \in Nat /\ Behind <= arrived /\ Len(own) \in Nat
      /\ Len(dump_file[j].lines) \in Nat
      /\ \A a \in 1 .. Len(dump_file[j].lines) : dump_file[j].lines[a] \in Nat
  BY CollectorKnows
<1>2. arrived + 1 \notin In(dump_file[j].lines)
  <2>1. ASSUME NEW a \in 1 .. Len(dump_file[j].lines)
        PROVE  dump_file[j].lines[a] <= arrived
    BY <1>1 DEF CollectorInv, Ascends
  <2> QED
    BY <1>1, <2>1 DEF In
<1>3. ASSUME NEW l \in 1 .. Len(own'), own'[l].message \in In(dump_file[j].lines)
      PROVE  own'[l].title = dump_file[j].title
  <2>1. l <= Len(own)
    BY <1>1, <1>2, <1>3 DEF OwnGrows
  <2>2. l \in 1 .. Len(own) /\ own'[l] = own[l]
    BY <1>1, <2>1 DEF OwnGrows
  <2> QED
    BY <1>3, <2>2 DEF Right
<1>4. ASSUME NEW l \in (j - 1) * DumpLines + 1 .. j * DumpLines
      PROVE  l \in 1 .. Len(own') /\ own'[l].message \in In(dump_file[j].lines) \cup overrun'
  <2>1. l \in 1 .. Len(own) /\ own[l].message \in In(dump_file[j].lines) \cup overrun
    BY DEF Right
  <2> QED
    BY <1>1, <2>1 DEF OwnGrows
<1>5. In(dump_file[j].lines)' = In(dump_file[j].lines)
  BY DEF In
<1> QED
  BY <1>3, <1>4, <1>5 DEF Right

\* A step that copies nothing.
LEMMA SectionsStay ==
  ASSUME CollectorInv, OwnGrows, overrun \subseteq overrun', dump_file' = dump_file,
         collector_pc' \in {"trigger", "dump"} \/ collector_pc \notin {"trigger", "dump"}
  PROVE  SectionsRight'
<1>1. ASSUME NEW j \in 1 .. Len(dump_file'), Done(j)' PROVE Right(j)'
  <2>1. j \in 1 .. Len(dump_file) /\ Done(j)
    BY <1>1 DEF Done
  <2>2. Right(j)
    BY <2>1 DEF CollectorInv, SectionsRight
  <2> QED
    BY <2>1, <2>2, RightStays
<1> QED
  BY <1>1 DEF SectionsRight

\* The lines of the file stay as they are, and the log stays ahead of them.
LEMMA AscendsStays ==
  ASSUME CollectorInv, dump_file' = dump_file, Copyable' \in Nat, Copyable <= Copyable'
  PROVE  Ascends'
<1>1. /\ \A j \in 1 .. Len(dump_file) :
           \A a \in 1 .. Len(dump_file[j].lines) : dump_file[j].lines[a] \in Nat
      /\ Copyable \in Nat
  BY CollectorKnows DEF Copyable
<1>2. \A i, j \in 1 .. Len(dump_file') :
        \A a \in 1 .. Len(dump_file'[i].lines), b \in 1 .. Len(dump_file'[j].lines) :
          i < j \/ (i = j /\ a < b) => dump_file'[i].lines[a] < dump_file'[j].lines[b]
  BY DEF CollectorInv, Ascends
<1>3. \A j \in 1 .. Len(dump_file) : \A a \in 1 .. Len(dump_file[j].lines) :
        dump_file[j].lines[a] <= Copyable
  BY DEF CollectorInv, Ascends, Copyable
<1>4. \A j \in 1 .. Len(dump_file') : \A a \in 1 .. Len(dump_file'[j].lines) :
        dump_file'[j].lines[a] <= Copyable'
  BY <1>1, <1>3
<1>5. \A j \in 1 .. Len(dump_file') : \A a \in 1 .. Len(dump_file'[j].lines) :
        dump_file'[j].lines[a] <= IF collector_pc' = "clear" THEN arrived' ELSE Behind'
  BY <1>4 DEF Copyable
<1> QED
  BY <1>2, <1>5 DEF Ascends

\* An empty log.
LEMMA EmptyIsNewest ==
  ASSUME log' = <<>>, arrived' \in Nat
  PROVE  LogIsNewest' /\ Behind' = arrived' /\ log' \in Seq(Nat)
<1>1. Len(log') = 0 /\ log' \in Seq(Nat)
  OBVIOUS
<1>2. Behind' = arrived' - Len(log')
  BY DEF Behind
<1>3. arrived' - Len(log') = arrived'
  <2>1. \A a \in Nat : a - 0 = a
    OBVIOUS
  <2> QED
    BY <1>1, <2>1
<1>4. Behind' = arrived'
  BY <1>2, <1>3
<1> QED
  BY <1>1, <1>4 DEF LogIsNewest

\* A log nothing has come to.
LEMMA SameLog ==
  ASSUME CollectorInv, log' = log, arrived' = arrived
  PROVE  LogIsNewest' /\ Behind' = Behind /\ log' \in Seq(Nat)
<1>1. Behind' = Behind
  BY DEF Behind
<1> QED
  BY <1>1 DEF CollectorInv, CollectorTypes, LogIsNewest

\* A step without a line of a dump.
LEMMA SameOwn ==
  ASSUME CollectorInv, own' = own
  PROVE  OwnGrows
BY CollectorKnows DEF OwnGrows

\* What the steps that copy nothing and have no new message keep.
LEMMA QuietKeeps ==
  ASSUME CollectorInv, arrived' = arrived, own' = own, dump_file' = dump_file,
         overrun' = overrun,
         collector_pc' \in {"trigger", "dump"} \/ collector_pc \notin {"trigger", "dump"}
  PROVE  SectionsRight'
<1>1. OwnGrows
  BY SameOwn
<1> QED
  BY <1>1, SectionsStay

\* The dmesg -C before the loop: the messages it clears are from before.
LEMMA StartKeeps == CollectorInv /\ Sysrq!Start => CollectorInv'
<1> SUFFICES ASSUME CollectorInv, Sysrq!Start PROVE CollectorInv'
  OBVIOUS
<1>1. /\ collector_pc = "start" /\ collector_pc' = "title" /\ log' = <<>>
      /\ collector' = collector /\ dump' = dump /\ todo' = todo /\ arrived' = arrived
      /\ own' = own /\ dump_file' = dump_file /\ gap' = gap /\ overrun' = overrun
  BY DEF Sysrq!Start
<1>2. arrived' \in Nat /\ arrived \in Nat /\ Behind \in Nat /\ Behind <= arrived
  BY <1>1, CollectorKnows
<1>3. LogIsNewest' /\ Behind' = arrived /\ log' \in Seq(Nat)
  BY <1>1, <1>2, EmptyIsNewest
<1>4. CollectorTypes'
  BY <1>1, <1>3 DEF CollectorInv, CollectorTypes
<1>5. Counted'
  <2>1. dump_file = <<>> /\ own = <<>> /\ Len(own) + Due = Len(dump_file) * DumpLines
    BY <1>1 DEF CollectorInv, Counted
  <2>2. Due = 0 /\ Due' = 0
    BY <1>1 DEF Due
  <2>3. \A l \in 1 .. Len(own') : own'[l].message <= arrived'
    BY <1>1 DEF CollectorInv, Counted
  <2> QED
    BY <1>1, <2>1, <2>2, <2>3 DEF Counted
<1>6. LogIsOfOneDump'
  <2>1. own' = <<>>
    BY <1>1 DEF CollectorInv, Counted
  <2> QED
    BY <1>1, <2>1 DEF LogIsOfOneDump
<1>7. SectionsRight'
  BY <1>1, QuietKeeps
<1>8. Ascends'
  <2>1. Copyable = Behind /\ Copyable' = Behind'
    BY <1>1 DEF Copyable
  <2>2. Copyable' \in Nat /\ Copyable <= Copyable'
    BY <1>2, <1>3, <2>1
  <2> QED
    BY <1>1, <2>2, AscendsStays
<1>9. Accounted'
  <2>1. \A m \in 1 .. arrived : m \in gap \cup overrun \/ InFile(m)
    BY <1>1, <1>2 DEF CollectorInv, Accounted
  <2>2. \A m : InFile(m)' <=> InFile(m)
    BY <1>1 DEF InFile
  <2> QED
    BY <1>1, <2>1, <2>2 DEF Accounted
<1> QED
  BY <1>3, <1>4, <1>5, <1>6, <1>7, <1>8, <1>9 DEF CollectorInv

\* The write to sysrq-trigger: the section has no line yet, and the kernel owes it a dump.
LEMMA TriggerKeeps == CollectorInv /\ Sysrq!Trigger => CollectorInv'
<1> SUFFICES ASSUME CollectorInv, Sysrq!Trigger PROVE CollectorInv'
  OBVIOUS
<1>1. /\ collector_pc = "trigger" /\ collector_pc' = "dump" /\ todo' = DumpLines
      /\ collector' = collector /\ dump' = dump /\ log' = log /\ arrived' = arrived
      /\ own' = own /\ dump_file' = dump_file /\ gap' = gap /\ overrun' = overrun
  BY DEF Sysrq!Trigger
<1>2. /\ arrived \in Nat /\ Behind \in Nat /\ Behind <= arrived
      /\ Len(own) \in Nat /\ \A l \in 1 .. Len(own) : own[l].message \in Nat
      /\ Len(dump_file) \in Nat
  BY CollectorKnows
<1>3. LogIsNewest' /\ Behind' = Behind /\ log' \in Seq(Nat)
  BY <1>1, SameLog
<1>4. CollectorTypes'
  BY <1>1, <1>3, CollectorFacts DEF CollectorInv, CollectorTypes
<1>5. Counted'
  <2>1. Due = DumpLines /\ Due' = DumpLines
    BY <1>1 DEF Due
  <2> QED
    BY <1>1, <2>1 DEF CollectorInv, Counted
<1>6. LogIsOfOneDump'
  <2>1. \A l \in 1 .. Len(own) : own[l].message <= Behind
    BY <1>1 DEF CollectorInv, LogIsOfOneDump
  <2>2. ~ \E l \in 1 .. Len(own) : l > (Len(dump_file) - 1) * DumpLines
    <3>1. Len(own) + DumpLines = Len(dump_file) * DumpLines
      BY <1>1 DEF CollectorInv, Counted, Due
    <3>2. PICK F \in Nat : F = Len(dump_file)
      BY <1>2
    <3>3. PICK P : P = F * DumpLines
      OBVIOUS
    <3>4. P \in Int /\ (F - 1) * DumpLines = P - DumpLines
      BY <3>2, <3>3, CollectorFacts
    <3> QED
      BY <1>2, <3>1, <3>2, <3>3, <3>4, CollectorFacts
  <2> QED
    BY <1>1, <1>2, <1>3, <2>1, <2>2 DEF LogIsOfOneDump
<1>7. SectionsRight'
  BY <1>1, QuietKeeps
<1>8. Ascends'
  <2>1. Copyable = Behind /\ Copyable' = Behind'
    BY <1>1 DEF Copyable
  <2>2. Copyable' \in Nat /\ Copyable <= Copyable'
    BY <1>2, <1>3, <2>1
  <2> QED
    BY <1>1, <2>2, AscendsStays
<1>9. Accounted'
  <2>1. \A m : InFile(m)' <=> InFile(m)
    BY <1>1 DEF InFile
  <2> QED
    BY <1>1, <1>3, <2>1 DEF CollectorInv, Accounted
<1> QED
  BY <1>3, <1>4, <1>5, <1>6, <1>7, <1>8, <1>9 DEF CollectorInv

\* A register is read.
LEMMA RegisterKeeps == CollectorInv /\ Sysrq!ReadRegister => CollectorInv'
<1> SUFFICES ASSUME CollectorInv, Sysrq!ReadRegister PROVE CollectorInv'
  OBVIOUS
<1>1. /\ collector_pc = "registers" /\ collector_pc' \in {"title", "registers"}
      /\ collector' = collector /\ dump' = dump /\ todo' = todo /\ log' = log
      /\ arrived' = arrived
      /\ own' = own /\ dump_file' = dump_file /\ gap' = gap /\ overrun' = overrun
  BY DEF Sysrq!ReadRegister
<1>2. Behind \in Nat /\ \A l \in 1 .. Len(own) : own[l].message \in Nat
  BY CollectorKnows
<1>3. LogIsNewest' /\ Behind' = Behind /\ log' \in Seq(Nat)
  BY <1>1, SameLog
<1>4. CollectorTypes'
  BY <1>1, <1>3 DEF CollectorInv, CollectorTypes
<1>5. Counted'
  <2>1. Due = 0 /\ Due' = 0
    BY <1>1 DEF Due
  <2> QED
    BY <1>1, <2>1 DEF CollectorInv, Counted
<1>6. LogIsOfOneDump'
  <2>1. \A l \in 1 .. Len(own) : own[l].message <= Behind
    BY <1>1 DEF CollectorInv, LogIsOfOneDump
  <2> QED
    BY <1>1, <1>3, <2>1 DEF LogIsOfOneDump
<1>7. SectionsRight'
  BY <1>1, QuietKeeps
<1>8. Ascends'
  <2>1. Copyable = Behind /\ Copyable' = Behind'
    BY <1>1 DEF Copyable
  <2>2. Copyable' \in Nat /\ Copyable <= Copyable'
    BY <1>2, <1>3, <2>1
  <2> QED
    BY <1>1, <2>2, AscendsStays
<1>9. Accounted'
  <2>1. \A m : InFile(m)' <=> InFile(m)
    BY <1>1 DEF InFile
  <2> QED
    BY <1>1, <1>3, <2>1 DEF CollectorInv, Accounted
<1> QED
  BY <1>3, <1>4, <1>5, <1>6, <1>7, <1>8, <1>9 DEF CollectorInv

\* dmesg -C: what it clears is copied, but for what came after the copy.
LEMMA ClearKeeps == CollectorInv /\ Sysrq!Clear => CollectorInv'
<1> SUFFICES ASSUME CollectorInv, Sysrq!Clear PROVE CollectorInv'
  OBVIOUS
<1>1. /\ collector_pc = "clear" /\ collector_pc' \in {"title", "registers"} /\ log' = <<>>
      /\ collector' = collector /\ todo' = todo /\ arrived' = arrived
      /\ dump' = (IF dump = Len(collector.dumps) THEN 1 ELSE dump + 1)
      /\ own' = own /\ dump_file' = dump_file /\ gap' = gap /\ overrun' = overrun
  BY DEF Sysrq!Clear, Sysrq!Dumps
<1>2. arrived' \in Nat /\ arrived \in Nat /\ Behind \in Nat /\ Behind <= arrived
  BY <1>1, CollectorKnows
<1>3. LogIsNewest' /\ Behind' = arrived /\ log' \in Seq(Nat)
  BY <1>1, <1>2, EmptyIsNewest
<1>4. CollectorTypes'
  <2>1. dump' \in 1 .. Len(collector.dumps)
    <3>1. PICK L \in Nat : L = Len(collector.dumps) /\ L >= 1 /\ dump \in 1 .. L
      BY CollectorFacts DEF CollectorInv, CollectorTypes
    <3> QED
      BY <1>1, <3>1
  <2> QED
    BY <1>1, <1>3, <2>1 DEF CollectorInv, CollectorTypes
<1>5. Counted'
  <2>1. Due = 0 /\ Due' = 0
    BY <1>1 DEF Due
  <2> QED
    BY <1>1, <2>1 DEF CollectorInv, Counted
<1>6. LogIsOfOneDump'
  <2>1. \A l \in 1 .. Len(own) : own[l].message <= arrived
    BY DEF CollectorInv, Counted
  <2> QED
    BY <1>1, <1>3, <2>1 DEF LogIsOfOneDump
<1>7. SectionsRight'
  BY <1>1, QuietKeeps
<1>8. Ascends'
  <2>1. Copyable = arrived /\ Copyable' = Behind'
    BY <1>1 DEF Copyable
  <2>2. Copyable' \in Nat /\ Copyable <= Copyable'
    BY <1>2, <1>3, <2>1
  <2> QED
    BY <1>1, <2>2, AscendsStays
<1>9. Accounted'
  <2>1. \A m \in 1 .. arrived : m \in gap \cup overrun \/ InFile(m)
    BY <1>1, <1>2 DEF CollectorInv, Accounted
  <2>2. \A m : InFile(m)' <=> InFile(m)
    BY <1>1 DEF InFile
  <2> QED
    BY <1>1, <2>1, <2>2 DEF Accounted
<1> QED
  BY <1>3, <1>4, <1>5, <1>6, <1>7, <1>8, <1>9 DEF CollectorInv

\* The next section's title; the sections before it are as they were.
LEMMA TitleKeeps == CollectorInv /\ Sysrq!Title => CollectorInv'
<1> SUFFICES ASSUME CollectorInv, Sysrq!Title PROVE CollectorInv'
  OBVIOUS
<1> DEFINE new == [title |-> collector.dumps[dump], lines |-> <<>>]
<1>1. /\ collector_pc = "title" /\ collector_pc' = "trigger"
      /\ collector' = collector /\ dump' = dump /\ todo' = todo /\ log' = log
      /\ arrived' = arrived /\ own' = own /\ dump_file' = Append(dump_file, new)
      /\ gap' = gap /\ overrun' = overrun
  BY DEF Sysrq!Title, Sysrq!Dumps
<1>2. /\ arrived \in Nat /\ Behind \in Nat /\ Behind <= arrived
      /\ Len(own) \in Nat /\ \A l \in 1 .. Len(own) : own[l].message \in Nat
      /\ Len(dump_file) \in Nat
  BY CollectorKnows
<1>3. LogIsNewest' /\ Behind' = Behind /\ log' \in Seq(Nat)
  BY <1>1, SameLog
<1>4. new \in Sections /\ new.lines = <<>> /\ Len(new.lines) = 0
  <2>1. collector \in Collectors /\ dump \in 1 .. Len(collector.dumps)
    BY DEF CollectorInv, CollectorTypes
  <2>2. collector.dumps[dump] \in Titles
    BY <2>1, CollectorFacts
  <2> QED
    BY <2>2 DEF Sections
<1>5. /\ dump_file' \in Seq(Sections) /\ Len(dump_file') = Len(dump_file) + 1
      /\ \A j \in 1 .. Len(dump_file) : dump_file'[j] = dump_file[j]
      /\ dump_file'[Len(dump_file) + 1] = new
  <2>1. dump_file \in Seq(Sections) /\ new \in Sections
    BY <1>4 DEF CollectorInv, CollectorTypes
  <2> HIDE DEF new
  <2> QED
    BY <1>1, <2>1
<1>6. CollectorTypes'
  BY <1>1, <1>3, <1>5 DEF CollectorInv, CollectorTypes
<1> HIDE DEF new
<1>7. Counted'
  <2>1. Due = 0 /\ Due' = DumpLines
    BY <1>1 DEF Due
  <2>2. Len(own) + 0 = Len(dump_file) * DumpLines
    BY <2>1 DEF CollectorInv, Counted
  <2>3. Len(own) + DumpLines = (Len(dump_file) + 1) * DumpLines
    <3>1. PICK F \in Nat : F = Len(dump_file)
      BY <1>2
    <3>2. PICK P : P = F * DumpLines
      OBVIOUS
    <3>3. P \in Nat /\ (F + 1) * DumpLines = P + DumpLines
      BY <3>1, <3>2, CollectorFacts
    <3> QED
      BY <1>2, <2>2, <3>1, <3>2, <3>3, CollectorFacts
  <2>4. /\ Len(dump_file') # 0
        /\ dump_file'[Len(dump_file')] = [title |-> collector'.dumps[dump'], lines |-> <<>>]
    BY <1>1, <1>2, <1>5 DEF new
  <2>5. \A l \in 1 .. Len(own') : own'[l].message <= arrived'
    BY <1>1 DEF CollectorInv, Counted
  <2> QED
    BY <1>1, <1>5, <2>1, <2>3, <2>4, <2>5 DEF Counted
<1>8. LogIsOfOneDump'
  <2>1. \A l \in 1 .. Len(own) : own[l].message <= Behind
    BY <1>1 DEF CollectorInv, LogIsOfOneDump
  <2> QED
    BY <1>1, <1>3, <2>1 DEF LogIsOfOneDump
<1>9. SectionsRight'
  <2>1. OwnGrows
    BY <1>1, SameOwn
  <2>2. ASSUME NEW j \in 1 .. Len(dump_file'), Done(j)' PROVE Right(j)'
    <3>1. j \in 1 .. Len(dump_file)
      BY <1>1, <1>2, <1>5, <2>2 DEF Done
    <3>2. Right(j)
      BY <1>1, <3>1 DEF CollectorInv, SectionsRight, Done
    <3> QED
      BY <1>1, <1>5, <2>1, <3>1, <3>2, RightStays
  <2> QED
    BY <2>2 DEF SectionsRight
<1>10. Ascends'
  <2>1. \A j \in 1 .. Len(dump_file') : j \in 1 .. Len(dump_file) \/ dump_file'[j].lines = <<>>
    <3> TAKE j \in 1 .. Len(dump_file')
    <3>1. CASE j = Len(dump_file) + 1
      BY <1>4, <1>5, <3>1
    <3>2. CASE j # Len(dump_file) + 1
      BY <1>2, <1>5, <3>2
    <3> QED
      BY <3>1, <3>2
  <2>2. \A j \in 1 .. Len(dump_file') : \A a \in 1 .. Len(dump_file'[j].lines) :
          j \in 1 .. Len(dump_file) /\ dump_file'[j] = dump_file[j]
    <3> TAKE j \in 1 .. Len(dump_file')
    <3> TAKE a \in 1 .. Len(dump_file'[j].lines)
    <3>1. CASE dump_file'[j].lines = <<>>
      <4>1. Len(dump_file'[j].lines) = 0
        BY <3>1
      <4> QED
        BY <4>1
    <3>2. CASE j \in 1 .. Len(dump_file)
      BY <1>5, <3>2
    <3> QED
      BY <2>1, <3>1, <3>2
  <2>3. \A i, j \in 1 .. Len(dump_file') :
          \A a \in 1 .. Len(dump_file'[i].lines), b \in 1 .. Len(dump_file'[j].lines) :
            i < j \/ (i = j /\ a < b) => dump_file'[i].lines[a] < dump_file'[j].lines[b]
    <3> TAKE i, j \in 1 .. Len(dump_file')
    <3> TAKE a \in 1 .. Len(dump_file'[i].lines), b \in 1 .. Len(dump_file'[j].lines)
    <3>1. /\ i \in 1 .. Len(dump_file) /\ dump_file'[i] = dump_file[i]
          /\ j \in 1 .. Len(dump_file) /\ dump_file'[j] = dump_file[j]
      BY <2>2
    <3>2. a \in 1 .. Len(dump_file[i].lines) /\ b \in 1 .. Len(dump_file[j].lines)
      BY <3>1
    <3> QED
      BY <3>1, <3>2 DEF CollectorInv, Ascends
  <2>4. \A j \in 1 .. Len(dump_file') : \A a \in 1 .. Len(dump_file'[j].lines) :
          dump_file'[j].lines[a] <= Behind
    <3> TAKE j \in 1 .. Len(dump_file')
    <3> TAKE a \in 1 .. Len(dump_file'[j].lines)
    <3>1. j \in 1 .. Len(dump_file) /\ dump_file'[j] = dump_file[j]
      BY <2>2
    <3>2. a \in 1 .. Len(dump_file[j].lines)
      BY <3>1
    <3> QED
      BY <1>1, <3>1, <3>2 DEF CollectorInv, Ascends
  <2> QED
    BY <1>1, <1>3, <2>3, <2>4 DEF Ascends
<1>11. Accounted'
  <2>1. ASSUME NEW m, InFile(m) PROVE InFile(m)'
    <3>1. PICK j \in 1 .. Len(dump_file) : m \in In(dump_file[j].lines)
      BY <2>1 DEF InFile
    <3>2. j \in 1 .. Len(dump_file') /\ dump_file'[j] = dump_file[j]
      BY <1>2, <1>5, <3>1
    <3>3. m \in In(dump_file'[j].lines)
      BY <3>1, <3>2 DEF In
    <3> QED
      BY <3>2, <3>3 DEF InFile, In
  <2> QED
    BY <1>1, <1>3, <2>1 DEF CollectorInv, Accounted
<1> QED
  BY <1>3, <1>6, <1>7, <1>8, <1>9, <1>10, <1>11 DEF CollectorInv

\* dmesg -T: the log has the dump of the section's title, and what it has not was pushed out.
LEMMA SnapshotKeeps == CollectorInv /\ Sysrq!Snapshot => CollectorInv'
<1> SUFFICES ASSUME CollectorInv, Sysrq!Snapshot PROVE CollectorInv'
  OBVIOUS
<1>1. /\ collector_pc = "dump" /\ todo = 0 /\ collector_pc' = "clear"
      /\ collector' = collector /\ dump' = dump /\ todo' = todo /\ log' = log
      /\ arrived' = arrived /\ own' = own
      /\ dump_file' = [dump_file EXCEPT ![Len(dump_file)].lines = log]
      /\ gap' = gap /\ overrun' = overrun
  BY DEF Sysrq!Snapshot
<1>2. /\ arrived \in Nat /\ Behind \in Nat /\ Behind <= arrived /\ Len(log) \in Nat
      /\ Len(own) \in Nat /\ \A l \in 1 .. Len(own) : own[l].message \in Nat
      /\ Len(dump_file) \in Nat
  BY CollectorKnows
<1>3. LogIsNewest' /\ Behind' = Behind /\ log' \in Seq(Nat)
  BY <1>1, SameLog
<1>4. PICK F : F = Len(dump_file) /\ F \in Nat /\ F >= 1 /\ F \in 1 .. Len(dump_file)
  BY <1>1, <1>2 DEF CollectorInv, Counted
<1>5. /\ dump_file' \in Seq(Sections) /\ Len(dump_file') = F
      /\ \A j \in 1 .. F : j # F => dump_file'[j] = dump_file[j]
      /\ dump_file'[F].title = dump_file[F].title /\ dump_file'[F].lines = log
  <2>1. dump_file \in Seq(Sections) /\ log \in Seq(Nat)
    BY DEF CollectorInv, CollectorTypes
  <2>2. dump_file[F] \in Sections
    BY <1>4, <2>1
  <2>3. PICK s : s = [dump_file[F] EXCEPT !.lines = log]
    OBVIOUS
  <2>4. s \in Sections /\ s.title = dump_file[F].title /\ s.lines = log
    BY <2>1, <2>2, <2>3 DEF Sections
  <2>5. dump_file' = [dump_file EXCEPT ![F] = s]
    BY <1>1, <1>4, <2>3
  <2> QED
    BY <1>4, <2>1, <2>4, <2>5
<1>6. CollectorTypes'
  BY <1>1, <1>3, <1>5 DEF CollectorInv, CollectorTypes
<1>7. Counted'
  <2>1. Due = 0 /\ Due' = 0
    BY <1>1 DEF Due
  <2> QED
    BY <1>1, <1>4, <1>5, <2>1 DEF CollectorInv, Counted
<1>8. LogIsOfOneDump'
  BY <1>1 DEF LogIsOfOneDump
<1>9. SectionsRight'
  <2>1. OwnGrows
    BY <1>1, SameOwn
  <2>2. ASSUME NEW j \in 1 .. F, j # F PROVE Right(j)'
    <3>1. Right(j)
      BY <1>4, <2>2 DEF CollectorInv, SectionsRight, Done
    <3> QED
      BY <1>1, <1>4, <1>5, <2>1, <2>2, <3>1, RightStays
  <2>3. Right(F)'
    <3>1. \A l \in 1 .. Len(own) : own[l].message \in In(log) <=> own[l].message > Behind
      BY <1>2, LogHas DEF CollectorInv, Counted
    <3>2. \A l \in 1 .. Len(own) : own[l].message \in In(log) => own[l].title = dump_file[F].title
      BY <1>1, <1>4, <3>1 DEF CollectorInv, LogIsOfOneDump
    <3>3. \A l \in (F - 1) * DumpLines + 1 .. F * DumpLines :
            l \in 1 .. Len(own) /\ own[l].message \in In(log) \cup overrun
      <4>1. Len(own) = F * DumpLines
        BY <1>1, <1>2, <1>4 DEF CollectorInv, Counted, Due
      <4>2. PICK P : P = (F - 1) * DumpLines
        OBVIOUS
      <4>3. P \in Nat
        <5>1. F - 1 \in Nat
          BY <1>4
        <5> QED
          BY <4>2, <5>1, CollectorFacts
      <4>4. \A l \in P + 1 .. Len(own) : l \in 1 .. Len(own) /\ l > P
        BY <1>2, <4>3
      <4>5. \A l \in 1 .. Len(own) : l > P => own[l].message > Behind \/ own[l].message \in overrun
        BY <1>1, <1>4, <4>2 DEF CollectorInv, LogIsOfOneDump
      <4>6. \A l \in P + 1 .. Len(own) :
              l \in 1 .. Len(own) /\ own[l].message \in In(log) \cup overrun
        BY <3>1, <4>4, <4>5
      <4> QED
        BY <4>1, <4>2, <4>6
    <3>4. In(dump_file[F].lines)' = In(log)
      BY <1>5 DEF In
    <3> QED
      BY <1>1, <1>5, <3>2, <3>3, <3>4 DEF Right
  <2> QED
    BY <1>5, <2>2, <2>3 DEF SectionsRight
<1>10. Ascends'
  <2>1. \A a \in 1 .. Len(log) : log[a] = Behind + a
    BY DEF CollectorInv, LogIsNewest
  <2>2. \A j \in 1 .. F : j # F =>
          \A a \in 1 .. Len(dump_file[j].lines) :
            dump_file[j].lines[a] <= Behind /\ dump_file[j].lines[a] \in Nat
    <3>1. \A j \in 1 .. F : \A a \in 1 .. Len(dump_file[j].lines) :
            dump_file[j].lines[a] <= Behind
      BY <1>1, <1>4 DEF CollectorInv, Ascends
    <3> QED
      BY <1>4, <3>1, CollectorKnows
  <2>3. \A i, j \in 1 .. F :
          \A a \in 1 .. Len(dump_file'[i].lines), b \in 1 .. Len(dump_file'[j].lines) :
            i < j \/ (i = j /\ a < b) => dump_file'[i].lines[a] < dump_file'[j].lines[b]
    <3> TAKE i, j \in 1 .. F
    <3> TAKE a \in 1 .. Len(dump_file'[i].lines), b \in 1 .. Len(dump_file'[j].lines)
    <3> HAVE i < j \/ (i = j /\ a < b)
    <3>1. CASE j # F
      <4>1. i # F
        BY <1>4, <3>1
      <4>2. dump_file'[i] = dump_file[i] /\ dump_file'[j] = dump_file[j]
        BY <1>5, <3>1, <4>1
      <4>3. a \in 1 .. Len(dump_file[i].lines) /\ b \in 1 .. Len(dump_file[j].lines)
        BY <4>2
      <4> QED
        BY <1>4, <4>2, <4>3 DEF CollectorInv, Ascends
    <3>2. CASE j = F /\ i # F
      <4>1. dump_file'[i] = dump_file[i] /\ dump_file'[j].lines = log
        BY <1>5, <3>2
      <4>2. a \in 1 .. Len(dump_file[i].lines) /\ b \in 1 .. Len(log)
        BY <4>1
      <4>3. dump_file[i].lines[a] <= Behind /\ dump_file[i].lines[a] \in Nat
        BY <2>2, <3>2, <4>2
      <4>4. log[b] = Behind + b
        BY <2>1, <4>2
      <4>5. Behind < Behind + b
        BY <1>2, <4>2
      <4>6. dump_file[i].lines[a] < log[b]
        <5>1. PICK x : x = dump_file[i].lines[a]
          OBVIOUS
        <5>2. x \in Nat /\ x <= Behind /\ b \in Nat
          BY <1>2, <4>2, <4>3, <5>1
        <5>3. x < Behind + b
          BY <1>2, <4>5, <5>2
        <5> QED
          BY <4>4, <5>1, <5>3
      <4> QED
        BY <4>1, <4>6
    <3>3. CASE i = F /\ j = F
      <4>1. dump_file'[i].lines = log /\ dump_file'[j].lines = log
        BY <1>5, <3>3
      <4>2. a \in 1 .. Len(log) /\ b \in 1 .. Len(log) /\ a < b
        BY <1>4, <3>3, <4>1
      <4>3. log[a] = Behind + a /\ log[b] = Behind + b
        BY <2>1, <4>2
      <4>4. Behind + a < Behind + b
        BY <1>2, <4>2
      <4> QED
        BY <4>1, <4>3, <4>4
    <3> QED
      BY <3>1, <3>2, <3>3
  <2>4. \A j \in 1 .. F : \A a \in 1 .. Len(dump_file'[j].lines) :
          dump_file'[j].lines[a] <= arrived
    <3> TAKE j \in 1 .. F
    <3> TAKE a \in 1 .. Len(dump_file'[j].lines)
    <3>1. CASE j # F
      <4>1. dump_file'[j] = dump_file[j] /\ a \in 1 .. Len(dump_file[j].lines)
        BY <1>5, <3>1
      <4>2. dump_file[j].lines[a] <= Behind /\ dump_file[j].lines[a] \in Nat
        BY <2>2, <3>1, <4>1
      <4> QED
        BY <1>2, <4>1, <4>2
    <3>2. CASE j = F
      <4>1. dump_file'[j].lines = log /\ a \in 1 .. Len(log)
        BY <1>5, <3>2
      <4>2. log[a] = Behind + a /\ arrived = Behind + Len(log)
        BY <2>1, <4>1, CollectorKnows
      <4>3. Behind + a <= Behind + Len(log)
        BY <1>2, <4>1
      <4> QED
        BY <4>1, <4>2, <4>3
    <3> QED
      BY <3>1, <3>2
  <2> QED
    BY <1>1, <1>5, <2>3, <2>4 DEF Ascends
<1>11. Accounted'
  <2>1. ASSUME NEW m, InFile(m) PROVE InFile(m)'
    <3>1. PICK j \in 1 .. F : m \in In(dump_file[j].lines)
      BY <1>4, <2>1 DEF InFile
    <3>2. j # F
      <4>1. Len(dump_file[F].lines) = 0
        BY <1>1, <1>4 DEF CollectorInv, Counted
      <4>2. In(dump_file[F].lines) = {}
        BY <4>1 DEF In
      <4> QED
        BY <3>1, <4>2
    <3>3. m \in In(dump_file'[j].lines)
      BY <1>5, <3>1, <3>2 DEF In
    <3> QED
      BY <1>5, <3>3 DEF InFile, In
  <2>2. ASSUME NEW m \in 1 .. arrived, m > Behind PROVE InFile(m)'
    <3>1. m \in In(log)
      BY <1>2, <2>2, LogHas
    <3>2. m \in In(dump_file'[F].lines)
      BY <1>5, <3>1
    <3> QED
      BY <1>4, <1>5, <3>2 DEF InFile, In
  <2> QED
    BY <1>1, <1>3, <2>1, <2>2 DEF CollectorInv, Accounted
<1> QED
  BY <1>3, <1>6, <1>7, <1>8, <1>9, <1>10, <1>11 DEF CollectorInv

\* What a new message leaves as it is, wherever it comes from.
LEMMA ArriveKeeps ==
  ASSUME CollectorInv, Sysrq!Arrive, OwnGrows, dump_file' = dump_file,
         collector_pc' = collector_pc
  PROVE  SectionsRight' /\ Ascends'
<1>1. /\ arrived \in Nat /\ arrived' = arrived + 1 /\ Behind \in Nat /\ Behind' \in Nat
      /\ Behind <= Behind' /\ overrun \subseteq overrun'
  BY ArriveIs, CollectorKnows
<1>2. SectionsRight'
  BY <1>1, SectionsStay
<1>3. Copyable' \in Nat /\ Copyable <= Copyable'
  <2>1. CASE collector_pc = "clear"
    <3>1. Copyable = arrived /\ Copyable' = arrived'
      BY <2>1 DEF Copyable
    <3> QED
      BY <1>1, <3>1
  <2>2. CASE collector_pc # "clear"
    <3>1. Copyable = Behind /\ Copyable' = Behind'
      BY <2>2 DEF Copyable
    <3> QED
      BY <1>1, <3>1
  <2> QED
    BY <2>1, <2>2
<1> QED
  BY <1>2, <1>3, AscendsStays

\* The messages before a new one are accounted for as they were.
LEMMA ArriveAccounts ==
  ASSUME CollectorInv, Sysrq!Arrive, dump_file' = dump_file,
         collector_pc' = collector_pc, gap \subseteq gap',
         collector_pc \in {"start", "clear"} => arrived + 1 \in gap'
  PROVE  Accounted'
<1>1. /\ arrived \in Nat /\ arrived' = arrived + 1 /\ Behind \in Nat /\ Behind' \in Nat
      /\ Behind <= Behind' /\ Behind' <= Behind + 1 /\ Behind' < arrived'
      /\ overrun \subseteq overrun' /\ (Behind' # Behind => Behind' \in overrun')
  BY ArriveIs, CollectorKnows
<1>2. \A m : InFile(m)' <=> InFile(m)
  BY DEF InFile
<1>3. ASSUME NEW m \in 1 .. arrived', m <= Behind' PROVE m \in gap' \cup overrun' \/ InFile(m)
  <2>1. CASE m <= Behind
    <3>1. m \in 1 .. arrived
      BY <1>1, <1>3
    <3>2. m \in gap \cup overrun \/ InFile(m)
      BY <2>1, <3>1 DEF CollectorInv, Accounted
    <3> QED
      BY <1>1, <3>2
  <2>2. CASE m > Behind
    <3>1. m = Behind' /\ Behind' # Behind
      BY <1>1, <1>3, <2>2
    <3> QED
      BY <1>1, <3>1
  <2> QED
    BY <1>1, <2>1, <2>2
<1>4. ASSUME NEW m \in 1 .. arrived', m > Behind', collector_pc \in {"start", "clear"}
      PROVE  m \in gap' \/ InFile(m)
  <2>1. CASE m = arrived + 1
    BY <1>4, <2>1
  <2>2. CASE m # arrived + 1
    <3>1. m \in 1 .. arrived /\ m > Behind
      BY <1>1, <1>4, <2>2
    <3>2. m \in gap \/ InFile(m)
      BY <1>4, <3>1 DEF CollectorInv, Accounted
    <3> QED
      BY <3>2
  <2> QED
    BY <2>1, <2>2
<1> QED
  BY <1>2, <1>3, <1>4 DEF Accounted

\* Any other message of the kernel, at any time.
LEMMA MessageKeeps == CollectorInv /\ Sysrq!Message => CollectorInv'
<1> SUFFICES ASSUME CollectorInv, Sysrq!Message PROVE CollectorInv'
  OBVIOUS
<1>1. /\ Sysrq!Arrive /\ collector' = collector /\ collector_pc' = collector_pc
      /\ dump' = dump /\ todo' = todo /\ own' = own /\ dump_file' = dump_file
      /\ gap' = (IF collector_pc \in {"start", "clear"} THEN gap \cup {arrived + 1} ELSE gap)
  BY DEF Sysrq!Message
<1>2. /\ arrived \in Nat /\ Behind \in Nat
      /\ Len(own) \in Nat /\ \A l \in 1 .. Len(own) : own[l].message \in Nat
  BY CollectorKnows
<1>3. /\ arrived' = arrived + 1 /\ log' \in Seq(Nat) /\ LogIsNewest'
      /\ Behind' \in Nat /\ Behind <= Behind' /\ Behind' <= Behind + 1
      /\ overrun \subseteq overrun' /\ (Behind' # Behind => Behind' \in overrun')
  BY <1>1, ArriveIs
<1>4. CollectorTypes'
  BY <1>1, <1>2, <1>3 DEF CollectorInv, CollectorTypes
<1>5. Counted'
  <2>1. Due' = Due
    BY <1>1 DEF Due
  <2>2. \A l \in 1 .. Len(own') : own'[l].message <= arrived'
    <3>1. \A l \in 1 .. Len(own) : own[l].message <= arrived
      BY DEF CollectorInv, Counted
    <3>2. \A l \in 1 .. Len(own) : own[l].message <= arrived + 1
      BY <1>2, <3>1
    <3> QED
      BY <1>1, <1>3, <3>2
  <2> QED
    BY <1>1, <2>1, <2>2 DEF CollectorInv, Counted
<1>6. LogIsOfOneDump'
  <2>1. ASSUME collector_pc \in {"title", "trigger", "registers"}, NEW l \in 1 .. Len(own)
        PROVE  own[l].message <= Behind'
    <3>1. own[l].message <= Behind /\ own[l].message \in Nat
      BY <1>2, <2>1 DEF CollectorInv, LogIsOfOneDump
    <3> QED
      BY <1>2, <1>3, <3>1
  <2>2. ASSUME collector_pc = "dump", NEW l \in 1 .. Len(own)
        PROVE  /\ own[l].message > Behind' => own[l].title = dump_file[Len(dump_file)].title
               /\ l > (Len(dump_file) - 1) * DumpLines =>
                    own[l].message > Behind' \/ own[l].message \in overrun'
    <3>1. PICK m \in Nat : m = own[l].message
      BY <1>2
    <3>2. /\ m > Behind => own[l].title = dump_file[Len(dump_file)].title
          /\ l > (Len(dump_file) - 1) * DumpLines => m > Behind \/ m \in overrun
      BY <2>2, <3>1 DEF CollectorInv, LogIsOfOneDump
    <3>3. m > Behind' => m > Behind
      BY <1>2, <1>3, <3>1
    <3>4. m > Behind => m > Behind' \/ m \in overrun'
      <4>1. ASSUME m > Behind, ~(m > Behind') PROVE m = Behind' /\ Behind' # Behind
        BY <1>2, <1>3, <3>1, <4>1
      <4> QED
        BY <1>3, <4>1
    <3> QED
      BY <1>3, <3>1, <3>2, <3>3, <3>4
  <2> QED
    BY <1>1, <2>1, <2>2 DEF LogIsOfOneDump
<1>7. SectionsRight' /\ Ascends'
  BY <1>1, SameOwn, ArriveKeeps
<1>8. Accounted'
  BY <1>1, ArriveAccounts
<1> QED
  BY <1>3, <1>4, <1>5, <1>6, <1>7, <1>8 DEF CollectorInv

\* A line of the dump whose turn it is.
LEMMA DumpLineKeeps == CollectorInv /\ Sysrq!DumpLine => CollectorInv'
<1> SUFFICES ASSUME CollectorInv, Sysrq!DumpLine PROVE CollectorInv'
  OBVIOUS
<1> DEFINE new == [message |-> arrived + 1, title |-> collector.dumps[dump]]
<1>1. /\ Sysrq!Arrive /\ collector' = collector /\ dump' = dump
      /\ collector_pc = "dump" /\ collector_pc' = collector_pc
      /\ todo > 0 /\ todo' = todo - 1 /\ own' = Append(own, new)
      /\ dump_file' = dump_file /\ gap' = gap
  BY DEF Sysrq!DumpLine, Sysrq!Dumps
<1>2. /\ arrived \in Nat /\ Behind \in Nat
      /\ Len(own) \in Nat /\ \A l \in 1 .. Len(own) : own[l].message \in Nat
      /\ Len(dump_file) \in Nat
  BY CollectorKnows
<1>3. /\ arrived' = arrived + 1 /\ log' \in Seq(Nat) /\ LogIsNewest'
      /\ Behind' \in Nat /\ Behind <= Behind' /\ Behind' <= Behind + 1 /\ Behind' < arrived'
      /\ overrun \subseteq overrun' /\ (Behind' # Behind => Behind' \in overrun')
  BY <1>1, ArriveIs
<1>4. PICK Own : Own = [message : Nat, title : Titles]
  OBVIOUS
<1>5. new \in Own /\ new.message = arrived + 1
      /\ new.title = dump_file[Len(dump_file)].title
  <2>1. collector \in Collectors /\ dump \in 1 .. Len(collector.dumps)
    BY DEF CollectorInv, CollectorTypes
  <2>2. collector.dumps[dump] \in Titles
    BY <2>1, CollectorFacts
  <2>3. dump_file[Len(dump_file)] = [title |-> collector.dumps[dump], lines |-> <<>>]
    BY <1>1 DEF CollectorInv, Counted
  <2> QED
    BY <1>2, <1>4, <2>2, <2>3
<1> HIDE DEF new
<1>6. /\ own' \in Seq(Own) /\ Len(own') = Len(own) + 1 /\ own'[Len(own) + 1] = new
      /\ \A l \in 1 .. Len(own) : own'[l] = own[l]
  <2>1. own \in Seq(Own)
    BY <1>4 DEF CollectorInv, CollectorTypes
  <2> QED
    BY <1>1, <1>5, <2>1
<1>7. \A l \in 1 .. Len(own') : l \in 1 .. Len(own) \/ l = Len(own) + 1
  BY <1>2, <1>6
<1>8. OwnGrows
  <2>1. ASSUME NEW l \in 1 .. Len(own'), l > Len(own) PROVE own'[l].message = arrived + 1
    <3>1. l = Len(own) + 1
      BY <1>2, <1>7, <2>1
    <3> QED
      BY <1>5, <1>6, <3>1
  <2> QED
    BY <1>2, <1>6, <2>1 DEF OwnGrows
<1>9. CollectorTypes'
  <2>1. todo' \in Nat
    BY <1>1 DEF CollectorInv, CollectorTypes
  <2>2. arrived' \in Nat
    BY <1>2, <1>3
  <2> QED
    BY <1>1, <1>3, <1>4, <1>6, <2>1, <2>2 DEF CollectorInv, CollectorTypes
<1>10. Counted'
  <2>1. Due = todo /\ Due' = todo' /\ todo \in Nat
    BY <1>1 DEF Due, CollectorInv, CollectorTypes
  <2>2. Len(own') + Due' = Len(own) + Due
    BY <1>1, <1>2, <1>6, <2>1
  <2>3. \A l \in 1 .. Len(own') : own'[l].message <= arrived'
    <3> TAKE l \in 1 .. Len(own')
    <3>1. CASE l \in 1 .. Len(own)
      <4>1. PICK m \in Nat : m = own[l].message /\ m <= arrived
        BY <1>2, <3>1 DEF CollectorInv, Counted
      <4>2. m <= arrived + 1
        BY <1>2, <4>1
      <4> QED
        BY <1>3, <1>6, <3>1, <4>1, <4>2
    <3>2. CASE l = Len(own) + 1
      <4>1. own'[l].message = arrived'
        BY <1>3, <1>5, <1>6, <3>2
      <4> QED
        BY <1>2, <1>3, <4>1
    <3> QED
      BY <1>7, <3>1, <3>2
  <2> QED
    BY <1>1, <2>2, <2>3 DEF CollectorInv, Counted
<1>11. LogIsOfOneDump'
  <2>1. ASSUME NEW l \in 1 .. Len(own)
        PROVE  /\ own[l].message > Behind' => own[l].title = dump_file[Len(dump_file)].title
               /\ l > (Len(dump_file) - 1) * DumpLines =>
                    own[l].message > Behind' \/ own[l].message \in overrun'
    <3>1. PICK m \in Nat : m = own[l].message
      BY <1>2
    <3>2. /\ m > Behind => own[l].title = dump_file[Len(dump_file)].title
          /\ l > (Len(dump_file) - 1) * DumpLines => m > Behind \/ m \in overrun
      BY <1>1, <3>1 DEF CollectorInv, LogIsOfOneDump
    <3>3. m > Behind' => m > Behind
      BY <1>2, <1>3, <3>1
    <3>4. m > Behind => m > Behind' \/ m \in overrun'
      <4>1. ASSUME m > Behind, ~(m > Behind') PROVE m = Behind' /\ Behind' # Behind
        BY <1>2, <1>3, <3>1, <4>1
      <4> QED
        BY <1>3, <4>1
    <3> QED
      BY <1>3, <3>1, <3>2, <3>3, <3>4
  <2>2. ASSUME NEW l \in 1 .. Len(own')
        PROVE  /\ own'[l].message > Behind' => own'[l].title = dump_file[Len(dump_file)].title
               /\ l > (Len(dump_file) - 1) * DumpLines =>
                    own'[l].message > Behind' \/ own'[l].message \in overrun'
    <3>1. CASE l \in 1 .. Len(own)
      BY <1>6, <2>1, <3>1
    <3>2. CASE l = Len(own) + 1
      <4>1. own'[l] = new /\ new.message = arrived'
        BY <1>3, <1>5, <1>6, <3>2
      <4>2. arrived' > Behind'
        BY <1>2, <1>3
      <4> QED
        BY <1>5, <4>1, <4>2
    <3> QED
      BY <1>7, <3>1, <3>2
  <2> QED
    BY <1>1, <2>2 DEF LogIsOfOneDump
<1>12. SectionsRight' /\ Ascends'
  BY <1>1, <1>8, ArriveKeeps
<1>13. Accounted'
  BY <1>1, ArriveAccounts
<1> QED
  BY <1>3, <1>9, <1>10, <1>11, <1>12, <1>13 DEF CollectorInv

\* A step that changes nothing.
LEMMA BoundedKeeps == CollectorInv /\ UNCHANGED Sysrq!vars => CollectorInv'
BY DEF Sysrq!vars, CollectorInv, CollectorTypes, LogIsNewest, Behind, Counted, Due,
       LogIsOfOneDump, SectionsRight, Done, Right, In, Ascends, Accounted, InFile

\* Every step of the collector and of the kernel keeps the invariant.
LEMMA CollectorKeeps == CollectorInv /\ [Sysrq!Next]_Sysrq!vars => CollectorInv'
BY StartKeeps, TitleKeeps, TriggerKeeps, SnapshotKeeps, ClearKeeps, RegisterKeeps, MessageKeeps,
   DumpLineKeeps, BoundedKeeps DEF Sysrq!Next, Sysrq!Bounded

\* The collector begins with a log of messages from before.
LEMMA CollectorBegins == Sysrq!Init => CollectorInv
<1> SUFFICES ASSUME Sysrq!Init PROVE CollectorInv
  OBVIOUS
<1>1. /\ collector \in Collectors /\ collector_pc = "start" /\ dump = 1 /\ todo = 0
      /\ arrived \in 0 .. LogSize /\ own = <<>> /\ log = [j \in 1 .. arrived |-> j]
      /\ dump_file = <<>> /\ gap = 1 .. arrived /\ overrun = {}
  BY DEF Sysrq!Init
<1>2. arrived \in Nat /\ arrived <= LogSize
  BY <1>1, CollectorFacts
<1>3. log \in Seq(Nat) /\ Len(log) = arrived /\ \A i \in 1 .. arrived : log[i] = i
  BY <1>1, <1>2
<1>4. Behind = 0
  <2>1. Behind = arrived - Len(log)
    BY DEF Behind
  <2> QED
    BY <1>2, <1>3, <2>1
<1>5. own \in Seq([message : Nat, title : Titles]) /\ Len(own) = 0
      /\ dump_file \in Seq(Sections) /\ Len(dump_file) = 0
  BY <1>1
<1>6. CollectorTypes
  <2>1. dump \in 1 .. Len(collector.dumps)
    <3>1. PICK L \in Nat : L = Len(collector.dumps) /\ L >= 1
      BY <1>1, CollectorFacts
    <3> QED
      BY <1>1, <3>1
  <2> QED
    BY <1>1, <1>2, <1>3, <1>5, <2>1 DEF CollectorTypes
<1>7. LogIsNewest
  BY <1>2, <1>3, <1>4 DEF LogIsNewest
<1>8. Counted
  <2>1. Due = 0
    BY <1>1 DEF Due
  <2>2. 0 + 0 = 0 * DumpLines
    BY CollectorFacts
  <2> QED
    BY <1>1, <1>5, <2>1, <2>2 DEF Counted
<1>9. LogIsOfOneDump
  BY <1>5 DEF LogIsOfOneDump
<1>10. SectionsRight /\ Ascends
  BY <1>5 DEF SectionsRight, Ascends
<1>11. Accounted
  BY <1>1, <1>2 DEF Accounted
<1> QED
  BY <1>6, <1>7, <1>8, <1>9, <1>10, <1>11 DEF CollectorInv

\* The two properties of the collector's file follow from its invariant.
LEMMA CollectorSays == CollectorInv => Sysrq!SectionsHoldTheirDump /\ Sysrq!EachMessageOnce
<1> SUFFICES ASSUME CollectorInv
             PROVE  Sysrq!SectionsHoldTheirDump /\ Sysrq!EachMessageOnce
  OBVIOUS
<1>1. /\ own \in Seq([message : Nat, title : Titles]) /\ dump_file \in Seq(Sections)
      /\ log \in Seq(Nat)
  BY DEF CollectorInv, CollectorTypes
<1>2. DOMAIN own = 1 .. Len(own) /\ DOMAIN dump_file = 1 .. Len(dump_file)
      /\ DOMAIN log = 1 .. Len(log)
  <2>1. PICK S : S = [message : Nat, title : Titles]
    OBVIOUS
  <2>2. own \in Seq(S)
    BY <1>1, <2>1
  <2> QED
    BY <1>1, <2>2
<1>3. \A j \in DOMAIN dump_file :
        /\ DOMAIN dump_file[j].lines = 1 .. Len(dump_file[j].lines)
        /\ Sysrq!ToSet(dump_file[j].lines) = In(dump_file[j].lines)
  <2> TAKE j \in DOMAIN dump_file
  <2>1. PICK lines : lines = dump_file[j].lines /\ lines \in Seq(Nat)
    BY <1>2, CollectorKnows
  <2>2. DOMAIN lines = 1 .. Len(lines)
    BY <2>1
  <2> QED
    BY <2>1, <2>2 DEF In, Sysrq!ToSet
<1>4. Sysrq!SectionsHoldTheirDump
  <2> SUFFICES ASSUME NEW j \in Sysrq!Copied
               PROVE  /\ \A d \in Sysrq!ToSet(own) :
                           d.message \in Sysrq!ToSet(dump_file[j].lines) =>
                             d.title = dump_file[j].title
                      /\ \A l \in (j - 1) * DumpLines + 1 .. j * DumpLines :
                           /\ l \in DOMAIN own
                           /\ own[l].message \in Sysrq!ToSet(dump_file[j].lines) \cup overrun
    BY DEF Sysrq!SectionsHoldTheirDump
  <2>1. j \in DOMAIN dump_file /\ Done(j)
    BY DEF Sysrq!Copied, Done
  <2>2. Right(j)
    BY <1>2, <2>1 DEF CollectorInv, SectionsRight
  <2>3. Sysrq!ToSet(own) = In(own)
    BY <1>2 DEF In, Sysrq!ToSet
  <2>4. Sysrq!ToSet(dump_file[j].lines) = In(dump_file[j].lines)
    BY <1>3, <2>1
  <2>5. ASSUME NEW d \in In(own), d.message \in In(dump_file[j].lines)
        PROVE  d.title = dump_file[j].title
    <3>1. PICK l \in 1 .. Len(own) : d = own[l]
      BY DEF In
    <3> QED
      BY <2>2, <2>5, <3>1 DEF Right
  <2> QED
    BY <1>2, <2>2, <2>3, <2>4, <2>5 DEF Right
<1>5. Sysrq!EachMessageOnce
  <2>1. \A i, j \in DOMAIN dump_file :
          \A a \in DOMAIN dump_file[i].lines, b \in DOMAIN dump_file[j].lines :
            i < j \/ (i = j /\ a < b) => dump_file[i].lines[a] < dump_file[j].lines[b]
    BY <1>2, <1>3 DEF CollectorInv, Ascends
  <2>2. ASSUME NEW m \in 1 .. arrived
        PROVE  \/ m \in gap \cup overrun \cup Sysrq!ToSet(log)
               \/ \E j \in DOMAIN dump_file : m \in Sysrq!ToSet(dump_file[j].lines)
    <3>1. arrived \in Nat /\ Behind \in Nat
      BY CollectorKnows
    <3>2. CASE m <= Behind
      BY <1>2, <1>3, <3>2 DEF CollectorInv, Accounted, InFile
    <3>3. CASE m > Behind
      <4>1. m \in In(log)
        BY <3>1, <3>3, LogHas
      <4> QED
        BY <1>2, <4>1 DEF In, Sysrq!ToSet
    <3> QED
      BY <3>1, <3>2, <3>3
  <2> QED
    BY <2>1, <2>2 DEF Sysrq!EachMessageOnce
<1> QED
  BY <1>4, <1>5

----------------------------------------------------------------------------
(* The scripts.                                                             *)

\* Each script has its invariant, in its own behaviours and at rest.
ScriptsInv ==
  /\ BenchmarkInv /\ ReportInv /\ VisitorInv
  /\ IF part = "collector" THEN CollectorInv ELSE CollectorAtRest

scripts == <<part, benchmark, report, collecting, visiting>>

\* Nothing has been measured or reported.
LEMMA BenchmarkBegins == ReportInit \/ BenchmarkAtRest => BenchmarkInv /\ ReportInv
<1> SUFFICES ASSUME ReportInit \/ BenchmarkAtRest PROVE BenchmarkInv /\ ReportInv
  OBVIOUS
<1>1. /\ pc = "exit" /\ starts = 0 /\ results = <<>>
      /\ at = "idle" /\ head = "none" /\ rows = {}
  BY DEF ReportInit, Init, BenchmarkAtRest
<1>2. results \in Seq(Results)
  BY <1>1
<1> QED
  BY <1>1, <1>2 DEF BenchmarkInv, ReportInv

\* Every step of the benchmark and of the report keeps both invariants.
LEMMA BenchmarkNextKeeps == BenchmarkInv /\ ReportInv /\ Next => BenchmarkInv' /\ ReportInv'
<1> SUFFICES ASSUME BenchmarkInv, ReportInv, Next PROVE BenchmarkInv' /\ ReportInv'
  OBVIOUS
<1>1. CASE BenchmarkStep /\ UNCHANGED report
  BY <1>1, BenchmarkKeeps, BenchmarkStepKeepsReport
<1>2. ASSUME UNCHANGED benchmark PROVE BenchmarkInv'
  BY <1>2 DEF benchmark, BenchmarkInv, BeginsGrid
<1>3. CASE Walk
  BY <1>2, <1>3, WalkKeeps DEF Walk, benchmark
<1>4. CASE Close \/ \E f \in files : Raise(f)
  BY <1>2, <1>4, EndKeepsReport DEF Close, Raise, benchmark
<1>5. CASE \E f \in files : Row(f)
  BY <1>2, <1>5, RowKeeps DEF Row, benchmark
<1> QED
  BY <1>1, <1>3, <1>4, <1>5 DEF Next

\* Every script begins in its invariant.
LEMMA ScriptsBegin == ScriptsInit => ScriptsInv
BY BenchmarkBegins, VisitorBegins, CollectorBegins DEF ScriptsInit, ScriptsInv

\* What does not move keeps what it has.
LEMMA RestKeeps ==
  /\ BenchmarkInv /\ ReportInv /\ UNCHANGED <<benchmark, report>> => BenchmarkInv' /\ ReportInv'
  /\ VisitorInv /\ UNCHANGED visiting => VisitorInv'
  /\ CollectorInv /\ UNCHANGED collecting => CollectorInv'
  /\ CollectorAtRest /\ UNCHANGED collecting => CollectorAtRest'
<1>1. BenchmarkInv /\ ReportInv /\ UNCHANGED <<benchmark, report>> => BenchmarkInv' /\ ReportInv'
  <2> SUFFICES ASSUME BenchmarkInv, ReportInv, UNCHANGED <<benchmark, report>>
               PROVE  BenchmarkInv' /\ ReportInv'
    OBVIOUS
  <2>1. BenchmarkInv'
    BY DEF benchmark, BenchmarkInv, BeginsGrid
  <2>2. /\ at' = at /\ files' = files /\ through' = through /\ head' = head /\ rows' = rows
        /\ pc' = pc /\ starts' = starts /\ Listed' = Listed
    BY DEF benchmark, report, Listed
  <2>3. ASSUME NEW L, NEW start, OneRun(L, start) /\ AllOrNone(L, start) /\ TableOf(L)
        PROVE  OneRun(L, start)' /\ AllOrNone(L, start)' /\ TableOf(L)'
    BY <2>2, <2>3 DEF OneRun, AllOrNone, TableOf
  <2>4. ReportInv'
    BY <2>2, <2>3 DEF ReportInv
  <2> QED
    BY <2>1, <2>4
<1>2. VisitorInv /\ UNCHANGED visiting => VisitorInv'
  BY DEF visiting, VisitorInv, Visited
<1>3. CollectorInv /\ UNCHANGED collecting => CollectorInv'
  BY BoundedKeeps DEF collecting, Sysrq!vars
<1>4. CollectorAtRest /\ UNCHANGED collecting => CollectorAtRest'
  BY DEF collecting, CollectorAtRest
<1> QED
  BY <1>1, <1>2, <1>3, <1>4

\* A step of one script is a step of no other.
LEMMA ScriptsKeep == ScriptsInv /\ [ScriptsNext]_scripts => ScriptsInv'
<1> SUFFICES ASSUME ScriptsInv, [ScriptsNext]_scripts PROVE ScriptsInv'
  OBVIOUS
<1>1. part' = part
  BY DEF ScriptsNext, scripts
<1>2. CASE UNCHANGED scripts
  BY <1>1, <1>2, RestKeeps DEF scripts, ScriptsInv
<1>3. CASE part = "benchmark" /\ Next /\ UNCHANGED <<collecting, visiting>>
  BY <1>1, <1>3, BenchmarkNextKeeps, RestKeeps DEF ScriptsInv
<1>4. CASE part = "collector" /\ Sysrq!Next /\ UNCHANGED <<benchmark, report, visiting>>
  BY <1>1, <1>4, CollectorKeeps, RestKeeps DEF ScriptsInv
<1>5. CASE part = "visitor" /\ Visitor!Next /\ UNCHANGED <<benchmark, report, collecting>>
  BY <1>1, <1>5, VisitorKeeps, RestKeeps DEF ScriptsInv
<1> QED
  BY <1>2, <1>3, <1>4, <1>5 DEF ScriptsNext

\* So the invariants hold in every behaviour.
LEMMA ScriptsStay == ScriptsSpec => []ScriptsInv
<1>1. ScriptsInv /\ [ScriptsNext]_<<part, benchmark, report, collecting, visiting>> => ScriptsInv'
  BY ScriptsKeep DEF scripts
<1> QED
  BY <1>1, ScriptsBegin, PTL DEF ScriptsSpec

\* However often a script is started and killed, and wherever: when one is through,
\* there is one result for each point of the grid, in order, all of its own run.
THEOREM ResultsAreOfOneRun == ScriptsSpec => []OneResultEach
<1>1. BenchmarkInv => OneResultEach
  <2> SUFFICES ASSUME BenchmarkInv, pc = "done"
               PROVE  /\ Len(results) = Len(Points)
                      /\ \A j \in DOMAIN results :
                           results[j].point = Points[j] /\ results[j].start = starts
    BY DEF OneResultEach
  <2>1. DOMAIN results = 1 .. Len(results)
    BY DEF BenchmarkInv
  <2> QED
    BY <2>1 DEF BenchmarkInv, BeginsGrid
<1> QED
  BY <1>1, ScriptsStay, PTL DEF ScriptsInv

\* Whatever the report reads first, and whenever the benchmark is started again
\* while it reads: a table of a run that was through is of one run, and has every
\* result with the head's options.
THEOREM TableIsOfOneRun == ScriptsSpec => []TableMatchesGrid
BY ScriptsStay, ReportSays, PTL DEF ScriptsInv

\* A collector at rest has collected nothing wrong either.
LEMMA ScriptsSay == ScriptsInv => SectionsHoldTheirDump /\ EachMessageOnce
<1>1. CollectorAtRest => SectionsHoldTheirDump /\ EachMessageOnce
  <2> SUFFICES ASSUME CollectorAtRest PROVE SectionsHoldTheirDump /\ EachMessageOnce
    OBVIOUS
  <2>1. DOMAIN dump_file = {} /\ 1 .. arrived = {}
    BY DEF CollectorAtRest
  <2> QED
    BY <2>1 DEF SectionsHoldTheirDump, EachMessageOnce, Sysrq!SectionsHoldTheirDump,
                Sysrq!EachMessageOnce, Sysrq!Copied
<1>2. CollectorInv => SectionsHoldTheirDump /\ EachMessageOnce
  BY CollectorSays DEF SectionsHoldTheirDump, EachMessageOnce
<1> QED
  BY <1>1, <1>2 DEF ScriptsInv

\* Whatever the kernel writes in between, and however small the ring: a section has
\* the dump of its title, whole but for what the ring has lost, and no other.
THEOREM SectionsAreRight == ScriptsSpec => []SectionsHoldTheirDump
BY ScriptsStay, ScriptsSay, PTL

\* The file has the messages in their order and none twice; one that neither it
\* nor the log has is from before the loop, came between a copy and the clearing
\* after it, or was pushed out of the ring.
THEOREM MessagesAreOnce == ScriptsSpec => []EachMessageOnce
BY ScriptsStay, ScriptsSay, PTL

\* Wherever the visit fails or is killed, it costs the page whose turn it was.
THEOREM VisitLosesOne == ScriptsSpec => AtMostOneLost
<1>1. ScriptsInv /\ [ScriptsNext]_<<part, benchmark, report, collecting, visiting>> =>
        [/\ \A j \in DOMAIN Pages : j < k' => file'[Pages[j]] = "page"
         /\ \A j \in DOMAIN Pages : j > k => file'[Pages[j]] = file[Pages[j]]
         /\ \A p \in said' : file'[p] = "page" \/ p = Visitor!page
         /\ \A i \in Images : fetched'[i] <= 1]_Visitor!vars
  BY VisitorKeeps DEF ScriptsNext, ScriptsInv, OneLost, visiting, Visitor!vars
<1> QED
  BY <1>1, ScriptsStay, PTL DEF ScriptsSpec, AtMostOneLost, Visitor!AtMostOneLost
===============================================================================
