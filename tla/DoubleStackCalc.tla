--------------------------- MODULE DoubleStackCalc ---------------------------
(****************************************************************************)
(* source/src/leetcode/double_stack_224.c: calculate() evaluates an infix   *)
(* string with a stack of pending operators (opst) and a stack of numbers   *)
(* (npst).  One action is one iteration of one of its four loops.           *)
(*                                                                          *)
(* Both stacks are bounded by the length of the string, stack_push drops    *)
(* what does not fit and stack_pop of an empty stack answers 0, both        *)
(* without telling the caller: a miscount does not crash, it gives a wrong  *)
(* answer.                                                                  *)
(****************************************************************************)
EXTENDS Infix

CONSTANT Inputs        \* the strings calculate() may be called with

ASSUME InputsAssumption == \A str \in Inputs : WellFormed(str)

VARIABLES
  s,             \* the argument
  pc,            \* the loop that runs
  scand_index,   \* tokens of s consumed so far
  opst,          \* operators and open parentheses, top last
  npst,          \* numbers, top last
  result         \* what calculate() returns

vars == <<s, pc, scand_index, opst, npst, result>>

----------------------------------------------------------------------------
(* The Stack type: a sequence, max_size = strlen(s).                        *)

max_size == Len(s)
Nothing  == "none"  \* what stack_top answers for an empty operator stack

IsFull(st) == Len(st) = max_size

Top(st, none) == IF st = <<>> THEN none ELSE st[Len(st)]

Push(st, e) == IF IsFull(st) THEN st ELSE Append(st, e)

Pop(st) == IF st = <<>> THEN <<>> ELSE SubSeq(st, 1, Len(st) - 1)

\* The numbers pop_and_cal works on; 0 stands in for one that is missing.
A1 == Top(npst, 0)
A2 == Top(Pop(npst), 0)

\* pop_and_cal that leaves the second operand on the stack.
PopAndCalKeep(next) ==
  /\ opst' = Pop(opst)
  /\ npst' = Push(Pop(npst), DoOneCal(Top(opst, Nothing), A1, A2))
  /\ pc' = next

\* pop_and_cal, then to the loop head next; a division by zero ends the
\* process.
PopAndCal(next) ==
  IF Traps(Top(opst, Nothing), A1)
  THEN pc' = "trap" /\ UNCHANGED <<opst, npst>>
  ELSE /\ opst' = Pop(opst)
       /\ npst' = Push(Pop(Pop(npst)), DoOneCal(Top(opst, Nothing), A1, A2))
       /\ pc' = next

----------------------------------------------------------------------------
Init ==
  /\ s \in Inputs
  /\ pc = "scan"
  /\ scand_index = 0
  /\ opst = <<>>
  /\ npst = <<>>
  /\ result = 0

cu == s[scand_index + 1].t

AtToken == pc = "scan" /\ scand_index < Len(s)

Consume == scand_index' = scand_index + 1

\* An operator on an empty operator stack, whichever it is, or '('.
PushOp ==
  /\ AtToken
  /\ IsLegalOp(cu)
  /\ opst = <<>> \/ cu = "("
  /\ opst' = Push(opst, cu)
  /\ Consume
  /\ UNCHANGED <<s, pc, npst, result>>

\* No branch for ')': it is treated like an operator.
EnterNoClose ==
  /\ AtToken
  /\ IsLegalOp(cu)
  /\ opst # <<>> /\ cu # "("
  /\ pc' = "reduce"
  /\ UNCHANGED <<s, scand_index, opst, npst, result>>

\* ')' or an operator that may have to wait for earlier ones: their loops.
Enter ==
  /\ AtToken
  /\ IsLegalOp(cu)
  /\ opst # <<>> /\ cu # "("
  /\ pc' = IF cu = ")" THEN "close" ELSE "reduce"
  /\ UNCHANGED <<s, scand_index, opst, npst, result>>

SkipSpace ==
  /\ AtToken
  /\ cu = "space"
  /\ Consume
  /\ UNCHANGED <<s, pc, opst, npst, result>>

\* The number is pushed but not skipped.
PushNumAgain ==
  /\ AtToken
  /\ cu = "num"
  /\ npst' = Push(npst, s[scand_index + 1].v)
  /\ UNCHANGED <<s, pc, scand_index, opst, result>>

PushNum ==
  /\ AtToken
  /\ cu = "num"
  /\ npst' = Push(npst, s[scand_index + 1].v)
  /\ Consume
  /\ UNCHANGED <<s, pc, opst, result>>

\* while (stack_top(opst) != '('), for an empty stack too.
CloseStep ==
  /\ pc = "close"
  /\ Top(opst, Nothing) # "("
  /\ PopAndCal("close")
  /\ UNCHANGED <<s, scand_index, result>>

\* ')' that leaves its '(' on the stack.
CloseEndKeep ==
  /\ pc = "close"
  /\ Top(opst, Nothing) = "("
  /\ pc' = "scan"
  /\ Consume
  /\ UNCHANGED <<s, opst, npst, result>>

CloseEnd ==
  /\ pc = "close"
  /\ Top(opst, Nothing) = "("
  /\ opst' = Pop(opst)
  /\ pc' = "scan"
  /\ Consume
  /\ UNCHANGED <<s, npst, result>>

\* The test at the loop head and the break behind pop_and_cal.
MustReduce == opst # <<>> /\ Prio(cu) <= Prio(Top(opst, Nothing))

ReduceStep ==
  /\ pc = "reduce"
  /\ MustReduce
  /\ PopAndCal("reduce")
  /\ UNCHANGED <<s, scand_index, result>>

ReduceEnd ==
  /\ pc = "reduce"
  /\ ~MustReduce
  /\ opst' = Push(opst, cu)
  /\ pc' = "scan"
  /\ Consume
  /\ UNCHANGED <<s, npst, result>>

EndOfScan ==
  /\ pc = "scan"
  /\ scand_index = Len(s)
  /\ pc' = "drain"
  /\ UNCHANGED <<s, scand_index, opst, npst, result>>

DrainStep ==
  /\ pc = "drain"
  /\ opst # <<>>
  /\ PopAndCal("drain")
  /\ UNCHANGED <<s, scand_index, result>>

Return ==
  /\ pc = "drain"
  /\ opst = <<>>
  /\ result' = Top(npst, 0)
  /\ npst' = Pop(npst)
  /\ pc' = "done"
  /\ UNCHANGED <<s, scand_index, opst>>

\* calculate() has returned, or its process is gone.
Terminated == pc \in {"done", "trap"} /\ UNCHANGED vars

Next ==
  \/ PushOp \/ Enter \/ SkipSpace \/ PushNum
  \/ CloseStep \/ CloseEnd
  \/ ReduceStep \/ ReduceEnd
  \/ EndOfScan \/ DrainStep \/ Return
  \/ Terminated

\* A sequential program that is run keeps running.
Fairness == WF_vars(Next)
Spec == Init /\ [][Next]_vars /\ Fairness

----------------------------------------------------------------------------
TypeOK ==
  /\ WellFormed(s)
  /\ pc \in {"scan", "close", "reduce", "drain", "done", "trap"}
  /\ scand_index \in 0..Len(s)
  /\ opst \in Seq(BinaryOps \union {"("})
  /\ npst \in Seq(Int)
  /\ result \in Int

\* The operators, and the open parentheses, that wait on a stack.
NumOps(st)    == Cardinality({i \in 1..Len(st) : st[i] # "("})
NumParens(st) == Cardinality({i \in 1..Len(st) : st[i] = "("})

\* Every operator that waits has its left operand on npst, and only an
\* operand that has just ended is there besides: stack_pop(npst) never
\* answers the 0 of an empty stack in the middle of an expression, and
\* nothing is left behind when calculate() returns.
OperandsBalance ==
  pc \notin {"done", "trap"} =>
    Len(npst) = NumOps(opst) + Ended(s, scand_index)

NothingLeft == pc = "done" => npst = <<>> /\ opst = <<>>

\* The stacks together hold no more than the tokens read so far, so that
\* stack_push never finds a stack full and drops what it is given.
NeverDropped == Len(opst) + Len(npst) <= scand_index

\* The parentheses that are open in the text read so far are the ones on
\* opst: the loop of ')' always meets its '(' and terminates.
ParensMatch ==
  pc \notin {"done", "trap"} =>
    NumParens(opst) = Depth(s, scand_index)

\* Between two parentheses the waiting operators bind ever tighter: this is
\* what makes operators of equal priority group to the left.
PrioritiesAscend ==
  \A i \in 1..(Len(opst) - 1) :
    opst[i + 1] # "(" => Prio(opst[i]) < Prio(opst[i + 1])
=============================================================================
