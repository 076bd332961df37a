----------------------------- MODULE PostfixCalc -----------------------------
(****************************************************************************)
(* source/src/leetcode/224.c: mtob() turns an infix string into a postfix   *)
(* string, cal_bstr() evaluates that, and main() does so for one string     *)
(* after another.  Both functions use the same global stack: a heap block   *)
(* (stack) that each of them allocates and frees, and a global index (it)   *)
(* that nobody ever resets.                                                 *)
(*                                                                          *)
(* stack_pop() does not test for an empty stack, stack_push() tests         *)
(* it <= stack_len for a block of stack_len + 1 cells: whether the block is *)
(* left, at either end, depends on the callers' counting alone.             *)
(****************************************************************************)
EXTENDS Infix

CONSTANTS
  Inputs,      \* the strings that main() evaluates
  MaxCalls     \* how many of them: a bound on the model

PostfixAssumption == (\A str \in Inputs : WellFormed(str)) /\ MaxCalls \in Nat

VARIABLES
  s,             \* the infix string
  bstr,          \* the postfix string: numbers and operators
  pc,            \* the loop that runs
  scand_index,   \* tokens of s (in mtob) or of bstr (in cal_bstr) consumed
  stack,         \* the block the global points to
  it,            \* index of the top of the stack
  heap,          \* blocks allocated and not yet freed
  result,        \* what cal_bstr() returns
  calls

vars == <<s, bstr, pc, scand_index, stack, it, heap, result, calls>>

----------------------------------------------------------------------------
(* The stack.                                                               *)

Blank == [t |-> "", v |-> 0]          \* a cell after memset
Cell  == [t : Kinds, v : Int] \union {Blank}

\* A freed block has no cells.
Freed == <<>>

Block(len) == [i \in 0..len |-> Blank]

stack_len == Cardinality(DOMAIN stack) - 1

\* What is outside the block is neither read nor changed; that it is never
\* used is StaysInBlock.
Read(i)     == IF i \in DOMAIN stack THEN stack[i] ELSE Blank
Write(i, c) == [j \in DOMAIN stack |-> IF j = i THEN c ELSE stack[j]]

stack_push(c) ==
  IF it <= stack_len
  THEN it' = it + 1 /\ stack' = Write(it + 1, c)
  ELSE UNCHANGED <<it, stack>>

is_empty == it = -1

\* The characters of the postfix string: each item and the space behind it.
bi == 2 * Len(bstr)

bstr_len == 2 * (Len(s) + 1)

----------------------------------------------------------------------------
(* main: mtob of the next string.                                           *)

Init ==
  /\ s \in Inputs
  /\ bstr = <<>>
  /\ pc = "mtob"
  /\ scand_index = 0
  /\ stack = Block(Len(s))
  /\ it = -1
  /\ heap = 2
  /\ result = 0
  /\ calls = 1

Call ==
  /\ pc = "returned"
  /\ calls < MaxCalls
  /\ s' \in Inputs
  /\ bstr' = <<>>
  /\ pc' = "mtob"
  /\ scand_index' = 0
  /\ stack' = Block(Len(s'))
  /\ heap' = heap + 2
  /\ calls' = calls + 1
  /\ UNCHANGED <<it, result>>

----------------------------------------------------------------------------
(* mtob                                                                     *)

tok == s[scand_index + 1]      \* the token that is read
cu  == s[scand_index].t        \* the operator whose loop runs: consumed

AtToken == pc = "mtob" /\ scand_index < Len(s)

Consume == scand_index' = scand_index + 1

Rest == <<s, heap, result, calls>>

\* An operator on an empty stack, whichever it is, or '('.
PushOp ==
  /\ AtToken
  /\ IsLegalOp(tok.t)
  /\ is_empty \/ tok.t = "("
  /\ stack_push(tok)
  /\ Consume
  /\ UNCHANGED <<bstr, pc, Rest>>

Enter ==
  /\ AtToken
  /\ IsLegalOp(tok.t)
  /\ ~is_empty /\ tok.t # "("
  /\ pc' = IF tok.t = ")" THEN "close" ELSE "reduce"
  /\ Consume
  /\ UNCHANGED <<bstr, stack, it, Rest>>

SkipSpace ==
  /\ AtToken
  /\ tok.t = "space"
  /\ Consume
  /\ UNCHANGED <<bstr, pc, stack, it, Rest>>

EmitNum ==
  /\ AtToken
  /\ tok.t = "num"
  /\ bstr' = Append(bstr, tok)
  /\ Consume
  /\ UNCHANGED <<pc, stack, it, Rest>>

\* stack_pop, and what was popped goes to the postfix string.
PopAndEmit ==
  /\ bstr' = Append(bstr, Read(it))
  /\ it' = it - 1

CloseStep ==
  /\ pc = "close"
  /\ Read(it).t # "("
  /\ PopAndEmit
  /\ UNCHANGED <<pc, scand_index, stack, Rest>>

\* The end of ')' that leaves its '(' where it is.
CloseEndKeep ==
  /\ pc = "close"
  /\ Read(it).t = "("
  /\ pc' = "mtob"
  /\ UNCHANGED <<bstr, it, scand_index, stack, Rest>>

CloseEnd ==
  /\ pc = "close"
  /\ Read(it).t = "("
  /\ it' = it - 1
  /\ pc' = "mtob"
  /\ UNCHANGED <<bstr, scand_index, stack, Rest>>

\* The test at the loop head and the break at its end.
MustReduce == ~is_empty /\ Prio(cu) <= Prio(Read(it).t)

ReduceStep ==
  /\ pc = "reduce"
  /\ MustReduce
  /\ PopAndEmit
  /\ UNCHANGED <<pc, scand_index, stack, Rest>>

ReduceEnd ==
  /\ pc = "reduce"
  /\ ~MustReduce
  /\ stack_push(s[scand_index])
  /\ pc' = "mtob"
  /\ UNCHANGED <<bstr, scand_index, Rest>>

DrainStep ==
  /\ pc = "mtob"
  /\ scand_index = Len(s)
  /\ ~is_empty
  /\ PopAndEmit
  /\ UNCHANGED <<pc, scand_index, stack, Rest>>

\* mtob frees its stack, cal_bstr allocates one for the postfix string.
ReturnPostfix ==
  /\ pc = "mtob"
  /\ scand_index = Len(s)
  /\ is_empty
  /\ stack' = Block(bi)
  /\ pc' = "cal_bstr"
  /\ scand_index' = 0
  /\ UNCHANGED <<s, bstr, it, heap, result, calls>>

----------------------------------------------------------------------------
(* cal_bstr.  The space behind each item is skipped together with it.       *)

item == bstr[scand_index + 1]

AtItem == pc = "cal_bstr" /\ scand_index < Len(bstr)

PushNum ==
  /\ AtItem
  /\ item.t = "num"
  /\ stack_push(item)
  /\ Consume
  /\ UNCHANGED <<bstr, pc, Rest>>

\* The result of an operation is not pushed.
ApplyNoPush ==
  /\ AtItem
  /\ IsLegalOp(item.t)
  /\ it' = it - 2
  /\ Consume
  /\ UNCHANGED <<bstr, pc, stack, Rest>>

\* Two pops, the operation and a push; a division by zero ends the process.
Apply ==
  /\ AtItem
  /\ IsLegalOp(item.t)
  /\ IF Traps(item.t, Read(it).v)
     THEN pc' = "trap" /\ UNCHANGED <<it, stack, scand_index>>
     ELSE /\ it' = it - 1
          /\ stack' = Write(it - 1, [t |-> "num",
                                     v |-> DoOneCal(item.t, Read(it).v, Read(it - 1).v)])
          /\ Consume
          /\ UNCHANGED pc
  /\ UNCHANGED <<bstr, Rest>>

\* The result is read and left on the stack.
ReturnTop ==
  /\ pc = "cal_bstr"
  /\ scand_index = Len(bstr)
  /\ result' = Read(it).v
  /\ stack' = Freed
  /\ heap' = heap - 2
  /\ pc' = "returned"
  /\ UNCHANGED <<s, bstr, scand_index, it, calls>>

\* The last pop; cal_bstr frees its stack and main the postfix string.
Return ==
  /\ pc = "cal_bstr"
  /\ scand_index = Len(bstr)
  /\ result' = Read(it).v
  /\ it' = it - 1
  /\ stack' = Freed
  /\ heap' = heap - 2
  /\ pc' = "returned"
  /\ UNCHANGED <<s, bstr, scand_index, calls>>

Terminated ==
  /\ pc = "trap" \/ (pc = "returned" /\ calls = MaxCalls)
  /\ UNCHANGED vars

Compute ==
  \/ PushOp \/ Enter \/ SkipSpace \/ EmitNum
  \/ CloseStep \/ CloseEnd \/ ReduceStep \/ ReduceEnd
  \/ DrainStep \/ ReturnPostfix
  \/ PushNum \/ Apply \/ Return

Next == Call \/ Compute \/ Terminated

\* A call that has begun goes on; main need not make another.
Fairness == WF_vars(Compute)
Spec == Init /\ [][Next]_vars /\ Fairness

----------------------------------------------------------------------------
\* The blocks suffice.  The index stays in the stack's, although the test of
\* stack_push would let it leave: the counting of mtob and cal_bstr keeps it
\* in.  stack_pop and stack[top] only see cells that were pushed before: ')'
\* has its '(' and an operator of the postfix string two operands.  And the
\* postfix string and its terminating 0 fit the buffer of mtob.
StaysInBlock ==
  /\ it \in -1..stack_len /\ bi < bstr_len
  /\ pc = "close" => it >= 0
  /\ AtItem /\ IsLegalOp(item.t) => it >= 1
  /\ pc = "cal_bstr" /\ scand_index = Len(bstr) => it = 0

\* No call starts on what an earlier one left: the global it, which nobody
\* resets, is -1 whenever one of the functions begins, and every block is
\* freed when a call returns, however often main calls.
CallsLeaveNothing ==
  /\ pc = "returned" => it = -1 /\ heap = 0
  /\ scand_index = 0 /\ pc \in {"mtob", "cal_bstr"} => it = -1
=============================================================================
