---------------------------- MODULE MCCalculators ----------------------------
(* The two calculators, one in a behaviour.  Each gets shorter strings over   *)
(* more symbols, with a space anywhere in the shortest, and longer ones over  *)
(* fewer; the one that keeps a global stack is called with two of them.       *)
EXTENDS DoubleStackCalc, CalcReference

CONSTANTS
  Numbers, Operators, DeepNumbers, DeepOperators,
  MaxTokens, SpacedTokens, DeepTokens,                      \* for DoubleStackCalc
  PostfixTokens, PostfixSpacedTokens, PostfixDeepTokens,    \* for PostfixCalc
  MaxCalls

MCInputs == Strings(MaxTokens, SpacedTokens, Numbers, Operators)
              \union ExprsUpTo(DeepTokens, DeepNumbers, DeepOperators)
PostfixInputs == Strings(PostfixTokens, PostfixSpacedTokens, Numbers, Operators)
                   \union ExprsUpTo(PostfixDeepTokens, DeepNumbers, DeepOperators)

VARIABLES part, infix, bstr, postfix_pc, index, stack, it, heap, cal_result, calls
main == <<infix, bstr, postfix_pc, index, stack, it, heap, cal_result, calls>>

Postfix == INSTANCE PostfixCalc WITH
  Inputs <- PostfixInputs, s <- infix, pc <- postfix_pc, scand_index <- index,
  result <- cal_result

ASSUME CalculatorsAssumption == Postfix!PostfixAssumption

\* At rest, when calls have returned.
DoubleStackAtRest ==
  s = <<>> /\ pc = "done" /\ scand_index = 0 /\ opst = <<>> /\ npst = <<>> /\ result = 0
PostfixAtRest ==
  /\ infix = <<>> /\ bstr = <<>> /\ postfix_pc = "returned" /\ index = 0
  /\ stack = <<>> /\ it = -1 /\ heap = 0 /\ cal_result = 0 /\ calls = MaxCalls

CalculatorsInit ==
  \/ part = "double_stack_224" /\ Init /\ PostfixAtRest
  \/ part = "224" /\ Postfix!Init /\ DoubleStackAtRest

CalculatorsNext ==
  /\ UNCHANGED part
  /\ \/ part = "double_stack_224" /\ Next /\ UNCHANGED main
     \/ part = "224" /\ Postfix!Next /\ UNCHANGED vars

CalculatorsSpec ==
  /\ CalculatorsInit /\ [][CalculatorsNext]_<<part, vars, main>>
  /\ Fairness /\ Postfix!Fairness
-----------------------------------------------------------------------------
\* What both promise.  An answer appears when calculate() or cal_bstr()
\* returns or traps.
Promised == INSTANCE Calculator WITH
  arg <- IF part = "224" THEN infix ELSE s,
  answer <- IF part = "224"
            THEN CASE postfix_pc = "returned" -> <<cal_result>>
                   [] postfix_pc = "trap"     -> Undefined
                   [] OTHER                   -> <<>>
            ELSE CASE pc = "done" -> <<result>>
                   [] pc = "trap" -> Undefined
                   [] OTHER       -> <<>>

\* Each call ends - none of the loops runs forever - with the value that the
\* grammar gives its own argument (* and / before + and -, equal priorities
\* from the left, division toward zero), or dies of SIGFPE if it has none.
ImplementsCalculator == Promised!Spec

StaysInBlock == Postfix!StaysInBlock
CallsLeaveNothing == Postfix!CallsLeaveNothing
=============================================================================
