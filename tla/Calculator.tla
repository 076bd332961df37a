------------------------------ MODULE Calculator ------------------------------
(****************************************************************************)
(* What the calculators of source/src/leetcode promise: each call of        *)
(* calculate() ends, with the value of its argument, or with SIGFPE if and  *)
(* only if the argument divides by zero; and the argument of one call has   *)
(* no influence on the answer of the next.                                  *)
(****************************************************************************)
EXTENDS CalcReference

VARIABLES arg, answer

NoAnswer == <<>>

Init == answer = NoAnswer

Answer == /\ answer = NoAnswer
          /\ answer' # NoAnswer
          /\ answer' = Value(arg)
          /\ UNCHANGED arg

\* The next call, with an argument that is the caller's to choose.
Call == answer \notin {NoAnswer, Undefined} /\ answer' = NoAnswer

\* No call is left without an answer.
Answered == answer = NoAnswer ~> answer # NoAnswer

Next == Answer \/ Call

\* Nothing but the right answer.
Safety == Init /\ [][Next]_<<arg, answer>>

Spec == Safety /\ Answered
=============================================================================
