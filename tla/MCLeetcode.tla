------------------------------ MODULE MCLeetcode ------------------------------
(* The leetcode exercises: a run of ReverseKGroup, or the call of one of the  *)
(* other functions; they share nothing, so that one is enough in a behaviour. *)
(*                                                                            *)
(* Strings of up to six characters, blanks, two letters and the last          *)
(* character the pool of frequencySort has room for, and shorter ones with a  *)
(* %; texts of up to five, of digits, a sign, another operator and blanks;    *)
(* sorted arrays of up to two numbers, and k from none to more than there are *)
(* pairs.                                                                     *)
EXTENDS ReverseKGroup, Exercises

VARIABLES part   \* "reverse" or "call"

UpTo(m, S) == UNION {[1 .. l -> S] : l \in 0 .. m}

MCStrings == UpTo(6, {32, 97, 98, 126}) \cup UpTo(4, {32, 37, 97})
MCTexts == UpTo(5, {32, 48, 51, 45, 42})
MCArrays == {a \in UpTo(2, -3 .. 3) : Len(a) = 2 => a[1] <= a[2]}

LeetcodeInit ==
  \/ part = "reverse" /\ Init /\ call = "none" /\ returned = {}
  \/ part = "call" /\ Called /\ Init

LeetcodeNext ==
  /\ UNCHANGED part
  /\ \/ part = "reverse" /\ Next /\ UNCHANGED calling
     \/ part = "call" /\ Returns /\ UNCHANGED vars

LeetcodeSpec ==
  /\ LeetcodeInit /\ [][LeetcodeNext]_<<part, vars, calling>>
  /\ Fairness
=============================================================================
