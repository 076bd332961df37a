-------------------------------- MODULE Infix --------------------------------
(****************************************************************************)
(* Tokens of the arithmetic strings that the calculators of                 *)
(* source/src/leetcode read, the character tests and the arithmetic that    *)
(* 224.c and double_stack_224.c share, and the grammar of the strings they  *)
(* are written for.                                                         *)
(*                                                                          *)
(* One token stands for what one sscanf of the scan loop consumes: a        *)
(* number ("%d%n"), or one character ("%c%n").  Numbers are one digit wide, *)
(* the widest a token can be for the length it takes up in a buffer: a      *)
(* longer number only makes the string, hence every buffer, longer.         *)
(****************************************************************************)
EXTENDS Integers, Sequences, FiniteSets

BinaryOps == {"+", "-", "*", "/"}
Kinds     == BinaryOps \union {"(", ")", "space", "num"}

\* The kind of a token and, for a number, its value: a sign is a token of its
\* own, for the operator test comes before the number test.
Token == [t : Kinds, v : Nat]

Num(n)  == [t |-> "num", v |-> n]
Char(c) == [t |-> c, v |-> 0]

----------------------------------------------------------------------------
(* The character tests and the arithmetic.                                  *)

IsLegalOp(c) == c \in BinaryOps \union {"(", ")"}

\* Priorities without a higher class for * and /.
PrioFlat(c) == IF c = "(" THEN 0 ELSE 1

\* The C function leaves its local uninitialised for any other character; an
\* infix expression never puts another one on a stack (TypeOK).
Prio(c) == IF c \in {"*", "/"} THEN 2 ELSE IF c \in {"+", "-"} THEN 1 ELSE 0

Abs(n) == IF n < 0 THEN -n ELSE n

\* C's integer division truncates toward zero, \div rounds down.
TruncDiv(a, b) ==
  LET q == Abs(a) \div Abs(b)
  IN  IF (a < 0) = (b < 0) THEN q ELSE -q

\* Operands in the order in which they leave the stack.
DoOneCalSwapped(op, a1, a2) ==
  CASE op = "+" -> a1 + a2
    [] op = "-" -> a1 - a2
    [] op = "*" -> a1 * a2
    [] op = "/" /\ a1 # 0 -> TruncDiv(a2, a1)
    [] OTHER -> 0

\* a1 was pushed last: it is the right operand.
DoOneCal(op, a1, a2) ==
  CASE op = "+" -> a1 + a2
    [] op = "-" -> a2 - a1
    [] op = "*" -> a1 * a2
    [] op = "/" /\ a1 # 0 -> TruncDiv(a2, a1)
    [] OTHER -> 0

\* The one operation the processor refuses (SIGFPE).
Traps(op, a1) == op = "/" /\ a1 = 0

----------------------------------------------------------------------------
(* The strings the calculators are written for.                             *)

\* The last token of s[1..i] that is no space ends an operand.
OperandEnds(s, i) ==
  \E j \in 1..i : /\ s[j].t \in {"num", ")"}
                  /\ \A k \in (j + 1)..i : s[k].t = "space"

\* How many operands have ended and wait for their operator: 0 or 1.
Ended(s, i) == IF OperandEnds(s, i) THEN 1 ELSE 0

Count(s, i, c) == Cardinality({j \in 1..i : s[j].t = c})
Depth(s, i)    == Count(s, i, "(") - Count(s, i, ")")

\* An infix expression: operands and binary operators alternate and the
\* parentheses match.
WellFormed(s) ==
  /\ s \in Seq(Token)
  /\ \A i \in 1..Len(s) : /\ s[i].t \in {"num", "("} => ~OperandEnds(s, i - 1)
                          /\ s[i].t \in BinaryOps \union {")"}
                               => OperandEnds(s, i - 1)
                          /\ Depth(s, i) >= 0
  /\ OperandEnds(s, Len(s))
  /\ Depth(s, Len(s)) = 0
=============================================================================
