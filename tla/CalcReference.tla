---------------------------- MODULE CalcReference ----------------------------
(****************************************************************************)
(* What the value of an infix string is, by the grammar and without a       *)
(* stack, and the strings of bounded length that the grammar generates.     *)
(****************************************************************************)
EXTENDS Infix, SequencesExt

\* A value is <<n>>; there is none if something is divided by zero.
Undefined == <<0, 0>>

Combine(op, a, b) ==
  IF a = Undefined \/ b = Undefined THEN Undefined
  ELSE CASE op = "+" -> <<a[1] + b[1]>>
         [] op = "-" -> <<a[1] - b[1]>>
         [] op = "*" -> <<a[1] * b[1]>>
         [] op = "/" /\ b[1] # 0 -> <<TruncDiv(a[1], b[1])>>
         [] OTHER -> Undefined

\* The last operator of the set ops in s[i..j] and outside the parentheses of
\* s[i..j], 0 if there is none.
LastOutside(s, i, j, ops) ==
  LET at == {k \in i..j : s[k].t \in ops /\ Depth(s, k) = Depth(s, i - 1)}
  IN  IF at = {} THEN 0 ELSE Max(at)

\* Where s[i..j] is split: at its last + or - outside parentheses, or else at
\* its last * or /; 0 if it has neither.
SplitAt(s, i, j) ==
  LET low == LastOutside(s, i, j, {"+", "-"})
  IN  IF low # 0 THEN low ELSE LastOutside(s, i, j, {"*", "/"})

Text(s, i, j) == {k \in i..j : s[k].t # "space"}

\* The values of the parts str[i..j] of str, at <<i, j>>.  What is not split is
\* a number or stands in parentheses.
Values(str) ==
  LET V[w \in (1..Len(str) + 1) \X (0..Len(str))] ==
        LET i    == w[1]
            j    == w[2]
            at   == SplitAt(str, i, j)
            text == Text(str, i, j)
        IN  IF text = {} THEN Undefined
            ELSE IF at # 0 THEN Combine(str[at].t, V[<<i, at - 1>>], V[<<at + 1, j>>])
            ELSE IF str[Min(text)].t = "(" THEN V[<<Min(text) + 1, Max(text) - 1>>]
            ELSE <<str[Min(text)].v>>
  IN  V

Value(str) == Values(str)[<<1, Len(str)>>]

\* The expressions of exactly n tokens over the given numbers and operators,
\* for each n up to max.
Exprs(max, nums, ops) ==
  LET E[n \in 0..max] ==
        IF n = 0 THEN {}
        ELSE IF n = 1 THEN {<<Num(k)>> : k \in nums}
        ELSE {<<Char("(")>> \o e \o <<Char(")")>> : e \in E[n - 2]}
             \union UNION {{l \o <<Char(op)>> \o r : l \in E[k], r \in E[n - 1 - k], op \in ops} :
                             k \in 1..(n - 2)}
  IN  E

ExprsUpTo(max, nums, ops) == UNION {Exprs(max, nums, ops)[n] : n \in 1..max}

\* The expressions of up to max tokens and, up to spaced tokens, those with a
\* space in front, behind or inside.
Strings(max, spaced, nums, ops) ==
  ExprsUpTo(max, nums, ops)
  \union UNION {{InsertAt(e, i, Char("space")) : i \in 1..(Len(e) + 1)} :
                  e \in ExprsUpTo(spaced, nums, ops)}
=============================================================================
