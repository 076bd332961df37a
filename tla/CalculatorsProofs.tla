------------------------- MODULE CalculatorsProofs -------------------------
(****************************************************************************)
(* The two calculators, for every set of infix expressions and any number   *)
(* of calls.  First their stacks: double_stack_224.c, then 224.c with its   *)
(* postfix string; the two share the lemmas on strings and on stacks of     *)
(* operators.  Then their answers, which are the values that the grammar    *)
(* gives: how the value of a text follows from those of its parts, how the  *)
(* operators on a stack cut the text that is read into such parts, and what *)
(* the operand stack of the one and the postfix string of the other hold of *)
(* the values of those parts.  Last, that both implement Calculator.        *)
(****************************************************************************)
EXTENDS MCCalculators, FiniteSetTheorems, SequenceTheorems, WellFoundedInduction, TLAPS

----------------------------------------------------------------------------
(* Counting along a sequence.                                               *)

\* One more position adds one to the number of positions with property c.
LEMMA CountStep ==
  ASSUME NEW str \in Seq(Token), NEW i \in 1..Len(str), NEW c
  PROVE  /\ Count(str, i - 1, c) \in Nat
         /\ Count(str, i, c) = Count(str, i - 1, c) + (IF str[i].t = c THEN 1 ELSE 0)
<1> DEFINE A == {j \in 1..(i - 1) : str[j].t = c}
           B == {j \in 1..i : str[j].t = c}
<1>1. IsFiniteSet(A) /\ Cardinality(A) \in Nat
  <2>1. IsFiniteSet(1..(i - 1))
    BY FS_Interval
  <2>2. A \subseteq 1..(i - 1)
    OBVIOUS
  <2> QED
    BY <2>1, <2>2, FS_Subset, FS_CardinalityType
<1>2. CASE str[i].t = c
  <2>1. B = A \union {i} /\ i \notin A
    BY <1>2
  <2>2. Cardinality(B) = Cardinality(A) + 1
    BY <1>1, <2>1, FS_AddElement
  <2> QED
    BY <1>1, <1>2, <2>2 DEF Count
<1>3. CASE str[i].t # c
  <2>1. B = A
    BY <1>3
  <2>2. Cardinality(B) = Cardinality(A)
    BY <2>1
  <2> QED
    BY <1>1, <1>3, <2>2 DEF Count
<1> QED
  BY <1>2, <1>3

\* Before the first position there is nothing to count.
LEMMA CountZero ==
  ASSUME NEW str, NEW c
  PROVE  Count(str, 0, c) = 0
<1>1. {j \in 1..0 : str[j].t = c} = {}
  OBVIOUS
<1> QED
  BY <1>1, FS_EmptySet DEF Count

\* A count is a number.
LEMMA CountType ==
  ASSUME NEW str \in Seq(Token), NEW i \in 0..Len(str), NEW c
  PROVE  Count(str, i, c) \in Nat
<1>1. CASE i = 0
  BY <1>1, CountZero
<1>2. CASE i # 0
  BY <1>2, CountStep
<1> QED
  BY <1>1, <1>2

\* The nesting depth changes at parentheses only.
LEMMA DepthStep ==
  ASSUME NEW str \in Seq(Token), NEW i \in 1..Len(str)
  PROVE  /\ Depth(str, i - 1) \in Int
         /\ Depth(str, i) = Depth(str, i - 1) + (IF str[i].t = "(" THEN 1
                                                 ELSE IF str[i].t = ")" THEN -1
                                                 ELSE 0)
  BY CountStep DEF Depth

\* An operand ends at a number or ')', and goes on ending through spaces.
LEMMA OperandEndsStep ==
  ASSUME NEW str \in Seq(Token), NEW i \in 1..Len(str)
  PROVE  OperandEnds(str, i) <=> \/ str[i].t \in {"num", ")"}
                                 \/ str[i].t = "space" /\ OperandEnds(str, i - 1)
<1>1. ASSUME str[i].t \in {"num", ")"} PROVE OperandEnds(str, i)
  <2>1. i \in 1..i /\ \A k \in (i + 1)..i : FALSE
    OBVIOUS
  <2> QED
    BY <1>1, <2>1 DEF OperandEnds
<1>2. ASSUME str[i].t = "space", OperandEnds(str, i - 1) PROVE OperandEnds(str, i)
  <2>1. PICK j \in 1..(i - 1) : /\ str[j].t \in {"num", ")"}
                                /\ \A k \in (j + 1)..(i - 1) : str[k].t = "space"
    BY <1>2 DEF OperandEnds
  <2>2. \A k \in (j + 1)..i : k = i \/ k \in (j + 1)..(i - 1)
    OBVIOUS
  <2>3. j \in 1..i
    OBVIOUS
  <2> QED
    BY <1>2, <2>1, <2>2, <2>3 DEF OperandEnds
<1>3. ASSUME OperandEnds(str, i), str[i].t \notin {"num", ")"}
      PROVE  str[i].t = "space" /\ OperandEnds(str, i - 1)
  <2>1. PICK j \in 1..i : /\ str[j].t \in {"num", ")"}
                          /\ \A k \in (j + 1)..i : str[k].t = "space"
    BY <1>3 DEF OperandEnds
  <2>2. j # i
    BY <1>3, <2>1
  <2>3. j \in 1..(i - 1) /\ i \in (j + 1)..i
    BY <2>2
  <2>4. \A k \in (j + 1)..(i - 1) : k \in (j + 1)..i
    OBVIOUS
  <2> QED
    BY <2>1, <2>3, <2>4 DEF OperandEnds
<1> QED
  BY <1>1, <1>2, <1>3

----------------------------------------------------------------------------
(* The stacks.                                                              *)

Ops == BinaryOps \union {"("}

\* An empty stack holds no operator and no parenthesis.
LEMMA EmptyStack == NumOps(<<>>) = 0 /\ NumParens(<<>>) = 0
<1>1. {i \in 1..Len(<<>>) : <<>>[i] # "("} = {}
  OBVIOUS
<1>2. {i \in 1..Len(<<>>) : <<>>[i] = "("} = {}
  OBVIOUS
<1> QED
  BY <1>1, <1>2, FS_EmptySet DEF NumOps, NumParens

\* What a stack holds is counted by its two kinds.
LEMMA StackType ==
  ASSUME NEW st \in Seq(Ops)
  PROVE  NumOps(st) \in Nat /\ NumParens(st) \in Nat
<1>1. IsFiniteSet(1..Len(st))
  BY FS_Interval
<1>2. IsFiniteSet({i \in 1..Len(st) : st[i] # "("})
  BY <1>1, FS_Subset
<1>3. IsFiniteSet({i \in 1..Len(st) : st[i] = "("})
  BY <1>1, FS_Subset
<1> QED
  BY <1>2, <1>3, FS_CardinalityType DEF NumOps, NumParens

\* What is pushed is one more of its kind.
LEMMA StackAppend ==
  ASSUME NEW st \in Seq(Ops), NEW e \in Ops
  PROVE  /\ NumOps(Append(st, e)) = NumOps(st) + (IF e = "(" THEN 0 ELSE 1)
         /\ NumParens(Append(st, e)) = NumParens(st) + (IF e = "(" THEN 1 ELSE 0)
<1> DEFINE n  == Len(st)
           up == Append(st, e)
           A  == {i \in 1..n : st[i] # "("}
           B  == {i \in 1..n : st[i] = "("}
           A1x == {i \in 1..(n + 1) : up[i] # "("}
           B1x == {i \in 1..(n + 1) : up[i] = "("}
<1>1. Len(up) = n + 1 /\ up[n + 1] = e /\ \A i \in 1..n : up[i] = st[i]
  OBVIOUS
<1>2. n \in Nat /\ IsFiniteSet(1..n)
  BY FS_Interval
<1>3. IsFiniteSet(A) /\ IsFiniteSet(B) /\ n + 1 \notin A /\ n + 1 \notin B
  BY <1>2, FS_Subset
<1>a. /\ NumOps(st) = Cardinality(A) /\ NumOps(up) = Cardinality(A1x)
      /\ NumParens(st) = Cardinality(B) /\ NumParens(up) = Cardinality(B1x)
  BY <1>1 DEF NumOps, NumParens
<1>b. NumOps(st) \in Nat /\ NumParens(st) \in Nat
  BY StackType
<1>4. CASE e = "("
  <2>1. A1x = A /\ B1x = B \union {n + 1}
    BY <1>1, <1>2, <1>4
  <2> HIDE DEF A, B, A1x, B1x
  <2>2. Cardinality(B1x) = Cardinality(B) + 1 /\ Cardinality(A1x) = Cardinality(A)
    BY <1>3, <2>1, FS_AddElement
  <2> QED
    BY <1>a, <1>b, <1>4, <2>2
<1>5. CASE e # "("
  <2>1. B1x = B /\ A1x = A \union {n + 1}
    BY <1>1, <1>2, <1>5
  <2> HIDE DEF A, B, A1x, B1x
  <2>2. Cardinality(A1x) = Cardinality(A) + 1 /\ Cardinality(B1x) = Cardinality(B)
    BY <1>3, <2>1, FS_AddElement
  <2> QED
    BY <1>a, <1>b, <1>5, <2>2
<1> QED
  BY <1>4, <1>5

\* A stack is what is below its top, and its top.
LEMMA PopTop ==
  ASSUME NEW S, NEW st \in Seq(S), NEW none
  PROVE  /\ st = <<>> => Pop(st) = st /\ Top(st, none) = none
         /\ st # <<>> => /\ Pop(st) \in Seq(S)
                         /\ Len(st) \in Nat \ {0}
                         /\ Len(Pop(st)) = Len(st) - 1
                         /\ \A i \in 1..(Len(st) - 1) : Pop(st)[i] = st[i]
                         /\ Top(st, none) = st[Len(st)]
                         /\ Top(st, none) \in S
<1>1. st = <<>> => Pop(st) = st /\ Top(st, none) = none
  BY DEF Pop, Top
<1>2. ASSUME st # <<>>
      PROVE  /\ Pop(st) \in Seq(S)
             /\ Len(st) \in Nat \ {0}
             /\ Len(Pop(st)) = Len(st) - 1
             /\ \A i \in 1..(Len(st) - 1) : Pop(st)[i] = st[i]
             /\ Top(st, none) = st[Len(st)]
             /\ Top(st, none) \in S
  <2> DEFINE n == Len(st) - 1
  <2>1. Len(st) \in Nat \ {0}
    BY <1>2, EmptySeq
  <2>2. st[Len(st)] \in S /\ \A i \in 1..n : st[i] \in S
    BY <2>1
  <2>3. n \in Nat
    BY <2>1
  <2>4. /\ SubSeq(st, 1, n) \in Seq(S)
        /\ Len(SubSeq(st, 1, n)) = n
        /\ \A i \in 1..n : SubSeq(st, 1, n)[i] = st[i]
    <3> HIDE DEF n
    <3>1. /\ SubSeq(st, 1, n) \in Seq(S)
          /\ Len(SubSeq(st, 1, n)) = IF 1 <= n THEN n - 1 + 1 ELSE 0
          /\ \A i \in 1..(n - 1 + 1) : SubSeq(st, 1, n)[i] = st[1 + i - 1]
      BY <2>2, <2>3, SubSeqProperties
    <3> QED
      BY <2>3, <3>1
  <2>5. Pop(st) = SubSeq(st, 1, n) /\ Top(st, none) = st[Len(st)]
    BY <1>2 DEF Pop, Top
  <2> QED
    BY <2>1, <2>2, <2>4, <2>5
<1> QED
  BY <1>1, <1>2

\* What is popped is one less of its kind.
LEMMA CountPop ==
  ASSUME NEW st \in Seq(Ops), st # <<>>
  PROVE  /\ NumOps(st) = NumOps(Pop(st)) + (IF Top(st, Nothing) = "(" THEN 0 ELSE 1)
         /\ NumParens(st) = NumParens(Pop(st)) + (IF Top(st, Nothing) = "(" THEN 1 ELSE 0)
<1>1. /\ Pop(st) \in Seq(Ops) /\ Len(st) \in Nat \ {0} /\ Len(Pop(st)) = Len(st) - 1
      /\ \A i \in 1..(Len(st) - 1) : Pop(st)[i] = st[i]
      /\ Top(st, Nothing) = st[Len(st)] /\ Top(st, Nothing) \in Ops
  BY PopTop
<1>2. st = Append(Pop(st), Top(st, Nothing))
  <2>1. Len(Append(Pop(st), Top(st, Nothing))) = Len(st)
    BY <1>1
  <2>2. \A i \in 1..Len(st) : Append(Pop(st), Top(st, Nothing))[i] = st[i]
    BY <1>1
  <2> QED
    BY <1>1, <2>1, <2>2, SeqEqual, AppendProperties
<1> QED
  BY <1>1, <1>2, StackAppend

----------------------------------------------------------------------------
(* The strings.                                                             *)

\* What the grammar says of the token behind position i.
TokenFacts(str, i) ==
  LET c == str[i + 1].t
  IN  /\ str[i + 1] \in Token
      /\ Ended(str, i) \in {0, 1}
      /\ c \in {"num", "("} => Ended(str, i) = 0
      /\ c \in BinaryOps \union {")"} => Ended(str, i) = 1
      /\ Ended(str, i + 1) = IF c \in {"num", ")"} THEN 1
                             ELSE IF c = "space" THEN Ended(str, i) ELSE 0
      /\ Depth(str, i) \in Int
      /\ Depth(str, i + 1) = Depth(str, i) + (IF c = "(" THEN 1
                                              ELSE IF c = ")" THEN -1 ELSE 0)
      /\ c = ")" => Depth(str, i) # 0

\* WellFormed gives these facts at every position.
LEMMA NextToken ==
  ASSUME NEW str, WellFormed(str), NEW i \in 0..(Len(str) - 1)
  PROVE  TokenFacts(str, i)
<1> DEFINE c == str[i + 1].t
<1>1. str \in Seq(Token) /\ i + 1 \in 1..Len(str) /\ (i + 1) - 1 = i
  BY DEF WellFormed
<1>2. /\ str[i + 1] \in Token
      /\ c \in {"num", "("} => ~OperandEnds(str, i)
      /\ c \in BinaryOps \union {")"} => OperandEnds(str, i)
      /\ Depth(str, i + 1) >= 0
  BY <1>1 DEF WellFormed
<1>3. Ended(str, i + 1) = IF c \in {"num", ")"} THEN 1
                          ELSE IF c = "space" THEN Ended(str, i) ELSE 0
  <2>1. OperandEnds(str, i + 1) <=> \/ c \in {"num", ")"}
                                    \/ c = "space" /\ OperandEnds(str, (i + 1) - 1)
    BY <1>1, OperandEndsStep
  <2>2. OperandEnds(str, i + 1) <=> \/ c \in {"num", ")"}
                                    \/ c = "space" /\ OperandEnds(str, i)
    BY <1>1, <2>1, Zenon
  <2> QED
    BY <2>2 DEF Ended
<1>4. /\ Ended(str, i) \in {0, 1}
      /\ c \in {"num", "("} => Ended(str, i) = 0
      /\ c \in BinaryOps \union {")"} => Ended(str, i) = 1
  BY <1>2 DEF Ended
<1>5. /\ Depth(str, i) \in Int
      /\ Depth(str, i + 1) = Depth(str, i) + (IF c = "(" THEN 1
                                              ELSE IF c = ")" THEN -1 ELSE 0)
  BY <1>1, DepthStep
<1>6. c = ")" => Depth(str, i) # 0
  BY <1>2, <1>5
<1> QED
  BY <1>2, <1>3, <1>4, <1>5, <1>6 DEF TokenFacts

\* The arithmetic stays in the integers.
LEMMA DoOneCalType ==
  ASSUME NEW op, NEW a1 \in Int, NEW a2 \in Int
  PROVE  DoOneCal(op, a1, a2) \in Int
<1>1. ASSUME a1 # 0 PROVE TruncDiv(a2, a1) \in Int
  <2>1. Abs(a1) \in Nat /\ Abs(a1) > 0 /\ Abs(a2) \in Int
    BY <1>1 DEF Abs
  <2>2. Abs(a2) \div Abs(a1) \in Int
    BY <2>1
  <2> QED
    BY <2>2 DEF TruncDiv
<1> QED
  BY <1>1 DEF DoOneCal

----------------------------------------------------------------------------
(* The inductive invariant.  It adds to the invariants that TLC checks what *)
(* each loop knows of the token that it works for: without it, nothing says *)
(* that the loops of ')' and of an operator find an operand that has ended, *)
(* and that the last loop finds no parenthesis.                             *)

LoopContext ==
  /\ pc = "close" => scand_index < Len(s) /\ cu = ")"
  /\ pc = "reduce" => scand_index < Len(s) /\ cu \in BinaryOps
  /\ pc = "drain" => scand_index = Len(s)

IInv == /\ TypeOK /\ LoopContext
        /\ OperandsBalance /\ NothingLeft /\ NeverDropped
        /\ ParensMatch /\ PrioritiesAscend

\* calculate() starts with both stacks empty.
LEMMA InitIInv == Init => IInv
<1> SUFFICES ASSUME Init PROVE IInv
  OBVIOUS
<1>1. WellFormed(s) /\ s \in Seq(Token) /\ Len(s) \in Nat
  BY InputsAssumption DEF Init, WellFormed
<1>2. TypeOK
  BY <1>1 DEF Init, TypeOK
<1>3. LoopContext /\ NothingLeft /\ NeverDropped /\ PrioritiesAscend
  BY DEF Init, LoopContext, NothingLeft, NeverDropped, PrioritiesAscend
<1>4. ~OperandEnds(s, 0)
  BY DEF OperandEnds
<1>5. Depth(s, 0) = 0
  BY CountZero DEF Depth
<1>6. OperandsBalance /\ ParensMatch
  BY <1>4, <1>5, EmptyStack DEF Init, OperandsBalance, ParensMatch, Ended
<1> QED
  BY <1>2, <1>3, <1>6 DEF IInv

\* Facts that every step starts from.
LEMMA Context ==
  ASSUME IInv
  PROVE  /\ s \in Seq(Token) /\ Len(s) \in Nat /\ WellFormed(s)
         /\ scand_index \in Nat /\ scand_index <= Len(s)
         /\ opst \in Seq(Ops) /\ npst \in Seq(Int)
         /\ Len(opst) \in Nat /\ Len(npst) \in Nat
         /\ NumOps(opst) \in Nat /\ NumParens(opst) \in Nat
         /\ (opst = <<>>) <=> (Len(opst) = 0)
<1>1. /\ s \in Seq(Token) /\ WellFormed(s) /\ scand_index \in 0..Len(s)
      /\ opst \in Seq(Ops) /\ npst \in Seq(Int)
  BY DEF IInv, TypeOK, WellFormed, Ops
<1> QED
  BY <1>1, StackType, EmptySeq

\* pop_and_cal: one operator and one number less, and both stacks as sound as
\* they were.
LEMMA PopAndCalKeeps ==
  ASSUME IInv, NEW next,
         pc \in {"close", "reduce", "drain"},
         opst # <<>>, Top(opst, Nothing) # "(",
         Len(npst) = NumOps(opst) + 1,
         PopAndCal(next),
         pc' # "trap",
         UNCHANGED <<s, scand_index>>
  PROVE  /\ pc' = next
         /\ opst' \in Seq(Ops) /\ npst' \in Seq(Int)
         /\ Len(npst') = NumOps(opst') + 1
         /\ NumParens(opst') = NumParens(opst)
         /\ NeverDropped' /\ PrioritiesAscend'
<1>1. ~Traps(Top(opst, Nothing), A1)
  BY DEF PopAndCal
<1>2. /\ pc' = next
      /\ opst' = Pop(opst)
      /\ npst' = Push(Pop(Pop(npst)), DoOneCal(Top(opst, Nothing), A1, A2))
  BY <1>1 DEF PopAndCal
<1>3. /\ opst' \in Seq(Ops) /\ Len(opst') = Len(opst) - 1
      /\ \A i \in 1..(Len(opst) - 1) : opst'[i] = opst[i]
  BY <1>2, PopTop, Context
<1>4. /\ NumOps(opst) = NumOps(opst') + 1 /\ NumParens(opst) = NumParens(opst')
      /\ NumOps(opst') \in Nat /\ NumParens(opst') \in Nat
  BY <1>2, <1>3, CountPop, Context, StackType
<1>5. npst # <<>> /\ A1 \in Int /\ Pop(npst) \in Seq(Int) /\ Len(Pop(npst)) = Len(npst) - 1
  <2>1. npst # <<>>
    <3>1. Len(npst) # 0
      BY <1>4
    <3> QED
      BY <3>1
  <2> QED
    BY <2>1, PopTop, Context DEF A1
<1>6. /\ Pop(npst) # <<>> /\ A2 \in Int
      /\ Pop(Pop(npst)) \in Seq(Int) /\ Len(Pop(Pop(npst))) = Len(npst) - 2
  <2>1. Pop(npst) # <<>>
    <3>1. Len(npst) \in Nat
      BY Context
    <3>2. Len(Pop(npst)) # 0
      BY <1>4, <1>5, <3>1
    <3> QED
      BY <3>2
  <2>2. /\ Pop(Pop(npst)) \in Seq(Int)
        /\ Len(Pop(Pop(npst))) = Len(Pop(npst)) - 1
        /\ Top(Pop(npst), 0) \in Int
    BY <1>5, <2>1, PopTop
  <2>3. Len(npst) \in Nat
    BY Context
  <2>4. (Len(npst) - 1) - 1 = Len(npst) - 2
    BY <2>3
  <2> QED
    BY <1>5, <2>1, <2>2, <2>4 DEF A2
<1>7. DoOneCal(Top(opst, Nothing), A1, A2) \in Int
  BY <1>5, <1>6, DoOneCalType
<1>8. npst' \in Seq(Int) /\ Len(npst') = Len(npst) - 1
  <2>1. Len(npst) <= Len(s)
    BY Context DEF IInv, NeverDropped
  <2>2. ~IsFull(Pop(Pop(npst)))
    BY <1>6, <2>1, Context DEF IsFull, max_size
  <2>3. npst' = Append(Pop(Pop(npst)), DoOneCal(Top(opst, Nothing), A1, A2))
    BY <1>2, <2>2 DEF Push
  <2> QED
    BY <1>6, <1>7, <2>3, Context
<1>9. NeverDropped'
  BY <1>3, <1>8, Context DEF IInv, NeverDropped
<1>10. PrioritiesAscend'
  <2> SUFFICES ASSUME NEW i \in 1..(Len(opst') - 1), opst'[i + 1] # "("
               PROVE  Prio(opst'[i]) < Prio(opst'[i + 1])
    BY DEF PrioritiesAscend
  <2>1. i \in 1..(Len(opst) - 1) /\ i + 1 \in 1..(Len(opst) - 1)
    BY <1>3, Context
  <2>2. opst'[i] = opst[i] /\ opst'[i + 1] = opst[i + 1]
    BY <1>3, <2>1
  <2> QED
    BY <2>1, <2>2 DEF IInv, PrioritiesAscend
<1> QED
  BY <1>2, <1>3, <1>4, <1>8, <1>9, <1>10

\* An operator or '(' is pushed, never dropped, and binds tighter than the
\* operator below it.
LEMMA PushOpKeeps ==
  ASSUME IInv, NEW e \in Ops, scand_index < Len(s),
         opst' = Push(opst, e),
         \/ opst = <<>> \/ e = "("
         \/ Prio(Top(opst, Nothing)) < Prio(e)
  PROVE  /\ opst' \in Seq(Ops) /\ Len(opst') = Len(opst) + 1
         /\ NumOps(opst') = NumOps(opst) + (IF e = "(" THEN 0 ELSE 1)
         /\ NumParens(opst') = NumParens(opst) + (IF e = "(" THEN 1 ELSE 0)
         /\ PrioritiesAscend'
<1>1. opst' = Append(opst, e)
  <2>1. Len(opst) < Len(s)
    BY Context DEF IInv, NeverDropped
  <2> QED
    BY <2>1, Context DEF Push, IsFull, max_size
<1>2. /\ opst' \in Seq(Ops) /\ Len(opst') = Len(opst) + 1
      /\ opst'[Len(opst) + 1] = e
      /\ \A i \in 1..Len(opst) : opst'[i] = opst[i]
  BY <1>1, Context
<1>3. /\ NumOps(opst') = NumOps(opst) + (IF e = "(" THEN 0 ELSE 1)
      /\ NumParens(opst') = NumParens(opst) + (IF e = "(" THEN 1 ELSE 0)
  BY <1>1, StackAppend, Context
<1>4. PrioritiesAscend'
  <2> SUFFICES ASSUME NEW i \in 1..(Len(opst') - 1), opst'[i + 1] # "("
               PROVE  Prio(opst'[i]) < Prio(opst'[i + 1])
    BY DEF PrioritiesAscend
  <2>1. i \in 1..Len(opst) /\ opst'[i] = opst[i]
    BY <1>2, Context
  <2>2. CASE i = Len(opst)
    <3>1. opst # <<>> /\ opst'[i + 1] = e
      BY <1>2, <2>1, <2>2, Context
    <3>2. Top(opst, Nothing) = opst'[i]
      BY <2>1, <2>2, <3>1 DEF Top
    <3> QED
      BY <3>1, <3>2
  <2>3. CASE i # Len(opst)
    <3>1. i \in 1..(Len(opst) - 1) /\ i + 1 \in 1..Len(opst)
      BY <2>1, <2>3, Context
    <3>2. opst'[i + 1] = opst[i + 1]
      BY <1>2, <3>1
    <3> QED
      BY <2>1, <3>1, <3>2 DEF IInv, PrioritiesAscend
  <2> QED
    BY <2>2, <2>3
<1> QED
  BY <1>2, <1>3, <1>4

----------------------------------------------------------------------------
(* Every action preserves the invariant.                                    *)

\* An operator on an empty stack, or a '(', is pushed as it is.
LEMMA PushOpInv == IInv /\ PushOp => IInv'
<1> SUFFICES ASSUME IInv, PushOp PROVE IInv'
  OBVIOUS
<1>1. /\ pc = "scan" /\ pc' = "scan" /\ s' = s /\ npst' = npst /\ result' = result
      /\ scand_index < Len(s) /\ scand_index' = scand_index + 1
      /\ opst' = Push(opst, cu) /\ IsLegalOp(cu)
      /\ opst = <<>> \/ cu = "("
  BY DEF PushOp, AtToken, Consume
<1>2. TokenFacts(s, scand_index)
  BY <1>1, NextToken, Context
<1>3. cu \in Ops
  <2>1. CASE opst = <<>>
    <3>1. Depth(s, scand_index) = 0
      BY <1>1, <2>1, EmptyStack DEF IInv, ParensMatch
    <3>2. cu # ")"
      BY <1>2, <3>1 DEF TokenFacts, cu
    <3> QED
      BY <1>1, <3>2 DEF IsLegalOp, Ops
  <2> QED
    BY <1>1, <2>1 DEF Ops
<1>4. /\ opst' \in Seq(Ops) /\ Len(opst') = Len(opst) + 1
      /\ NumOps(opst') = NumOps(opst) + (IF cu = "(" THEN 0 ELSE 1)
      /\ NumParens(opst') = NumParens(opst) + (IF cu = "(" THEN 1 ELSE 0)
      /\ PrioritiesAscend'
  <2> HIDE DEF cu
  <2> QED
    BY <1>1, <1>3, PushOpKeeps
<1>5. TypeOK'
  BY <1>1, <1>4, Context DEF IInv, TypeOK, Ops
<1>6. OperandsBalance'
  <2>1. Ended(s, scand_index) = IF cu = "(" THEN 0 ELSE 1
    BY <1>2, <1>3 DEF TokenFacts, cu, Ops
  <2>2. Ended(s', scand_index') = 0
    BY <1>1, <1>2, <1>3 DEF TokenFacts, cu, Ops, BinaryOps
  <2>3. Len(npst) = NumOps(opst) + Ended(s, scand_index)
    BY <1>1 DEF IInv, OperandsBalance
  <2> QED
    BY <1>1, <1>4, <2>1, <2>2, <2>3, Context DEF OperandsBalance
<1>7. ParensMatch'
  <2>1. Depth(s', scand_index') = Depth(s, scand_index) + (IF cu = "(" THEN 1 ELSE 0)
    BY <1>1, <1>2, <1>3 DEF TokenFacts, cu, Ops, BinaryOps
  <2>2. NumParens(opst) = Depth(s, scand_index)
    BY <1>1 DEF IInv, ParensMatch
  <2> QED
    BY <1>4, <2>1, <2>2 DEF ParensMatch
<1>8. NothingLeft' /\ NeverDropped' /\ LoopContext'
  BY <1>1, <1>4, Context DEF IInv, NothingLeft, NeverDropped, LoopContext
<1> QED
  BY <1>4, <1>5, <1>6, <1>7, <1>8 DEF IInv

\* A number is pushed on the stack of numbers.
LEMMA PushNumInv == IInv /\ PushNum => IInv'
<1> SUFFICES ASSUME IInv, PushNum PROVE IInv'
  OBVIOUS
<1>1. /\ pc = "scan" /\ pc' = "scan" /\ s' = s /\ opst' = opst /\ result' = result
      /\ scand_index < Len(s) /\ scand_index' = scand_index + 1
      /\ npst' = Push(npst, s[scand_index + 1].v) /\ cu = "num"
  BY DEF PushNum, AtToken, Consume
<1>2. TokenFacts(s, scand_index)
  BY <1>1, NextToken, Context
<1>3. npst' \in Seq(Int) /\ Len(npst') = Len(npst) + 1
  <2>1. s[scand_index + 1].v \in Int
    BY <1>2 DEF TokenFacts, Token
  <2>2. Len(npst) < Len(s)
    BY <1>1, Context DEF IInv, NeverDropped
  <2>3. npst' = Append(npst, s[scand_index + 1].v)
    BY <1>1, <2>2, Context DEF Push, IsFull, max_size
  <2> QED
    BY <2>1, <2>3, Context
<1>4. TypeOK'
  BY <1>1, <1>3, Context DEF IInv, TypeOK
<1>5. OperandsBalance'
  <2>1. Ended(s, scand_index) = 0 /\ Ended(s', scand_index') = 1
    BY <1>1, <1>2 DEF TokenFacts, cu
  <2>2. Len(npst) = NumOps(opst) + Ended(s, scand_index)
    BY <1>1 DEF IInv, OperandsBalance
  <2> QED
    BY <1>1, <1>3, <2>1, <2>2, Context DEF OperandsBalance
<1>6. ParensMatch'
  <2>1. Depth(s', scand_index') = Depth(s, scand_index)
    BY <1>1, <1>2 DEF TokenFacts, cu
  <2> QED
    BY <1>1, <2>1 DEF IInv, ParensMatch
<1>7. NothingLeft' /\ NeverDropped' /\ LoopContext' /\ PrioritiesAscend'
  BY <1>1, <1>3, Context
     DEF IInv, NothingLeft, NeverDropped, LoopContext, PrioritiesAscend
<1> QED
  BY <1>4, <1>5, <1>6, <1>7 DEF IInv

\* A space changes only the index.
LEMMA SkipSpaceInv == IInv /\ SkipSpace => IInv'
<1> SUFFICES ASSUME IInv, SkipSpace PROVE IInv'
  OBVIOUS
<1>1. /\ pc = "scan" /\ scand_index < Len(s) /\ scand_index' = scand_index + 1
      /\ UNCHANGED <<s, pc, opst, npst, result>> /\ cu = "space"
  BY DEF SkipSpace, AtToken, Consume
<1>2. TokenFacts(s, scand_index)
  BY <1>1, NextToken, Context
<1>3. /\ Ended(s', scand_index') = Ended(s, scand_index)
      /\ Depth(s', scand_index') = Depth(s, scand_index)
  BY <1>1, <1>2 DEF TokenFacts, cu
<1>4. OperandsBalance' /\ ParensMatch'
  BY <1>1, <1>3 DEF IInv, OperandsBalance, ParensMatch
<1>5. TypeOK'
  BY <1>1, Context DEF IInv, TypeOK
<1>6. NothingLeft' /\ NeverDropped' /\ LoopContext' /\ PrioritiesAscend'
  BY <1>1, Context DEF IInv, NothingLeft, NeverDropped, LoopContext, PrioritiesAscend
<1> QED
  BY <1>4, <1>5, <1>6 DEF IInv

\* A token that needs the stack enters one of the loops.
LEMMA EnterInv == IInv /\ Enter => IInv'
<1> SUFFICES ASSUME IInv, Enter PROVE IInv'
  OBVIOUS
<1>1. /\ pc = "scan" /\ scand_index < Len(s)
      /\ UNCHANGED <<s, scand_index, opst, npst, result>>
      /\ IsLegalOp(cu) /\ cu # "("
      /\ pc' = IF cu = ")" THEN "close" ELSE "reduce"
  BY DEF Enter, AtToken
<1>2. cu \in BinaryOps \union {")"} /\ cu' = cu
  BY <1>1 DEF IsLegalOp, cu
<1>3. LoopContext'
  <2> HIDE DEF cu
  <2> QED
    BY <1>1, <1>2 DEF LoopContext
<1>4. OperandsBalance' /\ ParensMatch'
  BY <1>1 DEF IInv, OperandsBalance, ParensMatch
<1>5. TypeOK'
  BY <1>1 DEF IInv, TypeOK
<1>6. NothingLeft' /\ NeverDropped' /\ PrioritiesAscend'
  BY <1>1 DEF IInv, NothingLeft, NeverDropped, PrioritiesAscend
<1> QED
  BY <1>3, <1>4, <1>5, <1>6 DEF IInv

\* What the three loops that call pop_and_cal have in common.
LEMMA PopAndCalInv ==
  ASSUME IInv, pc \in {"close", "reduce", "drain"},
         opst # <<>>, Top(opst, Nothing) # "(",
         Ended(s, scand_index) = 1,
         PopAndCal(pc), UNCHANGED <<s, scand_index, result>>
  PROVE  IInv'
<1>1. Len(npst) = NumOps(opst) + 1 /\ NumParens(opst) = Depth(s, scand_index)
  BY DEF IInv, OperandsBalance, ParensMatch
<1>2. CASE pc' = "trap"
  <2>1. UNCHANGED <<opst, npst>>
    BY <1>2 DEF PopAndCal
  <2> QED
    BY <1>2, <2>1 DEF IInv, TypeOK, LoopContext, OperandsBalance, NothingLeft,
                      NeverDropped, ParensMatch, PrioritiesAscend
<1>3. CASE pc' # "trap"
  <2>1. /\ pc' = pc
        /\ opst' \in Seq(Ops) /\ npst' \in Seq(Int)
        /\ Len(npst') = NumOps(opst') + 1
        /\ NumParens(opst') = NumParens(opst)
        /\ NeverDropped' /\ PrioritiesAscend'
    BY <1>1, <1>3, PopAndCalKeeps
  <2>2. TypeOK'
    BY <2>1 DEF IInv, TypeOK, Ops
  <2>3. OperandsBalance' /\ ParensMatch'
    BY <1>1, <2>1 DEF OperandsBalance, ParensMatch
  <2>4. LoopContext' /\ NothingLeft'
    BY <2>1 DEF IInv, LoopContext, NothingLeft, cu
  <2> QED
    BY <2>1, <2>2, <2>3, <2>4 DEF IInv
<1> QED
  BY <1>2, <1>3

\* The loop of ')' computes with the operator on top.
LEMMA CloseStepInv == IInv /\ CloseStep => IInv'
<1> SUFFICES ASSUME IInv, CloseStep PROVE IInv'
  OBVIOUS
<1>1. /\ pc = "close" /\ Top(opst, Nothing) # "("
      /\ PopAndCal(pc) /\ UNCHANGED <<s, scand_index, result>>
  BY DEF CloseStep
<1>2. scand_index < Len(s) /\ cu = ")"
  BY <1>1 DEF IInv, LoopContext
<1>3. TokenFacts(s, scand_index)
  BY <1>2, NextToken, Context
<1>4. Ended(s, scand_index) = 1 /\ Depth(s, scand_index) # 0
  BY <1>2, <1>3 DEF TokenFacts, cu
<1>5. opst # <<>>
  <2>1. NumParens(opst) # 0
    BY <1>1, <1>4 DEF IInv, ParensMatch
  <2> QED
    BY <2>1, EmptyStack
<1> QED
  BY <1>1, <1>4, <1>5, PopAndCalInv

\* The loop of an operator computes with an operator of no lower priority.
LEMMA ReduceStepInv == IInv /\ ReduceStep => IInv'
<1> SUFFICES ASSUME IInv, ReduceStep PROVE IInv'
  OBVIOUS
<1>1. /\ pc = "reduce" /\ opst # <<>> /\ Prio(cu) <= Prio(Top(opst, Nothing))
      /\ PopAndCal(pc) /\ UNCHANGED <<s, scand_index, result>>
  BY DEF ReduceStep, MustReduce
<1>2. scand_index < Len(s) /\ cu \in BinaryOps
  BY <1>1 DEF IInv, LoopContext
<1>3. TokenFacts(s, scand_index)
  BY <1>2, NextToken, Context
<1>4. Ended(s, scand_index) = 1
  BY <1>2, <1>3 DEF TokenFacts, cu
<1>5. Top(opst, Nothing) # "("
  <2> HIDE DEF cu
  <2> QED
    BY <1>1, <1>2 DEF Prio, BinaryOps
<1> QED
  BY <1>1, <1>4, <1>5, PopAndCalInv

\* At the end of the text the operators that wait are computed.
LEMMA DrainStepInv == IInv /\ DrainStep => IInv'
<1> SUFFICES ASSUME IInv, DrainStep PROVE IInv'
  OBVIOUS
<1>1. /\ pc = "drain" /\ opst # <<>>
      /\ PopAndCal(pc) /\ UNCHANGED <<s, scand_index, result>>
  BY DEF DrainStep
<1>2. Ended(s, scand_index) = 1 /\ Depth(s, scand_index) = 0
  BY <1>1, Context DEF IInv, LoopContext, WellFormed, Ended
<1>3. Top(opst, Nothing) # "("
  <2>1. NumParens(opst) = 0
    BY <1>1, <1>2 DEF IInv, ParensMatch
  <2>2. /\ NumParens(Pop(opst)) \in Nat
        /\ NumParens(opst) = NumParens(Pop(opst)) + (IF Top(opst, Nothing) = "(" THEN 1 ELSE 0)
    BY <1>1, CountPop, PopTop, StackType, Context
  <2> QED
    BY <2>1, <2>2
<1> QED
  BY <1>1, <1>2, <1>3, PopAndCalInv

\* The loop of ')' ends at its '('.
LEMMA CloseEndInv == IInv /\ CloseEnd => IInv'
<1> SUFFICES ASSUME IInv, CloseEnd PROVE IInv'
  OBVIOUS
<1>1. /\ pc = "close" /\ pc' = "scan" /\ s' = s /\ npst' = npst /\ result' = result
      /\ scand_index' = scand_index + 1
      /\ Top(opst, Nothing) = "(" /\ opst' = Pop(opst)
  BY DEF CloseEnd, Consume
<1>2. scand_index < Len(s) /\ cu = ")"
  BY <1>1 DEF IInv, LoopContext
<1>3. TokenFacts(s, scand_index)
  BY <1>2, NextToken, Context
<1>4. /\ opst' \in Seq(Ops) /\ Len(opst') = Len(opst) - 1
      /\ \A i \in 1..(Len(opst) - 1) : opst'[i] = opst[i]
      /\ NumOps(opst) = NumOps(opst') /\ NumParens(opst) = NumParens(opst') + 1
      /\ NumOps(opst') \in Nat /\ NumParens(opst') \in Nat
  <2>1. opst # <<>>
    BY <1>1 DEF Top, Nothing
  <2> QED
    BY <1>1, <2>1, PopTop, CountPop, StackType, Context
<1>5. TypeOK'
  BY <1>1, <1>2, <1>4, Context DEF IInv, TypeOK, Ops
<1>6. OperandsBalance'
  <2>1. Ended(s, scand_index) = 1 /\ Ended(s', scand_index') = 1
    BY <1>1, <1>2, <1>3 DEF TokenFacts, cu
  <2> QED
    BY <1>1, <1>4, <2>1 DEF IInv, OperandsBalance
<1>7. ParensMatch'
  <2>1. /\ Depth(s', scand_index') = Depth(s, scand_index) - 1
        /\ Depth(s, scand_index) \in Int
    BY <1>1, <1>2, <1>3 DEF TokenFacts, cu
  <2>2. NumParens(opst) = Depth(s, scand_index)
    BY <1>1 DEF IInv, ParensMatch
  <2> QED
    BY <1>4, <2>1, <2>2 DEF ParensMatch
<1>8. NothingLeft' /\ NeverDropped' /\ LoopContext'
  BY <1>1, <1>4, Context DEF IInv, NothingLeft, NeverDropped, LoopContext
<1>9. PrioritiesAscend'
  <2> SUFFICES ASSUME NEW i \in 1..(Len(opst') - 1), opst'[i + 1] # "("
               PROVE  Prio(opst'[i]) < Prio(opst'[i + 1])
    BY DEF PrioritiesAscend
  <2>1. i \in 1..(Len(opst) - 1) /\ i + 1 \in 1..(Len(opst) - 1)
    BY <1>4, Context
  <2>2. opst'[i] = opst[i] /\ opst'[i + 1] = opst[i + 1]
    BY <1>4, <2>1
  <2> QED
    BY <2>1, <2>2 DEF IInv, PrioritiesAscend
<1> QED
  BY <1>5, <1>6, <1>7, <1>8, <1>9 DEF IInv

\* The loop of an operator ends, and the operator is pushed.
LEMMA ReduceEndInv == IInv /\ ReduceEnd => IInv'
<1> SUFFICES ASSUME IInv, ReduceEnd PROVE IInv'
  OBVIOUS
<1>1. /\ pc = "reduce" /\ pc' = "scan" /\ s' = s /\ npst' = npst /\ result' = result
      /\ scand_index' = scand_index + 1
      /\ opst' = Push(opst, cu) /\ ~MustReduce
  BY DEF ReduceEnd, Consume
<1>2. scand_index < Len(s) /\ cu \in BinaryOps
  BY <1>1 DEF IInv, LoopContext
<1>3. TokenFacts(s, scand_index)
  BY <1>2, NextToken, Context
<1>4. /\ opst' \in Seq(Ops) /\ Len(opst') = Len(opst) + 1
      /\ NumOps(opst') = NumOps(opst) + 1
      /\ NumParens(opst') = NumParens(opst)
      /\ PrioritiesAscend'
  <2>1. \A c : Prio(c) \in Int
    BY DEF Prio
  <2>2. opst = <<>> \/ Prio(Top(opst, Nothing)) < Prio(cu)
    <3> HIDE DEF cu
    <3> QED
      BY <1>1, <2>1 DEF MustReduce
  <2>3. cu \in Ops /\ cu # "("
    BY <1>2 DEF Ops, BinaryOps
  <2> HIDE DEF cu
  <2>4. /\ opst' \in Seq(Ops) /\ Len(opst') = Len(opst) + 1
        /\ NumOps(opst') = NumOps(opst) + (IF cu = "(" THEN 0 ELSE 1)
        /\ NumParens(opst') = NumParens(opst) + (IF cu = "(" THEN 1 ELSE 0)
        /\ PrioritiesAscend'
    BY <1>1, <1>2, <2>2, <2>3, PushOpKeeps
  <2> QED
    BY <2>3, <2>4, Context
<1>5. TypeOK'
  BY <1>1, <1>2, <1>4, Context DEF IInv, TypeOK, Ops
<1>6. OperandsBalance'
  <2>1. Ended(s, scand_index) = 1 /\ Ended(s', scand_index') = 0
    BY <1>1, <1>2, <1>3 DEF TokenFacts, cu, BinaryOps
  <2> QED
    BY <1>1, <1>4, <2>1, Context DEF IInv, OperandsBalance
<1>7. ParensMatch'
  <2>1. Depth(s', scand_index') = Depth(s, scand_index)
    BY <1>1, <1>2, <1>3 DEF TokenFacts, cu, BinaryOps
  <2> QED
    BY <1>1, <1>4, <2>1 DEF IInv, ParensMatch
<1>8. NothingLeft' /\ NeverDropped' /\ LoopContext'
  BY <1>1, <1>4, Context DEF IInv, NothingLeft, NeverDropped, LoopContext
<1> QED
  BY <1>4, <1>5, <1>6, <1>7, <1>8 DEF IInv

\* The scan ends with the text.
LEMMA EndOfScanInv == IInv /\ EndOfScan => IInv'
  BY DEF EndOfScan, IInv, TypeOK, LoopContext, OperandsBalance, NothingLeft,
         NeverDropped, ParensMatch, PrioritiesAscend

\* calculate() pops its result.
LEMMA ReturnInv == IInv /\ Return => IInv'
<1> SUFFICES ASSUME IInv, Return PROVE IInv'
  OBVIOUS
<1>1. /\ pc = "drain" /\ opst = <<>> /\ pc' = "done" /\ npst' = Pop(npst)
      /\ result' = Top(npst, 0) /\ UNCHANGED <<s, scand_index, opst>>
  BY DEF Return
<1>2. Ended(s, scand_index) = 1
  BY <1>1, Context DEF IInv, LoopContext, WellFormed, Ended
<1>3. Len(npst) = 1
  BY <1>1, <1>2, EmptyStack DEF IInv, OperandsBalance
<1>4. npst' \in Seq(Int) /\ Len(npst') = 0 /\ npst' = <<>> /\ result' \in Int
  <2>1. npst # <<>>
    BY <1>3
  <2>2. npst' \in Seq(Int) /\ Len(npst') = 0 /\ result' \in Int
    <3>1. npst \in Seq(Int)
      BY Context
    <3>2. Pop(npst) \in Seq(Int) /\ Len(Pop(npst)) = Len(npst) - 1 /\ Top(npst, 0) \in Int
      BY <2>1, <3>1, PopTop
    <3> QED
      BY <1>1, <1>3, <3>2
  <2> QED
    BY <2>2, EmptySeq
<1>5. TypeOK'
  BY <1>1, <1>4 DEF IInv, TypeOK
<1>6. /\ LoopContext' /\ OperandsBalance' /\ NothingLeft' /\ NeverDropped'
      /\ ParensMatch' /\ PrioritiesAscend'
  BY <1>1, <1>4, Context DEF LoopContext, OperandsBalance, NothingLeft,
                             NeverDropped, ParensMatch, PrioritiesAscend
<1> QED
  BY <1>5, <1>6 DEF IInv

\* A step that changes nothing.
LEMMA StutterInv == IInv /\ UNCHANGED vars => IInv'
  BY DEF vars, IInv, TypeOK, LoopContext, OperandsBalance, NothingLeft,
         NeverDropped, ParensMatch, PrioritiesAscend, cu

----------------------------------------------------------------------------
(* The theorems on double_stack_224.c.                                      *)

\* Every step of calculate() preserves the invariant.
LEMMA NextIInv == IInv /\ [Next]_vars => IInv'
  BY PushOpInv, EnterInv, SkipSpaceInv, PushNumInv, CloseStepInv, CloseEndInv,
     ReduceStepInv, ReduceEndInv, EndOfScanInv, DrainStepInv, ReturnInv, StutterInv
     DEF Next, Terminated

\* The inductive invariant holds in every state of calculate(), for every set
\* of infix expressions.
THEOREM Invariance == Spec => []IInv
  BY InitIInv, NextIInv, PTL DEF Spec

\* The stacks hold operators and numbers and the scan stays in the string.
THEOREM TypeCorrect == Spec => []TypeOK
<1>1. IInv => TypeOK
  BY DEF IInv
<1> QED
  BY <1>1, Invariance, PTL

\* stack_pop never answers for an empty stack of numbers while an expression
\* is evaluated, and calculate() leaves both stacks empty.
THEOREM Balanced == Spec => [](OperandsBalance /\ NothingLeft)
<1>1. IInv => OperandsBalance /\ NothingLeft
  BY DEF IInv
<1> QED
  BY <1>1, Invariance, PTL

\* stack_push never finds a stack full: no operator and no number is dropped.
THEOREM NothingDropped == Spec => []NeverDropped
<1>1. IInv => NeverDropped
  BY DEF IInv
<1> QED
  BY <1>1, Invariance, PTL

\* The parentheses on the operator stack are those open in the text, and
\* operators of ascending priority wait between them.
THEOREM OperatorStackSound == Spec => [](ParensMatch /\ PrioritiesAscend)
<1>1. IInv => ParensMatch /\ PrioritiesAscend
  BY DEF IInv
<1> QED
  BY <1>1, Invariance, PTL

----------------------------------------------------------------------------
(* The postfix string of 224.c.                                             *)

\* How many numbers an evaluation of the first i items of b leaves.
Height(b, i) == 2 * Count(b, i, "num") - i

\* Every operator of b finds two numbers.
IsPostfix(b) ==
  /\ b \in Seq(Token)
  /\ \A i \in 1..Len(b) : /\ b[i].t \in BinaryOps \union {"num"}
                          /\ b[i].t # "num" => Height(b, i - 1) >= 2

\* A number is one more, an operator one less.
LEMMA HeightStep ==
  ASSUME NEW b \in Seq(Token), NEW i \in 1..Len(b)
  PROVE  /\ Height(b, i - 1) \in Int
         /\ Height(b, i) = Height(b, i - 1) + (IF b[i].t = "num" THEN 1 ELSE -1)
<1>1. /\ Count(b, i - 1, "num") \in Nat
      /\ Count(b, i, "num") = Count(b, i - 1, "num") + (IF b[i].t = "num" THEN 1 ELSE 0)
  BY CountStep
<1>2. i \in Int
  OBVIOUS
<1> QED
  BY <1>1, <1>2 DEF Height

\* An empty evaluation leaves nothing.
LEMMA HeightZero == ASSUME NEW b PROVE Height(b, 0) = 0
  BY CountZero DEF Height

\* An item behind it leaves the heights of a string as they were.
LEMMA HeightAppend ==
  ASSUME NEW b \in Seq(Token), NEW e \in Token, NEW i \in 0..Len(b)
  PROVE  Height(Append(b, e), i) = Height(b, i)
<1>1. \A j \in 1..i : Append(b, e)[j] = b[j]
  OBVIOUS
<1>2. Count(Append(b, e), i, "num") = Count(b, i, "num")
  BY <1>1 DEF Count
<1> QED
  BY <1>2 DEF Height

\* A number, or an operator for which there are two, makes a longer one.
LEMMA PostfixGrows ==
  ASSUME NEW b, IsPostfix(b), NEW e \in Token, e.t \in BinaryOps \union {"num"},
         e.t # "num" => Height(b, Len(b)) >= 2
  PROVE  /\ IsPostfix(Append(b, e)) /\ Append(b, e) \in Seq(Token)
         /\ Len(Append(b, e)) = Len(b) + 1
         /\ Height(b, Len(b)) \in Int
         /\ Height(Append(b, e), Len(b) + 1)
              = Height(b, Len(b)) + (IF e.t = "num" THEN 1 ELSE -1)
<1>1. PICK u : u = Append(b, e)
  OBVIOUS
<1>2. /\ b \in Seq(Token) /\ u \in Seq(Token) /\ Len(b) \in Nat /\ Len(u) = Len(b) + 1
      /\ u[Len(b) + 1] = e /\ \A i \in 1..Len(b) : u[i] = b[i]
  BY <1>1 DEF IsPostfix
<1>3. \A i \in 0..Len(b) : Height(u, i) = Height(b, i)
  BY <1>1, <1>2, HeightAppend
<1>4. ASSUME NEW i \in 1..Len(u)
      PROVE  /\ u[i].t \in BinaryOps \union {"num"}
             /\ u[i].t # "num" => Height(u, i - 1) >= 2
  <2>1. CASE i = Len(b) + 1
    <3>1. i - 1 = Len(b) /\ Len(b) \in 0..Len(b)
      BY <2>1, <1>2
    <3>2. Height(u, i - 1) = Height(b, Len(b))
      BY <3>1, <1>3
    <3> QED
      BY <2>1, <3>2, <1>2
  <2>2. CASE i # Len(b) + 1
    <3>1. i \in 1..Len(b) /\ i - 1 \in 0..Len(b)
      BY <2>2, <1>2
    <3>2. Height(u, i - 1) = Height(b, i - 1) /\ u[i] = b[i]
      BY <3>1, <1>2, <1>3
    <3> QED
      BY <3>1, <3>2 DEF IsPostfix
  <2> QED
    BY <2>1, <2>2
<1>5. /\ Height(b, Len(b)) \in Int
      /\ Height(u, Len(b) + 1) = Height(b, Len(b)) + (IF e.t = "num" THEN 1 ELSE -1)
  <2>1. Len(b) + 1 \in 1..Len(u) /\ (Len(b) + 1) - 1 = Len(b) /\ Len(b) \in 0..Len(b)
    BY <1>2
  <2>2. /\ Height(u, (Len(b) + 1) - 1) \in Int
        /\ Height(u, Len(b) + 1) = Height(u, (Len(b) + 1) - 1)
             + (IF u[Len(b) + 1].t = "num" THEN 1 ELSE -1)
    BY <2>1, <1>2, HeightStep
  <2> QED
    BY <2>1, <2>2, <1>2, <1>3
<1> QED
  BY <1>1, <1>2, <1>4, <1>5 DEF IsPostfix

\* What a block holds up to its top, as the stack that it is.
Held(st, top) == [i \in 1..(top + 1) |-> st[i - 1].t]

\* The cells of a block up to its top are operators and '('.
HoldsOps(st, top) ==
  /\ top \in Int /\ top >= -1
  /\ \A i \in 0..top : st[i] \in Token /\ st[i].t \in Ops

\* A block whose cells are operators up to its top is a stack of them.
LEMMA HeldType ==
  ASSUME NEW st, NEW top, HoldsOps(st, top)
  PROVE  Held(st, top) \in Seq(Ops) /\ Len(Held(st, top)) = top + 1
<1>1. top + 1 \in Nat /\ \A i \in 1..(top + 1) : i - 1 \in 0..top
  BY DEF HoldsOps
<1>2. \A i \in 1..(top + 1) : st[i - 1].t \in Ops
  BY <1>1 DEF HoldsOps
<1> QED
  BY <1>1, <1>2 DEF Held

\* What is written above the top is one more of its kind.
LEMMA HeldPush ==
  ASSUME NEW st, NEW top, HoldsOps(st, top), NEW e \in Token, e.t \in Ops,
         NEW up, \A i \in 0..(top + 1) : up[i] = IF i = top + 1 THEN e ELSE st[i]
  PROVE  /\ HoldsOps(up, top + 1)
         /\ NumOps(Held(up, top + 1)) = NumOps(Held(st, top)) + (IF e.t = "(" THEN 0 ELSE 1)
         /\ NumParens(Held(up, top + 1)) = NumParens(Held(st, top))
                                             + (IF e.t = "(" THEN 1 ELSE 0)
         /\ NumOps(Held(st, top)) \in Nat /\ NumParens(Held(st, top)) \in Nat
<1>1. top \in Int /\ top >= -1
  BY DEF HoldsOps
<1>2. HoldsOps(up, top + 1)
  <2> SUFFICES ASSUME NEW i \in 0..(top + 1) PROVE up[i] \in Token /\ up[i].t \in Ops
    BY <1>1 DEF HoldsOps
  <2>1. i = top + 1 \/ i \in 0..top
    BY <1>1
  <2> QED
    BY <2>1, <1>1 DEF HoldsOps
<1>3. PICK a : a = Held(st, top)
  OBVIOUS
<1>4. PICK b : b = Held(up, top + 1)
  OBVIOUS
<1>5. a \in Seq(Ops) /\ Len(a) = top + 1
  BY <1>3, HeldType
<1>6. b \in Seq(Ops) /\ Len(b) = top + 2
  <2>1. b \in Seq(Ops) /\ Len(b) = (top + 1) + 1
    BY <1>2, <1>4, HeldType
  <2> QED
    BY <2>1, <1>1
<1>7. b = Append(a, e.t)
  <2>1. PICK c : c = Append(a, e.t)
    OBVIOUS
  <2>2. /\ c \in Seq(Ops) /\ Len(c) = top + 2 /\ c[top + 2] = e.t
        /\ \A i \in 1..(top + 1) : c[i] = a[i]
    BY <2>1, <1>1, <1>5
  <2>3. ASSUME NEW i \in 1..Len(b) PROVE b[i] = c[i]
    <3>1. b[i] = up[i - 1].t /\ i - 1 \in 0..(top + 1)
      BY <1>1, <1>4, <1>6 DEF Held
    <3>2. CASE i = top + 2
      <4>1. i - 1 = top + 1
        BY <3>2, <1>1
      <4> QED
        BY <4>1, <3>1, <3>2, <2>2
    <3>3. CASE i # top + 2
      <4>1. i \in 1..(top + 1) /\ i - 1 # top + 1
        BY <3>3, <1>1, <1>6
      <4>2. a[i] = st[i - 1].t
        BY <4>1, <1>3 DEF Held
      <4> QED
        BY <4>1, <4>2, <3>1, <2>2
    <3> QED
      BY <3>2, <3>3
  <2> QED
    BY <2>1, <2>2, <2>3, <1>6, SeqEqual
<1>8. /\ NumOps(b) = NumOps(a) + (IF e.t = "(" THEN 0 ELSE 1)
      /\ NumParens(b) = NumParens(a) + (IF e.t = "(" THEN 1 ELSE 0)
      /\ NumOps(a) \in Nat /\ NumParens(a) \in Nat
  BY <1>5, <1>7, StackAppend, StackType
<1> QED
  BY <1>2, <1>3, <1>4, <1>8

\* Below its top a block holds one less of the kind of its top.
LEMMA HeldPop ==
  ASSUME NEW st, NEW top, HoldsOps(st, top), top >= 0
  PROVE  /\ HoldsOps(st, top - 1) /\ st[top] \in Token /\ st[top].t \in Ops
         /\ NumOps(Held(st, top)) = NumOps(Held(st, top - 1))
                                      + (IF st[top].t = "(" THEN 0 ELSE 1)
         /\ NumParens(Held(st, top)) = NumParens(Held(st, top - 1))
                                         + (IF st[top].t = "(" THEN 1 ELSE 0)
         /\ NumOps(Held(st, top - 1)) \in Nat /\ NumParens(Held(st, top - 1)) \in Nat
<1>1. /\ top \in Int /\ top - 1 \in Int /\ top - 1 >= -1 /\ (top - 1) + 1 = top
      /\ \A i \in 0..(top - 1) : i \in 0..top
  BY DEF HoldsOps
<1>2. HoldsOps(st, top - 1) /\ st[top] \in Token /\ st[top].t \in Ops
  BY <1>1 DEF HoldsOps
<1>3. \A i \in 0..top : st[i] = IF i = top THEN st[top] ELSE st[i]
  OBVIOUS
<1>4. PICK low : low = top - 1
  OBVIOUS
<1>5. /\ HoldsOps(st, low) /\ low + 1 = top
      /\ \A i \in 0..(low + 1) : st[i] = IF i = low + 1 THEN st[top] ELSE st[i]
  BY <1>1, <1>2, <1>3, <1>4
<1>6. /\ NumOps(Held(st, low + 1)) = NumOps(Held(st, low))
                                       + (IF st[top].t = "(" THEN 0 ELSE 1)
      /\ NumParens(Held(st, low + 1)) = NumParens(Held(st, low))
                                          + (IF st[top].t = "(" THEN 1 ELSE 0)
      /\ NumOps(Held(st, low)) \in Nat /\ NumParens(Held(st, low)) \in Nat
  BY <1>2, <1>5, HeldPush
<1> QED
  BY <1>2, <1>4, <1>5, <1>6

\* Nothing is held below an empty top.
LEMMA HeldNone == ASSUME NEW st PROVE NumOps(Held(st, -1)) = 0 /\ NumParens(Held(st, -1)) = 0
<1>1. Held(st, -1) = <<>>
  BY DEF Held
<1> QED
  BY <1>1, EmptyStack

----------------------------------------------------------------------------
(* The invariant of 224.c.  While mtob() reads, what it has written leaves  *)
(* one number for each operator that waits and for an operand that has just *)
(* ended, and the operators and parentheses on the stack are those of the   *)
(* text: so an operator is only written when it finds two numbers, and ')'  *)
(* finds its '('.  While cal_bstr() reads, the index of the stack follows   *)
(* the height of the postfix string.                                        *)

Translating == postfix_pc \in {"mtob", "close", "reduce"}

\* The tokens that are done with: in a loop, all but the one it works for.
done == IF postfix_pc = "mtob" THEN index ELSE index - 1

LoopToken ==
  /\ done \in 0..Len(infix)
  /\ postfix_pc \in {"close", "reduce"} =>
       /\ done < Len(infix) /\ index = done + 1
       /\ infix[done + 1].t \in IF postfix_pc = "close" THEN {")"} ELSE BinaryOps

Translates ==
  /\ WellFormed(infix) /\ LoopToken
  /\ DOMAIN stack = 0..Len(infix) /\ HoldsOps(stack, it)
  /\ it + 1 + Len(bstr) <= done
  /\ IsPostfix(bstr)
  /\ Height(bstr, Len(bstr)) = NumOps(Held(stack, it)) + Ended(infix, done)
  /\ NumParens(Held(stack, it)) = Depth(infix, done)
  /\ heap = 2

Evaluates ==
  /\ IsPostfix(bstr) /\ Height(bstr, Len(bstr)) = 1
  /\ index \in 0..Len(bstr)
  /\ DOMAIN stack = 0..(2 * Len(bstr))
  /\ it \in -1..(index - 1)
  /\ postfix_pc = "cal_bstr" => it + 1 = Height(bstr, index)
  /\ heap = 2

PostfixInv ==
  /\ postfix_pc \in {"mtob", "close", "reduce", "cal_bstr", "trap", "returned"}
  /\ infix \in Seq(Token) /\ bstr \in Seq(Token) /\ Len(bstr) <= Len(infix)
  /\ Translating => Translates
  /\ postfix_pc \in {"cal_bstr", "trap"} => Evaluates
  /\ postfix_pc = "returned" => it = -1 /\ heap = 0 /\ stack = <<>>

\* The operators that the instance shares with this module are the same.
LEMMA SameOperators ==
  /\ \A S : Postfix!Cardinality(S) = Cardinality(S)
  /\ Postfix!BinaryOps = BinaryOps /\ Postfix!Kinds = Kinds /\ Postfix!Token = Token
  /\ \A c : /\ Postfix!IsLegalOp(c) <=> IsLegalOp(c)
            /\ Postfix!Prio(c) = Prio(c)
  /\ \A str : Postfix!WellFormed(str) <=> WellFormed(str)
<1>1. \A S : Postfix!Cardinality(S) = Cardinality(S)
  BY DEF Postfix!Cardinality, Cardinality
<1>2. Postfix!BinaryOps = BinaryOps /\ Postfix!Kinds = Kinds /\ Postfix!Token = Token
  BY DEF Postfix!BinaryOps, BinaryOps, Postfix!Kinds, Kinds, Postfix!Token, Token
<1>3. \A c : /\ Postfix!IsLegalOp(c) <=> IsLegalOp(c)
            /\ Postfix!Prio(c) = Prio(c)
  BY <1>2 DEF Postfix!IsLegalOp, IsLegalOp, Postfix!Prio, Prio
<1>4. ASSUME NEW str, NEW i
      PROVE  /\ Postfix!OperandEnds(str, i) <=> OperandEnds(str, i)
             /\ Postfix!Depth(str, i) = Depth(str, i)
  BY <1>1 DEF Postfix!OperandEnds, OperandEnds, Postfix!Depth, Depth, Postfix!Count, Count
<1>5. \A str : Postfix!WellFormed(str) <=> WellFormed(str)
  BY <1>2, <1>4 DEF Postfix!WellFormed, WellFormed
<1> QED
  BY <1>1, <1>2, <1>3, <1>5

\* A block of n + 1 cells.
LEMMA BlockLength ==
  ASSUME NEW n \in Nat
  PROVE  \A b : DOMAIN b = 0..n => Cardinality(DOMAIN b) - 1 = n
<1>1. Cardinality(0..n) = (n - 0) + 1
  BY FS_Interval
<1> QED
  BY <1>1

\* The invariant says that the stack stays in its block and that a call
\* leaves nothing.
LEMMA InvSays == PostfixInv => StaysInBlock /\ CallsLeaveNothing
<1> SUFFICES ASSUME PostfixInv PROVE StaysInBlock /\ CallsLeaveNothing
  OBVIOUS
<1>1. /\ infix \in Seq(Token) /\ bstr \in Seq(Token)
      /\ Len(infix) \in Nat /\ Len(bstr) \in Nat /\ Len(bstr) <= Len(infix)
  BY DEF PostfixInv
<1>2. Postfix!bi < Postfix!bstr_len
  BY <1>1 DEF Postfix!bi, Postfix!bstr_len
<1>3. CASE Translating
  <2>1. Translates /\ postfix_pc \in {"mtob", "close", "reduce"}
    BY <1>3 DEF PostfixInv, Translating
  <2>2. /\ done \in Nat /\ done <= Len(infix) /\ it \in Int /\ it >= -1
        /\ it + 1 + Len(bstr) <= done
    BY <2>1, <1>1 DEF Translates, LoopToken, HoldsOps
  <2>3. Cardinality(DOMAIN stack) - 1 = Len(infix)
    BY <2>1, <1>1, BlockLength DEF Translates
  <2>4. it \in -1..(Cardinality(DOMAIN stack) - 1)
    BY <2>2, <2>3, <1>1
  <2>5. ASSUME postfix_pc = "close" PROVE it >= 0
    <3>1. done \in 0..(Len(infix) - 1) /\ infix[done + 1].t = ")"
      BY <2>1, <2>2, <2>5, <1>1 DEF Translates, LoopToken
    <3>2. Depth(infix, done) # 0
      BY <2>1, <3>1, NextToken DEF Translates, TokenFacts
    <3>3. it # -1
      BY <2>1, <3>2, HeldNone DEF Translates
    <3> QED
      BY <2>2, <3>3
  <2>6. index = 0 => it = -1
    <3>1. index = 0 => done <= 0
      BY <2>1 DEF done
    <3> QED
      BY <2>2, <3>1, <1>1
  <2>7. StaysInBlock
    BY <2>1, <2>4, <2>5, <1>2, SameOperators
       DEF StaysInBlock, Postfix!StaysInBlock, Postfix!AtItem, Postfix!stack_len
  <2> QED
    BY <2>1, <2>6, <2>7 DEF CallsLeaveNothing, Postfix!CallsLeaveNothing
<1>4. CASE postfix_pc \in {"cal_bstr", "trap"}
  <2>1. Evaluates
    BY <1>4 DEF PostfixInv
  <2>2. Cardinality(DOMAIN stack) - 1 = 2 * Len(bstr)
    <3>1. 2 * Len(bstr) \in Nat
      BY <1>1
    <3> QED
      BY <2>1, <3>1, BlockLength DEF Evaluates
  <2>3. index \in Nat /\ index <= Len(bstr) /\ it \in Int /\ it >= -1 /\ it <= index - 1
    BY <2>1, <1>1 DEF Evaluates
  <2>4. it \in -1..(Cardinality(DOMAIN stack) - 1)
    BY <2>2, <2>3, <1>1
  <2>5. ASSUME Postfix!AtItem, IsLegalOp(bstr[index + 1].t) PROVE it >= 1
    <3>1. postfix_pc = "cal_bstr" /\ index + 1 \in 1..Len(bstr) /\ (index + 1) - 1 = index
      BY <2>3, <2>5, <1>1 DEF Postfix!AtItem
    <3>2. bstr[index + 1].t # "num"
      BY <2>5 DEF IsLegalOp, BinaryOps
    <3>3. Height(bstr, (index + 1) - 1) >= 2
      BY <2>1, <3>1, <3>2 DEF Evaluates, IsPostfix
    <3> QED
      BY <2>1, <2>3, <3>1, <3>3 DEF Evaluates
  <2>6. postfix_pc = "cal_bstr" /\ index = Len(bstr) => it = 0
    BY <2>1, <2>3 DEF Evaluates
  <2>7. index = 0 => it = -1
    BY <2>3
  <2>8. StaysInBlock
    BY <2>4, <2>5, <2>6, <1>2, <1>4, SameOperators
       DEF StaysInBlock, Postfix!StaysInBlock, Postfix!item, Postfix!stack_len
  <2> QED
    BY <2>7, <2>8, <1>4 DEF CallsLeaveNothing, Postfix!CallsLeaveNothing
<1>5. CASE postfix_pc = "returned"
  <2>1. it = -1 /\ heap = 0 /\ stack = <<>>
    BY <1>5 DEF PostfixInv
  <2>2. Cardinality(DOMAIN stack) = 0
    <3>1. DOMAIN stack = {}
      BY <2>1
    <3> QED
      BY <3>1, FS_EmptySet
  <2>3. StaysInBlock
    BY <2>1, <2>2, <1>2, <1>5, SameOperators
       DEF StaysInBlock, Postfix!StaysInBlock, Postfix!AtItem, Postfix!stack_len
  <2> QED
    BY <2>1, <2>3, <1>5 DEF CallsLeaveNothing, Postfix!CallsLeaveNothing
<1> QED
  BY <1>3, <1>4, <1>5 DEF PostfixInv, Translating

\* A string that mtob() begins on, with a block that is blank.
Begun ==
  /\ WellFormed(infix) /\ bstr = <<>> /\ postfix_pc = "mtob" /\ index = 0
  /\ stack = Postfix!Block(Len(infix)) /\ it = -1 /\ heap = 2

\* The invariant holds when mtob() begins.
LEMMA Begins == Begun => PostfixInv
<1> SUFFICES ASSUME Begun PROVE PostfixInv
  OBVIOUS
<1> USE DEF Begun
<1>1. infix \in Seq(Token) /\ Len(infix) \in Nat /\ bstr \in Seq(Token) /\ Len(bstr) = 0
  BY DEF WellFormed
<1>2. DOMAIN stack = 0..Len(infix) /\ HoldsOps(stack, it)
  BY DEF Postfix!Block, HoldsOps
<1>3. done = 0
  BY DEF done
<1>4. Ended(infix, 0) = 0 /\ Depth(infix, 0) = 0
  BY CountZero DEF Ended, OperandEnds, Depth
<1>5. IsPostfix(bstr) /\ Height(bstr, Len(bstr)) = 0
  BY <1>1, HeightZero DEF IsPostfix
<1>6. Translates
  BY <1>1, <1>2, <1>3, <1>4, <1>5, HeldNone DEF Translates, LoopToken
<1> QED
  BY <1>1, <1>6 DEF PostfixInv, Translating

\* Facts that every step of mtob() starts from.
LEMMA TranslatingContext ==
  ASSUME PostfixInv, Translating
  PROVE  /\ Translates /\ WellFormed(infix) /\ HoldsOps(stack, it) /\ IsPostfix(bstr)
         /\ infix \in Seq(Token) /\ bstr \in Seq(Token)
         /\ Len(infix) \in Nat /\ Len(bstr) \in Nat
         /\ done \in Nat /\ done <= Len(infix)
         /\ it \in Int /\ it >= -1 /\ it + 1 + Len(bstr) <= done
         /\ it <= Len(infix) /\ DOMAIN stack = 0..Len(infix)
         /\ Cardinality(DOMAIN stack) - 1 = Len(infix)
         /\ Postfix!is_empty <=> it = -1
         /\ it >= 0 => Postfix!Read(it) = stack[it]
<1>1. Translates /\ infix \in Seq(Token) /\ bstr \in Seq(Token)
  BY DEF PostfixInv
<1>2. Len(infix) \in Nat /\ Len(bstr) \in Nat /\ it \in Int /\ it >= -1
  BY <1>1 DEF Translates, HoldsOps
<1>3. done \in Nat /\ done <= Len(infix) /\ it + 1 + Len(bstr) <= done
  BY <1>1, <1>2 DEF Translates, LoopToken
<1>4. it <= Len(infix)
  BY <1>2, <1>3
<1>5. Cardinality(DOMAIN stack) - 1 = Len(infix) /\ DOMAIN stack = 0..Len(infix)
  BY <1>1, <1>2, BlockLength DEF Translates
<1>6. it >= 0 => Postfix!Read(it) = stack[it]
  BY <1>2, <1>4, <1>5 DEF Postfix!Read
<1>7. Postfix!is_empty <=> it = -1
  BY DEF Postfix!is_empty
<1> QED
  BY <1>1, <1>2, <1>3, <1>4, <1>5, <1>6, <1>7 DEF Translates

\* What is held, as numbers.
LEMMA HeldCounts ==
  ASSUME PostfixInv, Translating
  PROVE  /\ NumOps(Held(stack, it)) \in Nat /\ NumParens(Held(stack, it)) \in Nat
         /\ Height(bstr, Len(bstr)) = NumOps(Held(stack, it)) + Ended(infix, done)
         /\ NumParens(Held(stack, it)) = Depth(infix, done)
<1>1. Held(stack, it) \in Seq(Ops)
  BY TranslatingContext, HeldType
<1> QED
  BY <1>1, StackType, TranslatingContext DEF Translates

\* The next token, or the one that a loop works for.
LEMMA TokenAhead ==
  ASSUME PostfixInv, Translating, done < Len(infix)
  PROVE  TokenFacts(infix, done)
<1>1. done \in 0..(Len(infix) - 1)
  BY TranslatingContext
<1> QED
  BY <1>1, TranslatingContext, NextToken

\* An operator goes from the stack to the postfix string.
LEMMA EmitKeeps ==
  ASSUME PostfixInv, Translating, it >= 0, stack[it].t # "(", Ended(infix, done) = 1,
         Postfix!PopAndEmit, UNCHANGED <<infix, postfix_pc, index, stack, heap>>
  PROVE  PostfixInv'
<1>1. bstr' = Append(bstr, stack[it]) /\ it' = it - 1
  BY TranslatingContext DEF Postfix!PopAndEmit
<1>2. /\ HoldsOps(stack, it - 1) /\ stack[it] \in Token /\ stack[it].t \in Ops
      /\ NumOps(Held(stack, it)) = NumOps(Held(stack, it - 1)) + 1
      /\ NumParens(Held(stack, it)) = NumParens(Held(stack, it - 1))
      /\ NumOps(Held(stack, it - 1)) \in Nat
  BY TranslatingContext, HeldPop
<1>3. stack[it].t \in BinaryOps /\ stack[it].t # "num"
  BY <1>2 DEF Ops, BinaryOps
<1>4. Height(bstr, Len(bstr)) = NumOps(Held(stack, it - 1)) + 2
  BY <1>2, HeldCounts
<1>5. /\ IsPostfix(bstr') /\ bstr' \in Seq(Token) /\ Len(bstr') = Len(bstr) + 1
      /\ Height(bstr', Len(bstr')) = NumOps(Held(stack, it - 1)) + 1
  <2>1. /\ IsPostfix(Append(bstr, stack[it])) /\ Append(bstr, stack[it]) \in Seq(Token)
        /\ Len(Append(bstr, stack[it])) = Len(bstr) + 1
        /\ Height(Append(bstr, stack[it]), Len(bstr) + 1) = Height(bstr, Len(bstr)) + -1
    BY <1>2, <1>3, <1>4, TranslatingContext, PostfixGrows
  <2> QED
    BY <2>1, <1>1, <1>2, <1>4
<1>6. /\ done' = done /\ Translating' /\ postfix_pc' = postfix_pc /\ infix' = infix
      /\ stack' = stack /\ index' = index /\ heap' = heap
  BY DEF done, Translating
<1>7. LoopToken'
  BY <1>6, TranslatingContext DEF Translates, LoopToken
<1>8. it' + 1 + Len(bstr') <= done' /\ Len(bstr') <= Len(infix)
  BY <1>1, <1>5, <1>6, TranslatingContext
<1>9. /\ Height(bstr', Len(bstr')) = NumOps(Held(stack', it')) + Ended(infix', done')
      /\ NumParens(Held(stack', it')) = Depth(infix', done')
  BY <1>1, <1>2, <1>5, <1>6, HeldCounts
<1>10. Translates'
  BY <1>1, <1>2, <1>5, <1>6, <1>7, <1>8, <1>9, TranslatingContext DEF Translates
<1> QED
  BY <1>5, <1>6, <1>8, <1>10 DEF PostfixInv, Translating

\* A token is pushed, into the block, and read with that.
LEMMA PushKeeps ==
  ASSUME PostfixInv, Translating, done < Len(infix), infix[done + 1].t \in Ops,
         Ended(infix, done) = IF infix[done + 1].t = "(" THEN 0 ELSE 1,
         Postfix!stack_push(infix[done + 1]), postfix_pc' = "mtob", index' = done + 1,
         UNCHANGED <<infix, bstr, heap>>
  PROVE  PostfixInv'
<1>1. PICK e : e = infix[done + 1]
  OBVIOUS
<1>2. TokenFacts(infix, done) /\ e \in Token /\ e.t \in Ops
  BY <1>1, TokenAhead DEF TokenFacts
<1>3. it' = it + 1 /\ stack' = Postfix!Write(it + 1, e)
  <2>1. Postfix!stack_len = Len(infix)
    BY TranslatingContext, SameOperators DEF Postfix!stack_len
  <2> QED
    BY <1>1, <2>1, TranslatingContext DEF Postfix!stack_push
<1>4. /\ DOMAIN stack' = 0..Len(infix)
      /\ \A i \in 0..(it + 1) : stack'[i] = IF i = it + 1 THEN e ELSE stack[i]
  <2>1. \A i \in 0..(it + 1) : i \in 0..Len(infix)
    BY TranslatingContext
  <2> QED
    BY <2>1, <1>3, TranslatingContext DEF Postfix!Write
<1>5. /\ HoldsOps(stack', it + 1)
      /\ NumOps(Held(stack', it + 1)) = NumOps(Held(stack, it)) + (IF e.t = "(" THEN 0 ELSE 1)
      /\ NumParens(Held(stack', it + 1)) = NumParens(Held(stack, it))
                                             + (IF e.t = "(" THEN 1 ELSE 0)
  BY <1>2, <1>4, TranslatingContext, HeldPush
<1>6. /\ done' = done + 1 /\ Translating' /\ LoopToken' /\ infix' = infix /\ bstr' = bstr
      /\ heap' = heap
  BY TranslatingContext DEF done, Translating, LoopToken
<1>7. /\ Ended(infix, done + 1) = 0 /\ Ended(infix, done) = IF e.t = "(" THEN 0 ELSE 1
      /\ Depth(infix, done + 1) = Depth(infix, done) + (IF e.t = "(" THEN 1 ELSE 0)
  BY <1>1, <1>2 DEF TokenFacts, Ops, BinaryOps
<1>8. Height(bstr', Len(bstr')) = NumOps(Held(stack', it')) + Ended(infix', done')
  BY <1>3, <1>5, <1>6, <1>7, HeldCounts
<1>9. NumParens(Held(stack', it')) = Depth(infix', done')
  BY <1>3, <1>5, <1>6, <1>7, HeldCounts
<1>10. it' + 1 + Len(bstr') <= done'
  BY <1>3, <1>6, TranslatingContext
<1>11. Translates'
  BY <1>3, <1>4, <1>5, <1>6, <1>8, <1>9, <1>10, TranslatingContext DEF Translates
<1> QED
  BY <1>6, <1>11, TranslatingContext DEF PostfixInv, Translating

\* Now, and after a step.
LEMMA BegunInv == (Begun => PostfixInv) /\ (Begun' => PostfixInv')
<1>1. Begun => PostfixInv
  BY Begins
<1>2. (Begun => PostfixInv)'
  BY <1>1, PTL
<1> QED
  BY <1>1, <1>2

----------------------------------------------------------------------------
(* Every action of 224.c preserves the invariant.                           *)

\* An operator on an empty stack, or '(', is no ')'.
LEMMA PostfixPushOpInv == PostfixInv /\ Postfix!PushOp => PostfixInv'
<1> SUFFICES ASSUME PostfixInv, Postfix!PushOp PROVE PostfixInv'
  OBVIOUS
<1>1. /\ postfix_pc = "mtob" /\ postfix_pc' = "mtob" /\ index < Len(infix)
      /\ IsLegalOp(infix[index + 1].t) /\ (it = -1 \/ infix[index + 1].t = "(")
      /\ Postfix!stack_push(infix[index + 1]) /\ index' = index + 1
      /\ UNCHANGED <<infix, bstr, heap>>
  BY SameOperators DEF Postfix!PushOp, Postfix!AtToken, Postfix!tok, Postfix!is_empty,
                       Postfix!Consume, Postfix!Rest
<1>2. Translating /\ done = index
  BY <1>1 DEF Translating, done
<1>3. TokenFacts(infix, done)
  BY <1>1, <1>2, TokenAhead
<1>4. infix[done + 1].t # ")"
  <2>1. it = -1 => Depth(infix, done) = 0
    BY <1>2, HeldNone, HeldCounts
  <2> QED
    BY <2>1, <1>1, <1>2, <1>3 DEF TokenFacts
<1>5. infix[done + 1].t \in Ops
  BY <1>1, <1>2, <1>4 DEF IsLegalOp, Ops
<1>6. Ended(infix, done) = IF infix[done + 1].t = "(" THEN 0 ELSE 1
  BY <1>3, <1>5 DEF TokenFacts, Ops
<1> QED
  BY <1>1, <1>2, <1>5, <1>6, PushKeeps

\* A loop knows its token: the operator that starts it.
LEMMA PostfixEnterInv == PostfixInv /\ Postfix!Enter => PostfixInv'
<1> SUFFICES ASSUME PostfixInv, Postfix!Enter PROVE PostfixInv'
  OBVIOUS
<1>1. /\ postfix_pc = "mtob" /\ index < Len(infix) /\ index' = index + 1
      /\ IsLegalOp(infix[index + 1].t) /\ infix[index + 1].t # "("
      /\ postfix_pc' = IF infix[index + 1].t = ")" THEN "close" ELSE "reduce"
      /\ infix' = infix /\ bstr' = bstr /\ stack' = stack /\ it' = it /\ heap' = heap
  BY SameOperators DEF Postfix!Enter, Postfix!AtToken, Postfix!tok, Postfix!Consume,
                       Postfix!Rest
<1>2. Translating /\ done = index /\ Translating' /\ index \in Nat
  <2>1. Translating /\ done = index
    BY <1>1 DEF Translating, done
  <2> QED
    BY <2>1, <1>1, TranslatingContext DEF Translating
<1>3. done' = done
  BY <1>1, <1>2 DEF done
<1>4. LoopToken'
  <2>1. infix[done + 1].t \in IF postfix_pc' = "close" THEN {")"} ELSE BinaryOps
    BY <1>1, <1>2 DEF IsLegalOp
  <2>2. done' \in 0..Len(infix') /\ done' < Len(infix') /\ index' = done' + 1
    BY <1>1, <1>2, <1>3, TranslatingContext
  <2> QED
    BY <2>1, <2>2, <1>1, <1>3 DEF LoopToken
<1>5. Translates'
  BY <1>1, <1>2, <1>3, <1>4, TranslatingContext DEF Translates
<1> QED
  BY <1>1, <1>2, <1>5, TranslatingContext DEF PostfixInv, Translating

\* What reads a token without using the stack.
LEMMA ReadOnKeeps ==
  ASSUME PostfixInv, postfix_pc = "mtob", postfix_pc' = "mtob", index < Len(infix),
         index' = index + 1, UNCHANGED <<infix, stack, it, heap>>,
         \/ infix[index + 1].t = "space" /\ bstr' = bstr
         \/ infix[index + 1].t = "num" /\ bstr' = Append(bstr, infix[index + 1])
  PROVE  PostfixInv'
<1>1. Translating /\ done = index /\ Translating' /\ done' = done + 1
  BY DEF Translating, done
<1>2. TokenFacts(infix, done)
  BY <1>1, TokenAhead
<1>3. LoopToken'
  BY <1>1, TranslatingContext DEF LoopToken
<1>4. Depth(infix', done') = Depth(infix, done)
  BY <1>1, <1>2 DEF TokenFacts
<1>5. /\ IsPostfix(bstr') /\ bstr' \in Seq(Token)
      /\ Len(bstr') \in Len(bstr)..(Len(bstr) + 1)
      /\ Height(bstr', Len(bstr')) = NumOps(Held(stack, it)) + Ended(infix, done')
  <2>1. CASE infix[index + 1].t = "space"
    <3>1. bstr' = bstr
      BY <2>1
    <3>2. Ended(infix, done') = Ended(infix, done)
      BY <1>1, <1>2, <2>1 DEF TokenFacts
    <3> QED
      BY <3>1, <3>2, <1>1, TranslatingContext, HeldCounts
  <2>2. CASE infix[index + 1].t = "num"
    <3>1. PICK e : e = infix[done + 1]
      OBVIOUS
    <3>2. bstr' = Append(bstr, e) /\ e \in Token /\ e.t = "num"
      BY <3>1, <2>2, <1>1, <1>2 DEF TokenFacts
    <3>3. Ended(infix, done) = 0 /\ Ended(infix, done') = 1
      BY <3>1, <3>2, <1>1, <1>2 DEF TokenFacts
    <3>4. /\ IsPostfix(bstr') /\ bstr' \in Seq(Token) /\ Len(bstr') = Len(bstr) + 1
          /\ Height(bstr', Len(bstr) + 1) = Height(bstr, Len(bstr)) + 1
      BY <3>2, <1>1, TranslatingContext, PostfixGrows
    <3> QED
      BY <3>3, <3>4, <1>1, TranslatingContext, HeldCounts
  <2> QED
    BY <2>1, <2>2
<1>6. it' + 1 + Len(bstr') <= done' /\ Len(bstr') <= Len(infix)
  BY <1>1, <1>5, TranslatingContext
<1>7. Translates'
  BY <1>1, <1>3, <1>4, <1>5, <1>6, TranslatingContext, HeldCounts DEF Translates
<1> QED
  BY <1>1, <1>5, <1>6, <1>7, TranslatingContext DEF PostfixInv, Translating

\* A space is skipped by mtob().
LEMMA PostfixSkipSpaceInv == PostfixInv /\ Postfix!SkipSpace => PostfixInv'
  BY ReadOnKeeps DEF Postfix!SkipSpace, Postfix!AtToken, Postfix!tok, Postfix!Consume,
                     Postfix!Rest

\* A number goes to the postfix string at once.
LEMMA PostfixEmitNumInv == PostfixInv /\ Postfix!EmitNum => PostfixInv'
  BY ReadOnKeeps DEF Postfix!EmitNum, Postfix!AtToken, Postfix!tok, Postfix!Consume,
                     Postfix!Rest

\* The loop of ')' finds something, for its '(' is still there.
LEMMA CloseFinds ==
  ASSUME PostfixInv, postfix_pc = "close"
  PROVE  /\ Translating /\ done < Len(infix) /\ index = done + 1
         /\ infix[done + 1].t = ")" /\ TokenFacts(infix, done)
         /\ it >= 0 /\ Ended(infix, done) = 1 /\ Postfix!Read(it) = stack[it]
<1>1. Translating
  BY DEF Translating
<1>2. done < Len(infix) /\ index = done + 1 /\ infix[done + 1].t = ")"
  BY <1>1, TranslatingContext DEF Translates, LoopToken
<1>3. TokenFacts(infix, done)
  BY <1>1, <1>2, TokenAhead
<1>4. Depth(infix, done) # 0 /\ Ended(infix, done) = 1
  BY <1>2, <1>3 DEF TokenFacts
<1>5. it # -1
  BY <1>1, <1>4, HeldNone, HeldCounts
<1> QED
  BY <1>1, <1>2, <1>3, <1>4, <1>5, TranslatingContext

\* The loop of ')' writes the operator on top.
LEMMA PostfixCloseStepInv == PostfixInv /\ Postfix!CloseStep => PostfixInv'
<1> SUFFICES ASSUME PostfixInv, Postfix!CloseStep PROVE PostfixInv'
  OBVIOUS
<1>1. postfix_pc = "close" /\ Postfix!Read(it).t # "(" /\ Postfix!PopAndEmit
      /\ UNCHANGED <<infix, postfix_pc, index, stack, heap>>
  BY DEF Postfix!CloseStep, Postfix!Rest
<1> QED
  BY <1>1, CloseFinds, EmitKeeps

\* The loop of ')' takes its '(' off the stack.
LEMMA PostfixCloseEndInv == PostfixInv /\ Postfix!CloseEnd => PostfixInv'
<1> SUFFICES ASSUME PostfixInv, Postfix!CloseEnd PROVE PostfixInv'
  OBVIOUS
<1>1. /\ postfix_pc = "close" /\ Postfix!Read(it).t = "(" /\ it' = it - 1
      /\ postfix_pc' = "mtob"
      /\ infix' = infix /\ bstr' = bstr /\ index' = index /\ stack' = stack /\ heap' = heap
  BY DEF Postfix!CloseEnd, Postfix!Rest
<1>2. /\ Translating /\ done < Len(infix) /\ index = done + 1 /\ infix[done + 1].t = ")"
      /\ TokenFacts(infix, done) /\ it >= 0 /\ Ended(infix, done) = 1 /\ stack[it].t = "("
  BY <1>1, CloseFinds
<1>3. Translating' /\ done' = done + 1
  BY <1>1, <1>2 DEF Translating, done
<1>4. LoopToken'
  BY <1>1, <1>2, <1>3, TranslatingContext DEF LoopToken
<1>5. /\ HoldsOps(stack, it - 1)
      /\ NumOps(Held(stack, it)) = NumOps(Held(stack, it - 1))
      /\ NumParens(Held(stack, it)) = NumParens(Held(stack, it - 1)) + 1
      /\ NumOps(Held(stack, it - 1)) \in Nat /\ NumParens(Held(stack, it - 1)) \in Nat
  <2>1. HoldsOps(stack, it)
    BY <1>2, TranslatingContext
  <2>2. /\ HoldsOps(stack, it - 1)
        /\ NumOps(Held(stack, it)) = NumOps(Held(stack, it - 1))
                                     + (IF stack[it].t = "(" THEN 0 ELSE 1)
        /\ NumParens(Held(stack, it)) = NumParens(Held(stack, it - 1))
                                        + (IF stack[it].t = "(" THEN 1 ELSE 0)
        /\ NumOps(Held(stack, it - 1)) \in Nat /\ NumParens(Held(stack, it - 1)) \in Nat
    BY <1>2, <2>1, HeldPop
  <2> QED
    BY <1>2, <2>2
<1>6. Ended(infix, done + 1) = 1 /\ Depth(infix, done + 1) = Depth(infix, done) - 1
  BY <1>2 DEF TokenFacts
<1>7. /\ Height(bstr, Len(bstr)) = NumOps(Held(stack, it - 1)) + Ended(infix, done + 1)
      /\ NumParens(Held(stack, it - 1)) = Depth(infix, done + 1)
  BY <1>2, <1>5, <1>6, HeldCounts
<1>8. it - 1 + 1 + Len(bstr) <= done + 1
  BY <1>2, TranslatingContext
<1>9. Translates'
  BY <1>1, <1>2, <1>3, <1>4, <1>5, <1>7, <1>8, TranslatingContext DEF Translates
<1> QED
  BY <1>1, <1>2, <1>3, <1>9, TranslatingContext DEF PostfixInv, Translating

\* The loop of an operator: an operand ended before it.
LEMMA ReduceKnows ==
  ASSUME PostfixInv, postfix_pc = "reduce"
  PROVE  /\ Translating /\ done < Len(infix) /\ index = done + 1
         /\ infix[done + 1].t \in BinaryOps /\ Ended(infix, done) = 1
<1>1. Translating
  BY DEF Translating
<1>2. done < Len(infix) /\ index = done + 1 /\ infix[done + 1].t \in BinaryOps
  BY <1>1, TranslatingContext DEF Translates, LoopToken
<1>3. TokenFacts(infix, done)
  BY <1>1, <1>2, TokenAhead
<1> QED
  BY <1>1, <1>2, <1>3 DEF TokenFacts

\* The loop of an operator writes one of no lower priority.
LEMMA PostfixReduceStepInv == PostfixInv /\ Postfix!ReduceStep => PostfixInv'
<1> SUFFICES ASSUME PostfixInv, Postfix!ReduceStep PROVE PostfixInv'
  OBVIOUS
<1>1. /\ postfix_pc = "reduce" /\ Postfix!PopAndEmit /\ it # -1
      /\ Prio(infix[index].t) <= Prio(Postfix!Read(it).t)
      /\ UNCHANGED <<infix, postfix_pc, index, stack, heap>>
  BY SameOperators DEF Postfix!ReduceStep, Postfix!MustReduce, Postfix!cu,
                       Postfix!is_empty, Postfix!Rest
<1>2. /\ Translating /\ done < Len(infix) /\ index = done + 1
      /\ infix[index].t \in BinaryOps /\ Ended(infix, done) = 1
  BY <1>1, ReduceKnows
<1>3. it >= 0 /\ Postfix!Read(it) = stack[it]
  BY <1>1, <1>2, TranslatingContext
<1>4. stack[it].t # "("
  BY <1>1, <1>2, <1>3 DEF Prio, BinaryOps
<1> QED
  BY <1>1, <1>2, <1>3, <1>4, EmitKeeps

\* The loop of an operator ends, and the operator is pushed.
LEMMA PostfixReduceEndInv == PostfixInv /\ Postfix!ReduceEnd => PostfixInv'
<1> SUFFICES ASSUME PostfixInv, Postfix!ReduceEnd PROVE PostfixInv'
  OBVIOUS
<1>1. /\ postfix_pc = "reduce" /\ postfix_pc' = "mtob" /\ Postfix!stack_push(infix[index])
      /\ index' = index /\ UNCHANGED <<infix, bstr, heap>>
  BY DEF Postfix!ReduceEnd, Postfix!Rest
<1>2. /\ Translating /\ done < Len(infix) /\ index = done + 1
      /\ infix[done + 1].t \in BinaryOps /\ Ended(infix, done) = 1
  BY <1>1, ReduceKnows
<1>3. infix[done + 1].t \in Ops /\ infix[done + 1].t # "("
  BY <1>2 DEF Ops, BinaryOps
<1> QED
  BY <1>1, <1>2, <1>3, PushKeeps

\* At the end of the text an operand has ended and no parenthesis is open.
LEMMA EndKnows ==
  ASSUME PostfixInv, postfix_pc = "mtob", index = Len(infix)
  PROVE  Translating /\ done = index /\ Ended(infix, done) = 1
         /\ NumParens(Held(stack, it)) = 0
<1>1. Translating /\ done = index
  BY DEF Translating, done
<1>2. Ended(infix, done) = 1 /\ Depth(infix, done) = 0
  BY <1>1, TranslatingContext DEF WellFormed, Ended
<1> QED
  BY <1>1, <1>2, HeldCounts

\* At the end of the text the operators that wait are written.
LEMMA PostfixDrainStepInv == PostfixInv /\ Postfix!DrainStep => PostfixInv'
<1> SUFFICES ASSUME PostfixInv, Postfix!DrainStep PROVE PostfixInv'
  OBVIOUS
<1>1. /\ postfix_pc = "mtob" /\ index = Len(infix) /\ it # -1 /\ Postfix!PopAndEmit
      /\ UNCHANGED <<infix, postfix_pc, index, stack, heap>>
  BY DEF Postfix!DrainStep, Postfix!is_empty, Postfix!Rest
<1>2. Translating /\ Ended(infix, done) = 1 /\ NumParens(Held(stack, it)) = 0
  BY <1>1, EndKnows
<1>3. it >= 0
  BY <1>1, <1>2, TranslatingContext
<1>4. stack[it].t # "("
  <2>1. /\ NumParens(Held(stack, it)) = NumParens(Held(stack, it - 1))
                                          + (IF stack[it].t = "(" THEN 1 ELSE 0)
        /\ NumParens(Held(stack, it - 1)) \in Nat
    BY <1>2, <1>3, TranslatingContext, HeldPop
  <2> QED
    BY <2>1, <1>2
<1> QED
  BY <1>1, <1>2, <1>3, <1>4, EmitKeeps

\* Nothing waits any more: the postfix string leaves one number.
LEMMA PostfixReturnPostfixInv == PostfixInv /\ Postfix!ReturnPostfix => PostfixInv'
<1> SUFFICES ASSUME PostfixInv, Postfix!ReturnPostfix PROVE PostfixInv'
  OBVIOUS
<1>1. /\ postfix_pc = "mtob" /\ index = Len(infix) /\ it = -1
      /\ stack' = Postfix!Block(2 * Len(bstr)) /\ postfix_pc' = "cal_bstr" /\ index' = 0
      /\ infix' = infix /\ bstr' = bstr /\ it' = it /\ heap' = heap
  BY DEF Postfix!ReturnPostfix, Postfix!is_empty, Postfix!bi
<1>2. Translating /\ Ended(infix, done) = 1
  BY <1>1, EndKnows
<1>3. Height(bstr, Len(bstr)) = 1
  BY <1>1, <1>2, HeldCounts, HeldNone
<1>4. DOMAIN stack' = 0..(2 * Len(bstr))
  BY <1>1 DEF Postfix!Block
<1>5. heap = 2 /\ Height(bstr, 0) = 0
  BY <1>2, TranslatingContext, HeightZero DEF Translates
<1>6. Evaluates'
  BY <1>1, <1>2, <1>3, <1>4, <1>5, TranslatingContext DEF Evaluates
<1> QED
  BY <1>1, <1>2, <1>6, TranslatingContext DEF PostfixInv, Translating

\* Facts that every step of cal_bstr() starts from.
LEMMA EvaluatingContext ==
  ASSUME PostfixInv, postfix_pc = "cal_bstr"
  PROVE  /\ Evaluates /\ IsPostfix(bstr)
         /\ infix \in Seq(Token) /\ bstr \in Seq(Token) /\ Len(bstr) <= Len(infix)
         /\ Len(bstr) \in Nat /\ index \in Nat /\ index <= Len(bstr)
         /\ it \in Int /\ it >= -1 /\ it + 1 <= index /\ it + 1 = Height(bstr, index)
         /\ DOMAIN stack = 0..(2 * Len(bstr))
         /\ Cardinality(DOMAIN stack) - 1 = 2 * Len(bstr)
<1>1. Evaluates /\ infix \in Seq(Token) /\ bstr \in Seq(Token) /\ Len(bstr) <= Len(infix)
  BY DEF PostfixInv
<1>2. Len(bstr) \in Nat /\ 2 * Len(bstr) \in Nat
  BY <1>1
<1>3. Cardinality(DOMAIN stack) - 1 = 2 * Len(bstr) /\ DOMAIN stack = 0..(2 * Len(bstr))
  BY <1>1, <1>2, BlockLength DEF Evaluates
<1> QED
  BY <1>1, <1>2, <1>3 DEF Evaluates

\* One item is read: a number is one more on the stack, an operator one less.
LEMMA ItemKeeps ==
  ASSUME PostfixInv, postfix_pc = "cal_bstr", postfix_pc' = "cal_bstr", index < Len(bstr),
         index' = index + 1, it' = IF bstr[index + 1].t = "num" THEN it + 1 ELSE it - 1,
         DOMAIN stack' = DOMAIN stack, UNCHANGED <<infix, bstr, heap>>
  PROVE  PostfixInv'
<1>1. index + 1 \in 1..Len(bstr) /\ (index + 1) - 1 = index
  BY EvaluatingContext
<1>2. /\ Height(bstr, (index + 1) - 1) \in Int
      /\ Height(bstr, index + 1) = Height(bstr, (index + 1) - 1)
                                     + (IF bstr[index + 1].t = "num" THEN 1 ELSE -1)
  BY <1>1, EvaluatingContext, HeightStep
<1>3. Height(bstr', index') = it' + 1
  BY <1>1, <1>2, EvaluatingContext
<1>4. bstr[index + 1].t # "num" => Height(bstr, index) >= 2
  BY <1>1, EvaluatingContext DEF IsPostfix
<1>5. it' \in -1..(index' - 1)
  BY <1>4, EvaluatingContext
<1>6. Evaluates'
  BY <1>1, <1>3, <1>5, EvaluatingContext DEF Evaluates
<1> QED
  BY <1>6, EvaluatingContext DEF PostfixInv, Translating

\* cal_bstr() pushes a number.
LEMMA PostfixPushNumInv == PostfixInv /\ Postfix!PushNum => PostfixInv'
<1> SUFFICES ASSUME PostfixInv, Postfix!PushNum PROVE PostfixInv'
  OBVIOUS
<1>1. /\ postfix_pc = "cal_bstr" /\ postfix_pc' = "cal_bstr" /\ index < Len(bstr)
      /\ bstr[index + 1].t = "num" /\ Postfix!stack_push(bstr[index + 1])
      /\ index' = index + 1 /\ UNCHANGED <<infix, bstr, heap>>
  BY DEF Postfix!PushNum, Postfix!AtItem, Postfix!item, Postfix!Consume, Postfix!Rest
<1>2. it' = it + 1 /\ DOMAIN stack' = DOMAIN stack
  <2>1. it <= Postfix!stack_len
    BY <1>1, EvaluatingContext, SameOperators DEF Postfix!stack_len
  <2> QED
    BY <2>1, <1>1 DEF Postfix!stack_push, Postfix!Write
<1> QED
  BY <1>1, <1>2, ItemKeeps

\* cal_bstr() computes with the two numbers on top, or dies of SIGFPE.
LEMMA PostfixApplyInv == PostfixInv /\ Postfix!Apply => PostfixInv'
<1> SUFFICES ASSUME PostfixInv, Postfix!Apply PROVE PostfixInv'
  OBVIOUS
<1>1. /\ postfix_pc = "cal_bstr" /\ index < Len(bstr) /\ IsLegalOp(bstr[index + 1].t)
      /\ infix' = infix /\ bstr' = bstr /\ heap' = heap
  BY SameOperators DEF Postfix!Apply, Postfix!AtItem, Postfix!item, Postfix!Rest
<1>2. CASE /\ postfix_pc' = "trap"
           /\ it' = it /\ stack' = stack /\ index' = index
  <2>1. Evaluates'
    BY <1>1, <1>2, EvaluatingContext DEF Evaluates
  <2> QED
    BY <1>1, <1>2, <2>1, EvaluatingContext DEF PostfixInv, Translating
<1>3. CASE /\ it' = it - 1 /\ DOMAIN stack' = DOMAIN stack
           /\ index' = index + 1 /\ postfix_pc' = postfix_pc
  <2>1. bstr[index + 1].t # "num"
    BY <1>1 DEF IsLegalOp, BinaryOps
  <2> QED
    BY <1>1, <1>3, <2>1, ItemKeeps
<1> QED
  BY <1>2, <1>3 DEF Postfix!Apply, Postfix!Write, Postfix!Consume

\* cal_bstr() pops its result, and both blocks are freed.
LEMMA PostfixReturnInv == PostfixInv /\ Postfix!Return => PostfixInv'
<1> SUFFICES ASSUME PostfixInv, Postfix!Return PROVE PostfixInv'
  OBVIOUS
<1>1. /\ postfix_pc = "cal_bstr" /\ index = Len(bstr) /\ it' = it - 1 /\ stack' = <<>>
      /\ heap' = heap - 2 /\ postfix_pc' = "returned"
      /\ infix' = infix /\ bstr' = bstr
  BY DEF Postfix!Return, Postfix!Freed
<1>2. it = 0 /\ heap = 2
  BY <1>1, EvaluatingContext DEF Evaluates
<1> QED
  BY <1>1, <1>2, EvaluatingContext DEF PostfixInv, Translating

\* main() calls again with a well-formed string.
LEMMA PostfixCallInv == PostfixInv /\ Postfix!Call => PostfixInv'
<1> SUFFICES ASSUME PostfixInv, Postfix!Call PROVE PostfixInv'
  OBVIOUS
<1>1. it = -1 /\ heap = 0
  BY DEF PostfixInv, Postfix!Call
<1>2. WellFormed(infix')
  BY CalculatorsAssumption, SameOperators DEF Postfix!Call, Postfix!PostfixAssumption
<1>3. /\ bstr' = <<>> /\ postfix_pc' = "mtob" /\ index' = 0
      /\ stack' = [i \in 0..Len(infix') |-> Postfix!Blank] /\ it' = it /\ heap' = heap + 2
  BY DEF Postfix!Call, Postfix!Block, Postfix!Blank
<1>4. it' = -1 /\ heap' = 2
  BY <1>1, <1>3
<1>5. stack' = Postfix!Block(Len(infix))'
  BY <1>3 DEF Postfix!Block, Postfix!Blank
<1>6. Begun'
  BY <1>2, <1>3, <1>4, <1>5 DEF Begun
<1> QED
  BY <1>6, BegunInv

\* A step that leaves the variables of 224.c as they are.
LEMMA PostfixStutterInv == PostfixInv /\ UNCHANGED main => PostfixInv'
<1> SUFFICES ASSUME PostfixInv, UNCHANGED main PROVE PostfixInv'
  OBVIOUS
<1>1. /\ infix' = infix /\ bstr' = bstr /\ postfix_pc' = postfix_pc /\ index' = index
      /\ stack' = stack /\ it' = it /\ heap' = heap
  BY DEF main
<1>2. done' = done
  BY <1>1 DEF done
<1>3. LoopToken => LoopToken'
  BY <1>1, <1>2 DEF LoopToken
<1>4. Translates => Translates'
  BY <1>1, <1>2, <1>3 DEF Translates
<1>5. Evaluates => Evaluates'
  BY <1>1 DEF Evaluates
<1> QED
  BY <1>1, <1>4, <1>5 DEF PostfixInv, Translating

\* Every step of 224.c preserves the invariant.
LEMMA PostfixNextInv == PostfixInv /\ Postfix!Next => PostfixInv'
<1>1. Postfix!Terminated => UNCHANGED main
  BY DEF Postfix!Terminated, Postfix!vars, main
<1> QED
  BY <1>1, PostfixPushOpInv, PostfixEnterInv, PostfixSkipSpaceInv, PostfixEmitNumInv,
     PostfixCloseStepInv, PostfixCloseEndInv, PostfixReduceStepInv, PostfixReduceEndInv,
     PostfixDrainStepInv, PostfixReturnPostfixInv, PostfixPushNumInv, PostfixApplyInv,
     PostfixReturnInv, PostfixCallInv, PostfixStutterInv
     DEF Postfix!Next, Postfix!Compute

\* For any set of well-formed strings and any number of calls, both
\* calculators in one behaviour: the invariant of 224.c.
THEOREM PostfixInvariance == CalculatorsSpec => []PostfixInv
<1>1. CalculatorsInit => PostfixInv
  <2>1. ASSUME Postfix!Init PROVE PostfixInv
    <3>1. WellFormed(infix)
      BY <2>1, CalculatorsAssumption, SameOperators DEF Postfix!Init, Postfix!PostfixAssumption
    <3>2. Begun
      BY <2>1, <3>1 DEF Begun, Postfix!Init
    <3> QED
      BY <3>2, BegunInv
  <2>2. ASSUME PostfixAtRest PROVE PostfixInv
    BY <2>2 DEF PostfixAtRest, PostfixInv, Translating
  <2> QED
    BY <2>1, <2>2 DEF CalculatorsInit
<1>2. PostfixInv /\ [CalculatorsNext]_<<part, vars, main>> => PostfixInv'
  BY PostfixNextInv, PostfixStutterInv DEF CalculatorsNext
<1> QED
  BY <1>1, <1>2, PTL DEF CalculatorsSpec

\* No read or write of 224.c leaves a block, whatever well-formed strings it
\* is called with, although its stack functions do not prevent it.
THEOREM StackStaysInBlock == CalculatorsSpec => []StaysInBlock
<1>1. PostfixInv => StaysInBlock
  BY InvSays
<1> QED
  BY <1>1, PostfixInvariance, PTL

\* The global stack and its index are as before the first call when a call
\* has returned, and every block is freed.
THEOREM NothingIsLeft == CalculatorsSpec => []CallsLeaveNothing
<1>1. PostfixInv => CallsLeaveNothing
  BY InvSays
<1> QED
  BY <1>1, PostfixInvariance, PTL

----------------------------------------------------------------------------
(* The value of a part of an expression.                                    *)

\* The numbers, as a well-founded order.
LessThan == {w \in Nat \X Nat : w[1] < w[2]}

\* A set of numbers has a least one.
LEMMA Least ==
  ASSUME NEW S, S \subseteq Nat, S # {}
  PROVE  \E m \in S : \A x \in S : m <= x
<1>1. IsWellFoundedOn(OpToRel(<, Nat), Nat)
  BY NatLessThanWellFounded
<1>2. OpToRel(<, Nat) = LessThan
  BY Zenon DEF OpToRel, LessThan
<1>3. IsWellFoundedOn(LessThan, Nat)
  BY <1>1, <1>2, Zenon
<1>4. PICK m \in S : \A x \in S : ~(<<x, m>> \in LessThan)
  BY <1>3, WFMin
<1>5. \A a, b \in Nat : a < b => <<a, b>> \in LessThan
  BY DEF LessThan
<1>6. \A x \in S : m <= x
  <2> TAKE x \in S
  <2>1. ~(x < m) /\ x \in Nat /\ m \in Nat
    BY <1>4, <1>5
  <2> QED BY <2>1
<1> QED BY <1>6

\* A set of positions that is not empty has a first and a last one.
LEMMA FirstLast ==
  ASSUME NEW i \in Int, NEW j \in Int, NEW S, S \subseteq i..j, S # {}
  PROVE  /\ Min(S) \in S /\ Min(S) \in i..j /\ \A x \in S : Min(S) <= x
         /\ Max(S) \in S /\ Max(S) \in i..j /\ \A x \in S : x <= Max(S)
<1>1. \E m \in S : \A x \in S : m <= x
  <2> DEFINE T == {x - i : x \in S}
  <2>1. T \subseteq Nat /\ T # {}
    <3>1. \A x \in S : x - i \in Nat
      OBVIOUS
    <3> QED BY <3>1
  <2> HIDE DEF T
  <2>2. PICK t \in T : \A x \in T : t <= x
    BY <2>1, Least
  <2>3. PICK m \in S : t = m - i
    BY DEF T
  <2>4. ASSUME NEW x \in S PROVE m <= x
    <3>1. x - i \in T
      BY DEF T
    <3>2. m - i <= x - i /\ x \in Int /\ m \in Int
      BY <3>1, <2>2, <2>3
    <3> QED BY <3>2
  <2> QED BY <2>4
<1>2. \E m \in S : \A x \in S : x <= m
  <2> DEFINE T == {j - x : x \in S}
  <2>1. T \subseteq Nat /\ T # {}
    OBVIOUS
  <2> HIDE DEF T
  <2>2. PICK t \in T : \A x \in T : t <= x
    BY <2>1, Least
  <2>3. PICK m \in S : t = j - m
    BY DEF T
  <2>4. ASSUME NEW x \in S PROVE x <= m
    <3>1. j - x \in T
      BY DEF T
    <3>2. j - m <= j - x /\ x \in Int /\ m \in Int
      BY <3>1, <2>2, <2>3
    <3> QED BY <3>2
  <2> QED BY <2>4
<1>3. \A x, y \in S : (x >= y <=> y <= x) /\ x \in Int
  OBVIOUS
<1>4. Min(S) \in S /\ \A x \in S : Min(S) <= x
  <2>1. \E m \in S : \A x \in S : m <= x
    BY <1>1
  <2> QED BY <2>1 DEF Min
<1>5. Max(S) \in S /\ \A x \in S : x <= Max(S)
  <2>1. \E m \in S : \A x \in S : m >= x
    BY <1>2, <1>3
  <2>2. Max(S) \in S /\ \A x \in S : Max(S) >= x
    BY <2>1 DEF Max
  <2> QED BY <2>2, <1>3
<1> QED BY <1>4, <1>5

\* The parts of a string, and what Values gives for one if f gives the others.
Parts(str) == (1..Len(str) + 1) \X (0..Len(str))

PartValue(str, f, w) ==
  LET i    == w[1]
      j    == w[2]
      at   == SplitAt(str, i, j)
      text == Text(str, i, j)
  IN  IF text = {} THEN Undefined
      ELSE IF at # 0 THEN Combine(str[at].t, f[<<i, at - 1>>], f[<<at + 1, j>>])
      ELSE IF str[Min(text)].t = "(" THEN f[<<Min(text) + 1, Max(text) - 1>>]
      ELSE <<str[Min(text)].v>>

\* Such a function is what Values says.
LEMMA ValuesIs ==
  ASSUME NEW str
  PROVE  Values(str) = CHOOSE f : f = [w \in Parts(str) |-> PartValue(str, f, w)]
BY DEF Values, PartValue, Parts

\* An operator outside of the parentheses of the part that begins at i.
Outside(str, i, k) == str[k].t \in BinaryOps /\ Depth(str, k) = Depth(str, i - 1)

\* A split is in the part, outside of its parentheses, at an operator; a low one
\* if there is any; and the last of its kind.
LEMMA SplitFacts ==
  ASSUME NEW str, NEW i \in Int, NEW j \in Int, i > 0
  PROVE  LET at == SplitAt(str, i, j)
         IN  /\ at # 0 =>
                  /\ at \in i..j /\ Outside(str, i, at)
                  /\ \A k \in i..j : Outside(str, i, k) =>
                       \/ k <= at /\ Prio(str[at].t) <= Prio(str[k].t)
                       \/ Prio(str[at].t) < Prio(str[k].t)
             /\ at = 0 => \A k \in i..j : ~Outside(str, i, k)
<1> DEFINE Places(ops) == {k \in i..j : str[k].t \in ops /\ Depth(str, k) = Depth(str, i - 1)}
           at == SplitAt(str, i, j)
<1>1. ASSUME NEW ops
      PROVE  /\ Places(ops) = {} => LastOutside(str, i, j, ops) = 0
             /\ Places(ops) # {} => /\ LastOutside(str, i, j, ops) \in Places(ops)
                                    /\ LastOutside(str, i, j, ops) \in i..j
                                    /\ \A k \in Places(ops) : k <= LastOutside(str, i, j, ops)
  <2>1. LastOutside(str, i, j, ops) = IF Places(ops) = {} THEN 0 ELSE Max(Places(ops))
    BY DEF LastOutside
  <2>2. Places(ops) \subseteq i..j
    OBVIOUS
  <2>3. ASSUME Places(ops) # {}
        PROVE  /\ Max(Places(ops)) \in Places(ops) /\ Max(Places(ops)) \in i..j
               /\ \A k \in Places(ops) : k <= Max(Places(ops))
    <3> HIDE DEF Places
    <3> QED BY <2>2, <2>3, FirstLast
  <2> HIDE DEF Places
  <2> QED BY <2>1, <2>3
<1> DEFINE L == {"+", "-"}
           H == {"*", "/"}
<1>2. /\ \A c \in L : Prio(c) = 1 /\ c \in BinaryOps
      /\ \A c \in H : Prio(c) = 2 /\ c \in BinaryOps
      /\ \A c \in BinaryOps : c \in L \/ c \in H
  BY DEF Prio, BinaryOps
<1>3. \A k : k \in i..j => k # 0
  OBVIOUS
<1>4. CASE Places(L) # {}
  <2>1. /\ LastOutside(str, i, j, L) \in Places(L) /\ LastOutside(str, i, j, L) \in i..j
        /\ \A k \in Places(L) : k <= LastOutside(str, i, j, L)
    <3> HIDE DEF Places, L
    <3> QED BY <1>1, <1>4
  <2>2. LastOutside(str, i, j, L) # 0
    BY <2>1, <1>3
  <2>3. at = LastOutside(str, i, j, L)
    BY <2>2 DEF SplitAt
  <2> HIDE DEF at
  <2>4. at \in Places(L) /\ at # 0 /\ at \in i..j /\ \A k \in Places(L) : k <= at
    BY <2>1, <2>2, <2>3
  <2>5. at \in i..j /\ Outside(str, i, at) /\ Prio(str[at].t) = 1
    <3> HIDE DEF L, H
    <3> QED BY <2>4, <1>2 DEF Outside
  <2>6. \A k \in i..j : Outside(str, i, k) => (k <= at /\ Prio(str[k].t) = 1) \/ Prio(str[k].t) = 2
    <3> HIDE DEF L, H
    <3> QED BY <2>4, <1>2 DEF Outside
  <2>7. \A k \in i..j : Outside(str, i, k) =>
                       \/ k <= at /\ Prio(str[at].t) <= Prio(str[k].t)
                       \/ Prio(str[at].t) < Prio(str[k].t)
    <3> HIDE DEF L
    <3> QED BY <2>5, <2>6
  <2> QED BY <2>4, <2>5, <2>7 DEF at
<1>5. CASE Places(L) = {}
  <2>1. LastOutside(str, i, j, L) = 0
    <3> HIDE DEF Places, L
    <3> QED BY <1>1, <1>5
  <2>2. at = LastOutside(str, i, j, H)
    BY <2>1 DEF SplitAt
  <2> HIDE DEF at
  <2>3. \A k \in i..j : Outside(str, i, k) => k \in Places(H) /\ Prio(str[k].t) = 2
    <3>1. \A k \in i..j : Outside(str, i, k) => str[k].t \notin L
      BY <1>5 DEF Outside
    <3> HIDE DEF L, H
    <3> QED BY <3>1, <1>2 DEF Outside
  <2>4. CASE Places(H) = {}
    <3>1. at = 0
      <4> HIDE DEF Places, H
      <4> QED BY <2>2, <2>4, <1>1
    <3>2. \A k \in i..j : ~Outside(str, i, k)
      <4> HIDE DEF Places, H
      <4> QED BY <2>3, <2>4
    <3> QED BY <3>1, <3>2 DEF at
  <2>5. CASE Places(H) # {}
    <3>1. at \in Places(H) /\ at \in i..j /\ at # 0 /\ \A k \in Places(H) : k <= at
      <4>1. at \in Places(H) /\ at \in i..j /\ \A k \in Places(H) : k <= at
        <5> HIDE DEF Places, H
        <5> QED BY <2>2, <2>5, <1>1
      <4> QED BY <4>1, <1>3
    <3>2. Outside(str, i, at) /\ Prio(str[at].t) = 2
      <4> HIDE DEF L, H
      <4> QED BY <3>1, <1>2 DEF Outside
    <3>3. \A k \in i..j : Outside(str, i, k) => k <= at /\ Prio(str[at].t) <= Prio(str[k].t)
      <4> HIDE DEF Places, H
      <4> QED BY <2>3, <3>1, <3>2
    <3> QED BY <3>1, <3>2, <3>3 DEF at
  <2> QED BY <2>4, <2>5
<1> QED BY <1>4, <1>5

\* How long a part is, counted from 0.
Length(str, w) == w[2] - w[1] + Len(str) + 1

\* A part's value rests on the values of shorter parts.
LEMMA ShorterParts ==
  ASSUME NEW str, Len(str) \in Nat, NEW w \in Parts(str), NEW f, NEW g,
         \A x \in Parts(str) : Length(str, x) < Length(str, w) => f[x] = g[x]
  PROVE  PartValue(str, f, w) = PartValue(str, g, w)
<1> DEFINE n == Len(str)
           i == w[1]
           j == w[2]
           at == SplitAt(str, i, j)
           text == Text(str, i, j)
<1>1. i \in 1..n + 1 /\ j \in 0..n /\ i \in Int /\ j \in Int /\ i > 0 /\ n \in Nat
  BY DEF Parts
<1>2. text \subseteq i..j
  BY DEF Text
<1>3. ASSUME at # 0
      PROVE  f[<<i, at - 1>>] = g[<<i, at - 1>>] /\ f[<<at + 1, j>>] = g[<<at + 1, j>>]
  <2> HIDE DEF at, n, i, j
  <2>1. at \in i..j
    BY <1>1, <1>3, SplitFacts DEF at
  <2>2. /\ i \in 1..n + 1 /\ at - 1 \in 0..n /\ (at - 1) - i + n + 1 < j - i + n + 1
        /\ at + 1 \in 1..n + 1 /\ j \in 0..n /\ j - (at + 1) + n + 1 < j - i + n + 1
    BY <2>1, <1>1
  <2>3. <<i, at - 1>> \in Parts(str) /\ <<at + 1, j>> \in Parts(str)
    BY <2>2 DEF Parts, n
  <2>4. /\ Length(str, <<i, at - 1>>) < Length(str, w)
        /\ Length(str, <<at + 1, j>>) < Length(str, w)
    BY <2>2 DEF Length, n, i, j
  <2> QED BY <2>3, <2>4
<1>4. ASSUME text # {}
      PROVE  f[<<Min(text) + 1, Max(text) - 1>>] = g[<<Min(text) + 1, Max(text) - 1>>]
  <2> HIDE DEF text, n, i, j
  <2>1. PICK x \in i..j, y \in i..j : x = Min(text) /\ y = Max(text)
    BY <1>1, <1>2, <1>4, FirstLast
  <2>2. PICK a : a = x + 1
    OBVIOUS
  <2>3. PICK b : b = y - 1
    OBVIOUS
  <2>4. a \in 1..n + 1 /\ b \in 0..n /\ b - a + n + 1 < j - i + n + 1
    <3>1. x \in Int /\ y \in Int /\ i <= x /\ x <= j /\ i <= y /\ y <= j
      BY <1>1
    <3>2. 1 <= i /\ i <= n + 1 /\ 0 <= j /\ j <= n
      BY <1>1
    <3>3. b - a < j - i /\ a \in 1..n + 1 /\ b \in 0..n
      BY <3>1, <3>2, <2>2, <2>3, <1>1
    <3> QED BY <3>1, <3>3, <1>1
  <2>5. <<a, b>> \in Parts(str) /\ Length(str, <<a, b>>) < Length(str, w)
    BY <2>4 DEF Parts, Length, n, i, j
  <2>6. f[<<a, b>>] = g[<<a, b>>]
    BY <2>5
  <2> QED BY <2>1, <2>2, <2>3, <2>6
<1>5. PartValue(str, f, w) =
        IF text = {} THEN Undefined
        ELSE IF at # 0 THEN Combine(str[at].t, f[<<i, at - 1>>], f[<<at + 1, j>>])
        ELSE IF str[Min(text)].t = "(" THEN f[<<Min(text) + 1, Max(text) - 1>>]
        ELSE <<str[Min(text)].v>>
  BY DEF PartValue
<1>6. PartValue(str, g, w) =
        IF text = {} THEN Undefined
        ELSE IF at # 0 THEN Combine(str[at].t, g[<<i, at - 1>>], g[<<at + 1, j>>])
        ELSE IF str[Min(text)].t = "(" THEN g[<<Min(text) + 1, Max(text) - 1>>]
        ELSE <<str[Min(text)].v>>
  BY DEF PartValue
<1> HIDE DEF at, text, i, j
<1> QED BY <1>3, <1>4, <1>5, <1>6

\* There is such a function: for every length one that is right on the parts that
\* are no longer, or there would be a least length without.
LEMMA ValuesExist ==
  ASSUME NEW str, Len(str) \in Nat
  PROVE  \E f : f = [w \in Parts(str) |-> PartValue(str, f, w)]
<1> DEFINE n == Len(str)
           Fits(f, m) == /\ f = [w \in Parts(str) |-> f[w]]
                         /\ \A w \in Parts(str) :
                              Length(str, w) < m => f[w] = PartValue(str, f, w)
           Bad == {m \in Nat : ~\E f : Fits(f, m)}
<1>1. \A w \in Parts(str) : Length(str, w) \in 0..2 * n
  <2>1. ASSUME NEW w \in Parts(str) PROVE Length(str, w) \in 0..2 * n
    <3>1. w[1] \in 1..n + 1 /\ w[2] \in 0..n /\ n \in Nat
      BY DEF Parts
    <3>2. w[2] - w[1] + n + 1 \in 0..2 * n
      <4> HIDE DEF n
      <4> QED BY <3>1
    <3> QED BY <3>2 DEF Length
  <2> QED BY <2>1
<1>2. ASSUME NEW m \in Nat, NEW f, Fits(f, m)
      PROVE  \E g : Fits(g, m + 1)
  <2> DEFINE g == [w \in Parts(str) |->
                     IF Length(str, w) = m THEN PartValue(str, f, w) ELSE f[w]]
  <2>1. ASSUME NEW w \in Parts(str), Length(str, w) < m + 1
        PROVE  g[w] = PartValue(str, g, w)
    <3>1. \A x \in Parts(str) : Length(str, x) < Length(str, w) => f[x] = g[x]
      <4>1. \A x \in Parts(str) : Length(str, x) \in Int /\ Length(str, w) \in Int
        BY <1>1
      <4>2. \A x \in Parts(str) : Length(str, x) < Length(str, w) => Length(str, x) # m
        BY <4>1, <2>1
      <4> QED BY <4>2
    <3>2. PartValue(str, f, w) = PartValue(str, g, w)
      <4> HIDE DEF g
      <4> QED BY <3>1, ShorterParts
    <3>3. g[w] = PartValue(str, f, w)
      <4>1. CASE Length(str, w) = m
        BY <4>1
      <4>2. CASE Length(str, w) # m
        <5>1. Length(str, w) < m
          BY <4>2, <2>1, <1>1
        <5>2. f[w] = PartValue(str, f, w)
          BY <5>1, <1>2
        <5> QED BY <5>2, <4>2
      <4> QED BY <4>1, <4>2
    <3> QED BY <3>2, <3>3
  <2>2. g = [w \in Parts(str) |-> g[w]]
    OBVIOUS
  <2> HIDE DEF g
  <2>3. Fits(g, m + 1)
    BY <2>1, <2>2
  <2> QED BY <2>3
<1>3. \E f : Fits(f, 0)
  <2>1. PICK f : f = [w \in Parts(str) |-> 0]
    OBVIOUS
  <2>2. f = [w \in Parts(str) |-> f[w]]
    BY <2>1
  <2>3. \A w \in Parts(str) : ~(Length(str, w) < 0)
    BY <1>1
  <2> QED BY <2>2, <2>3
<1>4. Bad = {}
  <2> SUFFICES ASSUME Bad # {} PROVE FALSE
    OBVIOUS
  <2>1. PICK m \in Bad : \A x \in Bad : m <= x
    <3>1. Bad \subseteq Nat
      OBVIOUS
    <3> HIDE DEF Bad
    <3> QED BY <3>1, Least
  <2>2. m \in Nat /\ ~\E f : Fits(f, m)
    BY <2>1
  <2> HIDE DEF Fits
  <2>3. m # 0
    BY <2>2, <1>3
  <2>4. m - 1 \in Nat /\ ~(m <= m - 1) /\ (m - 1) + 1 = m
    BY <2>2, <2>3
  <2>5. m - 1 \notin Bad
    BY <2>1, <2>4
  <2>6. PICK f : Fits(f, m - 1)
    BY <2>4, <2>5
  <2>7. \E g : Fits(g, (m - 1) + 1)
    BY <2>4, <2>6, <1>2
  <2> QED BY <2>2, <2>4, <2>7
<1>5. PICK f : Fits(f, 2 * n + 1)
  <2>1. 2 * n + 1 \in Nat
    OBVIOUS
  <2> HIDE DEF Fits
  <2> QED BY <1>4, <2>1
<1>6. \A w \in Parts(str) : f[w] = PartValue(str, f, w)
  <2>1. \A w \in Parts(str) : Length(str, w) < 2 * n + 1
    BY <1>1
  <2> QED BY <2>1, <1>5
<1>7. f = [w \in Parts(str) |-> PartValue(str, f, w)]
  <2>1. f = [w \in Parts(str) |-> f[w]]
    BY <1>5
  <2> QED BY <2>1, <1>6
<1> QED BY <1>7

\* What Values gives for a part.
PartIs(str, i, j) ==
  LET at   == SplitAt(str, i, j)
      text == Text(str, i, j)
  IN  IF text = {} THEN Undefined
      ELSE IF at # 0 THEN Combine(str[at].t, Values(str)[<<i, at - 1>>],
                                             Values(str)[<<at + 1, j>>])
      ELSE IF str[Min(text)].t = "(" THEN Values(str)[<<Min(text) + 1, Max(text) - 1>>]
      ELSE <<str[Min(text)].v>>

\* The value of a part, by its split.
LEMMA ValueIs ==
  ASSUME NEW str, Len(str) \in Nat, NEW i \in 1..Len(str) + 1, NEW j \in 0..Len(str)
  PROVE  Values(str)[<<i, j>>] = PartIs(str, i, j)
<1>1. PICK f : f = Values(str)
  OBVIOUS
<1>2. f = [w \in Parts(str) |-> PartValue(str, f, w)]
  BY <1>1, ValuesIs, ValuesExist
<1>3. <<i, j>> \in Parts(str)
  BY DEF Parts
<1>4. f[<<i, j>>] = PartValue(str, f, <<i, j>>)
  BY <1>2, <1>3
<1>5. <<i, j>>[1] = i /\ <<i, j>>[2] = j
  OBVIOUS
<1>6. PartValue(str, f, <<i, j>>) = PartIs(str, i, j)
  BY <1>1, <1>5 DEF PartValue, PartIs
<1> QED BY <1>1, <1>4, <1>6

Val(str, i, j) == Values(str)[<<i, j>>]

\* The operators outside of parentheses bind at least as tight as p says.
Above(str, i, j, p) == \A k \in i..j : Outside(str, i, k) => p <= Prio(str[k].t)

\* A priority is a number.
LEMMA PrioType ==
  /\ \A c : Prio(c) \in {0, 1, 2}
  /\ \A c \in BinaryOps : Prio(c) \in {1, 2}
  /\ Prio("(") = 0 /\ Prio(Nothing) = 0
BY DEF Prio, BinaryOps, Nothing

\* An operator that binds weaker than all behind it, and no tighter than all in
\* front of it, is computed last.
LEMMA SplitsAt ==
  ASSUME NEW str, Len(str) \in Nat, NEW i \in 1..Len(str), NEW j \in i..Len(str),
         NEW p \in i..j, Outside(str, i, p),
         Above(str, i, p - 1, Prio(str[p].t)), Above(str, p + 1, j, Prio(str[p].t) + 1)
  PROVE  Val(str, i, j) = Combine(str[p].t, Val(str, i, p - 1), Val(str, p + 1, j))
<1> DEFINE at == SplitAt(str, i, j)
<1>1. i \in Int /\ j \in Int /\ i > 0 /\ i \in 1..Len(str) + 1 /\ j \in 0..Len(str)
  OBVIOUS
<1>2. /\ at # 0 =>
           /\ at \in i..j /\ Outside(str, i, at)
           /\ \A k \in i..j : Outside(str, i, k) =>
                \/ k <= at /\ Prio(str[at].t) <= Prio(str[k].t)
                \/ Prio(str[at].t) < Prio(str[k].t)
      /\ at = 0 => \A k \in i..j : ~Outside(str, i, k)
  BY <1>1, SplitFacts
<1>3. \A k \in p + 1..j : Outside(str, p + 1, k) <=> Outside(str, i, k)
  <2>1. (p + 1) - 1 = p /\ Depth(str, p) = Depth(str, i - 1)
    BY DEF Outside
  <2> QED BY <2>1 DEF Outside
<1>4. at = p /\ at # 0
  <2> HIDE DEF at
  <2>1. at # 0 /\ at \in i..j /\ Outside(str, i, at)
    BY <1>2
  <2>2. \/ p <= at /\ Prio(str[at].t) <= Prio(str[p].t)
        \/ Prio(str[at].t) < Prio(str[p].t)
    BY <1>2, <2>1
  <2>3. PICK x, y : x = Prio(str[at].t) /\ y = Prio(str[p].t)
    OBVIOUS
  <2>4. x \in {0, 1, 2} /\ y \in {0, 1, 2}
    BY <2>3, PrioType
  <2>5. at <= p - 1 => y <= x
    <3>1. at <= p - 1 => at \in i..p - 1
      BY <2>1
    <3> QED BY <3>1, <2>1, <2>3 DEF Above
  <2>6. p + 1 <= at => y + 1 <= x
    <3>1. p + 1 <= at => at \in p + 1..j
      BY <2>1
    <3> QED BY <3>1, <2>1, <2>3, <1>3 DEF Above
  <2> QED BY <2>1, <2>2, <2>3, <2>4, <2>5, <2>6
<1>5. Text(str, i, j) # {}
  <2>1. str[p].t # "space"
    BY DEF Outside, BinaryOps
  <2> QED BY <2>1 DEF Text
<1>6. Val(str, i, j) = PartIs(str, i, j)
  BY <1>1, ValueIs DEF Val
<1> QED BY <1>4, <1>5, <1>6 DEF PartIs, Val

\* Spaces change neither the depth nor whether an operand has ended.
LEMMA AlongSpaces ==
  ASSUME NEW str \in Seq(Token), NEW i \in 1..Len(str) + 1, NEW j \in i - 1..Len(str),
         \A k \in i..j : str[k].t = "space"
  PROVE  \A k \in i - 1..j : /\ Depth(str, k) = Depth(str, i - 1)
                             /\ OperandEnds(str, k) <=> OperandEnds(str, i - 1)
<1> DEFINE Same(k) == /\ Depth(str, k) = Depth(str, i - 1)
                      /\ OperandEnds(str, k) <=> OperandEnds(str, i - 1)
           Bad == {k \in i - 1..j : ~Same(k)}
<1>1. Bad = {}
  <2> SUFFICES ASSUME Bad # {} PROVE FALSE
    OBVIOUS
  <2>1. PICK k \in Bad : \A x \in Bad : k <= x
    <3>1. Bad \subseteq Nat
      OBVIOUS
    <3> HIDE DEF Bad
    <3> QED BY <3>1, Least
  <2>2. k \in i - 1..j /\ ~Same(k)
    BY <2>1
  <2>3. k # i - 1
    BY <2>2
  <2>4. k \in i..j /\ k \in 1..Len(str) /\ k - 1 \in i - 1..j /\ ~(k <= k - 1)
    BY <2>2, <2>3
  <2>5. Same(k - 1)
    <3>1. k - 1 \notin Bad
      BY <2>1, <2>4
    <3> HIDE DEF Same
    <3> QED BY <3>1, <2>4
  <2>6. str[k].t = "space"
    BY <2>4
  <2>7. /\ Depth(str, k - 1) \in Int
        /\ Depth(str, k) = Depth(str, k - 1)
    BY <2>4, <2>6, DepthStep
  <2>8. OperandEnds(str, k) <=> OperandEnds(str, k - 1)
    BY <2>4, <2>6, OperandEndsStep
  <2> QED BY <2>2, <2>5, <2>7, <2>8
<1> QED BY <1>1

\* A number has its value.
LEMMA NumberIs ==
  ASSUME NEW str, Len(str) \in Nat, NEW i \in 1..Len(str), NEW j \in i..Len(str),
         \A k \in i..j - 1 : str[k].t = "space", str[j].t = "num"
  PROVE  Val(str, i, j) = <<str[j].v>>
<1>1. i \in Int /\ j \in Int /\ i > 0 /\ i \in 1..Len(str) + 1 /\ j \in 0..Len(str)
  OBVIOUS
<1>2. \A k \in i..j : k = j \/ k \in i..j - 1
  OBVIOUS
<1>3. Text(str, i, j) = {j}
  BY <1>2 DEF Text
<1>4. SplitAt(str, i, j) = 0
  <2>1. \A k \in i..j : ~Outside(str, i, k)
    BY <1>2 DEF Outside, BinaryOps
  <2> QED BY <1>1, <2>1, SplitFacts
<1>5. Min({j}) = j
  <2>1. PICK S : S = {j}
    OBVIOUS
  <2>2. S \subseteq i..j /\ S # {}
    BY <2>1
  <2>3. Min(S) \in S
    BY <1>1, <2>2, FirstLast
  <2> QED BY <2>1, <2>3
<1>6. Val(str, i, j) = PartIs(str, i, j)
  BY <1>1, ValueIs DEF Val
<1> QED BY <1>3, <1>4, <1>5, <1>6 DEF PartIs

\* Parentheses have the value of what is in them.
LEMMA ParenIs ==
  ASSUME NEW str \in Seq(Token), NEW i \in 1..Len(str), NEW j \in i..Len(str),
         NEW f \in i..j, f < j, \A k \in i..f - 1 : str[k].t = "space",
         str[f].t = "(", str[j].t = ")",
         \A k \in f..j - 1 : Depth(str, k) # Depth(str, i - 1)
  PROVE  /\ Val(str, i, j) = Val(str, f + 1, j - 1)
         /\ \A k \in i..j : ~Outside(str, i, k)
<1>1. i \in Int /\ j \in Int /\ i > 0 /\ i \in 1..Len(str) + 1 /\ j \in 0..Len(str)
      /\ Len(str) \in Nat
  OBVIOUS
<1>2. Text(str, i, j) \subseteq i..j /\ f \in Text(str, i, j) /\ j \in Text(str, i, j)
  BY DEF Text
<1>3. \A k \in i..j : k \in i..f - 1 \/ k \in f..j - 1 \/ k = j
  OBVIOUS
<1>4. \A k \in i..j : ~Outside(str, i, k)
  BY <1>3 DEF Outside, BinaryOps
<1>5. SplitAt(str, i, j) = 0
  BY <1>1, <1>4, SplitFacts
<1>6. Min(Text(str, i, j)) = f /\ Max(Text(str, i, j)) = j
  <2> DEFINE T == Text(str, i, j)
  <2>1. T \subseteq i..j /\ T # {}
    BY <1>2
  <2> HIDE DEF T
  <2>2. /\ Min(T) \in T /\ Min(T) \in i..j /\ \A x \in T : Min(T) <= x
        /\ Max(T) \in T /\ Max(T) \in i..j /\ \A x \in T : x <= Max(T)
    BY <1>1, <2>1, FirstLast
  <2>3. PICK a, b : a = Min(T) /\ b = Max(T)
    OBVIOUS
  <2>4. a \in i..j /\ b \in i..j /\ a <= f /\ j <= b /\ str[a].t # "space"
    BY <2>2, <2>3, <1>2 DEF T, Text
  <2>5. a \notin i..f - 1
    BY <2>4
  <2>6. a = f /\ b = j
    BY <2>4, <2>5
  <2> QED BY <2>3, <2>6 DEF T
<1>7. Val(str, i, j) = PartIs(str, i, j)
  BY <1>1, ValueIs DEF Val
<1>8. PartIs(str, i, j) = Val(str, f + 1, j - 1)
  <2>1. Text(str, i, j) # {}
    BY <1>2
  <2> QED BY <1>5, <1>6, <2>1 DEF PartIs, Val
<1> QED BY <1>4, <1>7, <1>8

\* A space behind a part does not change its value.
LEMMA SpaceBehind ==
  ASSUME NEW str, Len(str) \in Nat, NEW j \in 0..Len(str) - 1, str[j + 1].t = "space"
  PROVE  \A i \in 1..j + 1 : Val(str, i, j + 1) = Val(str, i, j)
<1> DEFINE Bad == {i \in 1..j + 1 : Val(str, i, j + 1) # Val(str, i, j)}
<1>1. Bad = {}
  <2> SUFFICES ASSUME Bad # {} PROVE FALSE
    OBVIOUS
  <2>1. PICK i \in Bad : \A x \in Bad : x <= i
    <3>1. Bad \subseteq 1..j + 1 /\ 1 \in Int /\ j + 1 \in Int
      OBVIOUS
    <3> HIDE DEF Bad
    <3> QED BY <3>1, FirstLast
  <2>2. i \in 1..j + 1 /\ Val(str, i, j + 1) # Val(str, i, j)
    BY <2>1
  <2>3. \A x \in i + 1..j + 1 : Val(str, x, j + 1) = Val(str, x, j)
    <3> SUFFICES ASSUME NEW x \in i + 1..j + 1 PROVE Val(str, x, j + 1) = Val(str, x, j)
      OBVIOUS
    <3>1. x \in 1..j + 1 /\ ~(x <= i)
      BY <2>2
    <3> QED BY <3>1, <2>1
  <2>4. i \in Int /\ i > 0 /\ j \in Int /\ j + 1 \in Int /\ i \in 1..Len(str) + 1
        /\ j \in 0..Len(str) /\ j + 1 \in 0..Len(str)
    BY <2>2
  <2>5. \A k \in i..j + 1 : k \in i..j \/ k = j + 1
    BY <2>4
  <2>6. Text(str, i, j + 1) = Text(str, i, j)
    BY <2>4, <2>5 DEF Text
  <2>7. SplitAt(str, i, j + 1) = SplitAt(str, i, j)
    <3>1. \A ops : "space" \notin ops =>
            {k \in i..j + 1 : str[k].t \in ops /\ Depth(str, k) = Depth(str, i - 1)}
              = {k \in i..j : str[k].t \in ops /\ Depth(str, k) = Depth(str, i - 1)}
      BY <2>4, <2>5
    <3>2. \A ops : "space" \notin ops =>
                      LastOutside(str, i, j + 1, ops) = LastOutside(str, i, j, ops)
      BY <3>1 DEF LastOutside
    <3>3. "space" \notin {"+", "-"} /\ "space" \notin {"*", "/"}
      OBVIOUS
    <3> QED BY <3>2, <3>3 DEF SplitAt
  <2>8. PICK at : at = SplitAt(str, i, j)
    OBVIOUS
  <2>9. at # 0 => Val(str, at + 1, j + 1) = Val(str, at + 1, j)
    <3>1. at # 0 => at \in i..j
      BY <2>4, <2>8, SplitFacts
    <3>2. at # 0 => at + 1 \in i + 1..j + 1
      BY <3>1, <2>4
    <3> QED BY <3>2, <2>3
  <2>10. PartIs(str, i, j + 1) = PartIs(str, i, j)
    <3>1. PICK text : text = Text(str, i, j)
      OBVIOUS
    <3>2. PartIs(str, i, j) =
            IF text = {} THEN Undefined
            ELSE IF at # 0 THEN Combine(str[at].t, Val(str, i, at - 1), Val(str, at + 1, j))
            ELSE IF str[Min(text)].t = "(" THEN Val(str, Min(text) + 1, Max(text) - 1)
            ELSE <<str[Min(text)].v>>
      BY <3>1, <2>8 DEF PartIs, Val
    <3>3. PartIs(str, i, j + 1) =
            IF text = {} THEN Undefined
            ELSE IF at # 0 THEN Combine(str[at].t, Val(str, i, at - 1), Val(str, at + 1, j + 1))
            ELSE IF str[Min(text)].t = "(" THEN Val(str, Min(text) + 1, Max(text) - 1)
            ELSE <<str[Min(text)].v>>
      BY <3>1, <2>6, <2>7, <2>8 DEF PartIs, Val
    <3> QED BY <3>2, <3>3, <2>9
  <2>11. Val(str, i, j + 1) = PartIs(str, i, j + 1) /\ Val(str, i, j) = PartIs(str, i, j)
    BY <2>4, ValueIs DEF Val
  <2> QED BY <2>2, <2>10, <2>11
<1> QED BY <1>1

----------------------------------------------------------------------------
(* Operands, and how the stack of operators cuts a text into them.          *)

\* The part is an operand: it begins where one may begin and ends where one ends,
\* and its parentheses match.
Operand(str, i, j) ==
  /\ i \in 1..Len(str) /\ j \in i..Len(str)
  /\ Depth(str, j) = Depth(str, i - 1)
  /\ \A k \in i..j : Depth(str, k) >= Depth(str, i - 1)
  /\ ~OperandEnds(str, i - 1) /\ OperandEnds(str, j)

\* The depth is a number from 0 on.
LEMMA DepthType ==
  ASSUME NEW str, WellFormed(str)
  PROVE  /\ str \in Seq(Token) /\ Len(str) \in Nat
         /\ Depth(str, 0) = 0 /\ ~OperandEnds(str, 0)
         /\ \A k \in 0..Len(str) : Depth(str, k) \in Nat
<1>1. str \in Seq(Token) /\ Len(str) \in Nat
  BY DEF WellFormed
<1>2. Depth(str, 0) = 0
  BY CountZero DEF Depth
<1>3. ASSUME NEW k \in 0..Len(str) PROVE Depth(str, k) \in Nat
  <2>1. CASE k = 0
    BY <2>1, <1>2
  <2>2. CASE k # 0
    <3>1. k \in 1..Len(str)
      BY <2>2, <1>1
    <3>2. Depth(str, k) >= 0
      BY <3>1 DEF WellFormed
    <3>3. Depth(str, k) \in Int
      BY <3>1, <1>1, DepthStep
    <3> QED BY <3>2, <3>3
  <2> QED BY <2>1, <2>2
<1>4. ~OperandEnds(str, 0)
  BY DEF OperandEnds
<1> QED BY <1>1, <1>2, <1>3, <1>4

\* Two operands and an operator between them are one.
LEMMA Join ==
  ASSUME NEW str, WellFormed(str), NEW i, NEW p, NEW j,
         Operand(str, i, p - 1), Operand(str, p + 1, j), p \in 1..Len(str),
         str[p].t \in BinaryOps
  PROVE  Operand(str, i, j) /\ Outside(str, i, p)
<1>1. /\ i \in 1..Len(str) /\ p - 1 \in i..Len(str) /\ p + 1 \in 1..Len(str)
      /\ j \in p + 1..Len(str) /\ Len(str) \in Nat /\ str \in Seq(Token)
  BY DepthType DEF Operand
<1>2. Depth(str, p) = Depth(str, p - 1)
  <2>1. /\ Depth(str, p - 1) \in Int
        /\ Depth(str, p) = Depth(str, p - 1) + (IF str[p].t = "(" THEN 1
                                                 ELSE IF str[p].t = ")" THEN -1
                                                 ELSE 0)
    BY <1>1, DepthStep
  <2> QED BY <2>1 DEF BinaryOps
<1>3. PICK d \in Nat : d = Depth(str, i - 1)
  <2>1. i - 1 \in 0..Len(str)
    BY <1>1
  <2> QED BY <2>1, DepthType
<1>4. (p + 1) - 1 = p
  BY <1>1
<1>5. /\ Depth(str, p - 1) = d /\ Depth(str, p) = d /\ Depth(str, j) = d
      /\ \A k \in i..p - 1 : Depth(str, k) >= d
      /\ \A k \in p + 1..j : Depth(str, k) >= d
  BY <1>2, <1>3, <1>4 DEF Operand
<1>6. \A k \in i..j : k \in i..p - 1 \/ k = p \/ k \in p + 1..j
  BY <1>1
<1>7. \A k \in i..j : Depth(str, k) >= d
  BY <1>5, <1>6
<1>8. j \in i..Len(str)
  BY <1>1
<1> QED BY <1>1, <1>3, <1>5, <1>7, <1>8 DEF Operand, Outside

\* An operand in parentheses is one.
LEMMA Enclose ==
  ASSUME NEW str, WellFormed(str), NEW i \in 1..Len(str), NEW f \in i..Len(str),
         NEW j \in f + 1..Len(str), \A k \in i..f - 1 : str[k].t = "space",
         ~OperandEnds(str, i - 1), str[f].t = "(", str[j].t = ")",
         Operand(str, f + 1, j - 1)
  PROVE  /\ Operand(str, i, j)
         /\ Val(str, i, j) = Val(str, f + 1, j - 1)
         /\ \A k \in i..j : ~Outside(str, i, k)
<1>1. Len(str) \in Nat /\ str \in Seq(Token) /\ f \in 1..Len(str) /\ j \in 1..Len(str)
  BY DepthType
<1>2. PICK d \in Nat : d = Depth(str, i - 1)
  <2>1. i - 1 \in 0..Len(str)
    BY <1>1
  <2> QED BY <2>1, DepthType
<1>3. \A k \in i - 1..f - 1 : Depth(str, k) = d
  <2>1. i \in 1..Len(str) + 1 /\ f - 1 \in i - 1..Len(str)
    BY <1>1
  <2> QED BY <2>1, <1>1, <1>2, AlongSpaces
<1>4. Depth(str, f) = d + 1
  <2>1. /\ Depth(str, f - 1) \in Int
        /\ Depth(str, f) = Depth(str, f - 1) + 1
    BY <1>1, DepthStep
  <2>2. f - 1 \in i - 1..f - 1
    OBVIOUS
  <2> QED BY <2>1, <2>2, <1>3
<1>5. (f + 1) - 1 = f
  BY <1>1
<1>6. /\ Depth(str, j - 1) = d + 1
      /\ \A k \in f + 1..j - 1 : Depth(str, k) >= d + 1
  BY <1>4, <1>5 DEF Operand
<1>7. Depth(str, j) = d
  <2>1. /\ Depth(str, j - 1) \in Int
        /\ Depth(str, j) = Depth(str, j - 1) - 1
    BY <1>1, DepthStep
  <2> QED BY <2>1, <1>6
<1>8. \A k \in i..j : k \in i - 1..f - 1 \/ k = f \/ k \in f + 1..j - 1 \/ k = j
  OBVIOUS
<1>9. \A k \in i..j : Depth(str, k) >= d
  <2>1. \A k \in i..j : Depth(str, k) \in Nat
    BY <1>1, DepthType
  <2> QED BY <2>1, <1>8, <1>3, <1>4, <1>6, <1>7
<1>10. OperandEnds(str, j)
  BY <1>1, OperandEndsStep
<1>11. Operand(str, i, j)
  BY <1>1, <1>2, <1>7, <1>9, <1>10 DEF Operand
<1>12. \A k \in f..j - 1 : Depth(str, k) # d
  <2>1. \A k \in f..j - 1 : k = f \/ k \in f + 1..j - 1
    OBVIOUS
  <2>2. \A k \in 0..Len(str) : Depth(str, k) \in Nat
    BY DepthType
  <2>3. \A k \in f..j - 1 : k \in 0..Len(str)
    BY <1>1
  <2> QED BY <2>1, <2>2, <2>3, <1>4, <1>6
<1>13. f \in i..j /\ f < j /\ j \in i..Len(str)
  BY <1>1
<1>14. /\ Val(str, i, j) = Val(str, f + 1, j - 1)
       /\ \A k \in i..j : ~Outside(str, i, k)
  BY <1>1, <1>2, <1>12, <1>13, ParenIs
<1> QED BY <1>11, <1>14

\* The operator or '(' e at a place, with the last one below it on the stack and
\* in the text.  In front of '(' are only spaces; in front of an operator is its left
\* operand, with no operator that would have to wait for it, and it binds tighter
\* than the one below.
Cut(str, low, below, place, e) ==
  /\ low < place /\ str[place].t = e
  /\ e = "(" => \A k \in low + 1..place - 1 : str[k].t = "space"
  /\ e # "(" => /\ Operand(str, low + 1, place - 1)
                /\ Above(str, low + 1, place - 1, Prio(e))
                /\ Prio(below) < Prio(e)

\* The stack of operators cuts the text that is read at the places P.
Cuts(str, c, o, P) ==
  /\ o \in Seq(Ops) /\ P \in [0..Len(o) -> 0..c] /\ P[0] = 0
  /\ \A q \in 1..Len(o) :
       Cut(str, P[q - 1], IF q = 1 THEN Nothing ELSE o[q - 1], P[q], o[q])

\* Behind the last of them is an operand that has ended, with operators that bind
\* at least as tight as b says and tighter than the last on the stack, or nothing.
LastPart(str, c, o, P, b) ==
  LET i == P[Len(o)] + 1
  IN  IF OperandEnds(str, c)
      THEN /\ Operand(str, i, c) /\ Above(str, i, c, b)
           /\ Above(str, i, c, Prio(Top(o, Nothing)) + 1)
      ELSE \A k \in i..c : str[k].t = "space"

\* What binds tighter binds tight.
LEMMA AboveLess ==
  ASSUME NEW str, NEW i, NEW j, NEW a \in Nat, NEW b \in Nat, a <= b, Above(str, i, j, b)
  PROVE  Above(str, i, j, a)
<1>1. \A c : Prio(c) \in Nat
  BY PrioType
<1> QED BY <1>1 DEF Above

\* Nothing is outside of parentheses: whatever b is.
LEMMA AboveNone ==
  ASSUME NEW str, NEW i, NEW j, \A k \in i..j : ~Outside(str, i, k)
  PROVE  \A b : Above(str, i, j, b)
BY DEF Above

\* No operand has ended at the last operator or '('.
LEMMA CutOpens ==
  ASSUME NEW str, WellFormed(str), NEW c \in 0..Len(str), NEW o, NEW P, Cuts(str, c, o, P)
  PROVE  /\ Len(o) \in Nat /\ P[Len(o)] \in 0..c
         /\ ~OperandEnds(str, P[Len(o)])
<1>1. Len(o) \in Nat /\ P[Len(o)] \in 0..c
  BY DEF Cuts
<1>2. CASE Len(o) = 0
  BY <1>1, <1>2, DepthType DEF Cuts
<1>3. CASE Len(o) # 0
  <2>1. PICK m : m = Len(o)
    OBVIOUS
  <2>2. m \in 1..Len(o) /\ m - 1 \in 0..Len(o)
    BY <1>1, <1>3, <2>1
  <2>3. /\ o[m] \in Ops /\ str[P[m]].t = o[m]
        /\ P[m - 1] < P[m] /\ P[m - 1] \in 0..c /\ P[m] \in 0..c
    BY <2>2 DEF Cuts, Cut
  <2>4. P[m] \in 1..Len(str) /\ str \in Seq(Token)
    BY <2>3, DepthType
  <2>5. str[P[m]].t \notin {"num", ")", "space"}
    BY <2>3 DEF Ops, BinaryOps
  <2>6. ~OperandEnds(str, P[m])
    BY <2>4, <2>5, OperandEndsStep
  <2> QED BY <2>1, <2>6, <1>1
<1> QED BY <1>2, <1>3

\* The facts that each of the following steps starts from.
LEMMA CutFacts ==
  ASSUME NEW str, WellFormed(str), NEW c \in 0..Len(str), NEW o, NEW P, Cuts(str, c, o, P)
  PROVE  /\ str \in Seq(Token) /\ Len(str) \in Nat
         /\ o \in Seq(Ops) /\ Len(o) \in Nat /\ P \in [0..Len(o) -> 0..c] /\ P[0] = 0
         /\ P[Len(o)] \in 0..c /\ ~OperandEnds(str, P[Len(o)])
         /\ Len(o) = 0 <=> o = <<>>
         /\ o = <<>> => Top(o, Nothing) = Nothing
         /\ o # <<>> => Top(o, Nothing) = o[Len(o)] /\ Len(o) \in 1..Len(o)
<1>1. o \in Seq(Ops) /\ P \in [0..Len(o) -> 0..c] /\ P[0] = 0
  BY DEF Cuts
<1>2. /\ Len(o) \in Nat /\ (Len(o) = 0 <=> o = <<>>)
  BY <1>1, EmptySeq
<1>3. /\ o = <<>> => Top(o, Nothing) = Nothing
      /\ o # <<>> => Top(o, Nothing) = o[Len(o)]
  BY DEF Top
<1> QED BY <1>1, <1>2, <1>3, DepthType, CutOpens

\* The stack o cuts the text at P, and the next token e may be pushed on it, at Q.
Pushes(str, c, o, P, b, e, Q) ==
  /\ WellFormed(str) /\ c \in 0..Len(str) - 1 /\ b \in Nat
  /\ Cuts(str, c, o, P) /\ LastPart(str, c, o, P, b)
  /\ e = str[c + 1].t /\ e \in Ops
  /\ e # "(" => Prio(e) <= b /\ Prio(Top(o, Nothing)) < Prio(e)
  /\ Q = [q \in 0..Len(o) + 1 |-> IF q = Len(o) + 1 THEN c + 1 ELSE P[q]]

\* A token that is pushed is one more cut, and behind it is nothing.
LEMMA CutPushed ==
  ASSUME NEW str, NEW c, NEW o, NEW P, NEW b, NEW e, NEW Q, Pushes(str, c, o, P, b, e, Q)
  PROVE  /\ Cuts(str, c + 1, Append(o, e), Q)
         /\ \A b2 : LastPart(str, c + 1, Append(o, e), Q, b2)
         /\ ~OperandEnds(str, c + 1)
         /\ OperandEnds(str, c) <=> e # "("
<1> USE DEF Pushes
<1>1. PICK m : m = Len(o)
  OBVIOUS
<1>2. /\ str \in Seq(Token) /\ Len(str) \in Nat
      /\ o \in Seq(Ops) /\ m \in Nat /\ P \in [0..m -> 0..c] /\ P[0] = 0
      /\ P[m] \in 0..c /\ c \in 0..Len(str)
      /\ o = <<>> => Top(o, Nothing) = Nothing /\ m = 0
      /\ o # <<>> => Top(o, Nothing) = o[m] /\ m # 0
  <2>1. c \in 0..Len(str)
    BY DepthType
  <2> QED BY <1>1, <2>1, CutFacts
<1>3. PICK u : u = Append(o, e)
  OBVIOUS
<1>4. u \in Seq(Ops) /\ Len(u) = m + 1 /\ u[m + 1] = e /\ \A q \in 1..m : u[q] = o[q]
  BY <1>1, <1>2, <1>3
<1>5. /\ OperandEnds(str, c) <=> e # "("
      /\ ~OperandEnds(str, c + 1)
  <2>1. TokenFacts(str, c)
    BY NextToken
  <2>2. e # "(" => e \in BinaryOps
    BY DEF Ops
  <2>3. e \notin {"num", ")", "space"}
    BY DEF Ops, BinaryOps
  <2> QED BY <2>1, <2>2, <2>3 DEF TokenFacts, Ended
<1>6. /\ Q \in [0..m + 1 -> 0..c + 1] /\ Q[m + 1] = c + 1 /\ \A q \in 0..m : Q[q] = P[q]
  <2>1. \A q \in 0..m + 1 : q = m + 1 \/ (q \in 0..m /\ q # m + 1)
    BY <1>2
  <2>2. \A q \in 0..m : P[q] \in 0..c + 1
    BY <1>2
  <2>3. c + 1 \in 0..c + 1
    BY <1>2
  <2> QED BY <1>1, <1>2, <2>1, <2>2, <2>3
<1>7. Cut(str, P[m], Top(o, Nothing), c + 1, e)
  <2>1. P[m] < c + 1
    BY <1>2
  <2>2. (c + 1) - 1 = c
    BY <1>2
  <2>3. ASSUME e = "(" PROVE \A k \in P[m] + 1..c : str[k].t = "space"
    BY <1>1, <1>5, <2>3 DEF LastPart
  <2>4. ASSUME e # "("
        PROVE  /\ Operand(str, P[m] + 1, c) /\ Above(str, P[m] + 1, c, Prio(e))
               /\ Prio(Top(o, Nothing)) < Prio(e)
    <3>1. Operand(str, P[m] + 1, c) /\ Above(str, P[m] + 1, c, b)
      BY <1>1, <1>5, <2>4 DEF LastPart
    <3>2. Prio(e) \in Nat /\ Prio(e) <= b
      BY <2>4, PrioType
    <3>3. Above(str, P[m] + 1, c, Prio(e))
      BY <3>1, <3>2, AboveLess
    <3> QED BY <2>4, <3>1, <3>3
  <2> QED BY <2>1, <2>2, <2>3, <2>4 DEF Cut
<1>8. ASSUME NEW q \in 1..m + 1
      PROVE  Cut(str, Q[q - 1], IF q = 1 THEN Nothing ELSE u[q - 1], Q[q], u[q])
  <2>1. CASE q = m + 1
    <3>1. Q[q - 1] = P[m] /\ Q[q] = c + 1 /\ u[q] = e
      BY <2>1, <1>2, <1>4, <1>6
    <3>2. (IF q = 1 THEN Nothing ELSE u[q - 1]) = Top(o, Nothing)
      BY <2>1, <1>2, <1>4
    <3> QED BY <3>1, <3>2, <1>7
  <2>2. CASE q # m + 1
    <3>1. q \in 1..m /\ q - 1 \in 0..m /\ q \in 0..m /\ (q # 1 => q - 1 \in 1..m)
      BY <2>2, <1>2
    <3>2. Q[q - 1] = P[q - 1] /\ Q[q] = P[q] /\ u[q] = o[q] /\ (q # 1 => u[q - 1] = o[q - 1])
      BY <3>1, <1>4, <1>6
    <3>3. Cut(str, P[q - 1], IF q = 1 THEN Nothing ELSE o[q - 1], P[q], o[q])
      BY <3>1, <1>1 DEF Cuts
    <3> QED BY <3>2, <3>3
  <2> QED BY <2>1, <2>2
<1>9. Cuts(str, c + 1, u, Q)
  <2>1. Q[0] = 0
    <3>1. 0 \in 0..m
      BY <1>2
    <3> QED BY <3>1, <1>2, <1>6
  <2>2. u \in Seq(Ops) /\ Q \in [0..Len(u) -> 0..c + 1]
    BY <1>4, <1>6
  <2>3. \A q \in 1..Len(u) :
          Cut(str, Q[q - 1], IF q = 1 THEN Nothing ELSE u[q - 1], Q[q], u[q])
    BY <1>4, <1>8
  <2> QED BY <2>1, <2>2, <2>3 DEF Cuts
<1>10. ASSUME NEW b2 PROVE LastPart(str, c + 1, u, Q, b2)
  <2>1. \A k \in Q[Len(u)] + 1..c + 1 : FALSE
    BY <1>2, <1>4, <1>6
  <2> QED BY <2>1, <1>5 DEF LastPart
<1> QED BY <1>3, <1>5, <1>9, <1>10

\* A space or a number that is read makes no cut.
LEMMA CutRead ==
  ASSUME NEW str, WellFormed(str), NEW c \in 0..Len(str) - 1, NEW o, NEW P, NEW b,
         Cuts(str, c, o, P), LastPart(str, c, o, P, b)
  PROVE  /\ Cuts(str, c + 1, o, P)
         /\ str[c + 1].t = "space" =>
              /\ OperandEnds(str, c + 1) <=> OperandEnds(str, c)
              /\ LastPart(str, c + 1, o, P, b)
              /\ OperandEnds(str, c) =>
                   Val(str, P[Len(o)] + 1, c + 1) = Val(str, P[Len(o)] + 1, c)
         /\ str[c + 1].t = "num" =>
              /\ ~OperandEnds(str, c) /\ OperandEnds(str, c + 1)
              /\ \A b2 : LastPart(str, c + 1, o, P, b2)
              /\ Val(str, P[Len(o)] + 1, c + 1) = <<str[c + 1].v>>
<1>1. PICK i : i = P[Len(o)] + 1
  OBVIOUS
<1>2. /\ str \in Seq(Token) /\ Len(str) \in Nat
      /\ o \in Seq(Ops) /\ Len(o) \in Nat /\ P \in [0..Len(o) -> 0..c] /\ P[0] = 0
      /\ i \in 1..c + 1 /\ c \in 0..Len(str) /\ c + 1 \in 1..Len(str) /\ (c + 1) - 1 = c
      /\ ~OperandEnds(str, i - 1)
  <2>1. c \in 0..Len(str) /\ Len(str) \in Nat
    BY DepthType
  <2>2. /\ str \in Seq(Token) /\ Len(str) \in Nat
        /\ o \in Seq(Ops) /\ Len(o) \in Nat /\ P \in [0..Len(o) -> 0..c] /\ P[0] = 0
        /\ P[Len(o)] \in 0..c /\ ~OperandEnds(str, P[Len(o)])
    BY <2>1, CutFacts
  <2>3. i - 1 = P[Len(o)]
    BY <1>1, <2>2
  <2> QED BY <1>1, <2>1, <2>2, <2>3
<1>3. Cuts(str, c + 1, o, P)
  <2>1. P \in [0..Len(o) -> 0..c + 1]
    <3>1. \A q \in 0..Len(o) : P[q] \in 0..c + 1
      BY <1>2
    <3> QED BY <3>1, <1>2
  <2> QED BY <2>1, <1>2 DEF Cuts
<1>4. /\ Depth(str, c) \in Int
      /\ Depth(str, c + 1) = Depth(str, c) + (IF str[c + 1].t = "(" THEN 1
                                              ELSE IF str[c + 1].t = ")" THEN -1
                                              ELSE 0)
      /\ OperandEnds(str, c + 1) <=> \/ str[c + 1].t \in {"num", ")"}
                                     \/ str[c + 1].t = "space" /\ OperandEnds(str, c)
  <2>1. PICK j : j = c + 1
    OBVIOUS
  <2>2. j \in 1..Len(str) /\ j - 1 = c
    BY <1>2, <2>1
  <2>3. /\ Depth(str, j - 1) \in Int
        /\ Depth(str, j) = Depth(str, j - 1) + (IF str[j].t = "(" THEN 1
                                                ELSE IF str[j].t = ")" THEN -1 ELSE 0)
        /\ OperandEnds(str, j) <=> \/ str[j].t \in {"num", ")"}
                                   \/ str[j].t = "space" /\ OperandEnds(str, j - 1)
    BY <1>2, <2>2, DepthStep, OperandEndsStep
  <2> QED BY <2>1, <2>2, <2>3
<1>5. \A k \in i..c + 1 : k \in i..c \/ k = c + 1
  BY <1>2
<1>6. ASSUME str[c + 1].t = "space"
      PROVE  /\ OperandEnds(str, c + 1) <=> OperandEnds(str, c)
             /\ LastPart(str, c + 1, o, P, b)
             /\ OperandEnds(str, c) => Val(str, i, c + 1) = Val(str, i, c)
  <2>1. (OperandEnds(str, c + 1) <=> OperandEnds(str, c)) /\ Depth(str, c + 1) = Depth(str, c)
    BY <1>4, <1>6
  <2>2. CASE OperandEnds(str, c)
    <3>1. /\ Operand(str, i, c) /\ Above(str, i, c, b)
          /\ Above(str, i, c, Prio(Top(o, Nothing)) + 1)
      BY <1>1, <2>2 DEF LastPart
    <3>2. Operand(str, i, c + 1)
      <4>1. i \in 1..Len(str) /\ c + 1 \in i..Len(str)
        BY <1>2
      <4>2. /\ Depth(str, c + 1) = Depth(str, i - 1)
            /\ \A k \in i..c : Depth(str, k) >= Depth(str, i - 1)
        BY <3>1, <2>1 DEF Operand
      <4>3. Depth(str, c + 1) >= Depth(str, i - 1)
        BY <4>2, <1>4, <2>1
      <4>4. \A k \in i..c + 1 : Depth(str, k) >= Depth(str, i - 1)
        BY <1>5, <4>2, <4>3
      <4> QED BY <4>1, <4>2, <4>4, <2>1, <2>2, <1>2 DEF Operand
    <3>3. \A a : Above(str, i, c, a) => Above(str, i, c + 1, a)
      <4>1. ~Outside(str, i, c + 1)
        BY <1>6 DEF Outside, BinaryOps
      <4> QED BY <4>1, <1>5 DEF Above
    <3>4. Val(str, i, c + 1) = Val(str, i, c)
      <4>1. c \in 0..Len(str) - 1 /\ i \in 1..c + 1 /\ Len(str) \in Nat
        BY <1>2
      <4> QED BY <4>1, <1>6, SpaceBehind
    <3> QED BY <1>1, <2>1, <2>2, <3>1, <3>2, <3>3, <3>4 DEF LastPart
  <2>3. CASE ~OperandEnds(str, c)
    <3>1. \A k \in i..c + 1 : str[k].t = "space"
      BY <1>1, <1>5, <1>6, <2>3 DEF LastPart
    <3> QED BY <1>1, <2>1, <2>3, <3>1 DEF LastPart
  <2> QED BY <2>2, <2>3
<1>7. ASSUME str[c + 1].t = "num"
      PROVE  /\ ~OperandEnds(str, c) /\ OperandEnds(str, c + 1)
             /\ \A b2 : LastPart(str, c + 1, o, P, b2)
             /\ Val(str, i, c + 1) = <<str[c + 1].v>>
  <2>1. ~OperandEnds(str, c) /\ OperandEnds(str, c + 1)
    <3>1. TokenFacts(str, c)
      BY NextToken
    <3> QED BY <3>1, <1>7 DEF TokenFacts, Ended
  <2>2. \A k \in i..c : str[k].t = "space"
    BY <1>1, <2>1 DEF LastPart
  <2>3. \A k \in i - 1..c : Depth(str, k) = Depth(str, i - 1)
    <3>1. i \in 1..Len(str) + 1 /\ c \in i - 1..Len(str)
      BY <1>2
    <3> QED BY <3>1, <2>2, <1>2, AlongSpaces
  <2>4. Depth(str, c + 1) = Depth(str, i - 1) /\ Depth(str, i - 1) \in Nat
    <3>1. c \in i - 1..c /\ i - 1 \in 0..Len(str)
      BY <1>2
    <3>2. Depth(str, c + 1) = Depth(str, c)
      BY <1>4, <1>7
    <3> QED BY <3>1, <3>2, <2>3, DepthType
  <2>5. \A k \in i..c + 1 : Depth(str, k) >= Depth(str, i - 1)
    <3>1. \A k \in i..c : k \in i - 1..c
      BY <1>2
    <3>2. \A k \in i..c + 1 : Depth(str, k) = Depth(str, i - 1)
      BY <1>5, <2>3, <2>4, <3>1
    <3> QED BY <3>2, <2>4
  <2>6. Operand(str, i, c + 1)
    <3>1. i \in 1..Len(str) /\ c + 1 \in i..Len(str)
      BY <1>2
    <3> QED BY <3>1, <2>1, <2>4, <2>5, <1>2 DEF Operand
  <2>7. \A k \in i..c + 1 : ~Outside(str, i, k)
    <3>1. \A k \in i..c + 1 : str[k].t \in {"space", "num"}
      BY <1>5, <1>7, <2>2
    <3> QED BY <3>1 DEF Outside, BinaryOps
  <2>8. \A a : Above(str, i, c + 1, a)
    BY <2>7, AboveNone
  <2>9. Val(str, i, c + 1) = <<str[c + 1].v>>
    <3>1. PICK j : j = c + 1
      OBVIOUS
    <3>2. i \in 1..Len(str) /\ j \in i..Len(str) /\ j - 1 = c
      BY <1>2, <3>1
    <3>3. Val(str, i, j) = <<str[j].v>>
      BY <3>1, <3>2, <2>2, <1>2, <1>7, NumberIs
    <3> QED BY <3>1, <3>3
  <2> QED BY <1>1, <2>1, <2>6, <2>8, <2>9 DEF LastPart
<1> QED BY <1>1, <1>3, <1>6, <1>7

\* Without its last operator the stack cuts the text as before.
LEMMA CutLess ==
  ASSUME NEW str, WellFormed(str), NEW c \in 0..Len(str), NEW o, NEW P, Cuts(str, c, o, P),
         o # <<>>, NEW Q, Q = [q \in 0..Len(o) - 1 |-> P[q]]
  PROVE  /\ Cuts(str, c, Pop(o), Q)
         /\ Len(Pop(o)) = Len(o) - 1 /\ Len(o) \in Nat \ {0}
         /\ Q[Len(Pop(o))] = P[Len(o) - 1] /\ P[Len(o) - 1] \in 0..c
         /\ Cut(str, P[Len(o) - 1], Top(Pop(o), Nothing), P[Len(o)], Top(o, Nothing))
<1>1. PICK m : m = Len(o)
  OBVIOUS
<1>2. /\ o \in Seq(Ops) /\ m \in Nat \ {0} /\ P \in [0..m -> 0..c] /\ P[0] = 0
      /\ Top(o, Nothing) = o[m]
  BY <1>1, CutFacts
<1>3. PICK u : u = Pop(o)
  OBVIOUS
<1>4. u \in Seq(Ops) /\ Len(u) = m - 1 /\ \A q \in 1..m - 1 : u[q] = o[q]
  BY <1>1, <1>2, <1>3, PopTop
<1>5. /\ Q \in [0..m - 1 -> 0..c] /\ \A q \in 0..m - 1 : Q[q] = P[q]
  <2>1. \A q \in 0..m - 1 : P[q] \in 0..c
    BY <1>2
  <2> QED BY <1>1, <2>1
<1>6. \A q \in 1..m : Cut(str, P[q - 1], IF q = 1 THEN Nothing ELSE o[q - 1], P[q], o[q])
  BY <1>1 DEF Cuts
<1>7. ASSUME NEW q \in 1..m - 1
      PROVE  Cut(str, Q[q - 1], IF q = 1 THEN Nothing ELSE u[q - 1], Q[q], u[q])
  <2>1. q \in 1..m /\ q - 1 \in 0..m - 1 /\ q \in 0..m - 1 /\ (q # 1 => q - 1 \in 1..m - 1)
    BY <1>2
  <2>2. Q[q - 1] = P[q - 1] /\ Q[q] = P[q] /\ u[q] = o[q] /\ (q # 1 => u[q - 1] = o[q - 1])
    BY <2>1, <1>4, <1>5
  <2>3. Cut(str, P[q - 1], IF q = 1 THEN Nothing ELSE o[q - 1], P[q], o[q])
    BY <2>1, <1>6
  <2> QED BY <2>2, <2>3
<1>8. Cuts(str, c, u, Q)
  <2>1. Q[0] = 0
    <3>1. 0 \in 0..m - 1
      BY <1>2
    <3> QED BY <3>1, <1>2, <1>5
  <2>2. Q \in [0..Len(u) -> 0..c]
    BY <1>4, <1>5
  <2>3. \A q \in 1..Len(u) :
          Cut(str, Q[q - 1], IF q = 1 THEN Nothing ELSE u[q - 1], Q[q], u[q])
    BY <1>4, <1>7
  <2> QED BY <1>4, <2>1, <2>2, <2>3 DEF Cuts
<1>9. Q[Len(u)] = P[m - 1] /\ P[m - 1] \in 0..c
  <2>1. m - 1 \in 0..m - 1 /\ m - 1 \in 0..m
    BY <1>2
  <2> QED BY <2>1, <1>2, <1>4, <1>5
<1>10. Top(u, Nothing) = IF m = 1 THEN Nothing ELSE o[m - 1]
  <2>1. CASE m = 1
    <3>1. u = <<>>
      BY <2>1, <1>4, EmptySeq
    <3> QED BY <2>1, <3>1 DEF Top
  <2>2. CASE m # 1
    <3>1. Len(u) # 0 /\ m - 1 \in 1..m - 1
      BY <2>2, <1>2, <1>4
    <3>2. u # <<>>
      BY <3>1
    <3> QED BY <2>2, <3>1, <3>2, <1>4 DEF Top
  <2> QED BY <2>1, <2>2
<1>11. Cut(str, P[m - 1], Top(u, Nothing), P[m], Top(o, Nothing))
  <2>1. m \in 1..m
    BY <1>2
  <2> QED BY <2>1, <1>2, <1>6, <1>10
<1> QED BY <1>1, <1>2, <1>3, <1>4, <1>8, <1>9, <1>11

\* An operator that is popped makes one operand of its two.
LEMMA CutReduced ==
  ASSUME NEW str, WellFormed(str), NEW c \in 0..Len(str), NEW o, NEW P, NEW b,
         Cuts(str, c, o, P), LastPart(str, c, o, P, b), OperandEnds(str, c),
         o # <<>>, Top(o, Nothing) # "(",
         NEW Q, Q = [q \in 0..Len(o) - 1 |-> P[q]]
  PROVE  /\ Cuts(str, c, Pop(o), Q)
         /\ \A a \in Nat : a <= Prio(Top(o, Nothing)) => LastPart(str, c, Pop(o), Q, a)
         /\ Val(str, P[Len(o) - 1] + 1, c) =
              Combine(Top(o, Nothing), Val(str, P[Len(o) - 1] + 1, P[Len(o)] - 1),
                                       Val(str, P[Len(o)] + 1, c))
         /\ Operand(str, P[Len(o) - 1] + 1, c)
         /\ Above(str, P[Len(o) - 1] + 1, c, Prio(Top(o, Nothing)))
<1>1. PICK low : low = P[Len(o) - 1]
  OBVIOUS
<1>2. PICK p : p = P[Len(o)]
  OBVIOUS
<1>3. PICK e : e = Top(o, Nothing)
  OBVIOUS
<1>4. /\ Cuts(str, c, Pop(o), Q) /\ Q[Len(Pop(o))] = low
      /\ Cut(str, low, Top(Pop(o), Nothing), p, e)
      /\ low \in 0..c /\ p \in 0..c /\ e \in Ops /\ e # "("
      /\ str \in Seq(Token) /\ Len(str) \in Nat
  <2>1. e \in Ops
    BY <1>3, CutFacts
  <2> QED BY <1>1, <1>2, <1>3, <2>1, CutFacts, CutLess
<1>5. /\ low < p /\ str[p].t = e /\ Operand(str, low + 1, p - 1)
      /\ Above(str, low + 1, p - 1, Prio(e))
      /\ Prio(Top(Pop(o), Nothing)) < Prio(e)
  BY <1>4 DEF Cut
<1>6. Operand(str, p + 1, c) /\ Above(str, p + 1, c, Prio(e) + 1)
  BY <1>2, <1>3 DEF LastPart
<1>7. e \in BinaryOps /\ p \in 1..Len(str)
  BY <1>4, <1>5 DEF Ops
<1>8. Operand(str, low + 1, c) /\ Outside(str, low + 1, p)
  BY <1>5, <1>6, <1>7, Join
<1>9. low + 1 \in 1..Len(str) /\ c \in low + 1..Len(str) /\ p \in low + 1..c
  BY <1>4, <1>5, <1>7, <1>8 DEF Operand
<1>10. Val(str, low + 1, c) = Combine(e, Val(str, low + 1, p - 1), Val(str, p + 1, c))
  <2>1. PICK i : i = low + 1
    OBVIOUS
  <2>2. /\ Above(str, i, p - 1, Prio(str[p].t)) /\ Above(str, p + 1, c, Prio(str[p].t) + 1)
        /\ i \in 1..Len(str) /\ c \in i..Len(str) /\ p \in i..c /\ Outside(str, i, p)
    BY <2>1, <1>5, <1>6, <1>8, <1>9
  <2>3. Val(str, i, c) = Combine(str[p].t, Val(str, i, p - 1), Val(str, p + 1, c))
    BY <2>2, <1>4, SplitsAt
  <2> QED BY <2>1, <2>3, <1>5
<1>11. Above(str, low + 1, c, Prio(e))
  <2> SUFFICES ASSUME NEW k \in low + 1..c, Outside(str, low + 1, k)
               PROVE  Prio(e) <= Prio(str[k].t)
    BY DEF Above
  <2>1. PICK x, y : x = Prio(e) /\ y = Prio(str[k].t)
    OBVIOUS
  <2>2. x \in Nat /\ y \in Nat
    BY <2>1, PrioType
  <2>3. k \in low + 1..p - 1 \/ k = p \/ k \in p + 1..c
    BY <1>4
  <2>4. k \in low + 1..p - 1 => x <= y
    BY <1>5, <2>1 DEF Above
  <2>5. k = p => x <= y
    BY <1>5, <2>1, <2>2
  <2>6. k \in p + 1..c => x + 1 <= y
    <3>1. (p + 1) - 1 = p /\ Depth(str, p) = Depth(str, (low + 1) - 1)
      BY <1>4, <1>8 DEF Outside
    <3>2. Outside(str, p + 1, k)
      BY <3>1 DEF Outside
    <3> QED BY <3>2, <1>6, <2>1 DEF Above
  <2>7. x <= y
    BY <2>2, <2>3, <2>4, <2>5, <2>6
  <2> QED BY <2>1, <2>7
<1>12. ASSUME NEW a \in Nat, a <= Prio(e) PROVE LastPart(str, c, Pop(o), Q, a)
  <2>1. PICK x, y : x = Prio(Top(Pop(o), Nothing)) /\ y = Prio(e)
    OBVIOUS
  <2>2. x \in Nat /\ y \in Nat /\ x + 1 <= y /\ x + 1 \in Nat
    <3>1. x \in Nat /\ y \in Nat /\ x < y
      BY <1>5, <2>1, PrioType
    <3> QED BY <3>1
  <2>3. Above(str, low + 1, c, a) /\ Above(str, low + 1, c, x + 1)
    BY <1>11, <1>12, <2>1, <2>2, AboveLess
  <2> QED BY <1>4, <1>8, <2>1, <2>3 DEF LastPart
<1> QED BY <1>1, <1>2, <1>3, <1>4, <1>8, <1>10, <1>11, <1>12

\* ')' makes one operand of its '(' and what is between.
LEMMA CutClosed ==
  ASSUME NEW str, WellFormed(str), NEW c \in 0..Len(str) - 1, NEW o, NEW P, NEW b,
         Cuts(str, c, o, P), LastPart(str, c, o, P, b), str[c + 1].t = ")",
         o # <<>>, Top(o, Nothing) = "(",
         NEW Q, Q = [q \in 0..Len(o) - 1 |-> P[q]]
  PROVE  /\ OperandEnds(str, c) /\ OperandEnds(str, c + 1)
         /\ Cuts(str, c + 1, Pop(o), Q)
         /\ \A a : LastPart(str, c + 1, Pop(o), Q, a)
         /\ Val(str, P[Len(o) - 1] + 1, c + 1) = Val(str, P[Len(o)] + 1, c)
<1>1. PICK low : low = P[Len(o) - 1]
  OBVIOUS
<1>2. PICK p : p = P[Len(o)]
  OBVIOUS
<1>3. c \in 0..Len(str) /\ Len(str) \in Nat /\ str \in Seq(Token) /\ c + 1 \in 1..Len(str)
  BY DepthType
<1>4. /\ Cuts(str, c, Pop(o), Q) /\ Q[Len(Pop(o))] = low
      /\ Cut(str, low, Top(Pop(o), Nothing), p, "(")
      /\ low \in 0..c /\ p \in 0..c
  BY <1>1, <1>2, <1>3, CutFacts, CutLess
<1>5. OperandEnds(str, c) /\ OperandEnds(str, c + 1)
  <2>1. TokenFacts(str, c)
    BY NextToken
  <2> QED BY <2>1 DEF TokenFacts, Ended
<1>6. /\ low < p /\ str[p].t = "(" /\ \A k \in low + 1..p - 1 : str[k].t = "space"
  BY <1>4 DEF Cut
<1>7. Operand(str, p + 1, c)
  BY <1>2, <1>5 DEF LastPart
<1>8. Cuts(str, c + 1, Pop(o), Q)
  <2>1. PICK u : u = Pop(o)
    OBVIOUS
  <2>2. Q \in [0..Len(u) -> 0..c] /\ Len(u) \in Nat
    BY <1>4, <2>1 DEF Cuts
  <2>3. \A q \in 0..Len(u) : Q[q] \in 0..c + 1
    BY <1>3, <2>2
  <2>4. Q \in [0..Len(u) -> 0..c + 1]
    BY <2>2, <2>3
  <2> QED BY <1>4, <2>1, <2>4 DEF Cuts
<1>9. ~OperandEnds(str, low)
  BY <1>3, <1>4, CutOpens
<1>10. PICK j : j = c + 1
  OBVIOUS
<1>11. /\ low + 1 \in 1..Len(str) /\ p \in low + 1..Len(str) /\ j \in p + 1..Len(str)
       /\ (low + 1) - 1 = low /\ j - 1 = c
  BY <1>3, <1>4, <1>6, <1>7, <1>10 DEF Operand
<1>12. /\ Operand(str, low + 1, j)
       /\ Val(str, low + 1, j) = Val(str, p + 1, j - 1)
       /\ \A k \in low + 1..j : ~Outside(str, low + 1, k)
  BY <1>6, <1>7, <1>9, <1>10, <1>11, Enclose
<1>13. \A a : Above(str, low + 1, j, a)
  BY <1>12, AboveNone
<1>14. \A a : LastPart(str, j, Pop(o), Q, a)
  BY <1>4, <1>5, <1>10, <1>12, <1>13 DEF LastPart
<1> QED BY <1>1, <1>2, <1>5, <1>8, <1>10, <1>11, <1>12, <1>14

----------------------------------------------------------------------------
(* What is computed in part of an expression is computed in all of it: if a *)
(* part has no value, then the expression has none.                         *)

\* The steps of depth and of ending along a well-formed text.
LEMMA Along ==
  ASSUME NEW str, WellFormed(str), NEW k \in 1..Len(str)
  PROVE  /\ Depth(str, k - 1) \in Nat /\ Depth(str, k) \in Nat
         /\ str[k].t \in Kinds
         /\ str[k].t = "(" => Depth(str, k) = Depth(str, k - 1) + 1
         /\ str[k].t = ")" => Depth(str, k) = Depth(str, k - 1) - 1
         /\ str[k].t \notin {"(", ")"} => Depth(str, k) = Depth(str, k - 1)
         /\ str[k].t \in {"num", "("} => ~OperandEnds(str, k - 1)
         /\ str[k].t \in BinaryOps \union {")"} => OperandEnds(str, k - 1)
         /\ str[k].t \in {"num", ")"} => OperandEnds(str, k)
         /\ str[k].t \in BinaryOps \union {"("} => ~OperandEnds(str, k)
<1>1. str \in Seq(Token) /\ k - 1 \in 0..Len(str) /\ k \in 0..Len(str)
  BY DepthType
<1>2. Depth(str, k - 1) \in Nat /\ Depth(str, k) \in Nat
  BY <1>1, DepthType
<1>3. /\ Depth(str, k) = Depth(str, k - 1) + (IF str[k].t = "(" THEN 1
                                                 ELSE IF str[k].t = ")" THEN -1
                                                 ELSE 0)
  BY <1>1, DepthStep
<1>4. str[k].t \in Kinds
  <2>1. str[k] \in Token
    BY <1>1
  <2> QED BY <2>1 DEF Token
<1>5. /\ str[k].t \in {"num", "("} => ~OperandEnds(str, k - 1)
      /\ str[k].t \in BinaryOps \union {")"} => OperandEnds(str, k - 1)
  BY DEF WellFormed
<1>6. OperandEnds(str, k) <=> \/ str[k].t \in {"num", ")"}
                              \/ str[k].t = "space" /\ OperandEnds(str, k - 1)
  BY <1>1, OperandEndsStep
<1> QED BY <1>2, <1>3, <1>4, <1>5, <1>6 DEF BinaryOps

\* An operator outside of parentheses has two operands.
LEMMA Halves ==
  ASSUME NEW str, WellFormed(str), NEW i, NEW j, Operand(str, i, j),
         NEW p \in i..j, Outside(str, i, p)
  PROVE  Operand(str, i, p - 1) /\ Operand(str, p + 1, j)
<1>1. /\ i \in 1..Len(str) /\ j \in i..Len(str) /\ p \in 1..Len(str) /\ Len(str) \in Nat
      /\ str[p].t \in BinaryOps /\ Depth(str, p) = Depth(str, i - 1)
  BY DepthType DEF Operand, Outside
<1>2. /\ ~OperandEnds(str, p) /\ OperandEnds(str, p - 1) /\ Depth(str, p) = Depth(str, p - 1)
  BY <1>1, Along DEF BinaryOps
<1>3. p # i /\ p # j
  <2>1. ~OperandEnds(str, i - 1) /\ OperandEnds(str, j)
    BY DEF Operand
  <2> QED BY <2>1, <1>2
<1>4. p - 1 \in i..Len(str) /\ p + 1 \in 1..Len(str) /\ j \in p + 1..Len(str) /\ (p + 1) - 1 = p
  BY <1>1, <1>3
<1>5. /\ \A k \in i..p - 1 : k \in i..j
      /\ \A k \in p + 1..j : k \in i..j
  BY <1>1
<1> QED BY <1>1, <1>2, <1>4, <1>5 DEF Operand

\* Where an operand has ended outside of all parentheses and no operator follows,
\* only spaces do.
LEMMA SpacesFollow ==
  ASSUME NEW str, WellFormed(str), NEW i, NEW j, Operand(str, i, j),
         \A k \in i..j : ~Outside(str, i, k),
         NEW g \in i..j, OperandEnds(str, g), Depth(str, g) = Depth(str, i - 1)
  PROVE  \A k \in g + 1..j : str[k].t = "space" /\ Depth(str, k) = Depth(str, i - 1)
<1>1. /\ i \in 1..Len(str) /\ j \in i..Len(str) /\ g \in 1..Len(str) /\ Len(str) \in Nat
      /\ str \in Seq(Token) /\ \A k \in i..j : Depth(str, k) >= Depth(str, i - 1)
  BY DepthType DEF Operand
<1>2. Text(str, g + 1, j) = {}
  <2> SUFFICES ASSUME Text(str, g + 1, j) # {} PROVE FALSE
    OBVIOUS
  <2>1. PICK h \in g + 1..j : str[h].t # "space" /\ \A x \in g + 1..j : x < h => str[x].t = "space"
    <3>1. PICK T : T = Text(str, g + 1, j)
      OBVIOUS
    <3>2. T \subseteq g + 1..j /\ T # {} /\ g + 1 \in Int /\ j \in Int
      BY <3>1, <1>1 DEF Text
    <3>3. Min(T) \in T /\ Min(T) \in g + 1..j /\ \A x \in T : Min(T) <= x
      BY <3>2, FirstLast
    <3>4. \A x \in g + 1..j : x < Min(T) => x \notin T
      BY <3>2, <3>3
    <3> QED BY <3>1, <3>3, <3>4 DEF Text
  <2>2. h \in 1..Len(str) /\ h - 1 \in g..Len(str) /\ h \in i..j
    BY <1>1
  <2>3. Depth(str, h - 1) = Depth(str, g) /\ OperandEnds(str, h - 1)
    <3>1. /\ g + 1 \in 1..Len(str) + 1 /\ h - 1 \in (g + 1) - 1..Len(str) /\ (g + 1) - 1 = g
          /\ \A k \in g + 1..h - 1 : str[k].t = "space"
      BY <1>1, <2>1, <2>2
    <3>2. \A k \in (g + 1) - 1..h - 1 : /\ Depth(str, k) = Depth(str, (g + 1) - 1)
                                       /\ OperandEnds(str, k) <=> OperandEnds(str, (g + 1) - 1)
      BY <3>1, <1>1, AlongSpaces
    <3>3. h - 1 \in (g + 1) - 1..h - 1
      BY <3>1
    <3> QED BY <3>1, <3>2, <3>3
  <2>4. str[h].t \in BinaryOps \union {")"} /\ Depth(str, h - 1) \in Nat
    BY <2>1, <2>2, <2>3, Along DEF Kinds
  <2>5. str[h].t # ")"
    <3>1. str[h].t = ")" => Depth(str, h) = Depth(str, h - 1) - 1
      BY <2>2, Along
    <3>2. Depth(str, h) >= Depth(str, h - 1)
      BY <2>2, <2>3, <1>1
    <3>3. Depth(str, h) \in Nat
      BY <2>2, Along
    <3> QED BY <3>1, <3>2, <3>3, <2>4
  <2>6. str[h].t \in BinaryOps /\ Depth(str, h) = Depth(str, h - 1)
    BY <2>2, <2>4, <2>5, Along DEF BinaryOps
  <2>7. Outside(str, i, h)
    BY <2>3, <2>6 DEF Outside
  <2> QED BY <2>2, <2>7
<1>3. \A k \in g + 1..j : str[k].t = "space"
  BY <1>2 DEF Text
<1>4. \A k \in g + 1..j : Depth(str, k) = Depth(str, g)
  <2>1. g + 1 \in 1..Len(str) + 1 /\ j \in (g + 1) - 1..Len(str) /\ (g + 1) - 1 = g
    BY <1>1
  <2>2. \A k \in (g + 1) - 1..j : Depth(str, k) = Depth(str, (g + 1) - 1)
    BY <2>1, <1>1, <1>3, AlongSpaces
  <2>3. \A k \in g + 1..j : k \in (g + 1) - 1..j
    BY <1>1
  <2> QED BY <2>1, <2>2, <2>3
<1> QED BY <1>3, <1>4

\* An operand without an operator outside of parentheses is a number, or an operand
\* in parentheses.
LEMMA Bare ==
  ASSUME NEW str, WellFormed(str), NEW i, NEW j, Operand(str, i, j),
         \A k \in i..j : ~Outside(str, i, k)
  PROVE  \/ \E f \in i..j : Text(str, i, j) = {f} /\ str[f].t = "num"
         \/ \E f \in i..j, l \in i..j :
              /\ Min(Text(str, i, j)) = f /\ Max(Text(str, i, j)) = l
              /\ str[f].t = "(" /\ Operand(str, f + 1, l - 1) /\ f < l
              /\ \A k \in i - 1..f - 1 : Depth(str, k) = Depth(str, i - 1)
              /\ \A k \in l..j : Depth(str, k) = Depth(str, i - 1)
<1>1. /\ i \in 1..Len(str) /\ j \in i..Len(str) /\ Len(str) \in Nat /\ str \in Seq(Token)
      /\ \A k \in i..j : Depth(str, k) >= Depth(str, i - 1)
      /\ Depth(str, j) = Depth(str, i - 1) /\ ~OperandEnds(str, i - 1) /\ OperandEnds(str, j)
      /\ i \in 1..Len(str) + 1
  BY DepthType DEF Operand
<1>2. PICK T : T = Text(str, i, j)
  OBVIOUS
<1>3. PICK d \in Nat : d = Depth(str, i - 1)
  BY <1>1, Along
<1>4. T # {} /\ T \subseteq i..j /\ i \in Int /\ j \in Int
  <2>1. ASSUME T = {} PROVE FALSE
    <3>1. \A k \in i..j : str[k].t = "space"
      BY <2>1, <1>2 DEF Text
    <3>2. j \in i - 1..Len(str) /\ j \in i - 1..j
      BY <1>1
    <3>3. OperandEnds(str, j) <=> OperandEnds(str, i - 1)
      BY <3>1, <3>2, <1>1, AlongSpaces
    <3> QED BY <3>3, <1>1
  <2> QED BY <2>1, <1>1, <1>2 DEF Text
<1>5. PICK f : f = Min(T)
  OBVIOUS
<1>6. f \in T /\ f \in i..j /\ \A x \in T : f <= x
  BY <1>4, <1>5, FirstLast
<1>7. f \in 1..Len(str) /\ f - 1 \in i - 1..Len(str) /\ str[f].t # "space"
  BY <1>1, <1>2, <1>6 DEF Text
<1>8. \A k \in i..f - 1 : str[k].t = "space"
  <2> SUFFICES ASSUME NEW k \in i..f - 1 PROVE str[k].t = "space"
    OBVIOUS
  <2>1. k \in i..j /\ ~(f <= k)
    <3>1. f \in Int /\ f <= j /\ i \in Int /\ j \in Int
      BY <1>4, <1>6
    <3> QED BY <3>1
  <2>2. k \notin T
    BY <2>1, <1>6
  <2> QED BY <2>1, <2>2, <1>2 DEF Text
<1>9. \A k \in i - 1..f - 1 : Depth(str, k) = d /\ ~OperandEnds(str, k)
  BY <1>1, <1>3, <1>7, <1>8, AlongSpaces
<1>10. Depth(str, f - 1) = d /\ ~OperandEnds(str, f - 1)
  <2>1. f - 1 \in i - 1..f - 1
    BY <1>7
  <2> QED BY <2>1, <1>9
<1>11. str[f].t \in {"num", "("}
  BY <1>7, <1>10, Along DEF Kinds
<1>12. CASE str[f].t = "num"
  <2>1. OperandEnds(str, f) /\ Depth(str, f) = d
    BY <1>7, <1>10, <1>12, Along
  <2>2. \A k \in f + 1..j : str[k].t = "space"
    BY <2>1, <1>3, <1>6, SpacesFollow
  <2>3. \A k \in i..j : k \in i..f - 1 \/ k = f \/ k \in f + 1..j
    BY <1>6
  <2>4. T = {f}
    BY <2>2, <2>3, <1>2, <1>6, <1>8 DEF Text
  <2> QED BY <2>4, <1>2, <1>6, <1>12
<1>13. CASE str[f].t = "("
  <2>1. Depth(str, f) = d + 1 /\ ~OperandEnds(str, f)
    BY <1>7, <1>10, <1>13, Along
  <2>2. PICK l \in f + 1..j : Depth(str, l) = d /\ \A k \in f + 1..j : k < l => Depth(str, k) # d
    <3>1. PICK S : S = {k \in f + 1..j : Depth(str, k) = d}
      OBVIOUS
    <3>2. j \in f + 1..j
      <4>1. j # f
        BY <2>1, <1>1, <1>3
      <4> QED BY <4>1, <1>1, <1>6
    <3>3. S \subseteq f + 1..j /\ S # {} /\ f + 1 \in Int
      BY <3>1, <3>2, <1>1, <1>3, <1>7
    <3>4. Min(S) \in S /\ Min(S) \in f + 1..j /\ \A x \in S : Min(S) <= x
      BY <3>3, <1>4, FirstLast
    <3>5. \A k \in f + 1..j : k < Min(S) => k \notin S
      BY <3>4
    <3> QED BY <3>1, <3>4, <3>5
  <2>3. l \in 1..Len(str) /\ l \in i..j /\ f < l /\ l - 1 \in f..j /\ f \in i..j
    BY <1>1, <1>6
  <2>4. \A k \in f..l - 1 : Depth(str, k) >= d + 1 /\ Depth(str, k) \in Nat
    <3> SUFFICES ASSUME NEW k \in f..l - 1
                 PROVE  Depth(str, k) >= d + 1 /\ Depth(str, k) \in Nat
      OBVIOUS
    <3>1. k \in i..j /\ k \in 1..Len(str) /\ k < l /\ (k = f \/ k \in f + 1..j)
      BY <2>3, <1>1
    <3>2. Depth(str, k) >= d /\ Depth(str, k) \in Nat /\ Depth(str, k) # d
      <4>1. Depth(str, k) # d
        BY <3>1, <2>1, <2>2
      <4> QED BY <4>1, <3>1, <1>1, <1>3, Along
    <3> QED BY <3>2
  <2>5. /\ str[l].t = ")" /\ Depth(str, l - 1) = d + 1
        /\ OperandEnds(str, l - 1) /\ OperandEnds(str, l)
    <3>1. Depth(str, l - 1) >= d + 1 /\ Depth(str, l - 1) \in Nat
      <4>1. l - 1 \in f..l - 1
        BY <2>3
      <4> QED BY <4>1, <2>4
    <3>2. /\ str[l].t = "(" => Depth(str, l) = Depth(str, l - 1) + 1
          /\ str[l].t = ")" => Depth(str, l) = Depth(str, l - 1) - 1
          /\ str[l].t \notin {"(", ")"} => Depth(str, l) = Depth(str, l - 1)
      BY <2>3, Along
    <3>3. str[l].t = ")" /\ Depth(str, l - 1) = d + 1
      BY <3>1, <3>2, <2>2
    <3> QED BY <3>3, <2>3, Along
  <2>6. \A k \in l + 1..j : str[k].t = "space" /\ Depth(str, k) = d
    BY <2>2, <2>3, <2>5, <1>3, SpacesFollow
  <2>7. f + 1 \in 1..Len(str) /\ l - 1 \in f + 1..Len(str) /\ (f + 1) - 1 = f
    <3>1. l - 1 # f
      BY <2>1, <2>5
    <3> QED BY <3>1, <2>3, <1>1
  <2>8. Operand(str, f + 1, l - 1)
    <3>1. \A k \in f + 1..l - 1 : Depth(str, k) >= d + 1
      <4>1. \A k \in f + 1..l - 1 : k \in f..l - 1
        BY <2>3
      <4> QED BY <4>1, <2>4
    <3> QED BY <3>1, <2>1, <2>5, <2>7 DEF Operand
  <2>9. Max(T) = l
    <3>1. Max(T) \in T /\ Max(T) \in i..j /\ \A x \in T : x <= Max(T)
      BY <1>4, FirstLast
    <3>2. l \in T
      BY <2>3, <2>5, <1>2 DEF Text
    <3>3. PICK x : x = Max(T)
      OBVIOUS
    <3>4. x \in i..j /\ l <= x /\ str[x].t # "space"
      BY <3>1, <3>2, <3>3, <1>2 DEF Text
    <3>5. ~(x \in l + 1..j)
      BY <3>4, <2>6
    <3> QED BY <3>3, <3>4, <3>5, <2>3
  <2>10. \A k \in l..j : Depth(str, k) = d
    <3>1. \A k \in l..j : k = l \/ k \in l + 1..j
      BY <2>3
    <3> QED BY <3>1, <2>2, <2>6
  <2> QED BY <2>3, <2>8, <2>9, <2>10, <1>2, <1>3, <1>5, <1>6, <1>9, <1>13
<1> QED BY <1>11, <1>12, <1>13

\* The part is an operand without a value, and what stands at its ends does not bind
\* tighter than the operators in it.
Ruined(str, a, b) ==
  /\ Operand(str, a, b) /\ Val(str, a, b) = Undefined
  /\ Above(str, a, b, 2) /\ \E k \in a..b : Outside(str, a, k)
  /\ a = 1 \/ str[a - 1].t \in {"(", "+", "-"}
  /\ b = Len(str) \/ str[b + 1].t \in BinaryOps \union {")"}

\* Nothing is computed from what has no value.
LEMMA CombineUndefined ==
  \A op, v : Combine(op, Undefined, v) = Undefined /\ Combine(op, v, Undefined) = Undefined
BY DEF Combine

\* The whole expression is an operand.
LEMMA WholeIsOperand ==
  ASSUME NEW str, WellFormed(str)
  PROVE  Operand(str, 1, Len(str))
<1>1. Len(str) \in Nat /\ OperandEnds(str, Len(str)) /\ Depth(str, Len(str)) = 0
  BY DepthType DEF WellFormed
<1>2. Depth(str, 0) = 0 /\ ~OperandEnds(str, 0) /\ 1 - 1 = 0
  BY DepthType
<1>3. Len(str) # 0
  BY <1>1, <1>2
<1>4. \A k \in 1..Len(str) : Depth(str, k) >= 0
  BY DEF WellFormed
<1> QED BY <1>1, <1>2, <1>3, <1>4 DEF Operand

\* The split of an operand around a part without a value is beside the part, if the
\* operand is more than the part.
LEMMA SplitBeside ==
  ASSUME NEW str, WellFormed(str), NEW a, NEW b, Ruined(str, a, b),
         NEW x, NEW y, Operand(str, x, y), x <= a, b <= y,
         NEW at \in a..b, at = SplitAt(str, x, y)
  PROVE  x = a /\ y = b
<1>1. /\ a \in 1..Len(str) /\ b \in a..Len(str) /\ x \in 1..Len(str) /\ y \in x..Len(str)
      /\ Len(str) \in Nat /\ at # 0 /\ at \in x..y
      /\ Depth(str, b) = Depth(str, a - 1)
      /\ \A k \in a..b : Depth(str, k) >= Depth(str, a - 1)
      /\ \A k \in x..y : Depth(str, k) >= Depth(str, x - 1)
  BY DepthType DEF Ruined, Operand
<1>2. PICK d \in Nat : d = Depth(str, x - 1)
  BY <1>1, Along
<1>3. /\ Outside(str, x, at)
      /\ \A k \in x..y : Outside(str, x, k) =>
           \/ k <= at /\ Prio(str[at].t) <= Prio(str[k].t)
           \/ Prio(str[at].t) < Prio(str[k].t)
  BY <1>1, SplitFacts
<1>4. Depth(str, a - 1) = d /\ Depth(str, b) = d
  <2>1. a - 1 = x - 1 \/ a - 1 \in x..y
    BY <1>1
  <2>2. Depth(str, a - 1) >= d /\ Depth(str, a - 1) \in Nat
    <3>1. Depth(str, a - 1) \in Nat
      BY <1>1, Along
    <3>2. a - 1 = x - 1 => Depth(str, a - 1) = d
      BY <1>2
    <3> QED BY <2>1, <3>1, <3>2, <1>1, <1>2
  <2>3. Depth(str, at) >= Depth(str, a - 1) /\ Depth(str, at) = d
    BY <1>1, <1>2, <1>3 DEF Outside
  <2> QED BY <2>2, <2>3, <1>1
<1>5. Prio(str[at].t) = 2
  <2>1. Outside(str, a, at)
    BY <1>2, <1>3, <1>4 DEF Outside
  <2>2. 2 <= Prio(str[at].t)
    BY <2>1 DEF Ruined, Above
  <2>3. Prio(str[at].t) \in {0, 1, 2}
    BY PrioType
  <2> QED BY <2>2, <2>3
<1>6. \A k \in x..y : Outside(str, x, k) => k <= at /\ Prio(str[k].t) = 2
  <2> SUFFICES ASSUME NEW k \in x..y, Outside(str, x, k)
               PROVE  k <= at /\ Prio(str[k].t) = 2
    OBVIOUS
  <2>1. Prio(str[k].t) \in {0, 1, 2}
    BY PrioType
  <2>2. \/ k <= at /\ 2 <= Prio(str[k].t)
        \/ 2 < Prio(str[k].t)
    BY <1>3, <1>5
  <2> QED BY <2>1, <2>2
<1>7. x = a
  <2> SUFFICES ASSUME x # a PROVE FALSE
    OBVIOUS
  <2>1. a - 1 \in x..y /\ a - 1 \in 1..Len(str) /\ a # 1 /\ (a - 1 = x \/ (a - 1) - 1 \in x..y)
    BY <1>1
  <2>2. str[a - 1].t \in {"(", "+", "-"}
    BY <2>1 DEF Ruined
  <2>3. CASE str[a - 1].t = "("
    <3>1. Depth(str, (a - 1) - 1) \in Nat /\ Depth(str, a - 1) = Depth(str, (a - 1) - 1) + 1
      BY <2>1, <2>3, Along
    <3>2. Depth(str, (a - 1) - 1) >= d
      BY <2>1, <1>1, <1>2
    <3> QED BY <3>1, <3>2, <1>4
  <2>4. CASE str[a - 1].t # "("
    <3>1. str[a - 1].t \in BinaryOps /\ Prio(str[a - 1].t) = 1
      BY <2>2, <2>4 DEF BinaryOps, Prio
    <3>2. Outside(str, x, a - 1)
      BY <3>1, <1>2, <1>4 DEF Outside
    <3> QED BY <3>1, <3>2, <2>1, <1>6
  <2> QED BY <2>3, <2>4
<1>8. y = b
  <2> SUFFICES ASSUME y # b PROVE FALSE
    OBVIOUS
  <2>1. b + 1 \in x..y /\ b + 1 \in 1..Len(str) /\ b # Len(str) /\ (b + 1) - 1 = b
    BY <1>1
  <2>2. str[b + 1].t \in BinaryOps \union {")"}
    BY <2>1 DEF Ruined
  <2>3. CASE str[b + 1].t = ")"
    <3>1. Depth(str, b + 1) = Depth(str, b) - 1 /\ Depth(str, b + 1) \in Nat
      BY <2>1, <2>3, Along
    <3>2. Depth(str, b + 1) >= d
      BY <2>1, <1>1, <1>2
    <3> QED BY <3>1, <3>2, <1>4
  <2>4. CASE str[b + 1].t \in BinaryOps
    <3>1. Depth(str, b + 1) = Depth(str, b)
      BY <2>1, <2>4, Along DEF BinaryOps
    <3>2. Outside(str, x, b + 1)
      BY <3>1, <2>4, <1>2, <1>4 DEF Outside
    <3>3. b + 1 <= at
      BY <3>2, <2>1, <1>6
    <3> QED BY <3>3, <1>1
  <2> QED BY <2>2, <2>3, <2>4
<1> QED BY <1>7, <1>8

\* No operand around the part has a value: a shortest one that had would have it from a
\* shorter one.
LEMMA Ruin ==
  ASSUME NEW str, WellFormed(str), NEW a, NEW b, Ruined(str, a, b)
  PROVE  \A x, y : Operand(str, x, y) /\ x <= a /\ b <= y => Val(str, x, y) = Undefined
<1> DEFINE Worth(x, y) == Operand(str, x, y) /\ x <= a /\ b <= y /\ Val(str, x, y) # Undefined
           Bad == {m \in Nat : \E x, y : Worth(x, y) /\ m = y - x}
<1>1. \A x, y : Worth(x, y) => y - x \in Nat
  BY DepthType DEF Operand
<1>2. Bad = {}
  <2> SUFFICES ASSUME Bad # {} PROVE FALSE
    OBVIOUS
  <2>1. PICK m \in Bad : \A z \in Bad : m <= z
    <3>1. Bad \subseteq Nat
      OBVIOUS
    <3> HIDE DEF Bad
    <3> QED BY <3>1, Least
  <2>2. PICK x, y : Worth(x, y) /\ m = y - x /\ m \in Nat
    BY <2>1
  <2>3. ASSUME NEW u, NEW v, Operand(str, u, v), u <= a, b <= v, v - u < m
        PROVE  Val(str, u, v) = Undefined
    <3>1. v - u \in Nat
      BY <2>3, DepthType DEF Operand
    <3>2. v - u \notin Bad
      <4>1. ~(m <= v - u)
        BY <3>1, <2>3, <2>2
      <4> QED BY <4>1, <2>1
    <3> QED BY <3>1, <3>2, <2>3
  <2>4. /\ x \in 1..Len(str) /\ y \in x..Len(str) /\ Len(str) \in Nat
        /\ a \in 1..Len(str) /\ b \in a..Len(str)
        /\ Operand(str, x, y) /\ x <= a /\ b <= y /\ Val(str, x, y) # Undefined
    BY <2>2, DepthType DEF Operand, Ruined
  <2> HIDE DEF Bad, Worth
  <2>5. PICK at : at = SplitAt(str, x, y)
    OBVIOUS
  <2>6. Val(str, x, y) = PartIs(str, x, y)
    <3>1. x \in 1..Len(str) + 1 /\ y \in 0..Len(str)
      BY <2>4
    <3> QED BY <3>1, <2>4, ValueIs DEF Val
  <2>7. PICK T : T = Text(str, x, y)
    OBVIOUS
  <2>8. Val(str, x, y) =
          IF T = {} THEN Undefined
          ELSE IF at # 0 THEN Combine(str[at].t, Val(str, x, at - 1), Val(str, at + 1, y))
          ELSE IF str[Min(T)].t = "(" THEN Val(str, Min(T) + 1, Max(T) - 1)
          ELSE <<str[Min(T)].v>>
    BY <2>5, <2>6, <2>7 DEF PartIs, Val
  <2>9. CASE at # 0
    <3>1. at \in x..y /\ Outside(str, x, at)
      BY <2>4, <2>5, <2>9, SplitFacts
    <3>2. Operand(str, x, at - 1) /\ Operand(str, at + 1, y)
      BY <2>4, <3>1, Halves
    <3>3. CASE at \in a..b
      <4>1. x = a /\ y = b
        BY <2>4, <2>5, <3>3, SplitBeside
      <4> QED BY <4>1, <2>4 DEF Ruined
    <3>4. CASE at < a
      <4>1. at + 1 <= a /\ y - (at + 1) < m
        BY <3>1, <3>4, <2>2, <2>4
      <4>2. Val(str, at + 1, y) = Undefined
        BY <4>1, <3>2, <2>3, <2>4
      <4> QED BY <4>2, <2>4, <2>8, <2>9, CombineUndefined
    <3>5. CASE b < at
      <4>1. b <= at - 1 /\ (at - 1) - x < m
        BY <3>1, <3>5, <2>2, <2>4
      <4>2. Val(str, x, at - 1) = Undefined
        BY <4>1, <3>2, <2>3, <2>4
      <4> QED BY <4>2, <2>4, <2>8, <2>9, CombineUndefined
    <3> QED BY <3>1, <3>3, <3>4, <3>5, <2>4
  <2>10. CASE at = 0
    <3>1. \A k \in x..y : ~Outside(str, x, k)
      <4>1. x \in Int /\ y \in Int /\ x > 0 /\ SplitAt(str, x, y) = 0
        BY <2>4, <2>5, <2>10
      <4> QED BY <4>1, SplitFacts
    <3>2. PICK o \in a..b : Outside(str, a, o)
      BY DEF Ruined
    <3>3. o \in x..y /\ str[o].t \in BinaryOps /\ Depth(str, o) = Depth(str, a - 1)
      BY <3>2, <2>4 DEF Outside
    <3>4. Depth(str, a - 1) # Depth(str, x - 1) /\ Depth(str, b) = Depth(str, a - 1)
      BY <3>1, <3>3 DEF Outside, Ruined, Operand
    <3>5. o \in T
      BY <3>3, <2>7 DEF Text, BinaryOps
    <3>6. \/ \E f \in x..y : T = {f} /\ str[f].t = "num"
          \/ \E f \in x..y, l \in x..y :
               /\ Min(T) = f /\ Max(T) = l
               /\ str[f].t = "(" /\ Operand(str, f + 1, l - 1) /\ f < l
               /\ \A k \in x - 1..f - 1 : Depth(str, k) = Depth(str, x - 1)
               /\ \A k \in l..y : Depth(str, k) = Depth(str, x - 1)
      BY <3>1, <2>4, <2>7, Bare
    <3>7. ~\E f \in x..y : T = {f} /\ str[f].t = "num"
      BY <3>3, <3>5 DEF BinaryOps
    <3>8. PICK f \in x..y, l \in x..y :
               /\ Min(T) = f /\ Max(T) = l
               /\ str[f].t = "(" /\ Operand(str, f + 1, l - 1) /\ f < l
               /\ \A k \in x - 1..f - 1 : Depth(str, k) = Depth(str, x - 1)
               /\ \A k \in l..y : Depth(str, k) = Depth(str, x - 1)
      BY <3>6, <3>7
    <3>9. f + 1 <= a /\ b <= l - 1 /\ (l - 1) - (f + 1) < m
      <4>1. a - 1 \notin x - 1..f - 1 /\ b \notin l..y
        BY <3>4, <3>8
      <4> QED BY <4>1, <2>2, <2>4
    <3>10. Val(str, f + 1, l - 1) = Undefined
      BY <3>8, <3>9, <2>3
    <3> QED BY <3>5, <3>8, <3>10, <2>4, <2>8, <2>10
  <2> QED BY <2>9, <2>10
<1>3. ASSUME NEW x, NEW y, Operand(str, x, y), x <= a, b <= y
      PROVE  Val(str, x, y) = Undefined
  <2>1. ~Worth(x, y)
    BY <1>1, <1>2
  <2> QED BY <2>1, <1>3
<1> QED BY <1>3

----------------------------------------------------------------------------
(* What the two stacks hold of the values of the text that is read.         *)

\* The numbers on the stack n are the values of the left operands of the operators
\* on the stack o, which cuts the text at P, and of the operand that has ended.  E
\* says how many numbers were there when an operator came.
Operands(str, c, o, P, n, E) ==
  /\ E \in [0..Len(o) -> Nat] /\ E[0] = 0
  /\ \A q \in 1..Len(o) : E[q] = E[q - 1] + (IF o[q] = "(" THEN 0 ELSE 1)
  /\ \A q \in 0..Len(o) : \A r \in q..Len(o) : E[q] <= E[r]
  /\ Len(n) = E[Len(o)] + Ended(str, c)
  /\ \A q \in 1..Len(o) : o[q] # "(" => <<n[E[q]]>> = Val(str, P[q - 1] + 1, P[q] - 1)
  /\ OperandEnds(str, c) => <<n[Len(n)]>> = Val(str, P[Len(o)] + 1, c)

\* The stacks o and n hold what is to be done with the first c tokens; in what has been
\* computed last every operator binds at least as tight as b says.
Holds(str, c, o, n, b) ==
  \E P, E : Cuts(str, c, o, P) /\ LastPart(str, c, o, P, b) /\ Operands(str, c, o, P, n, E)

\* What binds tight in the last part also does by a lower measure.
LEMMA HoldsLess ==
  ASSUME NEW str, NEW c, NEW o, NEW n, NEW a \in Nat, NEW b \in Nat, a <= b, Holds(str, c, o, n, b)
  PROVE  Holds(str, c, o, n, a)
<1>1. PICK P, E : Cuts(str, c, o, P) /\ LastPart(str, c, o, P, b) /\ Operands(str, c, o, P, n, E)
  BY DEF Holds
<1>2. LastPart(str, c, o, P, a)
  BY <1>1, AboveLess DEF LastPart
<1> QED BY <1>1, <1>2 DEF Holds

\* What calculate() starts with.
LEMMA HoldsNothing ==
  ASSUME NEW str, WellFormed(str)
  PROVE  \A b : Holds(str, 0, <<>>, <<>>, b)
<1> TAKE b
<1> DEFINE P == [q \in 0..0 |-> 0]
<1>1. Len(<<>>) = 0 /\ <<>> \in Seq(Ops) /\ ~OperandEnds(str, 0)
  BY DepthType
<1>2. P \in [0..0 -> 0..0] /\ P \in [0..0 -> Nat] /\ P[0] = 0
  OBVIOUS
<1> HIDE DEF P
<1>3. \A q \in 1..0 : FALSE
  OBVIOUS
<1>4. Cuts(str, 0, <<>>, P)
  BY <1>1, <1>2, <1>3 DEF Cuts
<1>5. LastPart(str, 0, <<>>, P, b)
  <2>1. \A k \in P[0] + 1..0 : FALSE
    BY <1>2
  <2> QED BY <1>1, <2>1 DEF LastPart
<1>6. Operands(str, 0, <<>>, P, <<>>, P)
  <2>1. Ended(str, 0) = 0
    BY <1>1 DEF Ended
  <2>2. \A q \in 0..0 : q = 0 /\ \A r \in q..0 : r = 0
    OBVIOUS
  <2> QED BY <1>1, <1>2, <1>3, <2>1, <2>2 DEF Operands
<1> QED BY <1>4, <1>5, <1>6 DEF Holds

\* An operator, or '(', is pushed: the operand in front of it stays on n.
LEMMA HoldsPushed ==
  ASSUME NEW str, WellFormed(str), NEW c \in 0..Len(str) - 1, NEW o, NEW n \in Seq(Int),
         NEW b \in Nat, Holds(str, c, o, n, b), NEW e, e = str[c + 1].t, e \in Ops,
         e # "(" => Prio(e) <= b /\ Prio(Top(o, Nothing)) < Prio(e)
  PROVE  \A b2 : Holds(str, c + 1, Append(o, e), n, b2)
<1>1. PICK P, E : Cuts(str, c, o, P) /\ LastPart(str, c, o, P, b) /\ Operands(str, c, o, P, n, E)
  BY DEF Holds
<1>2. PICK m : m = Len(o)
  OBVIOUS
<1>3. /\ str \in Seq(Token) /\ Len(str) \in Nat /\ o \in Seq(Ops) /\ m \in Nat
      /\ P \in [0..m -> 0..c] /\ c \in 0..Len(str)
  BY <1>1, <1>2 DEF Cuts, WellFormed
<1>q. PICK Q : Q = [q \in 0..Len(o) + 1 |-> IF q = Len(o) + 1 THEN c + 1 ELSE P[q]]
  OBVIOUS
<1> DEFINE d == IF e = "(" THEN 0 ELSE 1
           F == [q \in 0..m + 1 |-> IF q = m + 1 THEN E[m] + d ELSE E[q]]
           up == Append(o, e)
<1>4. /\ Cuts(str, c + 1, up, Q) /\ \A b2 : LastPart(str, c + 1, up, Q, b2)
      /\ ~OperandEnds(str, c + 1)
      /\ OperandEnds(str, c) <=> e # "("
  <2>1. /\ Cuts(str, c + 1, up, Q)
        /\ \A b2 : LastPart(str, c + 1, up, Q, b2)
        /\ ~OperandEnds(str, c + 1)
        /\ OperandEnds(str, c) <=> e # "("
    <3>1. Pushes(str, c, o, P, b, e, Q)
      BY <1>1, <1>q DEF Pushes
    <3> QED BY <3>1, CutPushed
  <2> QED BY <2>1
<1>n. m \in Nat /\ m \in 0..m /\ c \in Int
  BY <1>3
<1>5. /\ Len(up) = m + 1 /\ up[m + 1] = e /\ \A q \in 1..m : up[q] = o[q]
  BY <1>2, <1>3
<1>6. Q[m + 1] = c + 1 /\ \A q \in 0..m : Q[q] = P[q] /\ q # m + 1
  BY <1>2, <1>3, <1>q
<1>7. /\ E \in [0..m -> Nat] /\ E[0] = 0
      /\ \A q \in 1..m : E[q] = E[q - 1] + (IF o[q] = "(" THEN 0 ELSE 1)
      /\ \A q \in 0..m : \A r \in q..m : E[q] <= E[r]
      /\ Len(n) = E[m] + Ended(str, c)
      /\ \A q \in 1..m : o[q] # "(" => <<n[E[q]]>> = Val(str, P[q - 1] + 1, P[q] - 1)
      /\ OperandEnds(str, c) => <<n[Len(n)]>> = Val(str, P[m] + 1, c)
  BY <1>1, <1>2 DEF Operands
<1>8. E[m] \in Nat /\ \A q \in 0..m : E[q] \in Nat
  BY <1>n, <1>7
<1>9. d \in {0, 1} /\ Ended(str, c) = d /\ Ended(str, c + 1) = 0
  BY <1>4 DEF Ended
<1> HIDE DEF d
<1>10. /\ F \in [0..m + 1 -> Nat] /\ F[m + 1] = E[m] + d /\ \A q \in 0..m : F[q] = E[q]
  BY <1>3, <1>8, <1>9
<1> HIDE DEF F, up
<1>11. \A q \in 0..m + 1 : q \in 0..m \/ q = m + 1
  BY <1>n
<1>12. F[0] = 0
  BY <1>n, <1>7, <1>10
<1>13. \A q \in 1..m + 1 : F[q] = F[q - 1] + (IF up[q] = "(" THEN 0 ELSE 1)
  <2> SUFFICES ASSUME NEW q \in 1..m + 1
               PROVE  F[q] = F[q - 1] + (IF up[q] = "(" THEN 0 ELSE 1)
    OBVIOUS
  <2>1. CASE q = m + 1
    <3>1. F[q - 1] = E[m]
      BY <2>1, <1>n, <1>10
    <3> QED BY <2>1, <3>1, <1>5, <1>10 DEF d
  <2>2. CASE q # m + 1
    <3>1. q \in 1..m /\ q \in 0..m /\ q - 1 \in 0..m
      BY <2>2, <1>n
    <3> QED BY <3>1, <1>5, <1>7, <1>10
  <2> QED BY <2>1, <2>2
<1>14. \A q \in 0..m + 1 : \A r \in q..m + 1 : F[q] <= F[r]
  <2> SUFFICES ASSUME NEW q \in 0..m + 1, NEW r \in q..m + 1 PROVE F[q] <= F[r]
    OBVIOUS
  <2>1. CASE r = m + 1
    <3>1. q \in 0..m => E[q] <= E[m] /\ E[q] \in Nat
      <4>1. q \in 0..m => m \in q..m
        BY <1>n
      <4> QED BY <4>1, <1>7, <1>8
    <3> QED BY <2>1, <3>1, <1>8, <1>9, <1>10, <1>11
  <2>2. CASE r # m + 1
    <3>1. q \in 0..m /\ r \in q..m /\ r \in 0..m
      BY <2>2, <1>n
    <3> QED BY <3>1, <1>7, <1>10
  <2> QED BY <2>1, <2>2
<1>15. Len(n) = F[m + 1] + Ended(str, c + 1)
  BY <1>7, <1>8, <1>9, <1>10
<1>16. \A q \in 1..m + 1 : up[q] # "(" => <<n[F[q]]>> = Val(str, Q[q - 1] + 1, Q[q] - 1)
  <2> SUFFICES ASSUME NEW q \in 1..m + 1, up[q] # "("
               PROVE  <<n[F[q]]>> = Val(str, Q[q - 1] + 1, Q[q] - 1)
    OBVIOUS
  <2>1. CASE q = m + 1
    <3>1. e # "(" /\ OperandEnds(str, c)
      BY <2>1, <1>4, <1>5
    <3>2. q - 1 = m /\ m \in 0..m /\ (c + 1) - 1 = c
      BY <2>1, <1>n
    <3>3. Q[q - 1] = P[m] /\ Q[q] - 1 = c
      BY <2>1, <3>2, <1>6
    <3>4. F[q] = Len(n)
      BY <2>1, <1>7, <1>9, <1>10
    <3> QED BY <3>1, <3>3, <3>4, <1>7
  <2>2. CASE q # m + 1
    <3>1. q \in 1..m /\ q \in 0..m /\ q - 1 \in 0..m
      BY <2>2, <1>n
    <3>2. Q[q] = P[q] /\ Q[q - 1] = P[q - 1] /\ F[q] = E[q] /\ o[q] # "("
      BY <3>1, <1>5, <1>6, <1>10
    <3> QED BY <3>1, <3>2, <1>7
  <2> QED BY <2>1, <2>2
<1>17. Operands(str, c + 1, up, Q, n, F)
  BY <1>4, <1>5, <1>10, <1>12, <1>13, <1>14, <1>15, <1>16 DEF Operands
<1> QED BY <1>4, <1>17 DEF Holds, up

\* A space changes nothing.
LEMMA HoldsSpace ==
  ASSUME NEW str, WellFormed(str), NEW c \in 0..Len(str) - 1, NEW o, NEW n, NEW b,
         Holds(str, c, o, n, b), str[c + 1].t = "space"
  PROVE  Holds(str, c + 1, o, n, b)
<1>1. PICK P, E : Cuts(str, c, o, P) /\ LastPart(str, c, o, P, b) /\ Operands(str, c, o, P, n, E)
  BY DEF Holds
<1>2. /\ Cuts(str, c + 1, o, P) /\ LastPart(str, c + 1, o, P, b)
      /\ OperandEnds(str, c + 1) <=> OperandEnds(str, c)
      /\ OperandEnds(str, c) => Val(str, P[Len(o)] + 1, c + 1) = Val(str, P[Len(o)] + 1, c)
  BY <1>1, CutRead
<1>3. Operands(str, c + 1, o, P, n, E)
  BY <1>1, <1>2 DEF Operands, Ended
<1> QED BY <1>2, <1>3 DEF Holds

\* A number is pushed.
LEMMA HoldsNum ==
  ASSUME NEW str, WellFormed(str), NEW c \in 0..Len(str) - 1, NEW o, NEW n \in Seq(Int), NEW b,
         Holds(str, c, o, n, b), str[c + 1].t = "num"
  PROVE  \A b2 : Holds(str, c + 1, o, Append(n, str[c + 1].v), b2)
<1>1. PICK P, E : Cuts(str, c, o, P) /\ LastPart(str, c, o, P, b) /\ Operands(str, c, o, P, n, E)
  BY DEF Holds
<1>2. /\ Cuts(str, c + 1, o, P) /\ \A b2 : LastPart(str, c + 1, o, P, b2)
      /\ ~OperandEnds(str, c) /\ OperandEnds(str, c + 1)
      /\ Val(str, P[Len(o)] + 1, c + 1) = <<str[c + 1].v>>
  BY <1>1, CutRead
<1>3. PICK m, v : m = Len(o) /\ v = str[c + 1].v
  OBVIOUS
<1>4. m \in Nat /\ v \in Int
  <2>1. o \in Seq(Ops)
    BY <1>1 DEF Cuts
  <2>2. c + 1 \in 1..Len(str) /\ str \in Seq(Token)
    BY DepthType
  <2>3. str[c + 1] \in Token
    BY <2>2
  <2> QED BY <1>3, <2>1, <2>3 DEF Token
<1>5. /\ E \in [0..m -> Nat] /\ E[0] = 0
      /\ \A q \in 1..m : E[q] = E[q - 1] + (IF o[q] = "(" THEN 0 ELSE 1)
      /\ \A q \in 0..m : \A r \in q..m : E[q] <= E[r]
      /\ Len(n) = E[m] + Ended(str, c)
      /\ \A q \in 1..m : o[q] # "(" => <<n[E[q]]>> = Val(str, P[q - 1] + 1, P[q] - 1)
  BY <1>1, <1>3 DEF Operands
<1>6. Ended(str, c) = 0 /\ Ended(str, c + 1) = 1
  BY <1>2 DEF Ended
<1>7. PICK up : up = Append(n, v)
  OBVIOUS
<1>8. /\ Len(n) \in Nat /\ Len(up) = Len(n) + 1 /\ up[Len(up)] = v
      /\ \A i \in 1..Len(n) : up[i] = n[i]
  BY <1>4, <1>7
<1>9. \A q \in 1..m : o[q] # "(" => E[q] \in 1..Len(n)
  <2> SUFFICES ASSUME NEW q \in 1..m, o[q] # "(" PROVE E[q] \in 1..Len(n)
    OBVIOUS
  <2>1. q \in 0..m /\ q - 1 \in 0..m /\ m \in q..m /\ m \in 0..m
    BY <1>4
  <2>2. E[q] \in Nat /\ E[q - 1] \in Nat /\ E[m] \in Nat /\ E[q] = E[q - 1] + 1 /\ E[q] <= E[m]
    BY <2>1, <1>5
  <2> QED BY <2>2, <1>5, <1>6
<1>10. Len(up) = E[m] + Ended(str, c + 1)
  <2>1. m \in 0..m
    BY <1>4
  <2>2. E[m] \in Nat
    BY <2>1, <1>5
  <2> QED BY <2>2, <1>5, <1>6, <1>8
<1>11. \A q \in 1..m : o[q] # "(" => <<up[E[q]]>> = Val(str, P[q - 1] + 1, P[q] - 1)
  BY <1>5, <1>8, <1>9
<1>12. <<up[Len(up)]>> = Val(str, P[m] + 1, c + 1)
  BY <1>2, <1>3, <1>8
<1>13. Operands(str, c + 1, o, P, up, E)
  BY <1>3, <1>5, <1>10, <1>11, <1>12 DEF Operands
<1> QED BY <1>2, <1>3, <1>7, <1>13 DEF Holds

\* pop_and_cal computes what the operator says, with the operand that was pushed
\* last on the right.
LEMMA CalIsCombine ==
  ASSUME NEW op \in BinaryOps, NEW a1 \in Int, NEW a2 \in Int
  PROVE  /\ ~Traps(op, a1) => Combine(op, <<a2>>, <<a1>>) = <<DoOneCal(op, a1, a2)>>
         /\ Traps(op, a1) => Combine(op, <<a2>>, <<a1>>) = Undefined
<1>1. <<a1>> # Undefined /\ <<a2>> # Undefined
  BY DEF Undefined
<1>2. <<a1>>[1] = a1 /\ <<a2>>[1] = a2
  OBVIOUS
<1>3. Combine(op, <<a2>>, <<a1>>) =
        CASE op = "+" -> <<a2 + a1>>
          [] op = "-" -> <<a2 - a1>>
          [] op = "*" -> <<a2 * a1>>
          [] op = "/" /\ a1 # 0 -> <<TruncDiv(a2, a1)>>
          [] OTHER -> Undefined
  BY <1>1, <1>2 DEF Combine
<1>4. CASE op = "+"
  BY <1>3, <1>4 DEF DoOneCal, Traps
<1>5. CASE op = "-"
  BY <1>3, <1>5 DEF DoOneCal, Traps
<1>6. CASE op = "*"
  <2>1. a2 * a1 = a1 * a2
    OBVIOUS
  <2> QED BY <2>1, <1>3, <1>6 DEF DoOneCal, Traps
<1>7. CASE op = "/"
  BY <1>3, <1>7 DEF DoOneCal, Traps
<1> QED BY <1>4, <1>5, <1>6, <1>7 DEF BinaryOps

\* Below the last operator on the stack nothing changes; its two operands are the
\* numbers on top of n.
LEMMA LastOperands ==
  ASSUME NEW str, NEW c, NEW o, NEW P, NEW n \in Seq(Int), NEW E, Operands(str, c, o, P, n, E),
         o \in Seq(Ops), o # <<>>, Top(o, Nothing) # "(", OperandEnds(str, c)
  PROVE  /\ Len(n) \in Nat /\ Len(n) = E[Len(o) - 1] + 2 /\ E[Len(o) - 1] \in Nat
         /\ <<n[Len(n) - 1]>> = Val(str, P[Len(o) - 1] + 1, P[Len(o)] - 1)
         /\ <<n[Len(n)]>> = Val(str, P[Len(o)] + 1, c)
         /\ Top(n, 0) = n[Len(n)] /\ Top(n, 0) \in Int
         /\ Top(Pop(n), 0) = n[Len(n) - 1] /\ Top(Pop(n), 0) \in Int
         /\ Pop(Pop(n)) \in Seq(Int) /\ Len(Pop(Pop(n))) = Len(n) - 2
         /\ \A i \in 1..Len(n) - 2 : Pop(Pop(n))[i] = n[i]
<1>1. PICK m : m = Len(o)
  OBVIOUS
<1>2. m \in Nat \ {0} /\ o[m] # "("
  BY <1>1, PopTop
<1>3. m \in 1..m /\ m - 1 \in 0..m /\ m \in 0..m
  BY <1>2
<1>4. /\ E[m] = E[m - 1] + 1 /\ E[m - 1] \in Nat /\ Ended(str, c) = 1
      /\ Len(n) = E[m] + Ended(str, c)
      /\ <<n[E[m]]>> = Val(str, P[m - 1] + 1, P[m] - 1)
      /\ <<n[Len(n)]>> = Val(str, P[m] + 1, c)
  BY <1>1, <1>2, <1>3 DEF Operands, Ended
<1>5. Len(n) \in Nat /\ Len(n) = E[m - 1] + 2 /\ E[m] = Len(n) - 1
  BY <1>4
<1>6. n # <<>>
  BY <1>4, <1>5
<1>7. /\ Pop(n) \in Seq(Int) /\ Len(Pop(n)) = Len(n) - 1
      /\ \A i \in 1..Len(n) - 1 : Pop(n)[i] = n[i]
      /\ Top(n, 0) = n[Len(n)] /\ Top(n, 0) \in Int
  BY <1>6, PopTop
<1>8. PICK p, l : p = Pop(n) /\ l = Len(n)
  OBVIOUS
<1>9. p \in Seq(Int) /\ Len(p) = l - 1 /\ l \in Nat /\ l >= 2 /\ p # <<>>
  BY <1>4, <1>5, <1>7, <1>8
<1>10. /\ Pop(p) \in Seq(Int) /\ Len(Pop(p)) = Len(p) - 1
       /\ \A i \in 1..Len(p) - 1 : Pop(p)[i] = p[i]
       /\ Top(p, 0) = p[Len(p)] /\ Top(p, 0) \in Int
  BY <1>9, PopTop
<1>11. l - 1 \in 1..l - 1 /\ (l - 1) - 1 = l - 2 /\ \A i \in 1..l - 2 : i \in 1..l - 1
  BY <1>9
<1>12. p[l - 1] = n[l - 1]
  BY <1>7, <1>8, <1>11
<1> QED BY <1>1, <1>4, <1>5, <1>7, <1>8, <1>9, <1>10, <1>11, <1>12

\* pop_and_cal replaces the two operands of the last operator by their value.
LEMMA HoldsReduced ==
  ASSUME NEW str, WellFormed(str), NEW c \in 0..Len(str), NEW o, NEW n \in Seq(Int), NEW b,
         Holds(str, c, o, n, b), OperandEnds(str, c), o # <<>>, Top(o, Nothing) # "(",
         ~Traps(Top(o, Nothing), Top(n, 0)), NEW a \in Nat, a <= Prio(Top(o, Nothing)),
         NEW v, v = DoOneCal(Top(o, Nothing), Top(n, 0), Top(Pop(n), 0))
  PROVE  Holds(str, c, Pop(o), Append(Pop(Pop(n)), v), a)
<1>1. PICK P, E : Cuts(str, c, o, P) /\ LastPart(str, c, o, P, b) /\ Operands(str, c, o, P, n, E)
  BY DEF Holds
<1>2. PICK m, op, k : m = Len(o) /\ op = Top(o, Nothing) /\ k = Pop(Pop(n))
  OBVIOUS
<1>3. PICK Q : Q = [q \in 0..m - 1 |-> P[q]]
  OBVIOUS
<1>4. o \in Seq(Ops) /\ m \in Nat \ {0} /\ op \in BinaryOps
  <2>1. o \in Seq(Ops)
    BY <1>1 DEF Cuts
  <2>2. m \in Nat \ {0} /\ op \in Ops
    BY <2>1, <1>2, PopTop
  <2> QED BY <2>1, <2>2, <1>2 DEF Ops
<1>5. /\ Len(n) \in Nat /\ Len(n) = E[m - 1] + 2 /\ E[m - 1] \in Nat
      /\ <<n[Len(n) - 1]>> = Val(str, P[m - 1] + 1, P[m] - 1)
      /\ <<n[Len(n)]>> = Val(str, P[m] + 1, c)
      /\ Top(n, 0) = n[Len(n)] /\ Top(n, 0) \in Int
      /\ Top(Pop(n), 0) = n[Len(n) - 1] /\ Top(Pop(n), 0) \in Int
      /\ k \in Seq(Int) /\ Len(k) = Len(n) - 2
      /\ \A i \in 1..Len(n) - 2 : k[i] = n[i]
  <2>1. /\ Len(n) \in Nat /\ Len(n) = E[Len(o) - 1] + 2 /\ E[Len(o) - 1] \in Nat
        /\ <<n[Len(n) - 1]>> = Val(str, P[Len(o) - 1] + 1, P[Len(o)] - 1)
        /\ <<n[Len(n)]>> = Val(str, P[Len(o)] + 1, c)
        /\ Top(n, 0) = n[Len(n)] /\ Top(n, 0) \in Int
        /\ Top(Pop(n), 0) = n[Len(n) - 1] /\ Top(Pop(n), 0) \in Int
        /\ Pop(Pop(n)) \in Seq(Int) /\ Len(Pop(Pop(n))) = Len(n) - 2
        /\ \A i \in 1..Len(n) - 2 : Pop(Pop(n))[i] = n[i]
    BY <1>1, <1>4, LastOperands
  <2> QED BY <2>1, <1>2
<1>6. /\ Cuts(str, c, Pop(o), Q) /\ LastPart(str, c, Pop(o), Q, a)
      /\ Val(str, P[m - 1] + 1, c) =
           Combine(op, Val(str, P[m - 1] + 1, P[m] - 1), Val(str, P[m] + 1, c))
  BY <1>1, <1>2, <1>3, CutReduced
<1>7. <<v>> = Val(str, P[m - 1] + 1, c) /\ v \in Int
  <2>1. v = DoOneCal(op, Top(n, 0), Top(Pop(n), 0)) /\ ~Traps(op, Top(n, 0))
    BY <1>2
  <2>2. <<v>> = Combine(op, <<Top(Pop(n), 0)>>, <<Top(n, 0)>>)
    BY <2>1, <1>4, <1>5, CalIsCombine
  <2>3. v \in Int
    BY <2>1, <1>5, DoOneCalType
  <2> QED BY <2>2, <2>3, <1>5, <1>6
<1>8. PICK up, r : up = Append(k, v) /\ r = Pop(o)
  OBVIOUS
<1>9. /\ Len(up) = Len(n) - 1 /\ up[Len(up)] = v
      /\ \A i \in 1..Len(n) - 2 : up[i] = n[i]
  <2>1. k \in Seq(Int) /\ v \in Int /\ Len(k) = Len(n) - 2 /\ Len(n) \in Nat
        /\ \A i \in 1..Len(n) - 2 : k[i] = n[i]
    BY <1>5, <1>7
  <2>2. Len(up) = Len(k) + 1 /\ up[Len(k) + 1] = v /\ \A i \in 1..Len(k) : up[i] = k[i]
    BY <2>1, <1>8
  <2>3. (Len(n) - 2) + 1 = Len(n) - 1
    BY <2>1
  <2> QED BY <2>1, <2>2, <2>3
<1>10. Len(r) = m - 1 /\ \A q \in 1..m - 1 : r[q] = o[q]
  BY <1>2, <1>4, <1>8, PopTop
<1>11. /\ E \in [0..m -> Nat] /\ E[0] = 0
       /\ \A q \in 1..m : E[q] = E[q - 1] + (IF o[q] = "(" THEN 0 ELSE 1)
       /\ \A q \in 0..m : \A x \in q..m : E[q] <= E[x]
       /\ \A q \in 1..m : o[q] # "(" => <<n[E[q]]>> = Val(str, P[q - 1] + 1, P[q] - 1)
  BY <1>1, <1>2 DEF Operands
<1>n. /\ m - 1 \in 0..m - 1 /\ 0 \in 0..m - 1 /\ \A q \in 0..m - 1 : q \in 0..m /\ m - 1 \in q..m
      /\ \A q \in 1..m - 1 : q \in 1..m /\ q \in 0..m - 1 /\ q - 1 \in 0..m - 1 /\ q \in 0..m
      /\ \A q \in 0..m - 1 : \A x \in q..m - 1 : x \in q..m /\ x \in 0..m - 1
  BY <1>4
<1>12. PICK F : F = [q \in 0..m - 1 |-> E[q]]
  OBVIOUS
<1>13. F \in [0..m - 1 -> Nat] /\ \A q \in 0..m - 1 : F[q] = E[q] /\ Q[q] = P[q]
  BY <1>3, <1>11, <1>12, <1>n
<1>14. \A q \in 1..m - 1 : F[q] = F[q - 1] + (IF r[q] = "(" THEN 0 ELSE 1)
  BY <1>10, <1>11, <1>13, <1>n
<1>15. \A q \in 0..m - 1 : \A x \in q..m - 1 : F[q] <= F[x]
  BY <1>11, <1>13, <1>n
<1>16. Len(up) = F[m - 1] + Ended(str, c)
  <2>1. Ended(str, c) = 1
    BY DEF Ended
  <2> QED BY <2>1, <1>5, <1>9, <1>13, <1>n
<1>17. \A q \in 1..m - 1 : r[q] # "(" => <<up[F[q]]>> = Val(str, Q[q - 1] + 1, Q[q] - 1)
  <2> SUFFICES ASSUME NEW q \in 1..m - 1, r[q] # "("
               PROVE  <<up[F[q]]>> = Val(str, Q[q - 1] + 1, Q[q] - 1)
    OBVIOUS
  <2>1. /\ F[q] = E[q] /\ Q[q] = P[q] /\ Q[q - 1] = P[q - 1] /\ o[q] # "("
        /\ q \in 1..m /\ q \in 0..m
    BY <1>10, <1>13, <1>n
  <2>2. E[q] \in 1..Len(n) - 2
    <3>1. E[q] = E[q - 1] + 1 /\ E[q] <= E[m - 1] /\ E[q - 1] \in Nat /\ E[q] \in Nat
      BY <2>1, <1>11, <1>n
    <3>2. Len(n) = E[m - 1] + 2 /\ E[m - 1] \in Nat
      BY <1>5
    <3> QED BY <3>1, <3>2
  <2> QED BY <2>1, <2>2, <1>9, <1>11
<1>18. <<up[Len(up)]>> = Val(str, Q[m - 1] + 1, c)
  BY <1>7, <1>9, <1>13, <1>n
<1>19. Operands(str, c, r, Q, up, F)
  <2>1. F[0] = 0
    BY <1>11, <1>13, <1>n
  <2> QED BY <2>1, <1>10, <1>13, <1>14, <1>15, <1>16, <1>17, <1>18 DEF Operands
<1> QED BY <1>2, <1>6, <1>8, <1>19 DEF Holds

\* ')' takes its '(' from the stack: the value between them is that of both.
LEMMA HoldsClosed ==
  ASSUME NEW str, WellFormed(str), NEW c \in 0..Len(str) - 1, NEW o, NEW n \in Seq(Int), NEW b,
         Holds(str, c, o, n, b), str[c + 1].t = ")", o # <<>>, Top(o, Nothing) = "("
  PROVE  \A a : Holds(str, c + 1, Pop(o), n, a)
<1>1. PICK P, E : Cuts(str, c, o, P) /\ LastPart(str, c, o, P, b) /\ Operands(str, c, o, P, n, E)
  BY DEF Holds
<1>2. PICK m, r : m = Len(o) /\ r = Pop(o)
  OBVIOUS
<1>3. PICK Q : Q = [q \in 0..m - 1 |-> P[q]]
  OBVIOUS
<1>4. /\ OperandEnds(str, c) /\ OperandEnds(str, c + 1)
      /\ Cuts(str, c + 1, r, Q) /\ \A a : LastPart(str, c + 1, r, Q, a)
      /\ Val(str, P[m - 1] + 1, c + 1) = Val(str, P[m] + 1, c)
  BY <1>1, <1>2, <1>3, CutClosed
<1>5. m \in Nat \ {0} /\ o[m] = "(" /\ Len(r) = m - 1 /\ \A q \in 1..m - 1 : r[q] = o[q]
  <2>1. o \in Seq(Ops)
    BY <1>1 DEF Cuts
  <2> QED BY <2>1, <1>2, PopTop
<1>6. /\ E \in [0..m -> Nat] /\ E[0] = 0
      /\ \A q \in 1..m : E[q] = E[q - 1] + (IF o[q] = "(" THEN 0 ELSE 1)
      /\ \A q \in 0..m : \A x \in q..m : E[q] <= E[x]
      /\ Len(n) = E[m] + Ended(str, c)
      /\ \A q \in 1..m : o[q] # "(" => <<n[E[q]]>> = Val(str, P[q - 1] + 1, P[q] - 1)
      /\ OperandEnds(str, c) => <<n[Len(n)]>> = Val(str, P[m] + 1, c)
  BY <1>1, <1>2 DEF Operands
<1>n. /\ m - 1 \in 0..m - 1 /\ 0 \in 0..m - 1 /\ m \in 1..m
      /\ \A q \in 1..m - 1 : q \in 1..m /\ q \in 0..m - 1 /\ q - 1 \in 0..m - 1
      /\ \A q \in 0..m - 1 : q \in 0..m
      /\ \A q \in 0..m - 1 : \A x \in q..m - 1 : x \in q..m /\ x \in 0..m - 1
  BY <1>5
<1>7. PICK F : F = [q \in 0..m - 1 |-> E[q]]
  OBVIOUS
<1>8. F \in [0..m - 1 -> Nat] /\ \A q \in 0..m - 1 : F[q] = E[q] /\ Q[q] = P[q]
  BY <1>3, <1>6, <1>7, <1>n
<1>9. \A q \in 1..m - 1 : F[q] = F[q - 1] + (IF r[q] = "(" THEN 0 ELSE 1)
  BY <1>5, <1>6, <1>8, <1>n
<1>10. \A q \in 0..m - 1 : \A x \in q..m - 1 : F[q] <= F[x]
  BY <1>6, <1>8, <1>n
<1>11. Len(n) = F[m - 1] + Ended(str, c + 1)
  <2>1. Ended(str, c) = 1 /\ Ended(str, c + 1) = 1
    BY <1>4 DEF Ended
  <2>2. E[m] = E[m - 1] + 0 /\ E[m - 1] \in Nat
    BY <1>5, <1>6, <1>n
  <2> QED BY <2>1, <2>2, <1>6, <1>8, <1>n
<1>12. \A q \in 1..m - 1 : r[q] # "(" => <<n[F[q]]>> = Val(str, Q[q - 1] + 1, Q[q] - 1)
  BY <1>5, <1>6, <1>8, <1>n
<1>13. <<n[Len(n)]>> = Val(str, Q[m - 1] + 1, c + 1)
  BY <1>4, <1>6, <1>8, <1>n
<1>14. Operands(str, c + 1, r, Q, n, F)
  <2>1. F[0] = 0
    BY <1>6, <1>8, <1>n
  <2> QED BY <2>1, <1>5, <1>8, <1>9, <1>10, <1>11, <1>12, <1>13 DEF Operands
<1> QED BY <1>2, <1>4, <1>14 DEF Holds

\* If pop_and_cal divides by zero, the expression has no value.
LEMMA HoldsRuin ==
  ASSUME NEW str, WellFormed(str), NEW c \in 0..Len(str), NEW o, NEW n \in Seq(Int), NEW b,
         Holds(str, c, o, n, b), OperandEnds(str, c), o # <<>>, Top(o, Nothing) # "(",
         Traps(Top(o, Nothing), Top(n, 0)),
         c = Len(str) \/ str[c + 1].t \in BinaryOps \union {")"}
  PROVE  Value(str) = Undefined
<1>1. PICK P, E : Cuts(str, c, o, P) /\ LastPart(str, c, o, P, b) /\ Operands(str, c, o, P, n, E)
  BY DEF Holds
<1>2. PICK m, op : m = Len(o) /\ op = Top(o, Nothing)
  OBVIOUS
<1>3. o \in Seq(Ops) /\ m \in Nat \ {0} /\ op = "/" /\ op = o[m] /\ Len(str) \in Nat
  <2>1. o \in Seq(Ops)
    BY <1>1 DEF Cuts
  <2>2. op = "/"
    BY <1>2 DEF Traps
  <2> QED BY <2>1, <2>2, <1>2, PopTop, DepthType
<1>4. PICK Q : Q = [q \in 0..m - 1 |-> P[q]]
  OBVIOUS
<1>5. /\ Val(str, P[m - 1] + 1, c) =
           Combine(op, Val(str, P[m - 1] + 1, P[m] - 1), Val(str, P[m] + 1, c))
      /\ Operand(str, P[m - 1] + 1, c)
      /\ Above(str, P[m - 1] + 1, c, Prio(op))
  BY <1>1, <1>2, <1>3, <1>4, CutReduced
<1>6. Val(str, P[m - 1] + 1, c) = Undefined
  <2>1. /\ Len(n) \in Nat /\ Len(n) = E[Len(o) - 1] + 2 /\ E[Len(o) - 1] \in Nat
        /\ <<n[Len(n) - 1]>> = Val(str, P[Len(o) - 1] + 1, P[Len(o)] - 1)
        /\ <<n[Len(n)]>> = Val(str, P[Len(o)] + 1, c)
        /\ Top(n, 0) = n[Len(n)] /\ Top(n, 0) \in Int
        /\ Top(Pop(n), 0) = n[Len(n) - 1] /\ Top(Pop(n), 0) \in Int
        /\ Pop(Pop(n)) \in Seq(Int) /\ Len(Pop(Pop(n))) = Len(n) - 2
        /\ \A i \in 1..Len(n) - 2 : Pop(Pop(n))[i] = n[i]
    <3>1. o \in Seq(Ops) /\ Operands(str, c, o, P, n, E)
      BY <1>1, <1>3
    <3> QED BY <3>1, LastOperands
  <2>2. PICK a1, a2 : a1 = Top(n, 0) /\ a2 = Top(Pop(n), 0)
    OBVIOUS
  <2>3. a1 \in Int /\ a2 \in Int /\ Traps(op, a1) /\ op \in BinaryOps
    BY <2>1, <2>2, <1>2, <1>3 DEF BinaryOps
  <2>4. Combine(op, <<a2>>, <<a1>>) = Undefined
    BY <2>3, CalIsCombine
  <2> QED BY <2>1, <2>2, <2>4, <1>2, <1>5
<1>7. /\ P \in [0..m -> 0..c] /\ P[0] = 0
      /\ \A q \in 1..m : Cut(str, P[q - 1], IF q = 1 THEN Nothing ELSE o[q - 1], P[q], o[q])
  BY <1>1, <1>2 DEF Cuts
<1>8. /\ m \in 1..m /\ m - 1 \in 0..m /\ m \in 0..m
      /\ m # 1 => m - 1 \in 1..m
  BY <1>3
<1>9. P[m - 1] \in 0..c /\ P[m] \in 0..c
  BY <1>7, <1>8
<1>10. PICK x, k : x = P[m - 1] /\ k = P[m]
  OBVIOUS
<1>11. /\ x \in 0..c /\ k \in 0..c /\ x < k /\ str[k].t = "/"
       /\ Operand(str, x + 1, k - 1)
       /\ Prio(IF m = 1 THEN Nothing ELSE o[m - 1]) < Prio("/")
  BY <1>3, <1>7, <1>8, <1>9, <1>10 DEF Cut
<1>12. Operand(str, k + 1, c)
  BY <1>1, <1>2, <1>10 DEF LastPart
<1>13. Outside(str, x + 1, k) /\ k \in x + 1..c
  <2>1. k \in 1..Len(str) /\ str[k].t \in BinaryOps
    BY <1>3, <1>11 DEF BinaryOps
  <2>2. PICK y : y = x + 1
    OBVIOUS
  <2>3. Operand(str, y, k - 1) /\ Operand(str, k + 1, c)
    BY <2>2, <1>11, <1>12
  <2>4. Outside(str, y, k)
    BY <2>1, <2>3, Join
  <2>5. c \in Int
    BY <1>3
  <2> QED BY <2>2, <2>4, <2>5, <1>11
<1>14. x + 1 = 1 \/ str[(x + 1) - 1].t \in {"(", "+", "-"}
  <2>1. CASE m = 1
    BY <2>1, <1>7, <1>10
  <2>2. CASE m # 1
    <3>1. m - 1 \in 1..m /\ m - 1 \in 1..Len(o)
      BY <2>2, <1>2, <1>8
    <3>2. str[x].t = o[m - 1] /\ o[m - 1] \in Ops
      BY <3>1, <1>3, <1>7, <1>10 DEF Cut
    <3>3. Prio(o[m - 1]) < 2
      BY <2>2, <1>11 DEF Prio
    <3>4. o[m - 1] \in {"(", "+", "-"}
      BY <3>2, <3>3 DEF Prio, Ops, BinaryOps
    <3>5. (x + 1) - 1 = x
      BY <1>11
    <3> QED BY <3>2, <3>4, <3>5
  <2> QED BY <2>1, <2>2
<1>15. Ruined(str, x + 1, c)
  <2>1. Prio(op) = 2
    BY <1>3 DEF Prio
  <2> QED BY <2>1, <1>5, <1>6, <1>10, <1>13, <1>14 DEF Ruined
<1>16. Operand(str, 1, Len(str)) /\ 1 <= x + 1 /\ c <= Len(str)
  BY <1>3, <1>11, WholeIsOperand
<1>17. Val(str, 1, Len(str)) = Undefined
  BY <1>15, <1>16, Ruin
<1> QED BY <1>17 DEF Value, Val

\* At the end of the text, with no operator left, the number is the value.
LEMMA HoldsValue ==
  ASSUME NEW str, WellFormed(str), NEW n \in Seq(Int), NEW b, Holds(str, Len(str), <<>>, n, b)
  PROVE  <<n[Len(n)]>> = Value(str)
<1>1. PICK P, E : /\ Cuts(str, Len(str), <<>>, P)
                  /\ Operands(str, Len(str), <<>>, P, n, E)
  BY DEF Holds
<1>2. OperandEnds(str, Len(str))
  BY DEF WellFormed
<1>3. Len(<<>>) = 0 /\ P[0] = 0
  BY <1>1 DEF Cuts
<1>4. <<n[Len(n)]>> = Val(str, 0 + 1, Len(str))
  BY <1>1, <1>2, <1>3 DEF Operands
<1>5. 0 + 1 = 1
  OBVIOUS
<1> QED BY <1>4, <1>5 DEF Val, Value

----------------------------------------------------------------------------
(* calculate() of double_stack_224.c answers with the value.                *)

\* How tight the operators bind that a loop has computed, at least.
Floor == IF pc = "scan" THEN 3 ELSE IF pc = "reduce" THEN Prio(cu) ELSE 0

\* The answer is the value of the argument, which has one unless the process dies.
AnswerIsValue == /\ pc = "done" => <<result>> = Value(s)
                 /\ pc = "trap" => Value(s) = Undefined

\* The stacks hold what is left to do, until there is an answer.
ValueInv == /\ pc \notin {"done", "trap"} => Holds(s, scand_index, opst, npst, Floor)
            /\ AnswerIsValue

\* calculate() starts with nothing done.
LEMMA InitValue == Init => ValueInv
<1> SUFFICES ASSUME Init PROVE ValueInv
  OBVIOUS
<1>1. /\ s \in Inputs /\ pc = "scan" /\ scand_index = 0 /\ opst = <<>> /\ npst = <<>>
  BY DEF Init
<1>2. WellFormed(s)
  BY <1>1, InputsAssumption
<1>3. Holds(s, 0, <<>>, <<>>, Floor)
  BY <1>2, HoldsNothing
<1> QED BY <1>1, <1>3 DEF ValueInv, AnswerIsValue

\* What the steps of the scan start from.
LEMMA AtTokenContext ==
  ASSUME IInv, ValueInv, AtToken
  PROVE  /\ WellFormed(s) /\ scand_index \in 0..Len(s) - 1 /\ npst \in Seq(Int)
         /\ opst \in Seq(Ops) /\ Len(opst) < Len(s) /\ Len(npst) < Len(s)
         /\ Holds(s, scand_index, opst, npst, 3)
<1>1. pc = "scan" /\ scand_index < Len(s)
  BY DEF AtToken
<1>2. Len(opst) + Len(npst) <= scand_index
  BY DEF IInv, NeverDropped
<1>3. Holds(s, scand_index, opst, npst, Floor) /\ Floor = 3
  BY <1>1 DEF ValueInv, Floor
<1> QED BY <1>1, <1>2, <1>3, Context

\* An operator, or '(', is pushed: PushOp and the end of the loop of an operator.
LEMMA PushValue ==
  ASSUME IInv, NEW b \in Nat, Holds(s, scand_index, opst, npst, b), scand_index < Len(s),
         cu \in Ops, cu # "(" => Prio(cu) <= b /\ Prio(Top(opst, Nothing)) < Prio(cu),
         opst' = Push(opst, cu), pc' = "scan", scand_index' = scand_index + 1,
         s' = s, npst' = npst
  PROVE  ValueInv'
<1>1. PICK e : e = cu
  OBVIOUS
<1>2. /\ WellFormed(s) /\ scand_index \in 0..Len(s) - 1 /\ npst \in Seq(Int)
      /\ e \in Ops /\ e = s[scand_index + 1].t
      /\ e # "(" => Prio(e) <= b /\ Prio(Top(opst, Nothing)) < Prio(e)
  BY <1>1, Context DEF cu
<1>3. Holds(s, scand_index + 1, Append(opst, e), npst, 3)
  BY <1>2, HoldsPushed
<1>4. opst' = Append(opst, e)
  <2>1. Len(opst) # Len(s)
    BY Context DEF IInv, NeverDropped
  <2>2. opst' = Push(opst, e)
    BY <1>1
  <2> QED BY <2>1, <2>2 DEF Push, IsFull, max_size
<1>5. Floor' = 3
  BY DEF Floor
<1> QED BY <1>3, <1>4, <1>5 DEF ValueInv, AnswerIsValue

\* An operator on an empty stack, or '('.
LEMMA PushOpValue == IInv /\ ValueInv /\ PushOp => ValueInv'
<1> SUFFICES ASSUME IInv, ValueInv, PushOp PROVE ValueInv'
  OBVIOUS
<1>1. /\ AtToken /\ IsLegalOp(cu)
      /\ opst = <<>> \/ cu = "("
      /\ opst' = Push(opst, cu) /\ pc' = "scan" /\ scand_index' = scand_index + 1
      /\ s' = s /\ npst' = npst /\ pc = "scan" /\ scand_index < Len(s)
  BY DEF PushOp, AtToken, Consume
<1>2. Holds(s, scand_index, opst, npst, 3)
  BY <1>1, AtTokenContext
<1>3. PICK e : e = cu
  OBVIOUS
<1>4. e \in Ops
  <2>1. opst = <<>> => NumParens(opst) = 0
    BY EmptyStack
  <2>2. NumParens(opst) = Depth(s, scand_index)
    BY <1>1 DEF IInv, ParensMatch
  <2>3. TokenFacts(s, scand_index)
    BY <1>1, NextToken, Context
  <2>4. e = ")" => Depth(s, scand_index) # 0
    BY <2>3, <1>3 DEF TokenFacts, cu
  <2> QED BY <1>1, <1>3, <2>1, <2>2, <2>4 DEF IsLegalOp, Ops
<1>5. e # "(" => Prio(e) <= 3 /\ Prio(Top(opst, Nothing)) < Prio(e)
  <2>1. e # "(" => e \in BinaryOps /\ opst = <<>>
    BY <1>1, <1>3, <1>4 DEF Ops
  <2>2. opst = <<>> => Top(opst, Nothing) = Nothing
    BY DEF Top
  <2> QED BY <2>1, <2>2, PrioType
<1> QED BY <1>1, <1>2, <1>3, <1>4, <1>5, PushValue

\* A space, and a number.
LEMMA ReadValue == IInv /\ ValueInv /\ (SkipSpace \/ PushNum) => ValueInv'
<1> SUFFICES ASSUME IInv, ValueInv, SkipSpace \/ PushNum PROVE ValueInv'
  OBVIOUS
<1>1. /\ AtToken /\ pc' = "scan" /\ scand_index' = scand_index + 1
      /\ s' = s /\ opst' = opst
  BY DEF SkipSpace, PushNum, AtToken, Consume
<1>2. /\ WellFormed(s) /\ scand_index \in 0..Len(s) - 1 /\ npst \in Seq(Int)
      /\ Len(npst) < Len(s) /\ Holds(s, scand_index, opst, npst, 3)
  BY <1>1, AtTokenContext
<1>3. Floor' = 3
  BY <1>1 DEF Floor
<1>4. CASE SkipSpace
  <2>1. s[scand_index + 1].t = "space" /\ npst' = npst
    BY <1>4 DEF SkipSpace, cu
  <2>2. Holds(s, scand_index + 1, opst, npst, 3)
    BY <2>1, <1>2, HoldsSpace
  <2> QED BY <1>1, <1>3, <2>1, <2>2 DEF ValueInv, AnswerIsValue
<1>5. CASE PushNum
  <2>1. s[scand_index + 1].t = "num" /\ npst' = Push(npst, s[scand_index + 1].v)
    BY <1>5 DEF PushNum, cu
  <2>2. Holds(s, scand_index + 1, opst, Append(npst, s[scand_index + 1].v), 3)
    BY <2>1, <1>2, HoldsNum
  <2>3. npst' = Append(npst, s[scand_index + 1].v)
    BY <2>1, <1>2 DEF Push, IsFull, max_size
  <2> QED BY <1>1, <1>3, <2>2, <2>3 DEF ValueInv, AnswerIsValue
<1> QED BY <1>4, <1>5

\* A loop is entered, and the last one at the end of the text.
LEMMA EnterValue == IInv /\ ValueInv /\ (Enter \/ EndOfScan) => ValueInv'
<1> SUFFICES ASSUME IInv, ValueInv, Enter \/ EndOfScan PROVE ValueInv'
  OBVIOUS
<1>1. /\ pc = "scan" /\ s' = s /\ scand_index' = scand_index /\ opst' = opst /\ npst' = npst
      /\ pc' \in {"close", "reduce", "drain"}
  BY DEF Enter, EndOfScan, AtToken
<1>2. Holds(s, scand_index, opst, npst, 3)
  BY <1>1 DEF ValueInv, Floor
<1>3. Floor' \in Nat /\ Floor' <= 3
  <2>1. Floor' = IF pc' = "scan" THEN 3 ELSE IF pc' = "reduce" THEN Prio(cu') ELSE 0
    BY DEF Floor
  <2> QED BY <2>1, <1>1, PrioType
<1>4. PICK f \in Nat : f = Floor' /\ f <= 3
  BY <1>3
<1>5. Holds(s, scand_index, opst, npst, f)
  BY <1>2, <1>4, HoldsLess
<1> QED BY <1>1, <1>4, <1>5 DEF ValueInv, AnswerIsValue

\* pop_and_cal in one of the loops.
LEMMA CalValue ==
  ASSUME IInv, ValueInv, pc \in {"close", "reduce", "drain"},
         opst # <<>>, Top(opst, Nothing) # "(", Ended(s, scand_index) = 1,
         pc = "reduce" => Prio(cu) <= Prio(Top(opst, Nothing)),
         PopAndCal(pc), UNCHANGED <<s, scand_index, result>>
  PROVE  ValueInv'
<1>1. /\ WellFormed(s) /\ scand_index \in 0..Len(s) /\ npst \in Seq(Int)
      /\ opst \in Seq(Ops) /\ OperandEnds(s, scand_index)
  BY Context DEF Ended
<1>2. Holds(s, scand_index, opst, npst, Floor)
  BY DEF ValueInv
<1>3. CASE Traps(Top(opst, Nothing), A1)
  <2>1. pc' = "trap" /\ s' = s
    BY <1>3 DEF PopAndCal
  <2>2. scand_index = Len(s) \/ s[scand_index + 1].t \in BinaryOps \union {")"}
    BY DEF IInv, LoopContext, cu
  <2>3. Value(s) = Undefined
    BY <1>1, <1>2, <1>3, <2>2, HoldsRuin DEF A1
  <2> QED BY <2>1, <2>3 DEF ValueInv, AnswerIsValue
<1>4. CASE ~Traps(Top(opst, Nothing), A1)
  <2>1. PICK v : v = DoOneCal(Top(opst, Nothing), Top(npst, 0), Top(Pop(npst), 0))
    OBVIOUS
  <2>2. /\ pc' = pc /\ opst' = Pop(opst) /\ npst' = Push(Pop(Pop(npst)), v)
        /\ s' = s /\ scand_index' = scand_index
    BY <1>4, <2>1 DEF PopAndCal, A1, A2
  <2>3. Floor' = Floor /\ Floor \in Nat /\ Floor <= Prio(Top(opst, Nothing))
    <3>1. cu' = cu
      BY <2>2 DEF cu
    <3>2. PICK e : e = cu
      OBVIOUS
    <3>3. cu' = e /\ Prio(e) \in Nat /\ Prio(Top(opst, Nothing)) \in Nat
      BY <3>1, <3>2, PrioType
    <3>4. pc = "reduce" => Prio(e) <= Prio(Top(opst, Nothing))
      BY <3>2
    <3>5. /\ Floor = IF pc = "reduce" THEN Prio(e) ELSE 0
          /\ Floor' = IF pc = "reduce" THEN Prio(e) ELSE 0
      BY <2>2, <3>2, <3>3 DEF Floor
    <3> QED BY <3>3, <3>4, <3>5
  <2>4. Holds(s, scand_index, Pop(opst), Append(Pop(Pop(npst)), v), Floor)
    <3>1. PICK f \in Nat : f = Floor /\ f <= Prio(Top(opst, Nothing))
      BY <2>3
    <3>2. ~Traps(Top(opst, Nothing), Top(npst, 0))
      BY <1>4 DEF A1
    <3>3. Holds(s, scand_index, Pop(opst), Append(Pop(Pop(npst)), v), f)
      BY <1>1, <1>2, <2>1, <3>1, <3>2, HoldsReduced
    <3> QED BY <3>1, <3>3
  <2>5. npst' = Append(Pop(Pop(npst)), v)
    <3>1. PICK P, E : Cuts(s, scand_index, opst, P) /\ Operands(s, scand_index, opst, P, npst, E)
      BY <1>2 DEF Holds
    <3>2. Len(npst) \in Nat /\ Len(Pop(Pop(npst))) = Len(npst) - 2
      <4>1. /\ Len(npst) \in Nat /\ Len(npst) = E[Len(opst) - 1] + 2 /\ E[Len(opst) - 1] \in Nat
            /\ <<npst[Len(npst) - 1]>> = Val(s, P[Len(opst) - 1] + 1, P[Len(opst)] - 1)
            /\ <<npst[Len(npst)]>> = Val(s, P[Len(opst)] + 1, scand_index)
            /\ Top(npst, 0) = npst[Len(npst)] /\ Top(npst, 0) \in Int
            /\ Top(Pop(npst), 0) = npst[Len(npst) - 1] /\ Top(Pop(npst), 0) \in Int
            /\ Pop(Pop(npst)) \in Seq(Int) /\ Len(Pop(Pop(npst))) = Len(npst) - 2
            /\ \A i \in 1..Len(npst) - 2 : Pop(Pop(npst))[i] = npst[i]
        BY <1>1, <3>1, LastOperands
      <4> QED BY <4>1
    <3>3. Len(npst) <= Len(s) /\ Len(s) \in Nat
      BY Context DEF IInv, NeverDropped
    <3>4. Len(Pop(Pop(npst))) # Len(s)
      BY <3>2, <3>3
    <3> QED BY <2>2, <3>4 DEF Push, IsFull, max_size
  <2> QED BY <2>2, <2>3, <2>4, <2>5 DEF ValueInv, AnswerIsValue
<1> QED BY <1>3, <1>4

\* The three loops.
LEMMA LoopValue == IInv /\ ValueInv /\ (CloseStep \/ ReduceStep \/ DrainStep) => ValueInv'
<1> SUFFICES ASSUME IInv, ValueInv, CloseStep \/ ReduceStep \/ DrainStep PROVE ValueInv'
  OBVIOUS
<1>1. CASE CloseStep
  <2>1. /\ pc = "close" /\ Top(opst, Nothing) # "("
        /\ PopAndCal(pc) /\ UNCHANGED <<s, scand_index, result>>
    BY <1>1 DEF CloseStep
  <2>2. scand_index < Len(s) /\ cu = ")"
    BY <2>1 DEF IInv, LoopContext
  <2>3. TokenFacts(s, scand_index)
    BY <2>2, NextToken, Context
  <2>4. Ended(s, scand_index) = 1 /\ Depth(s, scand_index) # 0
    BY <2>2, <2>3 DEF TokenFacts, cu
  <2>5. opst # <<>>
    <3>1. NumParens(opst) # 0
      BY <2>1, <2>4 DEF IInv, ParensMatch
    <3> QED BY <3>1, EmptyStack
  <2> QED BY <2>1, <2>4, <2>5, CalValue
<1>2. CASE ReduceStep
  <2>1. /\ pc = "reduce" /\ opst # <<>> /\ Prio(cu) <= Prio(Top(opst, Nothing))
        /\ PopAndCal(pc) /\ UNCHANGED <<s, scand_index, result>>
    BY <1>2 DEF ReduceStep, MustReduce
  <2>2. scand_index < Len(s) /\ cu \in BinaryOps
    BY <2>1 DEF IInv, LoopContext
  <2>3. TokenFacts(s, scand_index)
    BY <2>2, NextToken, Context
  <2>4. Ended(s, scand_index) = 1
    BY <2>2, <2>3 DEF TokenFacts, cu
  <2>5. Top(opst, Nothing) # "("
    <3> HIDE DEF cu
    <3> QED BY <2>1, <2>2 DEF Prio, BinaryOps
  <2> QED BY <2>1, <2>4, <2>5, CalValue
<1>3. CASE DrainStep
  <2>1. /\ pc = "drain" /\ opst # <<>>
        /\ PopAndCal(pc) /\ UNCHANGED <<s, scand_index, result>>
    BY <1>3 DEF DrainStep
  <2>2. Ended(s, scand_index) = 1 /\ Depth(s, scand_index) = 0
    BY <2>1, Context DEF IInv, LoopContext, WellFormed, Ended
  <2>3. Top(opst, Nothing) # "("
    <3>1. NumParens(opst) = 0
      BY <2>1, <2>2 DEF IInv, ParensMatch
    <3>2. /\ NumParens(Pop(opst)) \in Nat
          /\ NumParens(opst) = NumParens(Pop(opst)) + (IF Top(opst, Nothing) = "(" THEN 1 ELSE 0)
      BY <2>1, CountPop, PopTop, StackType, Context
    <3> QED BY <3>1, <3>2
  <2> QED BY <2>1, <2>2, <2>3, CalValue
<1> QED BY <1>1, <1>2, <1>3

\* The loop of ')' ends at its '('.
LEMMA CloseEndValue == IInv /\ ValueInv /\ CloseEnd => ValueInv'
<1> SUFFICES ASSUME IInv, ValueInv, CloseEnd PROVE ValueInv'
  OBVIOUS
<1>1. /\ pc = "close" /\ pc' = "scan" /\ s' = s /\ npst' = npst
      /\ scand_index' = scand_index + 1
      /\ Top(opst, Nothing) = "(" /\ opst' = Pop(opst)
  BY DEF CloseEnd, Consume
<1>2. scand_index < Len(s) /\ s[scand_index + 1].t = ")"
  BY <1>1 DEF IInv, LoopContext, cu
<1>3. opst # <<>>
  BY <1>1 DEF Top, Nothing
<1>4. Holds(s, scand_index, opst, npst, Floor)
  BY <1>1 DEF ValueInv
<1>5. WellFormed(s) /\ scand_index \in 0..Len(s) - 1 /\ npst \in Seq(Int)
  BY <1>2, Context
<1>6. Holds(s, scand_index + 1, Pop(opst), npst, 3)
  BY <1>1, <1>2, <1>3, <1>4, <1>5, HoldsClosed
<1>7. Floor' = 3
  BY <1>1 DEF Floor
<1> QED BY <1>1, <1>6, <1>7 DEF ValueInv, AnswerIsValue

\* The loop of an operator ends.
LEMMA ReduceEndValue == IInv /\ ValueInv /\ ReduceEnd => ValueInv'
<1> SUFFICES ASSUME IInv, ValueInv, ReduceEnd PROVE ValueInv'
  OBVIOUS
<1>1. /\ pc = "reduce" /\ pc' = "scan" /\ s' = s /\ npst' = npst
      /\ scand_index' = scand_index + 1 /\ opst' = Push(opst, cu) /\ ~MustReduce
  BY DEF ReduceEnd, Consume
<1>2. scand_index < Len(s) /\ cu \in BinaryOps
  BY <1>1 DEF IInv, LoopContext
<1>3. PICK e, b : e = cu /\ b = Prio(e)
  OBVIOUS
<1>4. Holds(s, scand_index, opst, npst, b)
  <2>1. Holds(s, scand_index, opst, npst, Floor)
    BY <1>1 DEF ValueInv
  <2>2. Floor = b
    BY <1>1, <1>3 DEF Floor
  <2> QED BY <2>1, <2>2
<1>5. b \in Nat /\ e \in Ops /\ Prio(e) <= b /\ Prio(Top(opst, Nothing)) < Prio(e)
  <2>1. b \in {1, 2} /\ e \in Ops /\ Prio(Top(opst, Nothing)) \in {0, 1, 2} /\ Prio(Nothing) = 0
    BY <1>2, <1>3, PrioType DEF Ops
  <2>2. opst = <<>> \/ ~(b <= Prio(Top(opst, Nothing)))
    BY <1>1, <1>3 DEF MustReduce
  <2>3. opst = <<>> => Top(opst, Nothing) = Nothing
    BY DEF Top
  <2> QED BY <2>1, <2>2, <2>3, <1>3
<1> QED BY <1>1, <1>2, <1>3, <1>4, <1>5, PushValue

\* calculate() pops its result.
LEMMA ReturnValue == IInv /\ ValueInv /\ Return => ValueInv'
<1> SUFFICES ASSUME IInv, ValueInv, Return PROVE ValueInv'
  OBVIOUS
<1>1. /\ pc = "drain" /\ opst = <<>> /\ pc' = "done" /\ s' = s /\ result' = Top(npst, 0)
  BY DEF Return
<1>2. scand_index = Len(s) /\ WellFormed(s) /\ npst \in Seq(Int)
  BY <1>1, Context DEF IInv, LoopContext
<1>3. Holds(s, Len(s), <<>>, npst, Floor)
  BY <1>1, <1>2 DEF ValueInv
<1>4. <<npst[Len(npst)]>> = Value(s)
  BY <1>2, <1>3, HoldsValue
<1>5. npst # <<>>
  <2>1. Ended(s, scand_index) = 1
    BY <1>2 DEF WellFormed, Ended
  <2>2. Len(npst) = 1
    BY <1>1, <2>1, EmptyStack DEF IInv, OperandsBalance
  <2> QED BY <2>2
<1>6. result' = npst[Len(npst)]
  BY <1>1, <1>5 DEF Top
<1> QED BY <1>1, <1>4, <1>6 DEF ValueInv, AnswerIsValue

\* A step that changes nothing.
LEMMA StutterValue == ValueInv /\ UNCHANGED vars => ValueInv'
BY DEF vars, ValueInv, AnswerIsValue, Floor, cu

\* Every step of calculate() keeps the values.
LEMMA NextValue == IInv /\ ValueInv /\ [Next]_vars => ValueInv'
  BY PushOpValue, ReadValue, EnterValue, LoopValue, CloseEndValue, ReduceEndValue,
     ReturnValue, StutterValue DEF Next, Terminated

\* calculate() of double_stack_224.c answers every infix expression with the value
\* that the grammar gives it, and dies only of an expression that has none.
THEOREM AnswersWithValue == Spec => []AnswerIsValue
<1>1. ValueInv => AnswerIsValue
  BY DEF ValueInv
<1> QED BY InitValue, Invariance, NextValue, <1>1, PTL DEF Spec

----------------------------------------------------------------------------
(* What the evaluation of a postfix string leaves on the stack.             *)

\* Values, with and without a number.
Vals == {<<n>> : n \in Int} \union {Undefined}

\* One item of a postfix string, on a stack of values.
Evaluated(st, e) ==
  IF e.t = "num" THEN Append(st, <<e.v>>)
  ELSE Append(Pop(Pop(st)), Combine(e.t, Top(Pop(st), Undefined), Top(st, Undefined)))

\* The stacks of values, r[k] behind the first k items of b.
Run(b, r) ==
  /\ r[0] = <<>>
  /\ \A k \in 0..Len(b) : r[k] \in Seq(Vals)
  /\ \A k \in 1..Len(b) : r[k] = Evaluated(r[k - 1], b[k])

\* The items x + 1 to y of b leave the value v on top of what was there.
Leaves(b, x, y, v) == \A r : Run(b, r) => r[y] = Append(r[x], v)

\* Values are computed from values.
LEMMA CombineType ==
  ASSUME NEW op, NEW a \in Vals, NEW b \in Vals
  PROVE  Combine(op, a, b) \in Vals
<1>1. Undefined \in Vals
  BY DEF Vals
<1>2. CASE a = Undefined \/ b = Undefined
  BY <1>1, <1>2 DEF Combine
<1>3. CASE a # Undefined /\ b # Undefined
  <2>1. PICK m \in Int : a = <<m>>
    BY <1>3 DEF Vals
  <2>2. PICK n \in Int : b = <<n>>
    BY <1>3 DEF Vals
  <2>3. a[1] = m /\ b[1] = n
    BY <2>1, <2>2
  <2>4. Combine(op, a, b) =
          CASE op = "+" -> <<m + n>>
            [] op = "-" -> <<m - n>>
            [] op = "*" -> <<m * n>>
            [] op = "/" /\ n # 0 -> <<TruncDiv(m, n)>>
            [] OTHER -> Undefined
    BY <1>3, <2>3 DEF Combine
  <2>5. n # 0 => TruncDiv(m, n) \in Int
    <3> SUFFICES ASSUME n # 0 PROVE TruncDiv(m, n) \in Int
      OBVIOUS
    <3>1. Abs(n) \in Nat /\ Abs(n) > 0 /\ Abs(m) \in Int
      BY DEF Abs
    <3>2. Abs(m) \div Abs(n) \in Int
      BY <3>1
    <3> QED BY <3>2 DEF TruncDiv
  <2>6. \A z \in Int : <<z>> \in Vals
    BY DEF Vals
  <2>7. m + n \in Int /\ m - n \in Int /\ m * n \in Int
    OBVIOUS
  <2>8. PICK y, z, t : y = m + n /\ z = m - n /\ t = m * n
    OBVIOUS
  <2>9. /\ <<y>> \in Vals /\ <<z>> \in Vals /\ <<t>> \in Vals
        /\ n # 0 => <<TruncDiv(m, n)>> \in Vals
    BY <2>5, <2>6, <2>7, <2>8
  <2> QED BY <2>4, <2>8, <2>9, <1>1
<1> QED BY <1>2, <1>3

\* What has been pushed is popped.
LEMMA PopAppend ==
  ASSUME NEW S, NEW st \in Seq(S), NEW v, NEW none
  PROVE  Pop(Append(st, v)) = st /\ Top(Append(st, v), none) = v
<1>1. PICK T : T = S \union {v}
  OBVIOUS
<1>2. PICK u : u = Append(st, v)
  OBVIOUS
<1>3. PICK n \in Nat : n = Len(st)
  OBVIOUS
<1>4. st \in Seq(T) /\ v \in T
  <2>1. \A i \in 1..Len(st) : st[i] \in T
    BY <1>1
  <2> QED BY <2>1, <1>1
<1>5. /\ u \in Seq(T) /\ Len(u) = n + 1 /\ u[n + 1] = v
      /\ \A i \in 1..n : u[i] = st[i]
  BY <1>2, <1>3, <1>4
<1>6. u # <<>>
  <2>1. Len(u) # 0
    BY <1>5
  <2> QED BY <2>1
<1>7. /\ Pop(u) \in Seq(T) /\ Len(Pop(u)) = Len(u) - 1
      /\ \A i \in 1..(Len(u) - 1) : Pop(u)[i] = u[i]
      /\ Top(u, none) = u[Len(u)]
  BY <1>5, <1>6, PopTop
<1>8. (n + 1) - 1 = n
  OBVIOUS
<1>9. Len(Pop(u)) = Len(st) /\ \A i \in 1..Len(st) : Pop(u)[i] = st[i]
  BY <1>3, <1>5, <1>7, <1>8
<1>10. Pop(u) = st
  BY <1>4, <1>7, <1>9, SeqEqual
<1> QED BY <1>2, <1>5, <1>7, <1>10

\* A stack of values stays one.
LEMMA EvaluatedType ==
  ASSUME NEW st \in Seq(Vals), NEW e \in Token
  PROVE  Evaluated(st, e) \in Seq(Vals)
<1>1. CASE e.t = "num"
  <2>1. <<e.v>> \in Vals
    BY DEF Token, Vals
  <2> QED BY <1>1, <2>1 DEF Evaluated
<1>2. CASE e.t # "num"
  <2>1. \A x \in Seq(Vals) : Pop(x) \in Seq(Vals) /\ Top(x, Undefined) \in Vals
    <3>1. Undefined \in Vals /\ <<>> \in Seq(Vals)
      BY DEF Vals
    <3> QED BY <3>1, PopTop
  <2>2. PICK x, y, z : x = Pop(st) /\ y = Top(Pop(st), Undefined) /\ z = Top(st, Undefined)
    OBVIOUS
  <2>3. x \in Seq(Vals) /\ Pop(x) \in Seq(Vals) /\ y \in Vals /\ z \in Vals
    BY <2>1, <2>2
  <2>4. PICK w : w = Combine(e.t, y, z)
    OBVIOUS
  <2>5. w \in Vals
    BY <2>3, <2>4, CombineType
  <2> QED BY <1>2, <2>2, <2>3, <2>4, <2>5 DEF Evaluated
<1> QED BY <1>1, <1>2

\* Every string has its stacks.
LEMMA RunExists ==
  ASSUME NEW b \in Seq(Token)
  PROVE  \E r : Run(b, r)
<1> DEFINE Upto(r, m) == /\ r[0] = <<>>
                         /\ \A k \in 0..m : r[k] \in Seq(Vals)
                         /\ \A k \in 1..m : r[k] = Evaluated(r[k - 1], b[k])
           Bad == {m \in 0..Len(b) : ~\E r : Upto(r, m)}
<1>1. Bad = {}
  <2> SUFFICES ASSUME Bad # {} PROVE FALSE
    OBVIOUS
  <2>1. PICK m \in Bad : \A x \in Bad : m <= x
    <3>1. Bad \subseteq Nat
      OBVIOUS
    <3> HIDE DEF Bad
    <3> QED BY <3>1, Least
  <2>2. Len(b) \in Nat /\ m \in 0..Len(b) /\ ~\E r : Upto(r, m)
    BY <2>1
  <2>3. m # 0
    <3>1. PICK r : r = [k \in {0} |-> <<>>]
      OBVIOUS
    <3>2. r[0] = <<>> /\ <<>> \in Seq(Vals) /\ \A k \in 0..0 : k = 0
      BY <3>1
    <3>3. \A k \in 1..0 : FALSE
      OBVIOUS
    <3>4. Upto(r, 0)
      BY <3>2, <3>3
    <3> QED BY <3>4, <2>2
  <2>4. m \in 1..Len(b) /\ m - 1 \in 0..Len(b) /\ ~(m <= m - 1) /\ m \in Nat
    BY <2>2, <2>3
  <2>5. PICK r : Upto(r, m - 1)
    <3>1. m - 1 \notin Bad
      BY <2>1, <2>4
    <3> HIDE DEF Upto
    <3> QED BY <3>1, <2>4
  <2>6. b[m] \in Token
    BY <2>4
  <2>7. PICK st : st = Evaluated(r[m - 1], b[m])
    OBVIOUS
  <2>8. st \in Seq(Vals)
    <3>1. m - 1 \in 0..m - 1
      BY <2>4
    <3>2. r[m - 1] \in Seq(Vals)
      BY <2>5, <3>1
    <3> QED BY <2>6, <2>7, <3>2, EvaluatedType
  <2>9. PICK f : f = [k \in 0..m |-> IF k = m THEN st ELSE r[k]]
    OBVIOUS
  <2>10. \A k \in 0..m : f[k] = IF k = m THEN st ELSE r[k]
    BY <2>9
  <2>11. f[0] = <<>>
    <3>1. 0 \in 0..m /\ 0 # m
      BY <2>4
    <3> QED BY <3>1, <2>5, <2>10
  <2>12. \A k \in 0..m : f[k] \in Seq(Vals)
    <3>1. \A k \in 0..m : k = m \/ k \in 0..m - 1
      BY <2>4
    <3> QED BY <3>1, <2>5, <2>8, <2>10
  <2>13. ASSUME NEW k \in 1..m PROVE f[k] = Evaluated(f[k - 1], b[k])
    <3>1. k \in 0..m /\ k - 1 \in 0..m /\ k - 1 # m
      BY <2>4
    <3>2. f[k - 1] = r[k - 1]
      BY <3>1, <2>10
    <3>3. CASE k = m
      BY <3>1, <3>2, <3>3, <2>7, <2>10
    <3>4. CASE k # m
      <4>1. k \in 1..m - 1
        BY <3>4, <2>4
      <4> QED BY <4>1, <3>1, <3>2, <3>4, <2>5, <2>10
    <3> QED BY <3>3, <3>4
  <2>14. Upto(f, m)
    BY <2>11, <2>12, <2>13
  <2> QED BY <2>2, <2>14
<1>2. Len(b) \in 0..Len(b)
  OBVIOUS
<1>3. \E r : Upto(r, Len(b))
  <2> HIDE DEF Upto
  <2> QED BY <1>1, <1>2
<1> QED BY <1>3 DEF Run

\* The stacks of a longer string begin with those of the shorter.
LEMMA RunLonger ==
  ASSUME NEW b \in Seq(Token), NEW e \in Token, NEW r, Run(Append(b, e), r)
  PROVE  Run(b, r) /\ r[Len(b) + 1] = Evaluated(r[Len(b)], e)
<1>1. PICK u, n : u = Append(b, e) /\ n = Len(b)
  OBVIOUS
<1>2. n \in Nat /\ Len(u) = n + 1 /\ u[n + 1] = e /\ \A i \in 1..n : u[i] = b[i]
  BY <1>1
<1>3. /\ \A k \in 0..n : k \in 0..n + 1
      /\ \A k \in 1..n : k \in 1..n + 1
      /\ n + 1 \in 1..n + 1 /\ (n + 1) - 1 = n
  BY <1>2
<1>4. /\ r[0] = <<>> /\ \A k \in 0..n + 1 : r[k] \in Seq(Vals)
      /\ \A k \in 1..n + 1 : r[k] = Evaluated(r[k - 1], u[k])
  BY <1>1, <1>2 DEF Run
<1>5. \A k \in 1..n : r[k] = Evaluated(r[k - 1], b[k])
  BY <1>2, <1>3, <1>4
<1>6. r[n + 1] = Evaluated(r[n], e)
  BY <1>2, <1>3, <1>4
<1> QED BY <1>1, <1>3, <1>4, <1>5, <1>6 DEF Run

\* What a part leaves it still leaves when more is written.
LEMMA LeavesStill ==
  ASSUME NEW b \in Seq(Token), NEW e \in Token
  PROVE  \A x, y, v : Leaves(b, x, y, v) => Leaves(Append(b, e), x, y, v)
BY RunLonger DEF Leaves

\* A number leaves itself.
LEMMA LeavesNumber ==
  ASSUME NEW b \in Seq(Token), NEW e \in Token, e.t = "num"
  PROVE  Leaves(Append(b, e), Len(b), Len(b) + 1, <<e.v>>)
BY RunLonger DEF Leaves, Evaluated

\* An operator leaves what it computes from what two parts in front of it leave.
LEMMA LeavesOperation ==
  ASSUME NEW b \in Seq(Token), NEW e \in Token, e.t # "num", NEW x \in 0..Len(b), NEW y,
         NEW v1, NEW v2, Leaves(b, x, y, v1), Leaves(b, y, Len(b), v2)
  PROVE  Leaves(Append(b, e), x, Len(b) + 1, Combine(e.t, v1, v2))
<1> SUFFICES ASSUME NEW r, Run(Append(b, e), r)
             PROVE  r[Len(b) + 1] = Append(r[x], Combine(e.t, v1, v2))
  BY DEF Leaves
<1>1. Run(b, r) /\ r[Len(b) + 1] = Evaluated(r[Len(b)], e)
  BY RunLonger
<1>2. r[y] = Append(r[x], v1) /\ r[Len(b)] = Append(r[y], v2) /\ r[x] \in Seq(Vals)
  BY <1>1 DEF Leaves, Run
<1>3. PICK st : st = r[x]
  OBVIOUS
<1>4. PICK S : S = Vals \union {v1}
  OBVIOUS
<1>5. st \in Seq(S) /\ v1 \in S
  <2>1. \A i \in 1..Len(st) : st[i] \in S
    BY <1>2, <1>3, <1>4
  <2> QED BY <2>1, <1>2, <1>3, <1>4
<1>6. PICK u : u = Append(st, v1)
  OBVIOUS
<1>7. u \in Seq(S) /\ r[Len(b)] = Append(u, v2)
  BY <1>2, <1>3, <1>5, <1>6
<1>8. /\ Pop(Append(u, v2)) = u /\ Top(Append(u, v2), Undefined) = v2
      /\ Pop(u) = st /\ Top(u, Undefined) = v1
  BY <1>5, <1>6, <1>7, PopAppend
<1> QED BY <1>1, <1>3, <1>7, <1>8 DEF Evaluated

\* What has no value takes the value from all that is computed with it: it is
\* never popped without leaving another.
LEMMA UndefinedStays ==
  ASSUME NEW st \in Seq(Vals), NEW e \in Token, \E i \in 1..Len(st) : st[i] = Undefined
  PROVE  \E i \in 1..Len(Evaluated(st, e)) : Evaluated(st, e)[i] = Undefined
<1>1. PICK i \in 1..Len(st) : st[i] = Undefined
  OBVIOUS
<1>2. PICK n \in Nat : n = Len(st)
  OBVIOUS
<1>3. CASE e.t = "num"
  <2>1. PICK v : v = <<e.v>>
    OBVIOUS
  <2>2. v \in Vals
    BY <2>1 DEF Token, Vals
  <2>3. PICK u : u = Append(st, v)
    OBVIOUS
  <2>4. Len(u) = n + 1 /\ \A k \in 1..n : u[k] = st[k]
    BY <1>2, <2>2, <2>3
  <2>5. i \in 1..Len(u) /\ u[i] = Undefined
    BY <1>1, <1>2, <2>4
  <2>6. Evaluated(st, e) = u
    BY <1>3, <2>1, <2>3 DEF Evaluated
  <2> QED BY <2>5, <2>6
<1>4. CASE e.t # "num"
  <2>1. PICK p, q, w : p = Pop(st) /\ q = Pop(Pop(st))
                    /\ w = Combine(e.t, Top(Pop(st), Undefined), Top(st, Undefined))
    OBVIOUS
  <2>2. Evaluated(st, e) = Append(q, w)
    BY <1>4, <2>1 DEF Evaluated
  <2>3. st # <<>> /\ n # 0
    BY <1>1, <1>2
  <2>4. /\ p \in Seq(Vals) /\ Len(p) = n - 1 /\ \A k \in 1..n - 1 : p[k] = st[k]
        /\ Top(st, Undefined) = st[n]
    BY <1>2, <2>1, <2>3, PopTop
  <2>5. CASE i = n
    <3>1. w = Undefined
      BY <1>1, <2>1, <2>4, <2>5, CombineUndefined
    <3>2. q \in Seq(Vals)
      <4>1. Pop(p) \in Seq(Vals)
        BY <2>4, PopTop
      <4> QED BY <4>1, <2>1
    <3>3. w \in Vals
      BY <3>1 DEF Vals
    <3>4. /\ Len(Append(q, w)) = Len(q) + 1 /\ Append(q, w)[Len(q) + 1] = w
          /\ Len(q) + 1 \in 1..Len(q) + 1
      BY <3>2, <3>3
    <3> QED BY <3>1, <3>4, <2>2
  <2>6. CASE i # n
    <3>1. i \in 1..n - 1 /\ p[i] = Undefined /\ n - 1 \in Nat /\ p # <<>>
      BY <1>1, <1>2, <2>4, <2>6
    <3>2. /\ q \in Seq(Vals) /\ Len(q) = Len(p) - 1 /\ \A k \in 1..Len(p) - 1 : q[k] = p[k]
          /\ Top(p, Undefined) = p[Len(p)] /\ Top(p, Undefined) \in Vals
      <4>1. /\ Pop(p) \in Seq(Vals) /\ Len(p) \in Nat \ {0} /\ Len(Pop(p)) = Len(p) - 1
            /\ \A k \in 1..(Len(p) - 1) : Pop(p)[k] = p[k]
            /\ Top(p, Undefined) = p[Len(p)] /\ Top(p, Undefined) \in Vals
        BY <3>1, <2>4, PopTop
      <4>2. q = Pop(p)
        BY <2>1
      <4> QED BY <4>1, <4>2
    <3>3. w \in Vals
      <4>1. Top(p, Undefined) \in Vals /\ Top(st, Undefined) \in Vals
        BY <3>2, <2>3, PopTop
      <4> QED BY <4>1, <2>1, CombineType
    <3>4. PICK m \in Nat : m = Len(q)
      BY <3>2
    <3>5. /\ Len(Append(q, w)) = m + 1 /\ Append(q, w)[m + 1] = w
          /\ \A k \in 1..m : Append(q, w)[k] = q[k]
      BY <3>2, <3>3, <3>4
    <3>6. m = n - 2
      BY <3>2, <3>4, <2>4
    <3>7. CASE i = n - 1
      <4>1. Top(p, Undefined) = Undefined
        BY <3>1, <3>2, <3>7, <2>4
      <4>2. w = Undefined
        BY <4>1, <2>1, CombineUndefined
      <4> QED BY <4>2, <3>4, <3>5, <2>2
    <3>8. CASE i # n - 1
      <4>1. i \in 1..m /\ i \in 1..m + 1 /\ i \in 1..Len(p) - 1
        BY <3>1, <3>6, <3>8, <2>4
      <4>2. Append(q, w)[i] = Undefined
        BY <4>1, <3>1, <3>2, <3>5
      <4> QED BY <4>1, <4>2, <3>5, <2>2
    <3> QED BY <3>7, <3>8
  <2> QED BY <2>5, <2>6
<1> QED BY <1>3, <1>4

\* So a string whose evaluation meets it leaves nothing else, if it leaves one value.
LEMMA UndefinedLast ==
  ASSUME NEW b \in Seq(Token), NEW r, Run(b, r), NEW k \in 0..Len(b),
         \E i \in 1..Len(r[k]) : r[k][i] = Undefined, NEW v, Leaves(b, 0, Len(b), v)
  PROVE  v = Undefined
<1> DEFINE Met(x) == \E i \in 1..Len(r[x]) : r[x][i] = Undefined
           Bad == {x \in k..Len(b) : ~Met(x)}
<1>1. Bad = {}
  <2> SUFFICES ASSUME Bad # {} PROVE FALSE
    OBVIOUS
  <2>1. PICK x \in Bad : \A z \in Bad : x <= z
    <3>1. Bad \subseteq Nat
      OBVIOUS
    <3> HIDE DEF Bad
    <3> QED BY <3>1, Least
  <2>2. x \in k..Len(b) /\ ~Met(x)
    BY <2>1
  <2>3. x # k
    BY <2>2
  <2>4. x - 1 \in k..Len(b) /\ ~(x <= x - 1) /\ x \in 1..Len(b) /\ x - 1 \in 0..Len(b)
    BY <2>2, <2>3
  <2>5. Met(x - 1)
    <3>1. x - 1 \notin Bad
      BY <2>1, <2>4
    <3> HIDE DEF Met
    <3> QED BY <3>1, <2>4
  <2>6. /\ r[x - 1] \in Seq(Vals) /\ b[x] \in Token
        /\ r[x] = Evaluated(r[x - 1], b[x])
    BY <2>4 DEF Run
  <2>7. Met(x)
    BY <2>5, <2>6, UndefinedStays
  <2> QED BY <2>2, <2>7
<1>2. Len(b) \in k..Len(b)
  OBVIOUS
<1>3. Met(Len(b))
  <2> HIDE DEF Met
  <2> QED BY <1>1, <1>2
<1>4. r[Len(b)] = Append(<<>>, v)
  BY DEF Leaves, Run
<1>5. Append(<<>>, v) = <<v>> /\ Len(<<v>>) = 1 /\ <<v>>[1] = v
  OBVIOUS
<1> QED BY <1>3, <1>4, <1>5

----------------------------------------------------------------------------
(* What mtob() has written of the values of the text that is read.          *)

\* The postfix string b is cut at E where the operators on the stack o came, which
\* cuts the text at P: each part leaves the value of the left operand of its operator,
\* and the last one that of the operand that has ended.
Written(str, c, o, P, b, E) ==
  /\ b \in Seq(Token) /\ E \in [0..Len(o) -> 0..Len(b)] /\ E[0] = 0
  /\ \A q \in 1..Len(o) : IF o[q] = "(" THEN E[q] = E[q - 1]
                          ELSE Leaves(b, E[q - 1], E[q], Val(str, P[q - 1] + 1, P[q] - 1))
  /\ IF OperandEnds(str, c) THEN Leaves(b, E[Len(o)], Len(b), Val(str, P[Len(o)] + 1, c))
     ELSE E[Len(o)] = Len(b)

\* The stack o and the string b hold what is to be done with the first c tokens; in what
\* has been written last every operator binds at least as tight as a says.
Writes(str, c, o, b, a) ==
  \E P, E : Cuts(str, c, o, P) /\ LastPart(str, c, o, P, a) /\ Written(str, c, o, P, b, E)

\* What binds tight in the last part also does by a lower measure.
LEMMA WritesLess ==
  ASSUME NEW str, NEW c, NEW o, NEW b, NEW a \in Nat, NEW a2 \in Nat, a2 <= a,
         Writes(str, c, o, b, a)
  PROVE  Writes(str, c, o, b, a2)
<1>1. PICK P, E : /\ Cuts(str, c, o, P) /\ LastPart(str, c, o, P, a)
                  /\ Written(str, c, o, P, b, E)
  BY DEF Writes
<1>2. LastPart(str, c, o, P, a2)
  BY <1>1, AboveLess DEF LastPart
<1> QED BY <1>1, <1>2 DEF Writes

\* What mtob() starts with.
LEMMA WritesNothing ==
  ASSUME NEW str, WellFormed(str)
  PROVE  \A a : Writes(str, 0, <<>>, <<>>, a)
<1> TAKE a
<1> DEFINE P == [q \in 0..0 |-> 0]
<1>1. Len(<<>>) = 0 /\ <<>> \in Seq(Ops) /\ <<>> \in Seq(Token) /\ ~OperandEnds(str, 0)
  BY DepthType
<1>2. P \in [0..0 -> 0..0] /\ P[0] = 0
  OBVIOUS
<1> HIDE DEF P
<1>3. \A q \in 1..0 : FALSE
  OBVIOUS
<1>4. Cuts(str, 0, <<>>, P)
  BY <1>1, <1>2, <1>3 DEF Cuts
<1>5. LastPart(str, 0, <<>>, P, a)
  <2>1. \A k \in P[0] + 1..0 : FALSE
    BY <1>2
  <2> QED BY <1>1, <2>1 DEF LastPart
<1>6. Written(str, 0, <<>>, P, <<>>, P)
  BY <1>1, <1>2, <1>3 DEF Written
<1> QED BY <1>4, <1>5, <1>6 DEF Writes

\* An operator, or '(', is pushed: what is written so far is its left operand.
LEMMA WritesPushed ==
  ASSUME NEW str, WellFormed(str), NEW c \in 0..Len(str) - 1, NEW o, NEW b,
         NEW a \in Nat, Writes(str, c, o, b, a), NEW e, e = str[c + 1].t, e \in Ops,
         e # "(" => Prio(e) <= a /\ Prio(Top(o, Nothing)) < Prio(e)
  PROVE  \A a2 : Writes(str, c + 1, Append(o, e), b, a2)
<1>1. PICK P, E : /\ Cuts(str, c, o, P) /\ LastPart(str, c, o, P, a)
                  /\ Written(str, c, o, P, b, E)
  BY DEF Writes
<1>2. PICK m, l : m = Len(o) /\ l = Len(b)
  OBVIOUS
<1>3. o \in Seq(Ops) /\ m \in Nat /\ P \in [0..m -> 0..c] /\ l \in Nat
  BY <1>1, <1>2 DEF Cuts, Written
<1>q. PICK Q : Q = [q \in 0..Len(o) + 1 |-> IF q = Len(o) + 1 THEN c + 1 ELSE P[q]]
  OBVIOUS
<1> DEFINE F == [q \in 0..m + 1 |-> IF q = m + 1 THEN l ELSE E[q]]
           up == Append(o, e)
<1>4. /\ Cuts(str, c + 1, up, Q)
      /\ \A a2 : LastPart(str, c + 1, up, Q, a2)
      /\ ~OperandEnds(str, c + 1)
      /\ OperandEnds(str, c) <=> e # "("
  <2>1. Pushes(str, c, o, P, a, e, Q)
    BY <1>1, <1>q DEF Pushes
  <2> QED BY <2>1, CutPushed
<1>n. m \in Nat /\ m \in 0..m /\ c \in Int /\ (c + 1) - 1 = c /\ l \in 0..l
  BY <1>3
<1>5. /\ Len(up) = m + 1 /\ up[m + 1] = e /\ \A q \in 1..m : up[q] = o[q]
  BY <1>2, <1>3
<1>6. Q[m + 1] = c + 1 /\ \A q \in 0..m : Q[q] = P[q] /\ q # m + 1
  BY <1>2, <1>q, <1>n
<1>7. /\ b \in Seq(Token) /\ E \in [0..m -> 0..l] /\ E[0] = 0
      /\ \A q \in 1..m : IF o[q] = "(" THEN E[q] = E[q - 1]
                         ELSE Leaves(b, E[q - 1], E[q], Val(str, P[q - 1] + 1, P[q] - 1))
      /\ IF OperandEnds(str, c) THEN Leaves(b, E[m], l, Val(str, P[m] + 1, c)) ELSE E[m] = l
  BY <1>1, <1>2 DEF Written
<1>8. F \in [0..m + 1 -> 0..l] /\ F[m + 1] = l /\ \A q \in 0..m : F[q] = E[q]
  BY <1>n, <1>7
<1> HIDE DEF F, up
<1>9. \A q \in 1..m + 1 : IF up[q] = "(" THEN F[q] = F[q - 1]
                          ELSE Leaves(b, F[q - 1], F[q], Val(str, Q[q - 1] + 1, Q[q] - 1))
  <2> SUFFICES ASSUME NEW q \in 1..m + 1
               PROVE  IF up[q] = "(" THEN F[q] = F[q - 1]
                      ELSE Leaves(b, F[q - 1], F[q], Val(str, Q[q - 1] + 1, Q[q] - 1))
    OBVIOUS
  <2>1. CASE q = m + 1
    <3>1. q - 1 = m
      BY <2>1, <1>n
    <3>2. Q[q - 1] = P[m] /\ Q[q] - 1 = c /\ F[q - 1] = E[m] /\ F[q] = l /\ up[q] = e
      BY <2>1, <3>1, <1>n, <1>5, <1>6, <1>8
    <3> QED BY <3>2, <1>4, <1>7
  <2>2. CASE q # m + 1
    <3>1. q \in 1..m /\ q \in 0..m /\ q - 1 \in 0..m
      BY <2>2, <1>n
    <3>2. Q[q] = P[q] /\ Q[q - 1] = P[q - 1] /\ F[q] = E[q] /\ F[q - 1] = E[q - 1] /\ up[q] = o[q]
      BY <3>1, <1>5, <1>6, <1>8
    <3> QED BY <3>1, <3>2, <1>7
  <2> QED BY <2>1, <2>2
<1>10. F[0] = 0
  <2>1. 0 \in 0..m
    BY <1>n
  <2> QED BY <2>1, <1>7, <1>8
<1>11. Written(str, c + 1, up, Q, b, F)
  BY <1>2, <1>4, <1>5, <1>7, <1>8, <1>9, <1>10 DEF Written
<1> QED BY <1>4, <1>11 DEF Writes, up

\* A space changes nothing.
LEMMA WritesSpace ==
  ASSUME NEW str, WellFormed(str), NEW c \in 0..Len(str) - 1, NEW o, NEW b, NEW a,
         Writes(str, c, o, b, a), str[c + 1].t = "space"
  PROVE  Writes(str, c + 1, o, b, a)
<1>1. PICK P, E : /\ Cuts(str, c, o, P) /\ LastPart(str, c, o, P, a)
                  /\ Written(str, c, o, P, b, E)
  BY DEF Writes
<1>2. /\ Cuts(str, c + 1, o, P) /\ LastPart(str, c + 1, o, P, a)
      /\ OperandEnds(str, c + 1) <=> OperandEnds(str, c)
      /\ OperandEnds(str, c) => Val(str, P[Len(o)] + 1, c + 1) = Val(str, P[Len(o)] + 1, c)
  BY <1>1, CutRead
<1>3. Written(str, c + 1, o, P, b, E)
  BY <1>1, <1>2 DEF Written
<1> QED BY <1>2, <1>3 DEF Writes

\* What is written behind it leaves the parts for the operators as they are.
LEMMA WrittenStill ==
  ASSUME NEW str, NEW c, NEW o \in Seq(Ops), NEW P, NEW b, NEW E, Written(str, c, o, P, b, E),
         NEW e \in Token
  PROVE  /\ b \in Seq(Token) /\ Append(b, e) \in Seq(Token)
         /\ Len(b) \in Nat /\ Len(Append(b, e)) = Len(b) + 1
         /\ E \in [0..Len(o) -> 0..Len(b) + 1] /\ E[0] = 0
         /\ \A q \in 1..Len(o) :
              IF o[q] = "(" THEN E[q] = E[q - 1]
              ELSE Leaves(Append(b, e), E[q - 1], E[q], Val(str, P[q - 1] + 1, P[q] - 1))
<1>1. /\ b \in Seq(Token) /\ E \in [0..Len(o) -> 0..Len(b)] /\ E[0] = 0
      /\ \A q \in 1..Len(o) : IF o[q] = "(" THEN E[q] = E[q - 1]
                              ELSE Leaves(b, E[q - 1], E[q], Val(str, P[q - 1] + 1, P[q] - 1))
  BY DEF Written
<1>2. Len(b) \in Nat /\ Append(b, e) \in Seq(Token) /\ Len(Append(b, e)) = Len(b) + 1
  BY <1>1
<1>3. PICK l, u : l = Len(b) /\ u = Append(b, e)
  OBVIOUS
<1>4. l \in Nat /\ E \in [0..Len(o) -> 0..l]
  BY <1>1, <1>2, <1>3
<1>5. E \in [0..Len(o) -> 0..l + 1]
  <2>1. \A q \in 0..Len(o) : E[q] \in 0..l + 1
    <3>1. \A k \in 0..l : k \in 0..l + 1
      BY <1>4
    <3> QED BY <3>1, <1>4
  <2> QED BY <2>1, <1>4
<1>6. \A x, y, v : Leaves(b, x, y, v) => Leaves(u, x, y, v)
  BY <1>1, <1>3, LeavesStill
<1>7. \A q \in 1..Len(o) :
        IF o[q] = "(" THEN E[q] = E[q - 1]
        ELSE Leaves(u, E[q - 1], E[q], Val(str, P[q - 1] + 1, P[q] - 1))
  BY <1>1, <1>6
<1> QED BY <1>1, <1>2, <1>3, <1>5, <1>7

\* A number is written.
LEMMA WritesNum ==
  ASSUME NEW str, WellFormed(str), NEW c \in 0..Len(str) - 1, NEW o, NEW b, NEW a,
         Writes(str, c, o, b, a), str[c + 1].t = "num"
  PROVE  \A a2 : Writes(str, c + 1, o, Append(b, str[c + 1]), a2)
<1>1. PICK P, E : /\ Cuts(str, c, o, P) /\ LastPart(str, c, o, P, a)
                  /\ Written(str, c, o, P, b, E)
  BY DEF Writes
<1>2. PICK e : e = str[c + 1]
  OBVIOUS
<1>3. e \in Token /\ e.t = "num" /\ o \in Seq(Ops)
  <2>1. c + 1 \in 1..Len(str) /\ str \in Seq(Token)
    BY DepthType
  <2> QED BY <2>1, <1>1, <1>2 DEF Cuts
<1>4. /\ Cuts(str, c + 1, o, P) /\ \A a2 : LastPart(str, c + 1, o, P, a2)
      /\ ~OperandEnds(str, c) /\ OperandEnds(str, c + 1)
      /\ Val(str, P[Len(o)] + 1, c + 1) = <<e.v>>
  <2>1. /\ Cuts(str, c + 1, o, P)
        /\ str[c + 1].t = "num" =>
             /\ ~OperandEnds(str, c) /\ OperandEnds(str, c + 1)
             /\ \A a2 : LastPart(str, c + 1, o, P, a2)
             /\ Val(str, P[Len(o)] + 1, c + 1) = <<str[c + 1].v>>
    BY <1>1, CutRead
  <2> QED BY <2>1, <1>2
<1>5. /\ b \in Seq(Token) /\ Append(b, e) \in Seq(Token)
      /\ Len(b) \in Nat /\ Len(Append(b, e)) = Len(b) + 1
      /\ E \in [0..Len(o) -> 0..Len(b) + 1] /\ E[0] = 0
      /\ \A q \in 1..Len(o) :
           IF o[q] = "(" THEN E[q] = E[q - 1]
           ELSE Leaves(Append(b, e), E[q - 1], E[q], Val(str, P[q - 1] + 1, P[q] - 1))
  BY <1>1, <1>3, WrittenStill
<1>6. E[Len(o)] = Len(b)
  BY <1>1, <1>4 DEF Written
<1>7. Leaves(Append(b, e), E[Len(o)], Len(b) + 1, <<e.v>>)
  BY <1>3, <1>5, <1>6, LeavesNumber
<1>8. Written(str, c + 1, o, P, Append(b, e), E)
  BY <1>4, <1>5, <1>7 DEF Written
<1> QED BY <1>2, <1>4, <1>8 DEF Writes

\* The last operator on the stack is written behind its two operands.
LEMMA WritesReduced ==
  ASSUME NEW str, WellFormed(str), NEW c \in 0..Len(str), NEW o, NEW b, NEW a,
         Writes(str, c, o, b, a), OperandEnds(str, c), o # <<>>, Top(o, Nothing) # "(",
         NEW e \in Token, e.t = Top(o, Nothing), NEW a2 \in Nat, a2 <= Prio(Top(o, Nothing))
  PROVE  Writes(str, c, Pop(o), Append(b, e), a2)
<1>1. PICK P, E : /\ Cuts(str, c, o, P) /\ LastPart(str, c, o, P, a)
                  /\ Written(str, c, o, P, b, E)
  BY DEF Writes
<1>2. PICK m, r, u : m = Len(o) /\ r = Pop(o) /\ u = Append(b, e)
  OBVIOUS
<1>3. PICK Q : Q = [q \in 0..m - 1 |-> P[q]]
  OBVIOUS
<1>4. o \in Seq(Ops)
  BY <1>1 DEF Cuts
<1>5. /\ m \in Nat \ {0} /\ o[m] = Top(o, Nothing) /\ Len(r) = m - 1
      /\ Top(o, Nothing) \in Ops
      /\ \A q \in 1..m - 1 : r[q] = o[q]
  BY <1>2, <1>4, PopTop
<1>6. /\ Cuts(str, c, r, Q) /\ LastPart(str, c, r, Q, a2)
      /\ Val(str, P[m - 1] + 1, c) =
           Combine(e.t, Val(str, P[m - 1] + 1, P[m] - 1), Val(str, P[m] + 1, c))
  BY <1>1, <1>2, <1>3, CutReduced
<1>7. /\ b \in Seq(Token) /\ u \in Seq(Token) /\ Len(b) \in Nat /\ Len(u) = Len(b) + 1
      /\ E \in [0..m -> 0..Len(b) + 1] /\ E[0] = 0
      /\ \A q \in 1..m : IF o[q] = "(" THEN E[q] = E[q - 1]
                         ELSE Leaves(u, E[q - 1], E[q], Val(str, P[q - 1] + 1, P[q] - 1))
  <2>1. /\ b \in Seq(Token) /\ Append(b, e) \in Seq(Token)
        /\ Len(b) \in Nat /\ Len(Append(b, e)) = Len(b) + 1
        /\ E \in [0..Len(o) -> 0..Len(b) + 1] /\ E[0] = 0
        /\ \A q \in 1..Len(o) :
             IF o[q] = "(" THEN E[q] = E[q - 1]
             ELSE Leaves(Append(b, e), E[q - 1], E[q], Val(str, P[q - 1] + 1, P[q] - 1))
    BY <1>1, <1>4, WrittenStill
  <2> QED BY <2>1, <1>2
<1>n. /\ m - 1 \in 0..m - 1 /\ m - 1 \in 0..m /\ 0 \in 0..m - 1 /\ m \in 1..m
      /\ \A q \in 1..m - 1 : q \in 1..m /\ q \in 0..m - 1 /\ q - 1 \in 0..m - 1
      /\ \A q \in 0..m - 1 : q \in 0..m
  BY <1>5
<1>8. Leaves(u, E[m - 1], Len(u), Val(str, P[m - 1] + 1, c))
  <2>1. /\ E[m - 1] \in 0..Len(b)
        /\ Leaves(b, E[m - 1], E[m], Val(str, P[m - 1] + 1, P[m] - 1))
        /\ Leaves(b, E[m], Len(b), Val(str, P[m] + 1, c))
    BY <1>1, <1>2, <1>5, <1>n DEF Written
  <2>2. e.t # "num"
    BY <1>5 DEF Ops, BinaryOps
  <2>3. PICK v1, v2 : /\ v1 = Val(str, P[m - 1] + 1, P[m] - 1)
                      /\ v2 = Val(str, P[m] + 1, c)
    OBVIOUS
  <2>4. Leaves(u, E[m - 1], Len(b) + 1, Combine(e.t, v1, v2))
    BY <2>1, <2>2, <2>3, <1>2, <1>7, LeavesOperation
  <2> QED BY <2>3, <2>4, <1>6, <1>7
<1>9. PICK F : F = [q \in 0..m - 1 |-> E[q]]
  OBVIOUS
<1>10. F \in [0..m - 1 -> 0..Len(u)] /\ \A q \in 0..m - 1 : F[q] = E[q] /\ Q[q] = P[q]
  BY <1>3, <1>7, <1>9, <1>n
<1>11. \A q \in 1..m - 1 : IF r[q] = "(" THEN F[q] = F[q - 1]
                           ELSE Leaves(u, F[q - 1], F[q], Val(str, Q[q - 1] + 1, Q[q] - 1))
  BY <1>5, <1>7, <1>10, <1>n
<1>12. Leaves(u, F[m - 1], Len(u), Val(str, Q[m - 1] + 1, c))
  BY <1>8, <1>10, <1>n
<1>13. F[0] = 0
  BY <1>7, <1>10, <1>n
<1>14. Written(str, c, r, Q, u, F)
  BY <1>5, <1>7, <1>10, <1>11, <1>12, <1>13 DEF Written
<1> QED BY <1>2, <1>6, <1>14 DEF Writes

\* ')' takes its '(' from the stack.
LEMMA WritesClosed ==
  ASSUME NEW str, WellFormed(str), NEW c \in 0..Len(str) - 1, NEW o, NEW b, NEW a,
         Writes(str, c, o, b, a), str[c + 1].t = ")", o # <<>>, Top(o, Nothing) = "("
  PROVE  \A a2 : Writes(str, c + 1, Pop(o), b, a2)
<1>1. PICK P, E : /\ Cuts(str, c, o, P) /\ LastPart(str, c, o, P, a)
                  /\ Written(str, c, o, P, b, E)
  BY DEF Writes
<1>2. PICK m, r : m = Len(o) /\ r = Pop(o)
  OBVIOUS
<1>3. PICK Q : Q = [q \in 0..m - 1 |-> P[q]]
  OBVIOUS
<1>4. /\ OperandEnds(str, c) /\ OperandEnds(str, c + 1)
      /\ Cuts(str, c + 1, r, Q) /\ \A a2 : LastPart(str, c + 1, r, Q, a2)
      /\ Val(str, P[m - 1] + 1, c + 1) = Val(str, P[m] + 1, c)
  BY <1>1, <1>2, <1>3, CutClosed
<1>5. /\ m \in Nat \ {0} /\ o[m] = "(" /\ Len(r) = m - 1
      /\ \A q \in 1..m - 1 : r[q] = o[q]
  <2>1. o \in Seq(Ops)
    BY <1>1 DEF Cuts
  <2> QED BY <2>1, <1>2, PopTop
<1>n. /\ m - 1 \in 0..m - 1 /\ 0 \in 0..m - 1 /\ m \in 1..m
      /\ \A q \in 1..m - 1 : q \in 1..m /\ q \in 0..m - 1 /\ q - 1 \in 0..m - 1
      /\ \A q \in 0..m - 1 : q \in 0..m
  BY <1>5
<1>6. /\ b \in Seq(Token) /\ E \in [0..m -> 0..Len(b)] /\ E[0] = 0
      /\ \A q \in 1..m : IF o[q] = "(" THEN E[q] = E[q - 1]
                         ELSE Leaves(b, E[q - 1], E[q], Val(str, P[q - 1] + 1, P[q] - 1))
      /\ Leaves(b, E[m], Len(b), Val(str, P[m] + 1, c))
  BY <1>1, <1>2, <1>4 DEF Written
<1>7. E[m] = E[m - 1]
  BY <1>5, <1>6, <1>n
<1>8. PICK F : F = [q \in 0..m - 1 |-> E[q]]
  OBVIOUS
<1>9. F \in [0..m - 1 -> 0..Len(b)] /\ \A q \in 0..m - 1 : F[q] = E[q] /\ Q[q] = P[q]
  BY <1>3, <1>6, <1>8, <1>n
<1>10. \A q \in 1..m - 1 : IF r[q] = "(" THEN F[q] = F[q - 1]
                           ELSE Leaves(b, F[q - 1], F[q], Val(str, Q[q - 1] + 1, Q[q] - 1))
  BY <1>5, <1>6, <1>9, <1>n
<1>11. Leaves(b, F[m - 1], Len(b), Val(str, Q[m - 1] + 1, c + 1))
  BY <1>4, <1>6, <1>7, <1>9, <1>n
<1>12. F[0] = 0
  BY <1>6, <1>9, <1>n
<1>13. Written(str, c + 1, r, Q, b, F)
  BY <1>4, <1>5, <1>6, <1>9, <1>10, <1>11, <1>12 DEF Written
<1> QED BY <1>2, <1>4, <1>13 DEF Writes

\* The postfix string leaves the value of the text.
LEMMA WritesValue ==
  ASSUME NEW str, WellFormed(str), NEW b, NEW a, Writes(str, Len(str), <<>>, b, a)
  PROVE  b \in Seq(Token) /\ Leaves(b, 0, Len(b), Value(str))
<1>1. PICK P, E : Cuts(str, Len(str), <<>>, P) /\ Written(str, Len(str), <<>>, P, b, E)
  BY DEF Writes
<1>2. OperandEnds(str, Len(str))
  BY DEF WellFormed
<1>3. Len(<<>>) = 0 /\ P[0] = 0 /\ 0 + 1 = 1
  BY <1>1 DEF Cuts
<1>4. b \in Seq(Token) /\ E[0] = 0 /\ Leaves(b, E[0], Len(b), Val(str, 1, Len(str)))
  BY <1>1, <1>2, <1>3 DEF Written
<1> QED BY <1>4 DEF Val, Value

----------------------------------------------------------------------------
(* The block as a stack of operators.                                       *)

\* What is written above the top is pushed.
LEMMA HeldAppend ==
  ASSUME NEW st, NEW top, HoldsOps(st, top), NEW e, e.t \in Ops,
         NEW up, \A i \in 0..(top + 1) : up[i] = IF i = top + 1 THEN e ELSE st[i]
  PROVE  Held(up, top + 1) = Append(Held(st, top), e.t)
<1>1. top \in Int /\ top >= -1
  BY DEF HoldsOps
<1>2. PICK a, b, n : a = Held(st, top) /\ b = Held(up, top + 1) /\ n = top + 1
  OBVIOUS
<1>3. n \in Nat /\ a \in Seq(Ops) /\ Len(a) = n /\ \A i \in 1..n : a[i] = st[i - 1].t
  <2>1. \A i \in 1..n : a[i] = st[i - 1].t
    BY <1>2 DEF Held
  <2> QED BY <2>1, <1>1, <1>2, HeldType
<1>4. b = [i \in 1..n + 1 |-> up[i - 1].t]
  BY <1>2 DEF Held
<1>5. PICK c : c = Append(a, e.t)
  OBVIOUS
<1>6. c \in Seq(Ops) /\ Len(c) = n + 1 /\ c[n + 1] = e.t /\ \A i \in 1..n : c[i] = a[i]
  BY <1>3, <1>5
<1>7. \A i \in 1..n + 1 : up[i - 1].t = c[i]
  <2> SUFFICES ASSUME NEW i \in 1..n + 1 PROVE up[i - 1].t = c[i]
    OBVIOUS
  <2>1. i - 1 \in 0..top + 1
    BY <1>1, <1>2
  <2>2. CASE i = n + 1
    <3>1. i - 1 = top + 1
      BY <1>1, <1>2, <2>2
    <3> QED BY <2>1, <2>2, <3>1, <1>6
  <2>3. CASE i # n + 1
    <3>1. i \in 1..n /\ i - 1 # top + 1
      BY <1>1, <1>2, <2>3
    <3> QED BY <2>1, <3>1, <1>3, <1>6
  <2> QED BY <2>2, <2>3
<1>8. b \in Seq(Ops) /\ Len(b) = n + 1
  <2>1. \A i \in 1..n + 1 : up[i - 1].t \in Ops
    BY <1>6, <1>7
  <2> QED BY <2>1, <1>3, <1>4
<1>9. \A i \in 1..Len(b) : b[i] = c[i]
  BY <1>4, <1>7, <1>8
<1> QED BY <1>2, <1>5, <1>6, <1>8, <1>9, SeqEqual

\* Below its top a block holds what is left after a pop, and its top is the top.
LEMMA HeldBelow ==
  ASSUME NEW st, NEW top, HoldsOps(st, top), top >= 0
  PROVE  /\ Held(st, top) # <<>> /\ Pop(Held(st, top)) = Held(st, top - 1)
         /\ Top(Held(st, top), Nothing) = st[top].t
<1>1. /\ top \in Int /\ top - 1 \in Int /\ top - 1 >= -1 /\ (top - 1) + 1 = top
      /\ \A i \in 0..(top - 1) : i \in 0..top
  BY DEF HoldsOps
<1>2. HoldsOps(st, top - 1) /\ st[top].t \in Ops
  BY <1>1 DEF HoldsOps
<1>3. PICK low : low = top - 1
  OBVIOUS
<1>4. PICK a, t : a = Held(st, low) /\ t = st[top].t
  OBVIOUS
<1>5. Held(st, low + 1) = Append(a, t)
  <2>1. \A i \in 0..(low + 1) : st[i] = IF i = low + 1 THEN st[top] ELSE st[i]
    BY <1>1, <1>3
  <2> QED BY <2>1, <1>2, <1>3, <1>4, HeldAppend
<1>6. a \in Seq(Ops)
  BY <1>2, <1>3, <1>4, HeldType
<1>7. Pop(Append(a, t)) = a /\ Top(Append(a, t), Nothing) = t
  BY <1>6, PopAppend
<1>8. Append(a, t) # <<>>
  <2>1. Len(Append(a, t)) = Len(a) + 1 /\ Len(a) \in Nat
    BY <1>2, <1>4, <1>6
  <2> QED BY <2>1
<1> QED BY <1>1, <1>3, <1>4, <1>5, <1>7, <1>8

\* Nothing is held below an empty top.
LEMMA HeldEmpty == ASSUME NEW st PROVE Held(st, -1) = <<>>
  BY DEF Held

----------------------------------------------------------------------------
(* The invariant of 224.c with values.                                      *)

\* How tight the operators bind that mtob() has written last, at least.
PostfixFloor ==
  IF postfix_pc = "reduce" THEN Prio(infix[done + 1].t)
  ELSE IF postfix_pc = "mtob" /\ done < Len(infix) THEN 3 ELSE 0

\* While mtob() runs, its stack and the postfix string hold what is left to do.
WritesOn == Writes(infix, done, Held(stack, it), bstr, PostfixFloor)

\* The stack of cal_bstr() holds the numbers that the items read so far leave.
Computes(r) ==
  /\ Run(bstr, r) /\ Len(r[index]) = it + 1
  /\ \A i \in 0..it : stack[i].v \in Int /\ r[index][i + 1] = <<stack[i].v>>

\* While cal_bstr() runs, the postfix string leaves the value of the text.
ComputesOn == Leaves(bstr, 0, Len(bstr), Value(infix)) /\ \E r : Computes(r)

\* The answer of a call is the value of its text, which has one unless the process dies.
PostfixAnswers == /\ postfix_pc = "returned" => <<cal_result>> = Value(infix)
                  /\ postfix_pc = "trap" => Value(infix) = Undefined

PostfixValueInv == /\ Translating => WritesOn
                   /\ postfix_pc = "cal_bstr" => ComputesOn
                   /\ PostfixAnswers

\* The instance computes as this module does.
LEMMA SameArithmetic ==
  \A op, a, b : /\ Postfix!DoOneCal(op, a, b) = DoOneCal(op, a, b)
                /\ Postfix!Traps(op, a) <=> Traps(op, a)
BY DEF Postfix!DoOneCal, DoOneCal, Postfix!Traps, Traps, Postfix!TruncDiv, TruncDiv,
       Postfix!Abs, Abs

\* The measure is a number, and how it follows the program counter.
LEMMA FloorType ==
  /\ PostfixFloor \in Nat /\ PostfixFloor <= 3
  /\ PostfixFloor' \in Nat /\ PostfixFloor' <= 3
<1>1. \A c : Prio(c) \in Nat /\ Prio(c) <= 3
  BY PrioType
<1>2. PICK c, d : c = infix[done + 1].t /\ d = (infix[done + 1].t)'
  OBVIOUS
<1>3. PostfixFloor \in {Prio(c), 3, 0}
  BY <1>2 DEF PostfixFloor
<1>4. PostfixFloor' \in {Prio(d), 3, 0}
  BY <1>2 DEF PostfixFloor
<1> QED BY <1>1, <1>3, <1>4

\* What is written while the text is read is also so by the measure after a step.
LEMMA WritesOnNext ==
  ASSUME PostfixInv', Translating',
         Writes(infix', done', Held(stack', it'), bstr', 3)
  PROVE  PostfixValueInv'
<1>1. PICK f \in Nat : f = PostfixFloor' /\ f <= 3
  BY FloorType
<1>2. PICK str, c, o, b : str = infix' /\ c = done' /\ o = Held(stack', it') /\ b = bstr'
  OBVIOUS
<1>3. Writes(str, c, o, b, f)
  BY <1>1, <1>2, WritesLess
<1>4. WritesOn'
  BY <1>1, <1>2, <1>3 DEF WritesOn
<1>5. postfix_pc' \notin {"cal_bstr", "returned", "trap"}
  BY DEF Translating
<1> QED BY <1>4, <1>5 DEF PostfixValueInv, PostfixAnswers

\* An operator goes from the stack to the postfix string.
LEMMA EmitValue ==
  ASSUME PostfixInv, PostfixValueInv, Translating, it >= 0, stack[it].t # "(",
         Ended(infix, done) = 1, PostfixFloor <= Prio(stack[it].t),
         Postfix!PopAndEmit, UNCHANGED <<infix, postfix_pc, index, stack>>
  PROVE  PostfixValueInv'
<1>1. bstr' = Append(bstr, stack[it]) /\ it' = it - 1
  BY TranslatingContext DEF Postfix!PopAndEmit
<1>2. PICK o, e : o = Held(stack, it) /\ e = stack[it]
  OBVIOUS
<1>3. o # <<>> /\ Pop(o) = Held(stack, it - 1) /\ Top(o, Nothing) = e.t
  BY <1>2, TranslatingContext, HeldBelow
<1>4. e \in Token
  <2>1. it \in 0..it
    BY TranslatingContext
  <2> QED BY <2>1, <1>2, TranslatingContext DEF HoldsOps
<1>5. PICK f \in Nat : f = PostfixFloor /\ f <= Prio(e.t)
  BY <1>2, FloorType
<1>6. /\ WellFormed(infix) /\ done \in 0..Len(infix) /\ OperandEnds(infix, done)
      /\ Writes(infix, done, o, bstr, f)
  BY <1>2, <1>5, TranslatingContext DEF PostfixValueInv, WritesOn, Ended
<1>7. Writes(infix, done, Pop(o), Append(bstr, e), f)
  BY <1>2, <1>3, <1>4, <1>5, <1>6, WritesReduced
<1>8. /\ infix' = infix /\ postfix_pc' = postfix_pc /\ index' = index /\ stack' = stack
      /\ done' = done
  BY DEF done
<1>9. PostfixFloor' = f
  BY <1>5, <1>8 DEF PostfixFloor
<1>10. WritesOn'
  BY <1>1, <1>2, <1>3, <1>7, <1>8, <1>9 DEF WritesOn
<1>11. Translating' /\ postfix_pc' \notin {"cal_bstr", "returned", "trap"}
  BY <1>8 DEF Translating
<1> QED BY <1>10, <1>11 DEF PostfixValueInv, PostfixAnswers

\* A token is pushed, into the block, and read with that.
LEMMA PushTokenValue ==
  ASSUME PostfixInv, PostfixInv', PostfixValueInv, Translating, done < Len(infix),
         infix[done + 1].t \in Ops,
         infix[done + 1].t # "(" =>
           /\ Prio(infix[done + 1].t) <= PostfixFloor
           /\ Prio(Top(Held(stack, it), Nothing)) < Prio(infix[done + 1].t),
         Postfix!stack_push(infix[done + 1]), postfix_pc' = "mtob", index' = done + 1,
         UNCHANGED <<infix, bstr>>
  PROVE  PostfixValueInv'
<1>1. PICK e : e = infix[done + 1]
  OBVIOUS
<1>2. e.t \in Ops
  BY <1>1
<1>3. it' = it + 1 /\ stack' = Postfix!Write(it + 1, e)
  <2>1. Postfix!stack_len = Len(infix)
    BY TranslatingContext, SameOperators DEF Postfix!stack_len
  <2> QED
    BY <1>1, <2>1, TranslatingContext DEF Postfix!stack_push
<1>4. \A i \in 0..(it + 1) : stack'[i] = IF i = it + 1 THEN e ELSE stack[i]
  <2>1. \A i \in 0..(it + 1) : i \in 0..Len(infix)
    BY TranslatingContext
  <2> QED
    BY <2>1, <1>3, TranslatingContext DEF Postfix!Write
<1>5. PICK o, up, op : o = Held(stack, it) /\ up = stack' /\ op = e.t
  OBVIOUS
<1>6. Held(up, it + 1) = Append(o, op)
  <2>1. HoldsOps(stack, it)
    BY TranslatingContext
  <2>2. \A i \in 0..(it + 1) : up[i] = IF i = it + 1 THEN e ELSE stack[i]
    BY <1>4, <1>5
  <2>3. PICK st, top : st = stack /\ top = it
    OBVIOUS
  <2>4. Held(up, top + 1) = Append(Held(st, top), e.t)
    BY <1>2, <2>1, <2>2, <2>3, HeldAppend
  <2> QED BY <2>3, <2>4, <1>5
<1>7. PICK f \in Nat : f = PostfixFloor
  BY FloorType
<1>8. /\ WellFormed(infix) /\ done \in 0..Len(infix) - 1 /\ Writes(infix, done, o, bstr, f)
      /\ op = infix[done + 1].t /\ op \in Ops
      /\ op # "(" => Prio(op) <= f /\ Prio(Top(o, Nothing)) < Prio(op)
  BY <1>1, <1>2, <1>5, <1>7, TranslatingContext DEF PostfixValueInv, WritesOn
<1>9. Writes(infix, done + 1, Append(o, op), bstr, 3)
  BY <1>7, <1>8, WritesPushed
<1>10. Translating' /\ done' = done + 1
  BY DEF Translating, done
<1>11. Writes(infix', done', Held(stack', it'), bstr', 3)
  BY <1>3, <1>5, <1>6, <1>9, <1>10
<1> QED BY <1>10, <1>11, WritesOnNext

\* An operator on an empty stack, or '('.
LEMMA PostfixPushOpValue ==
  PostfixInv /\ PostfixInv' /\ PostfixValueInv /\ Postfix!PushOp => PostfixValueInv'
<1> SUFFICES ASSUME PostfixInv, PostfixInv', PostfixValueInv, Postfix!PushOp
             PROVE  PostfixValueInv'
  OBVIOUS
<1>1. /\ postfix_pc = "mtob" /\ postfix_pc' = "mtob" /\ index < Len(infix)
      /\ IsLegalOp(infix[index + 1].t) /\ (it = -1 \/ infix[index + 1].t = "(")
      /\ Postfix!stack_push(infix[index + 1]) /\ index' = index + 1
      /\ UNCHANGED <<infix, bstr>>
  BY SameOperators DEF Postfix!PushOp, Postfix!AtToken, Postfix!tok, Postfix!is_empty,
                       Postfix!Consume, Postfix!Rest
<1>2. Translating /\ done = index
  BY <1>1 DEF Translating, done
<1>3. TokenFacts(infix, done)
  BY <1>1, <1>2, TokenAhead
<1>4. infix[done + 1].t # ")"
  <2>1. it = -1 => Depth(infix, done) = 0
    BY <1>2, HeldNone, HeldCounts
  <2> QED
    BY <2>1, <1>1, <1>2, <1>3 DEF TokenFacts
<1>5. infix[done + 1].t \in Ops
  BY <1>1, <1>2, <1>4 DEF IsLegalOp, Ops
<1>6. PICK e : e = infix[done + 1].t
  OBVIOUS
<1>7. e # "(" => /\ Prio(e) <= PostfixFloor
                 /\ Prio(Top(Held(stack, it), Nothing)) < Prio(e)
  <2>1. e # "(" => e \in BinaryOps /\ it = -1
    BY <1>1, <1>2, <1>5, <1>6 DEF Ops
  <2>2. PostfixFloor = 3
    BY <1>1, <1>2 DEF PostfixFloor
  <2>3. it = -1 => Top(Held(stack, it), Nothing) = Nothing
    BY HeldEmpty DEF Top
  <2> QED BY <2>1, <2>2, <2>3, PrioType
<1> QED BY <1>1, <1>2, <1>5, <1>6, <1>7, PushTokenValue

\* The loop of an operator ends, and the operator is pushed.
LEMMA PostfixReduceEndValue ==
  PostfixInv /\ PostfixInv' /\ PostfixValueInv /\ Postfix!ReduceEnd => PostfixValueInv'
<1> SUFFICES ASSUME PostfixInv, PostfixInv', PostfixValueInv, Postfix!ReduceEnd
             PROVE  PostfixValueInv'
  OBVIOUS
<1>1. /\ postfix_pc = "reduce" /\ postfix_pc' = "mtob" /\ Postfix!stack_push(infix[index])
      /\ index' = index /\ UNCHANGED <<infix, bstr>>
      /\ it = -1 \/ ~(Prio(infix[index].t) <= Prio(Postfix!Read(it).t))
  BY SameOperators DEF Postfix!ReduceEnd, Postfix!Rest, Postfix!MustReduce, Postfix!cu,
                       Postfix!is_empty
<1>2. /\ Translating /\ done < Len(infix) /\ index = done + 1
      /\ infix[done + 1].t \in BinaryOps
  BY <1>1, ReduceKnows
<1>3. PICK e : e = infix[done + 1].t
  OBVIOUS
<1>4. e \in Ops /\ e \in BinaryOps
  BY <1>2, <1>3 DEF Ops
<1>5. PostfixFloor = Prio(e)
  BY <1>1, <1>3 DEF PostfixFloor
<1>6. Prio(Top(Held(stack, it), Nothing)) < Prio(e)
  <2>1. CASE it = -1
    <3>1. Top(Held(stack, it), Nothing) = Nothing
      BY <2>1, HeldEmpty DEF Top
    <3> QED BY <3>1, <1>4, PrioType
  <2>2. CASE it # -1
    <3>1. it >= 0 /\ Postfix!Read(it) = stack[it]
      BY <2>2, <1>2, TranslatingContext
    <3>2. PICK t : t = stack[it].t
      OBVIOUS
    <3>3. ~(Prio(e) <= Prio(t))
      BY <1>1, <1>2, <1>3, <2>2, <3>1, <3>2
    <3>4. Top(Held(stack, it), Nothing) = t
      BY <1>2, <3>1, <3>2, TranslatingContext, HeldBelow
    <3>5. Prio(e) \in {0, 1, 2} /\ Prio(t) \in {0, 1, 2}
      BY PrioType
    <3> QED BY <3>3, <3>4, <3>5
  <2> QED BY <2>1, <2>2
<1>7. Prio(e) <= PostfixFloor
  <2>1. Prio(e) \in {0, 1, 2}
    BY PrioType
  <2> QED BY <2>1, <1>5
<1> QED BY <1>1, <1>2, <1>3, <1>4, <1>6, <1>7, PushTokenValue

\* A loop is entered.
LEMMA PostfixEnterValue ==
  PostfixInv /\ PostfixInv' /\ PostfixValueInv /\ Postfix!Enter => PostfixValueInv'
<1> SUFFICES ASSUME PostfixInv, PostfixInv', PostfixValueInv, Postfix!Enter
             PROVE  PostfixValueInv'
  OBVIOUS
<1>1. /\ postfix_pc = "mtob" /\ index < Len(infix) /\ index' = index + 1
      /\ postfix_pc' \in {"close", "reduce"}
      /\ infix' = infix /\ bstr' = bstr /\ stack' = stack /\ it' = it
  BY DEF Postfix!Enter, Postfix!AtToken, Postfix!Consume, Postfix!Rest
<1>2. Translating /\ done = index /\ Translating' /\ index \in Nat
  <2>1. Translating /\ done = index
    BY <1>1 DEF Translating, done
  <2> QED
    BY <2>1, <1>1, TranslatingContext DEF Translating
<1>3. done' = done
  BY <1>1, <1>2 DEF done
<1>4. WritesOn /\ PostfixFloor = 3
  BY <1>1, <1>2 DEF PostfixValueInv, PostfixFloor
<1>5. Writes(infix', done', Held(stack', it'), bstr', 3)
  BY <1>1, <1>3, <1>4 DEF WritesOn
<1> QED BY <1>2, <1>5, WritesOnNext

\* A space is skipped, a number goes to the postfix string.
LEMMA PostfixReadValue ==
  /\ PostfixInv /\ PostfixInv' /\ PostfixValueInv /\ Postfix!SkipSpace => PostfixValueInv'
  /\ PostfixInv /\ PostfixInv' /\ PostfixValueInv /\ Postfix!EmitNum => PostfixValueInv'
<1> SUFFICES ASSUME PostfixInv, PostfixInv', PostfixValueInv,
                    Postfix!SkipSpace \/ Postfix!EmitNum
             PROVE  PostfixValueInv'
  OBVIOUS
<1>1. /\ postfix_pc = "mtob" /\ postfix_pc' = "mtob" /\ index < Len(infix)
      /\ index' = index + 1 /\ infix' = infix /\ stack' = stack /\ it' = it
      /\ \/ infix[index + 1].t = "space" /\ bstr' = bstr
         \/ infix[index + 1].t = "num" /\ bstr' = Append(bstr, infix[index + 1])
  BY DEF Postfix!SkipSpace, Postfix!EmitNum, Postfix!AtToken, Postfix!tok, Postfix!Consume,
         Postfix!Rest
<1>2. Translating /\ done = index /\ Translating' /\ done' = done + 1
  BY <1>1 DEF Translating, done
<1>3. PostfixFloor = 3
  BY <1>1, <1>2 DEF PostfixFloor
<1>4. PICK o, c : o = Held(stack, it) /\ c = done
  OBVIOUS
<1>5. WellFormed(infix) /\ c \in 0..Len(infix) - 1 /\ Writes(infix, c, o, bstr, 3)
  BY <1>1, <1>2, <1>3, <1>4, TranslatingContext DEF PostfixValueInv, WritesOn
<1>6. Writes(infix, c + 1, o, bstr', 3)
  <2>1. CASE infix[index + 1].t = "space" /\ bstr' = bstr
    BY <2>1, <1>2, <1>4, <1>5, WritesSpace
  <2>2. CASE infix[index + 1].t = "num" /\ bstr' = Append(bstr, infix[index + 1])
    <3>1. Writes(infix, c + 1, o, Append(bstr, infix[c + 1]), 3)
      BY <2>2, <1>2, <1>4, <1>5, WritesNum
    <3> QED BY <3>1, <2>2, <1>2, <1>4
  <2> QED BY <2>1, <2>2, <1>1
<1>7. Writes(infix', done', Held(stack', it'), bstr', 3)
  BY <1>1, <1>2, <1>4, <1>6
<1> QED BY <1>2, <1>7, WritesOnNext

\* The loops write an operator.
LEMMA PostfixLoopValue ==
  /\ PostfixInv /\ PostfixValueInv /\ Postfix!CloseStep => PostfixValueInv'
  /\ PostfixInv /\ PostfixValueInv /\ Postfix!ReduceStep => PostfixValueInv'
  /\ PostfixInv /\ PostfixValueInv /\ Postfix!DrainStep => PostfixValueInv'
<1>1. ASSUME PostfixInv, PostfixValueInv, Postfix!CloseStep PROVE PostfixValueInv'
  <2>1. postfix_pc = "close" /\ Postfix!Read(it).t # "(" /\ Postfix!PopAndEmit
        /\ UNCHANGED <<infix, postfix_pc, index, stack>>
    BY <1>1 DEF Postfix!CloseStep, Postfix!Rest
  <2>2. Translating /\ it >= 0 /\ Ended(infix, done) = 1 /\ stack[it].t # "("
    BY <1>1, <2>1, CloseFinds
  <2>3. PostfixFloor <= Prio(stack[it].t)
    <3>1. PostfixFloor = 0
      BY <2>1 DEF PostfixFloor
    <3>2. \A c : 0 <= Prio(c)
      BY PrioType
    <3> QED BY <3>1, <3>2
  <2> QED BY <1>1, <2>1, <2>2, <2>3, EmitValue
<1>2. ASSUME PostfixInv, PostfixValueInv, Postfix!ReduceStep PROVE PostfixValueInv'
  <2>1. /\ postfix_pc = "reduce" /\ Postfix!PopAndEmit /\ it # -1
        /\ Prio(infix[index].t) <= Prio(Postfix!Read(it).t)
        /\ UNCHANGED <<infix, postfix_pc, index, stack>>
    BY <1>2, SameOperators DEF Postfix!ReduceStep, Postfix!MustReduce, Postfix!cu,
                               Postfix!is_empty, Postfix!Rest
  <2>2. /\ Translating /\ done < Len(infix) /\ index = done + 1
        /\ infix[index].t \in BinaryOps /\ Ended(infix, done) = 1
    BY <1>2, <2>1, ReduceKnows
  <2>3. it >= 0 /\ Postfix!Read(it) = stack[it]
    BY <1>2, <2>1, <2>2, TranslatingContext
  <2>4. stack[it].t # "("
    BY <2>1, <2>2, <2>3 DEF Prio, BinaryOps
  <2>5. PostfixFloor <= Prio(stack[it].t)
    <3>1. PostfixFloor = Prio(infix[index].t)
      BY <2>1, <2>2 DEF PostfixFloor
    <3> QED BY <3>1, <2>1, <2>3
  <2> QED BY <1>2, <2>1, <2>2, <2>3, <2>4, <2>5, EmitValue
<1>3. ASSUME PostfixInv, PostfixValueInv, Postfix!DrainStep PROVE PostfixValueInv'
  <2>1. /\ postfix_pc = "mtob" /\ index = Len(infix) /\ it # -1 /\ Postfix!PopAndEmit
        /\ UNCHANGED <<infix, postfix_pc, index, stack>>
    BY <1>3 DEF Postfix!DrainStep, Postfix!is_empty, Postfix!Rest
  <2>2. /\ Translating /\ done = index /\ Ended(infix, done) = 1
        /\ NumParens(Held(stack, it)) = 0
    BY <1>3, <2>1, EndKnows
  <2>3. it >= 0
    BY <1>3, <2>1, <2>2, TranslatingContext
  <2>4. stack[it].t # "("
    <3>1. /\ NumParens(Held(stack, it)) = NumParens(Held(stack, it - 1))
                                            + (IF stack[it].t = "(" THEN 1 ELSE 0)
          /\ NumParens(Held(stack, it - 1)) \in Nat
      BY <1>3, <2>2, <2>3, TranslatingContext, HeldPop
    <3> QED
      BY <3>1, <2>2
  <2>5. PostfixFloor <= Prio(stack[it].t)
    <3>1. PostfixFloor = 0
      BY <1>3, <2>1, <2>2, TranslatingContext DEF PostfixFloor
    <3>2. \A c : 0 <= Prio(c)
      BY PrioType
    <3> QED BY <3>1, <3>2
  <2> QED BY <1>3, <2>1, <2>2, <2>3, <2>4, <2>5, EmitValue
<1> QED BY <1>1, <1>2, <1>3

\* The loop of ')' takes its '(' off the stack.
LEMMA PostfixCloseEndValue ==
  PostfixInv /\ PostfixInv' /\ PostfixValueInv /\ Postfix!CloseEnd => PostfixValueInv'
<1> SUFFICES ASSUME PostfixInv, PostfixInv', PostfixValueInv, Postfix!CloseEnd
             PROVE  PostfixValueInv'
  OBVIOUS
<1>1. /\ postfix_pc = "close" /\ Postfix!Read(it).t = "(" /\ it' = it - 1
      /\ postfix_pc' = "mtob"
      /\ infix' = infix /\ bstr' = bstr /\ index' = index /\ stack' = stack
  BY DEF Postfix!CloseEnd, Postfix!Rest
<1>2. /\ Translating /\ done < Len(infix) /\ index = done + 1 /\ infix[done + 1].t = ")"
      /\ it >= 0 /\ stack[it].t = "("
  BY <1>1, CloseFinds
<1>3. Translating' /\ done' = done + 1
  BY <1>1, <1>2 DEF Translating, done
<1>4. PICK o, c, f : o = Held(stack, it) /\ c = done /\ f = PostfixFloor
  OBVIOUS
<1>5. o # <<>> /\ Pop(o) = Held(stack, it - 1) /\ Top(o, Nothing) = "("
  BY <1>2, <1>4, TranslatingContext, HeldBelow
<1>6. WellFormed(infix) /\ c \in 0..Len(infix) - 1 /\ Writes(infix, c, o, bstr, f)
  BY <1>2, <1>4, TranslatingContext DEF PostfixValueInv, WritesOn
<1>7. Writes(infix, c + 1, Pop(o), bstr, 3)
  BY <1>2, <1>4, <1>5, <1>6, WritesClosed
<1>8. Writes(infix', done', Held(stack', it'), bstr', 3)
  BY <1>1, <1>3, <1>4, <1>5, <1>7
<1> QED BY <1>3, <1>8, WritesOnNext

\* Nothing waits any more: the postfix string leaves the value of the text.
LEMMA PostfixReturnPostfixValue ==
  PostfixInv /\ PostfixValueInv /\ Postfix!ReturnPostfix => PostfixValueInv'
<1> SUFFICES ASSUME PostfixInv, PostfixValueInv, Postfix!ReturnPostfix
             PROVE  PostfixValueInv'
  OBVIOUS
<1>1. /\ postfix_pc = "mtob" /\ index = Len(infix) /\ it = -1
      /\ postfix_pc' = "cal_bstr" /\ index' = 0
      /\ infix' = infix /\ bstr' = bstr /\ it' = it
  BY DEF Postfix!ReturnPostfix, Postfix!is_empty
<1>2. Translating /\ done = Len(infix)
  BY <1>1, EndKnows
<1>3. PICK f : f = PostfixFloor
  OBVIOUS
<1>4. WellFormed(infix) /\ Writes(infix, Len(infix), <<>>, bstr, f)
  BY <1>1, <1>2, <1>3, TranslatingContext, HeldEmpty DEF PostfixValueInv, WritesOn
<1>5. bstr \in Seq(Token) /\ Leaves(bstr, 0, Len(bstr), Value(infix))
  BY <1>4, WritesValue
<1>6. PICK r : Run(bstr, r)
  BY <1>5, RunExists
<1>7. Len(r[0]) = 0
  BY <1>6 DEF Run
<1>8. Computes(r)'
  <2>1. \A i \in 0..it' : FALSE
    BY <1>1
  <2>2. Run(bstr, r)' <=> Run(bstr, r)
    BY <1>1 DEF Run, Evaluated
  <2>3. r[index'] = r[0]
    BY <1>1
  <2>4. Len(r[index']) = it' + 1
    BY <1>1, <1>7, <2>3
  <2> QED BY <1>6, <2>1, <2>2, <2>4 DEF Computes
<1>9. ComputesOn'
  BY <1>1, <1>5, <1>8 DEF ComputesOn
<1> QED BY <1>1, <1>9 DEF PostfixValueInv, PostfixAnswers, Translating

\* What every step of cal_bstr() starts from.
LEMMA ComputingContext ==
  ASSUME PostfixInv, PostfixValueInv, postfix_pc = "cal_bstr", NEW r, Computes(r)
  PROVE  /\ bstr \in Seq(Token) /\ Leaves(bstr, 0, Len(bstr), Value(infix)) /\ Run(bstr, r)
         /\ index \in 0..Len(bstr) /\ it \in Int /\ it >= -1 /\ it + 1 <= index
         /\ r[index] \in Seq(Vals) /\ Len(r[index]) = it + 1
         /\ \A i \in 0..it : /\ stack[i].v \in Int /\ r[index][i + 1] = <<stack[i].v>>
                             /\ Postfix!Read(i) = stack[i]
         /\ it + 1 = Height(bstr, index)
         /\ index < Len(bstr) => /\ bstr[index + 1] \in Token
                                 /\ r[index + 1] = Evaluated(r[index], bstr[index + 1])
<1>1. /\ bstr \in Seq(Token) /\ Len(bstr) \in Nat /\ index \in 0..Len(bstr)
      /\ it \in Int /\ it >= -1 /\ it + 1 <= index /\ it + 1 = Height(bstr, index)
      /\ DOMAIN stack = 0..(2 * Len(bstr))
  BY EvaluatingContext
<1>2. Leaves(bstr, 0, Len(bstr), Value(infix))
  BY DEF PostfixValueInv, ComputesOn
<1>3. /\ Run(bstr, r) /\ Len(r[index]) = it + 1
      /\ \A i \in 0..it : stack[i].v \in Int /\ r[index][i + 1] = <<stack[i].v>>
  BY DEF Computes
<1>4. r[index] \in Seq(Vals)
  BY <1>1, <1>3 DEF Run
<1>5. \A i \in 0..it : Postfix!Read(i) = stack[i]
  <2>1. \A i \in 0..it : i \in 0..(2 * Len(bstr))
    BY <1>1
  <2> QED BY <2>1, <1>1 DEF Postfix!Read
<1>6. ASSUME index < Len(bstr)
      PROVE  bstr[index + 1] \in Token /\ r[index + 1] = Evaluated(r[index], bstr[index + 1])
  <2>1. index + 1 \in 1..Len(bstr) /\ (index + 1) - 1 = index
    BY <1>1, <1>6
  <2> QED BY <2>1, <1>1, <1>3 DEF Run
<1> QED BY <1>1, <1>2, <1>3, <1>4, <1>5, <1>6

\* What a step of cal_bstr() must leave.
LEMMA ComputesNext ==
  ASSUME PostfixValueInv, postfix_pc = "cal_bstr", postfix_pc' = "cal_bstr",
         UNCHANGED <<infix, bstr>>, NEW r, Run(bstr, r), Len(r[index']) = it' + 1,
         \A i \in 0..it' : stack'[i].v \in Int /\ r[index'][i + 1] = <<stack'[i].v>>
  PROVE  PostfixValueInv'
<1>1. Run(bstr, r)' <=> Run(bstr, r)
  BY DEF Run, Evaluated
<1>2. Computes(r)'
  BY <1>1 DEF Computes
<1>3. Leaves(bstr, 0, Len(bstr), Value(infix))'
  BY DEF PostfixValueInv, ComputesOn
<1>4. ComputesOn'
  BY <1>2, <1>3 DEF ComputesOn
<1> QED BY <1>4 DEF PostfixValueInv, PostfixAnswers, Translating

\* cal_bstr() pushes a number.
LEMMA PostfixPushNumValue ==
  PostfixInv /\ PostfixValueInv /\ Postfix!PushNum => PostfixValueInv'
<1> SUFFICES ASSUME PostfixInv, PostfixValueInv, Postfix!PushNum PROVE PostfixValueInv'
  OBVIOUS
<1>1. /\ postfix_pc = "cal_bstr" /\ postfix_pc' = "cal_bstr" /\ index < Len(bstr)
      /\ bstr[index + 1].t = "num" /\ Postfix!stack_push(bstr[index + 1])
      /\ index' = index + 1 /\ UNCHANGED <<infix, bstr>>
  BY DEF Postfix!PushNum, Postfix!AtItem, Postfix!item, Postfix!Consume, Postfix!Rest
<1>2. PICK r : Computes(r)
  BY <1>1 DEF PostfixValueInv, ComputesOn
<1>3. PICK e, st : e = bstr[index + 1] /\ st = r[index]
  OBVIOUS
<1>4. /\ Run(bstr, r) /\ it \in Int /\ it >= -1 /\ st \in Seq(Vals) /\ Len(st) = it + 1
      /\ \A i \in 0..it : stack[i].v \in Int /\ st[i + 1] = <<stack[i].v>>
      /\ e \in Token /\ e.t = "num" /\ r[index + 1] = Evaluated(st, e)
  BY <1>1, <1>2, <1>3, ComputingContext
<1>5. it' = it + 1 /\ stack' = Postfix!Write(it + 1, e)
  <2>1. it <= Postfix!stack_len
    BY <1>1, EvaluatingContext, SameOperators DEF Postfix!stack_len
  <2> QED
    BY <2>1, <1>1, <1>3 DEF Postfix!stack_push
<1>6. \A i \in 0..it + 1 : stack'[i] = IF i = it + 1 THEN e ELSE stack[i]
  <2>1. \A i \in 0..it + 1 : i \in DOMAIN stack
    BY <1>1, EvaluatingContext
  <2> QED BY <2>1, <1>5 DEF Postfix!Write
<1>7. PICK v, up : v = <<e.v>> /\ up = Append(st, v)
  OBVIOUS
<1>8. v \in Vals /\ e.v \in Int
  BY <1>4, <1>7 DEF Vals, Token
<1>9. Len(up) = it + 2 /\ up[it + 2] = v /\ \A i \in 0..it : up[i + 1] = st[i + 1]
  <2>1. /\ Len(up) = Len(st) + 1 /\ up[Len(st) + 1] = v
        /\ \A i \in 1..Len(st) : up[i] = st[i]
    BY <1>4, <1>7, <1>8
  <2>2. (it + 1) + 1 = it + 2 /\ \A i \in 0..it : i + 1 \in 1..it + 1
    BY <1>4
  <2> QED BY <2>1, <2>2, <1>4
<1>10. r[index + 1] = up
  BY <1>4, <1>7 DEF Evaluated
<1>11. ASSUME NEW i \in 0..it + 1 PROVE stack'[i].v \in Int /\ up[i + 1] = <<stack'[i].v>>
  <2>1. CASE i = it + 1
    <3>1. i + 1 = it + 2
      BY <2>1, <1>4
    <3> QED BY <2>1, <3>1, <1>6, <1>7, <1>8, <1>9
  <2>2. CASE i # it + 1
    <3>1. i \in 0..it
      BY <2>2, <1>4
    <3> QED BY <2>2, <3>1, <1>4, <1>6, <1>9
  <2> QED BY <2>1, <2>2
<1>12. Len(r[index']) = it' + 1
  BY <1>1, <1>4, <1>5, <1>9, <1>10
<1>13. \A i \in 0..it' : stack'[i].v \in Int /\ r[index'][i + 1] = <<stack'[i].v>>
  BY <1>1, <1>5, <1>10, <1>11
<1> QED BY <1>1, <1>4, <1>12, <1>13, ComputesNext

\* cal_bstr() computes with the two numbers on top, or dies of SIGFPE.
LEMMA PostfixApplyValue ==
  PostfixInv /\ PostfixValueInv /\ Postfix!Apply => PostfixValueInv'
<1> SUFFICES ASSUME PostfixInv, PostfixValueInv, Postfix!Apply PROVE PostfixValueInv'
  OBVIOUS
<1>1. /\ postfix_pc = "cal_bstr" /\ index < Len(bstr) /\ IsLegalOp(bstr[index + 1].t)
      /\ UNCHANGED <<infix, bstr>>
      /\ IF Postfix!Traps(bstr[index + 1].t, Postfix!Read(it).v)
         THEN postfix_pc' = "trap"
         ELSE /\ it' = it - 1 /\ postfix_pc' = postfix_pc /\ index' = index + 1
              /\ stack' = Postfix!Write(it - 1,
                   [t |-> "num", v |-> Postfix!DoOneCal(bstr[index + 1].t,
                                         Postfix!Read(it).v, Postfix!Read(it - 1).v)])
  BY SameOperators DEF Postfix!Apply, Postfix!AtItem, Postfix!item, Postfix!Rest,
                       Postfix!Consume
<1>2. PICK r : Computes(r)
  BY <1>1 DEF PostfixValueInv, ComputesOn
<1>3. PICK e, st : e = bstr[index + 1] /\ st = r[index]
  OBVIOUS
<1>4. /\ Run(bstr, r) /\ it \in Int /\ st \in Seq(Vals) /\ Len(st) = it + 1
      /\ \A i \in 0..it : /\ stack[i].v \in Int /\ st[i + 1] = <<stack[i].v>>
                          /\ Postfix!Read(i) = stack[i]
      /\ e \in Token /\ r[index + 1] = Evaluated(st, e)
      /\ bstr \in Seq(Token) /\ Leaves(bstr, 0, Len(bstr), Value(infix))
      /\ index \in 0..Len(bstr)
  BY <1>1, <1>2, <1>3, ComputingContext
<1>5. PICK op : op = e.t
  OBVIOUS
<1>6. op \in BinaryOps /\ op # "num" /\ it >= 1
  <2>1. IsPostfix(bstr) /\ index + 1 \in 1..Len(bstr) /\ (index + 1) - 1 = index
    BY <1>1, EvaluatingContext
  <2>2. op # "num"
    BY <1>1, <1>3, <1>5 DEF IsLegalOp, BinaryOps
  <2>3. op \in BinaryOps \union {"num"} /\ Height(bstr, index) >= 2
    BY <2>1, <2>2, <1>3, <1>5 DEF IsPostfix
  <2>4. it + 1 = Height(bstr, index)
    BY <1>1, EvaluatingContext
  <2> QED BY <2>2, <2>3, <2>4, <1>4
<1>7. PICK a1 \in Int, a2 \in Int : /\ a1 = stack[it].v /\ a2 = stack[it - 1].v
                                    /\ st[it + 1] = <<a1>> /\ st[it] = <<a2>>
                                    /\ Postfix!Read(it).v = a1
                                    /\ Postfix!Read(it - 1).v = a2
  <2>1. it \in 0..it /\ it - 1 \in 0..it /\ (it - 1) + 1 = it
    BY <1>4, <1>6
  <2> QED BY <2>1, <1>4
<1>8. PICK p, q : p = Pop(st) /\ q = Pop(Pop(st))
  OBVIOUS
<1>9. /\ Top(st, Undefined) = <<a1>> /\ Top(p, Undefined) = <<a2>>
      /\ q \in Seq(Vals) /\ Len(q) = it - 1 /\ \A i \in 1..it - 1 : q[i] = st[i]
  <2>1. st # <<>>
    <3>1. Len(st) # 0
      BY <1>4, <1>6
    <3> QED BY <3>1
  <2>2. /\ Pop(st) \in Seq(Vals) /\ Len(Pop(st)) = Len(st) - 1
        /\ \A i \in 1..(Len(st) - 1) : Pop(st)[i] = st[i]
        /\ Top(st, Undefined) = st[Len(st)]
    BY <1>4, <2>1, PopTop
  <2>3. (it + 1) - 1 = it
    BY <1>4
  <2>4. p \in Seq(Vals) /\ Len(p) = it /\ \A i \in 1..it : p[i] = st[i]
    BY <1>4, <1>8, <2>2, <2>3
  <2>5. p # <<>>
    <3>1. Len(p) # 0
      BY <2>4, <1>6
    <3> QED BY <3>1
  <2>6. /\ Pop(p) \in Seq(Vals) /\ Len(Pop(p)) = Len(p) - 1
        /\ \A i \in 1..(Len(p) - 1) : Pop(p)[i] = p[i]
        /\ Top(p, Undefined) = p[Len(p)]
    BY <2>4, <2>5, PopTop
  <2>7. it \in 1..it /\ \A i \in 1..it - 1 : i \in 1..it
    BY <1>4, <1>6
  <2> QED BY <1>4, <1>7, <1>8, <2>2, <2>4, <2>6, <2>7
<1>10. PICK w : w = Combine(op, <<a2>>, <<a1>>)
  OBVIOUS
<1>11. r[index + 1] = Append(q, w)
  BY <1>4, <1>5, <1>6, <1>8, <1>9, <1>10 DEF Evaluated
<1>12. CASE Traps(op, a1)
  <2>1. postfix_pc' = "trap"
    BY <1>1, <1>3, <1>5, <1>7, <1>12, SameArithmetic
  <2>2. w = Undefined /\ w \in Vals
    BY <1>6, <1>10, <1>12, CalIsCombine DEF Vals
  <2>3. PICK up : up = Append(q, w)
    OBVIOUS
  <2>4. Len(up) \in 1..Len(up) /\ up[Len(up)] = Undefined
    <3>1. Len(up) = Len(q) + 1 /\ up[Len(q) + 1] = w /\ Len(q) \in Nat
      BY <1>9, <2>2, <2>3
    <3> QED BY <3>1, <2>2
  <2>5. PICK k : k = index + 1
    OBVIOUS
  <2>6. k \in 0..Len(bstr) /\ \E i \in 1..Len(r[k]) : r[k][i] = Undefined
    <3>1. k \in 0..Len(bstr)
      BY <1>1, <1>4, <2>5
    <3> QED BY <3>1, <1>11, <2>3, <2>4, <2>5
  <2>7. Value(infix) = Undefined
    BY <1>4, <2>6, UndefinedLast
  <2>8. infix' = infix
    BY <1>1
  <2> QED BY <2>1, <2>7, <2>8 DEF PostfixValueInv, PostfixAnswers, Translating
<1>13. CASE ~Traps(op, a1)
  <2>1. PICK v, c : v = DoOneCal(op, a1, a2) /\ c = [t |-> "num", v |-> v]
    OBVIOUS
  <2>2. w = <<v>> /\ v \in Int /\ w \in Vals
    <3>1. w = <<v>> /\ v \in Int
      BY <1>6, <1>10, <1>13, <2>1, CalIsCombine, DoOneCalType
    <3> QED BY <3>1 DEF Vals
  <2>3. /\ it' = it - 1 /\ postfix_pc' = "cal_bstr" /\ index' = index + 1
        /\ stack' = Postfix!Write(it - 1, c)
    BY <1>1, <1>3, <1>5, <1>7, <1>13, <2>1, SameArithmetic
  <2>4. \A i \in 0..it - 1 : stack'[i] = IF i = it - 1 THEN c ELSE stack[i]
    <3>1. \A i \in 0..it - 1 : i \in DOMAIN stack
      BY <1>1, EvaluatingContext
    <3> QED BY <3>1, <2>3 DEF Postfix!Write
  <2>5. PICK up : up = Append(q, w)
    OBVIOUS
  <2>6. Len(up) = it /\ up[it] = w /\ \A i \in 1..it - 1 : up[i] = st[i]
    <3>1. /\ Len(up) = Len(q) + 1 /\ up[Len(q) + 1] = w
          /\ \A i \in 1..Len(q) : up[i] = q[i]
      BY <1>9, <2>2, <2>5
    <3>2. (it - 1) + 1 = it
      BY <1>4
    <3> QED BY <3>1, <3>2, <1>9
  <2>7. ASSUME NEW i \in 0..it - 1 PROVE stack'[i].v \in Int /\ up[i + 1] = <<stack'[i].v>>
    <3>1. CASE i = it - 1
      <4>1. i + 1 = it
        BY <3>1, <1>4
      <4> QED BY <3>1, <4>1, <2>1, <2>2, <2>4, <2>6
    <3>2. CASE i # it - 1
      <4>1. i \in 0..it /\ i + 1 \in 1..it - 1
        BY <3>2, <1>4
      <4> QED BY <3>2, <4>1, <1>4, <2>4, <2>6
    <3> QED BY <3>1, <3>2
  <2>8. Len(r[index']) = it' + 1
    <3>1. (it - 1) + 1 = it
      BY <1>4
    <3> QED BY <3>1, <1>11, <2>3, <2>5, <2>6
  <2>9. \A i \in 0..it' : stack'[i].v \in Int /\ r[index'][i + 1] = <<stack'[i].v>>
    BY <1>11, <2>3, <2>5, <2>7
  <2> QED BY <1>1, <1>4, <2>3, <2>8, <2>9, ComputesNext
<1> QED BY <1>12, <1>13

\* cal_bstr() pops its result.
LEMMA PostfixReturnValue ==
  PostfixInv /\ PostfixValueInv /\ Postfix!Return => PostfixValueInv'
<1> SUFFICES ASSUME PostfixInv, PostfixValueInv, Postfix!Return PROVE PostfixValueInv'
  OBVIOUS
<1>1. /\ postfix_pc = "cal_bstr" /\ index = Len(bstr) /\ postfix_pc' = "returned"
      /\ cal_result' = Postfix!Read(it).v /\ infix' = infix
  BY DEF Postfix!Return
<1>2. PICK r : Computes(r)
  BY <1>1 DEF PostfixValueInv, ComputesOn
<1>3. /\ Run(bstr, r) /\ Leaves(bstr, 0, Len(bstr), Value(infix))
      /\ \A i \in 0..it : /\ r[index][i + 1] = <<stack[i].v>>
                          /\ Postfix!Read(i) = stack[i]
  BY <1>1, <1>2, ComputingContext
<1>4. it = 0
  BY <1>1, EvaluatingContext DEF Evaluates
<1>5. r[index][1] = <<stack[0].v>> /\ Postfix!Read(0) = stack[0]
  <2>1. 0 \in 0..it /\ 0 + 1 = 1
    BY <1>4
  <2> QED BY <2>1, <1>3
<1>6. PICK v : v = Value(infix)
  OBVIOUS
<1>7. r[index] = Append(<<>>, v)
  <2>1. r[Len(bstr)] = Append(r[0], v) /\ r[0] = <<>>
    BY <1>3, <1>6 DEF Leaves, Run
  <2> QED BY <2>1, <1>1
<1>8. Append(<<>>, v)[1] = v
  OBVIOUS
<1>9. <<cal_result'>> = Value(infix')
  BY <1>1, <1>4, <1>5, <1>6, <1>7, <1>8
<1> QED BY <1>1, <1>9 DEF PostfixValueInv, PostfixAnswers, Translating

\* A call starts with nothing done.
LEMMA BegunValue == (Begun => PostfixValueInv) /\ (Begun' => PostfixValueInv')
<1>1. ASSUME Begun PROVE PostfixValueInv
  <2>1. /\ WellFormed(infix) /\ bstr = <<>> /\ postfix_pc = "mtob" /\ index = 0 /\ it = -1
    BY <1>1 DEF Begun
  <2>2. done = 0 /\ Held(stack, it) = <<>>
    BY <2>1, HeldEmpty DEF done
  <2>3. WritesOn
    BY <2>1, <2>2, WritesNothing DEF WritesOn
  <2> QED BY <2>1, <2>3 DEF PostfixValueInv, PostfixAnswers
<1>2. (Begun => PostfixValueInv)'
  BY <1>1, PTL
<1> QED BY <1>1, <1>2

\* main() calls again with a well-formed string.
LEMMA PostfixCallValue == PostfixInv /\ Postfix!Call => PostfixValueInv'
<1> SUFFICES ASSUME PostfixInv, Postfix!Call PROVE PostfixValueInv'
  OBVIOUS
<1>1. it = -1 /\ heap = 0
  BY DEF PostfixInv, Postfix!Call
<1>2. WellFormed(infix')
  BY CalculatorsAssumption, SameOperators DEF Postfix!Call, Postfix!PostfixAssumption
<1>3. /\ bstr' = <<>> /\ postfix_pc' = "mtob" /\ index' = 0
      /\ stack' = [i \in 0..Len(infix') |-> Postfix!Blank] /\ it' = it /\ heap' = heap + 2
  BY DEF Postfix!Call, Postfix!Block, Postfix!Blank
<1>4. it' = -1 /\ heap' = 2
  BY <1>1, <1>3
<1>5. stack' = Postfix!Block(Len(infix))'
  BY <1>3 DEF Postfix!Block, Postfix!Blank
<1>6. Begun'
  BY <1>2, <1>3, <1>4, <1>5 DEF Begun
<1> QED BY <1>6, BegunValue

\* A step that leaves the variables of 224.c as they are.
LEMMA PostfixStutterValue == PostfixValueInv /\ UNCHANGED main => PostfixValueInv'
<1> SUFFICES ASSUME PostfixValueInv, UNCHANGED main PROVE PostfixValueInv'
  OBVIOUS
<1>1. /\ infix' = infix /\ bstr' = bstr /\ postfix_pc' = postfix_pc /\ index' = index
      /\ stack' = stack /\ it' = it /\ cal_result' = cal_result
  BY DEF main
<1>2. done' = done /\ (Translating' <=> Translating)
  BY <1>1 DEF done, Translating
<1>3. PostfixFloor' = PostfixFloor
  BY <1>1, <1>2 DEF PostfixFloor
<1>4. WritesOn => WritesOn'
  BY <1>1, <1>2, <1>3 DEF WritesOn
<1>5. ASSUME NEW r, Computes(r) PROVE Computes(r)'
  BY <1>1, <1>5 DEF Computes, Run, Evaluated
<1>6. ComputesOn => ComputesOn'
  <2>1. (\E r : Computes(r)) => (\E r : Computes(r))'
    BY <1>5
  <2>2. Leaves(bstr, 0, Len(bstr), Value(infix)) => Leaves(bstr, 0, Len(bstr), Value(infix))'
    BY <1>1
  <2> QED BY <2>1, <2>2 DEF ComputesOn
<1> QED BY <1>1, <1>2, <1>4, <1>6 DEF PostfixValueInv, PostfixAnswers

\* Every step of 224.c keeps the values.
LEMMA PostfixNextValue ==
  PostfixInv /\ PostfixInv' /\ PostfixValueInv /\ Postfix!Next => PostfixValueInv'
<1>1. Postfix!Terminated => UNCHANGED main
  BY DEF Postfix!Terminated, Postfix!vars, main
<1> QED BY <1>1, PostfixPushOpValue, PostfixReduceEndValue, PostfixEnterValue,
       PostfixReadValue, PostfixLoopValue, PostfixCloseEndValue, PostfixReturnPostfixValue,
       PostfixPushNumValue, PostfixApplyValue, PostfixReturnValue, PostfixCallValue,
       PostfixStutterValue DEF Postfix!Next, Postfix!Compute

\* The invariant, where 224.c is the calculator that runs.
PostfixPart == part = "224" => PostfixValueInv

\* cal_bstr() of 224.c answers every call with the value that the grammar gives to the
\* text of that call, whatever the calls before it, and dies only of one that has none.
THEOREM PostfixAnswersWithValue == CalculatorsSpec => [](part = "224" => PostfixAnswers)
<1>1. CalculatorsInit => PostfixPart
  <2> SUFFICES ASSUME Postfix!Init PROVE PostfixValueInv
    BY DEF CalculatorsInit, PostfixPart
  <2>1. WellFormed(infix)
    BY CalculatorsAssumption, SameOperators DEF Postfix!Init, Postfix!PostfixAssumption
  <2>2. Begun
    BY <2>1 DEF Begun, Postfix!Init
  <2> QED BY <2>2, BegunValue
<1>2. PostfixInv /\ PostfixInv' /\ PostfixPart /\ [CalculatorsNext]_<<part, vars, main>>
        => PostfixPart'
  BY PostfixNextValue, PostfixStutterValue DEF CalculatorsNext, PostfixPart
<1>3. PostfixPart => (part = "224" => PostfixAnswers)
  BY DEF PostfixPart, PostfixValueInv
<1> QED BY PostfixInvariance, <1>1, <1>2, <1>3, PTL DEF CalculatorsSpec

----------------------------------------------------------------------------
(* Both calculators, in one behaviour, answer as Calculator says.           *)

\* What the promise calls a value is what this module does.
LEMMA SameValue ==
  /\ \A str : Promised!Value(str) = Value(str)
  /\ Promised!Undefined = Undefined /\ Promised!NoAnswer = <<>>
<1>1. ASSUME NEW str PROVE Promised!Values(str) = Values(str)
  BY DEF Promised!Values, Values, Promised!SplitAt, SplitAt, Promised!LastOutside, LastOutside,
     Promised!Text, Text, Promised!Max, Max, Promised!Min, Min, Promised!Depth, Depth,
     Promised!Count, Count, Promised!Cardinality, Cardinality, Promised!Combine, Combine,
     Promised!Undefined, Undefined, Promised!TruncDiv, TruncDiv, Promised!Abs, Abs
<1> QED BY <1>1 DEF Promised!Value, Value, Promised!Undefined, Undefined, Promised!NoAnswer

\* The part that runs has its invariants.
PartInv == IF part = "224" THEN PostfixInv /\ PostfixValueInv ELSE IInv /\ ValueInv

\* What the caller gave, and what it has got.
Arg   == IF part = "224" THEN infix ELSE s
Given == IF part = "224"
         THEN CASE postfix_pc = "returned" -> <<cal_result>>
                [] postfix_pc = "trap"     -> Undefined
                [] OTHER                   -> <<>>
         ELSE CASE pc = "done" -> <<result>>
                [] pc = "trap" -> Undefined
                [] OTHER       -> <<>>

\* Both start with nothing done.
LEMMA InitPart == CalculatorsInit => PartInv /\ Given = <<>>
<1>1. ASSUME part = "double_stack_224", Init PROVE PartInv /\ Given = <<>>
  <2>1. pc = "scan"
    BY <1>1 DEF Init
  <2> QED BY <1>1, <2>1, InitIInv, InitValue DEF PartInv, Given
<1>2. ASSUME part = "224", Postfix!Init PROVE PartInv /\ Given = <<>>
  <2>1. WellFormed(infix)
    BY <1>2, CalculatorsAssumption, SameOperators DEF Postfix!Init, Postfix!PostfixAssumption
  <2>2. Begun
    BY <1>2, <2>1 DEF Begun, Postfix!Init
  <2> QED BY <1>2, <2>2, BegunInv, BegunValue DEF PartInv, Given, Begun
<1> QED BY <1>1, <1>2 DEF CalculatorsInit

\* Either part keeps its invariants.
LEMMA NextPart == PartInv /\ [CalculatorsNext]_<<part, vars, main>> => PartInv'
<1>1. [CalculatorsNext]_<<part, vars, main>> =>
        /\ part' = part
        /\ Next \/ UNCHANGED vars
        /\ Postfix!Next \/ UNCHANGED main
  BY DEF CalculatorsNext
<1>2. IInv /\ ValueInv /\ [Next]_vars => IInv' /\ ValueInv'
  BY NextIInv, NextValue
<1>3. PostfixInv /\ PostfixValueInv /\ (Postfix!Next \/ UNCHANGED main)
        => PostfixInv' /\ PostfixValueInv'
  BY PostfixNextInv, PostfixNextValue, PostfixStutterInv, PostfixStutterValue
<1> QED BY <1>1, <1>2, <1>3 DEF PartInv

\* What a step of double_stack_224.c answers.
LEMMA NextAnswers ==
  ASSUME part # "224", part' = part, ValueInv', [Next]_vars
  PROVE  \/ Given = <<>> /\ Given' = Value(Arg) /\ Given' # <<>> /\ Arg' = Arg
         \/ Given' = Given /\ Arg' = Arg
<1>1. CASE UNCHANGED vars
  BY <1>1 DEF vars, Given, Arg
<1>2. CASE Terminated
  BY <1>2 DEF Terminated, vars, Given, Arg
<1>3. CASE Next /\ ~Terminated
  <2>1. pc \notin {"done", "trap"} /\ s' = s
    BY <1>3 DEF Next, PushOp, Enter, SkipSpace, PushNum, CloseStep, CloseEnd, ReduceStep,
       ReduceEnd, EndOfScan, DrainStep, Return, AtToken
  <2>2. Given = <<>> /\ Arg = s /\ Arg' = s
    BY <2>1 DEF Given, Arg
  <2>3. CASE pc' = "done"
    <3>1. Given' = <<result'>>
      BY <2>3 DEF Given
    <3>2. <<result'>> = Value(s)
      BY <2>1, <2>3 DEF ValueInv, AnswerIsValue
    <3> QED BY <2>2, <3>1, <3>2
  <2>4. CASE pc' = "trap"
    <3>1. Given' = Undefined /\ Undefined # <<>>
      BY <2>4 DEF Given, Undefined
    <3>2. Value(s) = Undefined
      BY <2>1, <2>4 DEF ValueInv, AnswerIsValue
    <3> QED BY <2>2, <3>1, <3>2
  <2>5. CASE pc' \notin {"done", "trap"}
    BY <2>2, <2>5 DEF Given
  <2> QED BY <2>3, <2>4, <2>5
<1> QED BY <1>1, <1>2, <1>3

\* What a step of 224.c answers.
LEMMA PostfixNextAnswers ==
  ASSUME part = "224", part' = part, PostfixValueInv', Postfix!Next \/ UNCHANGED main
  PROVE  \/ Given = <<>> /\ Given' = Value(Arg) /\ Given' # <<>> /\ Arg' = Arg
         \/ Given \notin {<<>>, Undefined} /\ Given' = <<>>
         \/ Given' = Given /\ Arg' = Arg
<1>1. CASE UNCHANGED main
  BY <1>1 DEF main, Given, Arg
<1>2. CASE Postfix!Terminated
  BY <1>2 DEF Postfix!Terminated, Postfix!vars, Given, Arg
<1>3. CASE Postfix!Call
  <2>1. postfix_pc = "returned" /\ postfix_pc' = "mtob"
    BY <1>3 DEF Postfix!Call
  <2>2. Given = <<cal_result>> /\ Given' = <<>>
    BY <2>1 DEF Given
  <2>3. <<cal_result>> # <<>> /\ <<cal_result>> # Undefined
    BY DEF Undefined
  <2> QED BY <2>2, <2>3
<1>4. CASE Postfix!Compute
  <2>1. postfix_pc \notin {"returned", "trap"} /\ infix' = infix
    BY <1>4 DEF Postfix!Compute, Postfix!PushOp, Postfix!Enter, Postfix!SkipSpace,
       Postfix!EmitNum, Postfix!CloseStep, Postfix!CloseEnd, Postfix!ReduceStep,
       Postfix!ReduceEnd, Postfix!DrainStep, Postfix!ReturnPostfix, Postfix!PushNum,
       Postfix!Apply, Postfix!Return, Postfix!AtToken, Postfix!AtItem, Postfix!Rest
  <2>2. Given = <<>> /\ Arg = infix /\ Arg' = infix
    BY <2>1 DEF Given, Arg
  <2>3. CASE postfix_pc' = "returned"
    <3>1. Given' = <<cal_result'>>
      BY <2>3 DEF Given
    <3>2. <<cal_result'>> = Value(infix)
      BY <2>1, <2>3 DEF PostfixValueInv, PostfixAnswers
    <3> QED BY <2>2, <3>1, <3>2
  <2>4. CASE postfix_pc' = "trap"
    <3>1. Given' = Undefined /\ Undefined # <<>>
      BY <2>4 DEF Given, Undefined
    <3>2. Value(infix) = Undefined
      BY <2>1, <2>4 DEF PostfixValueInv, PostfixAnswers
    <3> QED BY <2>2, <3>1, <3>2
  <2>5. CASE postfix_pc' \notin {"returned", "trap"}
    BY <2>2, <2>5 DEF Given
  <2> QED BY <2>3, <2>4, <2>5
<1> QED BY <1>1, <1>2, <1>3, <1>4 DEF Postfix!Next

\* Both calculators give nothing but the value of what they are called with, for every
\* set of infix expressions and any number of calls: ImplementsCalculator but for its
\* liveness.
THEOREM ImplementsSafety == CalculatorsSpec => Promised!Safety
<1>1. CalculatorsInit => Promised!Init
  BY InitPart, SameValue DEF Promised!Init, Given
<1>2. PartInv' /\ [CalculatorsNext]_<<part, vars, main>> => [Promised!Next]_<<Arg, Given>>
  <2> SUFFICES ASSUME PartInv', [CalculatorsNext]_<<part, vars, main>>
               PROVE  \/ Promised!Answer
                      \/ Promised!Call
                      \/ Given' = Given /\ Arg' = Arg
    BY DEF Promised!Next
  <2>1. /\ part' = part
        /\ Next \/ UNCHANGED vars
        /\ Postfix!Next \/ UNCHANGED main
    BY DEF CalculatorsNext
  <2>2. \/ Given = <<>> /\ Given' = Value(Arg) /\ Given' # <<>> /\ Arg' = Arg
        \/ Given \notin {<<>>, Undefined} /\ Given' = <<>>
        \/ Given' = Given /\ Arg' = Arg
    <3>1. CASE part = "224"
      BY <2>1, <3>1, PostfixNextAnswers DEF PartInv
    <3>2. CASE part # "224"
      BY <2>1, <3>2, NextAnswers DEF PartInv
    <3> QED BY <3>1, <3>2
  <2>3. Promised!Value(Arg) = Value(Arg)
    BY SameValue
  <2>4. Given = <<>> /\ Given' = Value(Arg) /\ Given' # <<>> /\ Arg' = Arg
          => Promised!Answer
    BY <2>3, SameValue DEF Promised!Answer, Given, Arg
  <2>5. Given \notin {<<>>, Undefined} /\ Given' = <<>> => Promised!Call
    BY SameValue DEF Promised!Call, Given
  <2> QED BY <2>2, <2>4, <2>5
<1> QED BY InitPart, NextPart, <1>1, <1>2, PTL DEF CalculatorsSpec, Promised!Safety, Arg, Given
=============================================================================
