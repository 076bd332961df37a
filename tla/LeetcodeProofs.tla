----------------------------- MODULE LeetcodeProofs -----------------------------
(****************************************************************************)
(* The exercises of source/src/leetcode and the time of clock_gettime.c:    *)
(* 25-reverse-nodes-in-k-group for any number of nodes, and the functions   *)
(* of strings, texts, arrays and readings for any of these.  A function     *)
(* that the model defines by recursion is first shown to exist; that it is  *)
(* right follows from the least argument for which it could be wrong.       *)
(****************************************************************************)
EXTENDS ReverseKGroup, Exercises, FiniteSetTheorems, WellFoundedInduction, TLAPS

(* The nodes of the list, by their places: the groups up to place lo are    *)
(* reversed, and what is between lo and hi.  Place 0 is prefix_head's, and  *)
(* the last one the null pointer's.                                         *)
Order(lo, hi) ==
  [j \in 0 .. n + 1 |->
     CASE j = 0 -> PrefixHead
       [] j = n + 1 -> NULL
       [] 1 <= j /\ j <= lo -> Reversed[j]
       [] lo < j /\ j <= hi -> lo + hi + 1 - j
       [] OTHER -> j]

InOrder(lo, hi) == \A j \in 0 .. n : next[Order(lo, hi)[j]] = Order(lo, hi)[j + 1]

Shape ==
  /\ n \in 0 .. MaxNodes /\ k \in Nat \ {0} /\ i \in Nat
  /\ next \in [Nodes -> Nodes \cup {NULL}]

Start == i * k
LastMoved == IF p = NULL THEN n ELSE p - 1

\* do_revert() has moved the nodes up to LastMoved to the front of the group.
Inverting ==
  /\ s = n /\ Start + k <= n
  /\ LastMoved \in Start + 1 .. Start + k
  /\ head = Order(Start, LastMoved)[Start] /\ pre = Start + 1
  /\ p = Order(Start, LastMoved)[LastMoved + 1]
  /\ tail = Order(Start, Start + k)[Start + k + 1]
  /\ InOrder(Start, LastMoved)

IInv ==
  /\ Shape
  /\ pc = "get_size" => i = 0 /\ InOrder(0, 0)
  /\ pc = "reverseKGroup" => s = n /\ Start <= n /\ InOrder(Start, Start)
  /\ pc = "do_revert" => Inverting

-----------------------------------------------------------------------------
(* Numbers.                                                                 *)

LessThan == {ss \in Nat \X Nat : ss[1] < ss[2]}

\* A set of numbers has a least one.
LEMMA Least ==
  ASSUME NEW S, S \subseteq Nat, S # {}
  PROVE  \E m \in S : \A x \in S : m <= x
<1>1. IsWellFoundedOn(OpToRel(<, Nat), Nat)
  BY NatLessThanWellFounded
<1>2. OpToRel(<, Nat) = LessThan
  BY Zenon DEF OpToRel, LessThan
<1>3. IsWellFoundedOn(LessThan, Nat)
  BY <1>1, <1>2, Zenon
<1>4. PICK m \in S : \A x \in S : ~(<<x, m>> \in LessThan)
  BY <1>3, WFMin
<1>5. \A a, b \in Nat : a < b => <<a, b>> \in LessThan
  BY DEF LessThan
<1>6. \A x \in S : m <= x
  <2> TAKE x \in S
  <2>1. ~(x < m) /\ x \in Nat /\ m \in Nat
    BY <1>4, <1>5
  <2> QED BY <2>1
<1> QED BY <1>6

\* A larger factor makes a larger product.
LEMMA Products ==
  ASSUME NEW a \in Nat, NEW b \in Nat, NEW c \in Nat, a <= b
  PROVE  a * c <= b * c /\ a * c \in Nat /\ b * c \in Nat
<1>1. PICK d \in Nat : b = a + d
  <2>1. b - a \in Nat /\ b = a + (b - a)
    OBVIOUS
  <2> QED BY <2>1
<1>2. b * c = a * c + d * c /\ d * c \in Nat /\ a * c \in Nat
  BY <1>1
<1> QED BY <1>2

\* The group a number is in.
LEMMA GroupIs ==
  ASSUME NEW a \in Nat, NEW c \in Nat \ {0}, NEW g \in Nat, NEW b \in Nat, b = g * c,
         b <= a, a < b + c
  PROVE  a \div c = g
<1>1. PICK q : q = a \div c
  OBVIOUS
<1>2. PICK r : r = a % c
  OBVIOUS
<1>3. q \in Nat /\ r \in Nat /\ r < c
  BY <1>1, <1>2
<1>4. a = q * c + r
  BY <1>1, <1>2, <1>3
<1>5. PICK qc : qc = q * c
  OBVIOUS
<1>6. qc \in Nat /\ a = qc + r
  BY <1>3, <1>4, <1>5
<1>7. ~(q < g)
  <2> SUFFICES ASSUME q < g PROVE FALSE
    OBVIOUS
  <2>1. q + 1 <= g /\ q + 1 \in Nat /\ (q + 1) * c = qc + c
    BY <1>3, <1>5
  <2>2. qc + c <= b
    BY <2>1, Products
  <2> QED BY <2>2, <1>3, <1>6
<1>8. ~(g < q)
  <2> SUFFICES ASSUME g < q PROVE FALSE
    OBVIOUS
  <2>1. g + 1 <= q /\ g + 1 \in Nat /\ (g + 1) * c = b + c
    BY <1>3
  <2>2. b + c <= qc
    BY <2>1, <1>3, <1>5, Products
  <2> QED BY <2>2, <1>3, <1>6
<1> QED BY <1>1, <1>3, <1>7, <1>8

\* Each place is one of a group.
LEMMA InGroup ==
  ASSUME NEW j \in Nat \ {0}, NEW c \in Nat \ {0}
  PROVE  \E g \in Nat : /\ g * c \in Nat /\ g * c + 1 <= j /\ j <= g * c + c
                        /\ (j - 1) \div c = g
<1>1. PICK a \in Nat : j = a + 1
  <2>1. j - 1 \in Nat /\ j = (j - 1) + 1
    OBVIOUS
  <2> QED BY <2>1
<1>2. PICK q : q = a \div c
  OBVIOUS
<1>3. PICK r : r = a % c
  OBVIOUS
<1>4. q \in Nat /\ r \in Nat /\ r < c /\ a = q * c + r
  BY <1>2, <1>3
<1>5. PICK qc : qc = q * c
  OBVIOUS
<1>6. qc \in Nat /\ a = qc + r
  <2>1. qc \in Nat
    BY <1>4, <1>5
  <2> QED BY <2>1, <1>4, <1>5
<1>7. qc + 1 <= j /\ j <= qc + c /\ j - 1 = a
  BY <1>1, <1>4, <1>6
<1> QED BY <1>2, <1>4, <1>5, <1>6, <1>7

-----------------------------------------------------------------------------
(* The order of the nodes.                                                  *)

\* A place in a full group changes with the one opposite to it.
LEMMA ReversedIs ==
  ASSUME Shape, NEW j \in 1 .. n
  PROVE  \E g, b \in Nat : /\ b = g * k /\ b + 1 <= j /\ j <= b + k
                           /\ Reversed[j] = IF b + k <= n THEN 2 * b + k + 1 - j ELSE j
<1>1. n \in Nat /\ k \in Nat \ {0} /\ j \in Nat \ {0} /\ j <= n
  BY ReverseKGroupAssumption DEF Shape
<1>2. PICK g \in Nat : /\ g * k \in Nat /\ g * k + 1 <= j /\ j <= g * k + k
                       /\ (j - 1) \div k = g
  BY <1>1, InGroup
<1>3. PICK b \in Nat : b = g * k
  BY <1>2
<1>4. Reversed[j] = IF (g + 1) * k <= n THEN (2 * g + 1) * k + 1 - j ELSE j
  BY <1>2 DEF Reversed
<1>5. (g + 1) * k = b + k /\ (2 * g + 1) * k = 2 * b + k
  BY <1>1, <1>3
<1> QED BY <1>2, <1>3, <1>4, <1>5

\* What the group is that a place between two multiples of k is in.
LEMMA OneGroup ==
  ASSUME Shape, NEW j \in 1 .. n, NEW g \in Nat, NEW b \in Nat, b = g * k,
         b + 1 <= j, j <= b + k
  PROVE  Reversed[j] = IF b + k <= n THEN 2 * b + k + 1 - j ELSE j
<1>1. n \in Nat /\ k \in Nat \ {0} /\ j \in Nat /\ j <= n
  BY ReverseKGroupAssumption DEF Shape
<1>2. (j - 1) \div k = g
  <2>1. j - 1 \in Nat /\ b <= j - 1 /\ j - 1 < b + k
    BY <1>1
  <2> QED BY <2>1, <1>1, GroupIs
<1>3. Reversed[j] = IF (g + 1) * k <= n THEN (2 * g + 1) * k + 1 - j ELSE j
  BY <1>2 DEF Reversed
<1>4. (g + 1) * k = b + k /\ (2 * g + 1) * k = 2 * b + k
  BY <1>1
<1> QED BY <1>3, <1>4

\* Twice reversed is where it was.
LEMMA Involution ==
  ASSUME Shape, NEW j \in 1 .. n
  PROVE  Reversed[j] \in 1 .. n /\ Reversed[Reversed[j]] = j
<1>1. n \in Nat /\ k \in Nat \ {0} /\ j \in Nat /\ j <= n /\ 1 <= j
  BY ReverseKGroupAssumption DEF Shape
<1>2. PICK g, b \in Nat : /\ b = g * k /\ b + 1 <= j /\ j <= b + k
                          /\ Reversed[j] = IF b + k <= n THEN 2 * b + k + 1 - j ELSE j
  BY ReversedIs
<1>3. PICK r : r = Reversed[j]
  OBVIOUS
<1>4. r \in 1 .. n /\ b + 1 <= r /\ r <= b + k
  BY <1>1, <1>2, <1>3
<1>5. Reversed[r] = IF b + k <= n THEN 2 * b + k + 1 - r ELSE r
  BY <1>2, <1>4, OneGroup
<1> QED BY <1>1, <1>2, <1>3, <1>4, <1>5

\* And stays in front of a group that comes later.
LEMMA StaysInFront ==
  ASSUME Shape, NEW a \in Nat, NEW m \in Nat, m = a * k, m <= n, NEW j \in 1 .. m
  PROVE  Reversed[j] \in 1 .. m
<1>1. n \in Nat /\ k \in Nat \ {0} /\ j \in Nat /\ j <= m /\ 1 <= j /\ j \in 1 .. n
  BY ReverseKGroupAssumption DEF Shape
<1>2. PICK g, b \in Nat : /\ b = g * k /\ b + 1 <= j /\ j <= b + k
                          /\ Reversed[j] = IF b + k <= n THEN 2 * b + k + 1 - j ELSE j
  BY <1>1, ReversedIs
<1>3. ~(a <= g)
  <2> SUFFICES ASSUME a <= g PROVE FALSE
    OBVIOUS
  <2>1. m <= b
    BY <1>1, <1>2, Products
  <2> QED BY <2>1, <1>1, <1>2
<1>4. b + k <= m
  <2>1. g + 1 <= a /\ g + 1 \in Nat /\ (g + 1) * k = b + k
    BY <1>3, <1>2, <1>1
  <2> QED BY <2>1, <1>1, Products
<1> QED BY <1>1, <1>2, <1>4

\* The order of a whole group: each node in its place.
LEMMA PlacesAre ==
  ASSUME Shape, NEW lo \in Nat, NEW hi \in Nat, lo <= hi, hi <= n
  PROVE  /\ Order(lo, hi)[0] = 0 /\ Order(lo, hi)[n + 1] = NULL
         /\ \A j \in 1 .. lo : Order(lo, hi)[j] = Reversed[j]
         /\ \A j \in lo + 1 .. hi : Order(lo, hi)[j] = lo + hi + 1 - j
         /\ \A j \in hi + 1 .. n : Order(lo, hi)[j] = j
<1>1. n \in Nat
  BY ReverseKGroupAssumption DEF Shape
<1> QED BY <1>1 DEF Order, PrefixHead

\* Each node is in one place.
LEMMA Injective ==
  ASSUME Shape, NEW a \in Nat, NEW lo \in Nat, lo = a * k, NEW hi \in Nat, lo <= hi, hi <= n
  PROVE  /\ \A j \in 0 .. n : Order(lo, hi)[j] \in 0 .. n
         /\ \A j, l \in 0 .. n : Order(lo, hi)[j] = Order(lo, hi)[l] => j = l
<1> PICK f : f = Order(lo, hi)
  OBVIOUS
<1>1. n \in Nat
  BY ReverseKGroupAssumption DEF Shape
<1>2. /\ f[0] = 0
      /\ \A j \in 1 .. lo : f[j] = Reversed[j]
      /\ \A j \in lo + 1 .. hi : f[j] = lo + hi + 1 - j
      /\ \A j \in hi + 1 .. n : f[j] = j
  BY PlacesAre
<1>3. \A j \in 1 .. lo : f[j] \in 1 .. lo /\ Reversed[f[j]] = j
  <2> TAKE j \in 1 .. lo
  <2>1. lo <= n /\ j \in 1 .. n
    BY <1>1
  <2> QED BY <2>1, <1>2, StaysInFront, Involution
<1>4. \A j \in 0 .. n :
        \/ j = 0
        \/ j \in 1 .. lo
        \/ j \in lo + 1 .. hi
        \/ j \in hi + 1 .. n
  BY <1>1
<1>5. \A j \in 0 .. n :
        \/ j = 0 /\ f[j] = 0
        \/ j \in 1 .. lo /\ f[j] \in 1 .. lo /\ Reversed[f[j]] = j
        \/ j \in lo + 1 .. hi /\ f[j] = lo + hi + 1 - j
        \/ j \in hi + 1 .. n /\ f[j] = j
  BY <1>2, <1>3, <1>4
<1>6. \A j \in 0 .. n : f[j] \in 0 .. n
  BY <1>1, <1>5
<1>7. \A j, l \in 0 .. n : f[j] = f[l] => j = l
  <2> TAKE j, l \in 0 .. n
  <2> HAVE f[j] = f[l]
  <2>1. CASE j = 0 \/ j \in 1 .. lo
    BY <2>1, <1>1, <1>5
  <2>2. CASE j \in lo + 1 .. hi
    BY <2>2, <1>1, <1>5
  <2>3. CASE j \in hi + 1 .. n
    BY <2>3, <1>1, <1>5
  <2> QED BY <2>1, <2>2, <2>3, <1>4
<1> QED BY <1>6, <1>7

-----------------------------------------------------------------------------
(* The walks over the list.                                                 *)

\* The nodes f are linked from f[0] on, up to a null pointer.
Linked(f) ==
  /\ f[n + 1] = NULL
  /\ \A j \in 0 .. n : f[j] \in Nodes /\ next[f[j]] = f[j + 1]

\* Functions of numbers that follow one rule from one value are equal.
LEMMA WalkIs ==
  ASSUME Shape, NEW f, Linked(f)
  PROVE  Walk(f[1]) = [j \in 1 .. n |-> f[j]]
<1> DEFINE N == MaxNodes + 1
           Step(g) == [j \in 0 .. N |-> IF j = 0 THEN f[1]
                         ELSE IF g[j - 1] = NULL THEN NULL ELSE next[g[j - 1]]]
           g0 == [j \in 0 .. N |-> IF j <= n THEN f[j + 1] ELSE NULL]
           w == CHOOSE g : g = Step(g)
<1>1. n \in Nat /\ MaxNodes \in Nat /\ n <= MaxNodes /\ N \in Nat /\ n < N
  BY ReverseKGroupAssumption DEF Shape
<1>2. /\ f[n + 1] = NULL
      /\ \A j \in 0 .. n : f[j] # NULL /\ next[f[j]] = f[j + 1]
  BY ReverseKGroupAssumption DEF Linked, Nodes
<1>3. g0 = Step(g0)
  <2>1. \A j \in 0 .. N : g0[j] = Step(g0)[j]
    <3> TAKE j \in 0 .. N
    <3>1. j \in Nat
      OBVIOUS
    <3>2. \A l \in 0 .. N : g0[l] = IF l <= n THEN f[l + 1] ELSE NULL
      OBVIOUS
    <3>3. CASE j = 0
      BY <3>3, <3>2, <1>1
    <3>4. CASE j # 0 /\ j <= n
      <4>1. j - 1 \in 0 .. N /\ j - 1 <= n /\ (j - 1) + 1 = j /\ j \in 0 .. n
        BY <3>1, <3>4, <1>1
      <4>2. g0[j - 1] = f[j] /\ f[j] # NULL /\ next[f[j]] = f[j + 1]
        BY <4>1, <3>2, <1>2
      <4>3. g0[j] = f[j + 1]
        BY <3>2, <3>4
      <4> QED BY <4>2, <4>3, <3>4
    <3>5. CASE j > n
      <4>1. j - 1 \in 0 .. N /\ j # 0 /\ n <= j - 1
        BY <3>1, <3>5, <1>1
      <4>2. g0[j - 1] = NULL
        <5>1. j - 1 = n \/ ~(j - 1 <= n)
          BY <4>1, <1>1
        <5> QED BY <5>1, <4>1, <3>2, <1>2
      <4>3. g0[j] = NULL
        BY <3>2, <3>5, <3>1, <1>1
      <4> QED BY <4>1, <4>2, <4>3
    <3> QED BY <3>3, <3>4, <3>5, <3>1, <1>1
  <2> HIDE DEF N
  <2> QED BY <2>1
<1>4. \A g : g = Step(g) => g = g0
  <2> SUFFICES ASSUME NEW g, g = Step(g) PROVE g = g0
    OBVIOUS
  <2>1. \A j \in 0 .. N : g[j] = IF j = 0 THEN f[1]
                            ELSE IF g[j - 1] = NULL THEN NULL ELSE next[g[j - 1]]
    OBVIOUS
  <2>2. \A j \in 0 .. N : g0[j] = IF j = 0 THEN f[1]
                            ELSE IF g0[j - 1] = NULL THEN NULL ELSE next[g0[j - 1]]
    BY <1>3
  <2> DEFINE Bad == {j \in 0 .. N : g[j] # g0[j]}
  <2>3. ASSUME Bad # {} PROVE FALSE
    <3>1. PICK j \in Bad : \A l \in Bad : j <= l
      <4>1. Bad \subseteq Nat
        BY <1>1
      <4> HIDE DEF Bad
      <4> QED BY <2>3, <4>1, Least
    <3>2. j \in 0 .. N /\ g[j] # g0[j] /\ j \in Nat /\ N \in Nat
      BY <1>1
    <3>3. j = 0 \/ (j - 1 \in 0 .. N /\ ~(j <= j - 1))
      BY <3>2
    <3>4. j = 0 \/ g[j - 1] = g0[j - 1]
      BY <3>1, <3>3
    <3> HIDE DEF g0, Bad, N
    <3> QED BY <3>2, <3>4, <2>1, <2>2
  <2>4. \A j \in 0 .. N : g[j] = g0[j]
    BY <2>3
  <2>5. g = [j \in 0 .. N |-> g[j]] /\ g0 = [j \in 0 .. N |-> g0[j]]
    OBVIOUS
  <2> HIDE DEF g0, N
  <2> QED BY <2>4, <2>5
<1>5. w = g0
  <2> HIDE DEF g0
  <2> QED BY <1>3, <1>4
<1> DEFINE met == {j \in 0 .. N : w[j] # NULL}
<1>6. met = 0 .. n - 1
  <2>1. met = {j \in 0 .. N : g0[j] # NULL}
    BY <1>5
  <2>2. \A j \in 0 .. N : g0[j] # NULL <=> j < n
    <3> TAKE j \in 0 .. N
    <3>1. j < n => j + 1 \in 0 .. n /\ j <= n
      BY <1>1
    <3>2. j < n \/ j = n \/ (j > n /\ ~(j <= n))
      BY <1>1
    <3> QED BY <3>1, <3>2, <1>1, <1>2
  <2> HIDE DEF w, g0, met, N
  <2> QED BY <2>1, <2>2, <1>1
<1>7. Cardinality(met) = n
  <2>1. Cardinality(0 .. n - 1) = IF 0 > n - 1 THEN 0 ELSE (n - 1) - 0 + 1
    BY <1>1, FS_Interval
  <2>2. Cardinality(0 .. n - 1) = n
    BY <2>1, <1>1
  <2> HIDE DEF met, w
  <2> QED BY <2>2, <1>6
<1>8. Walk(f[1]) = [j \in 1 .. Cardinality(met) |-> w[j - 1]]
  BY DEF Walk
<1>9. Walk(f[1]) = [j \in 1 .. n |-> g0[j - 1]]
  <2> HIDE DEF met, w, g0
  <2> QED BY <1>5, <1>7, <1>8
<1>10. \A j \in 1 .. n : g0[j - 1] = f[j]
  BY <1>1
<1> HIDE DEF g0
<1> QED BY <1>9, <1>10

\* get_node_by_index() finds the node of a place.
LEMMA NodeIs ==
  ASSUME Shape, NEW f, Linked(f), f[0] = PrefixHead, NEW index \in 0 .. n
  PROVE  get_node_by_index(index) = f[index]
<1> DEFINE Step(g) == [j \in 0 .. index |-> IF j = 0 THEN PrefixHead ELSE next[g[j - 1]]]
           g0 == [j \in 0 .. index |-> f[j]]
           w == CHOOSE g : g = Step(g)
<1>1. n \in Nat /\ index \in Nat /\ index <= n
  BY ReverseKGroupAssumption DEF Shape
<1>2. f[0] = PrefixHead /\ \A j \in 0 .. n : next[f[j]] = f[j + 1]
  BY DEF Linked
<1>3. g0 = Step(g0)
  <2>1. \A j \in 0 .. index : g0[j] = Step(g0)[j]
    <3> TAKE j \in 0 .. index
    <3>1. CASE j = 0
      BY <3>1, <1>2
    <3>2. CASE j # 0
      <4>1. j - 1 \in 0 .. index /\ j - 1 \in 0 .. n /\ (j - 1) + 1 = j
        BY <3>2, <1>1
      <4> QED BY <4>1, <3>2, <1>2
    <3> QED BY <3>1, <3>2
  <2> QED BY <2>1
<1>4. \A g : g = Step(g) => g = g0
  <2> SUFFICES ASSUME NEW g, g = Step(g) PROVE g = g0
    OBVIOUS
  <2>1. \A j \in 0 .. index : g[j] = IF j = 0 THEN PrefixHead ELSE next[g[j - 1]]
    OBVIOUS
  <2>2. \A j \in 0 .. index : g0[j] = IF j = 0 THEN PrefixHead ELSE next[g0[j - 1]]
    BY <1>3
  <2> DEFINE Bad == {j \in 0 .. index : g[j] # g0[j]}
  <2>3. ASSUME Bad # {} PROVE FALSE
    <3>1. PICK j \in Bad : \A l \in Bad : j <= l
      <4>1. Bad \subseteq Nat
        BY <1>1
      <4> HIDE DEF Bad
      <4> QED BY <2>3, <4>1, Least
    <3>2. j \in 0 .. index /\ g[j] # g0[j] /\ j \in Nat
      BY <1>1
    <3>3. j = 0 \/ (j - 1 \in 0 .. index /\ ~(j <= j - 1))
      BY <3>2, <1>1
    <3>4. j = 0 \/ g[j - 1] = g0[j - 1]
      BY <3>1, <3>3
    <3> HIDE DEF g0, Bad
    <3> QED BY <3>2, <3>4, <2>1, <2>2
  <2>4. \A j \in 0 .. index : g[j] = g0[j]
    BY <2>3
  <2>5. g = [j \in 0 .. index |-> g[j]] /\ g0 = [j \in 0 .. index |-> g0[j]]
    OBVIOUS
  <2> HIDE DEF g0
  <2> QED BY <2>4, <2>5
<1>5. w = g0
  <2> HIDE DEF g0
  <2> QED BY <1>3, <1>4
<1>6. get_node_by_index(index) = w[index]
  BY DEF get_node_by_index
<1>7. g0[index] = f[index]
  BY <1>1
<1> HIDE DEF w, g0
<1> QED BY <1>5, <1>6, <1>7

-----------------------------------------------------------------------------
(* The loops.                                                               *)

\* What the test of reverseKGroup()'s loop says.
LEMMA OneMoreGroup ==
  ASSUME Shape
  PROVE  /\ Start \in Nat
         /\ i < n \div k <=> Start + k <= n
<1>1. n \in Nat /\ k \in Nat \ {0} /\ i \in Nat
  BY ReverseKGroupAssumption DEF Shape
<1>2. PICK q : q = n \div k
  OBVIOUS
<1>3. PICK r : r = n % k
  OBVIOUS
<1>4. q \in Nat /\ r \in Nat /\ r < k /\ n = q * k + r
  BY <1>1, <1>2, <1>3
<1>5. PICK qk : qk = q * k
  OBVIOUS
<1>6. PICK ik : ik = i * k
  OBVIOUS
<1>7. qk \in Nat /\ ik \in Nat /\ n = qk + r
  <2>1. qk \in Nat /\ ik \in Nat
    BY <1>1, <1>4, <1>5, <1>6
  <2> QED BY <2>1, <1>4, <1>5
<1>8. i < q => ik + k <= n
  <2> SUFFICES ASSUME i < q PROVE ik + k <= n
    OBVIOUS
  <2>1. i + 1 <= q /\ i + 1 \in Nat /\ (i + 1) * k = ik + k
    BY <1>1, <1>4, <1>6
  <2>2. ik + k <= qk
    BY <2>1, <1>1, <1>4, <1>5, Products
  <2> QED BY <2>2, <1>1, <1>4, <1>7
<1>9. q <= i => n < ik + k
  <2> SUFFICES ASSUME q <= i PROVE n < ik + k
    OBVIOUS
  <2>1. qk <= ik
    BY <1>1, <1>4, <1>5, <1>6, Products
  <2> QED BY <2>1, <1>1, <1>4, <1>7
<1> QED BY <1>1, <1>2, <1>4, <1>6, <1>7, <1>8, <1>9 DEF Start

\* The nodes in order are linked.
LEMMA OrderIsLinked ==
  ASSUME Shape, NEW a \in Nat, NEW lo \in Nat, lo = a * k, NEW hi \in Nat, lo <= hi, hi <= n,
         InOrder(lo, hi)
  PROVE  Linked(Order(lo, hi)) /\ Order(lo, hi)[0] = PrefixHead
<1> PICK f : f = Order(lo, hi)
  OBVIOUS
<1>1. f[0] = 0 /\ f[n + 1] = NULL
  BY PlacesAre
<1>2. \A j \in 0 .. n : f[j] \in 0 .. n
  BY Injective
<1>3. 0 .. n \subseteq Nodes
  BY ReverseKGroupAssumption DEF Shape, Nodes
<1>4. \A j \in 0 .. n : next[f[j]] = f[j + 1]
  BY DEF InOrder
<1> QED BY <1>1, <1>2, <1>3, <1>4 DEF Linked, PrefixHead

\* So that the walk from prefix_head's next on meets them in order.
LEMMA WalkInOrder ==
  ASSUME Shape, NEW a \in Nat, NEW lo \in Nat, lo = a * k, NEW hi \in Nat, lo <= hi, hi <= n,
         InOrder(lo, hi)
  PROVE  Walk(next[PrefixHead]) = [j \in 1 .. n |-> Order(lo, hi)[j]]
<1> PICK f : f = Order(lo, hi)
  OBVIOUS
<1>1. Linked(f) /\ f[0] = PrefixHead
  BY OrderIsLinked
<1>2. 0 \in 0 .. n /\ 0 + 1 = 1
  BY ReverseKGroupAssumption DEF Shape
<1>3. next[PrefixHead] = f[1]
  BY <1>1, <1>2 DEF Linked
<1> QED BY <1>1, <1>3, WalkIs

\* The list at the start.
LEMMA InitOK == Init => IInv
<1> SUFFICES ASSUME Init PROVE IInv
  OBVIOUS
<1> QED BY ReverseKGroupAssumption DEF Init, IInv, Shape, Nodes

\* A new call keeps IInv.
LEMMA CallKeeps ==
  ASSUME NEW size \in 0 .. MaxNodes, NEW group \in 1 .. MaxNodes, Call(size, group)
  PROVE  IInv'
<1>1. /\ pc' = "get_size" /\ n' = size /\ k' = group /\ i' = 0
      /\ next' = [c \in Nodes |-> IF c < size THEN c + 1 ELSE NULL]
  BY DEF Call
<1>2. MaxNodes \in Nat /\ Nodes = 0 .. MaxNodes
  BY ReverseKGroupAssumption DEF Nodes
<1>3. Shape'
  <2>1. next' \in [Nodes -> Nodes \cup {NULL}]
    <3>1. \A c \in Nodes : c < size => c + 1 \in Nodes
      BY <1>2
    <3> QED BY <3>1, <1>1
  <2> QED BY <2>1, <1>1, <1>2 DEF Shape
<1>4. InOrder(0, 0)'
  <2>1. \A j \in 0 .. size + 1 : Order(0, 0)'[j] = IF j = size + 1 THEN NULL ELSE j
    BY <1>1, <1>2 DEF Order, PrefixHead
  <2>2. \A j \in 0 .. size : /\ j \in Nodes /\ j \in 0 .. size + 1 /\ j + 1 \in 0 .. size + 1
                             /\ j # size + 1
                             /\ next'[j] = IF j < size THEN j + 1 ELSE NULL
    BY <1>1, <1>2
  <2>3. \A j \in 0 .. size : next'[Order(0, 0)'[j]] = Order(0, 0)'[j + 1]
    <3> TAKE j \in 0 .. size
    <3>1. j < size \/ j = size
      BY <1>2
    <3> QED BY <2>1, <2>2, <3>1, <1>2
  <2> QED BY <2>3, <1>1 DEF InOrder
<1> QED BY <1>1, <1>3, <1>4 DEF IInv

\* The order of the places is the arguments' alone.
LEMMA SameOrder ==
  ASSUME UNCHANGED <<n, k>>, NEW lo, NEW hi
  PROVE  /\ Order(lo, hi)' = Order(lo, hi)
         /\ next' = next => InOrder(lo, hi)' = InOrder(lo, hi)
<1>1. Reversed' = Reversed
  BY DEF Reversed
<1>2. Order(lo, hi)' = Order(lo, hi)
  BY <1>1 DEF Order
<1> QED BY <1>2 DEF InOrder

\* Counting the nodes keeps IInv.
LEMMA SizeKeeps ==
  ASSUME IInv, Size
  PROVE  IInv'
<1>1. /\ Shape /\ i = 0 /\ InOrder(0, 0)
  BY DEF IInv, Size
<1>2. n \in Nat /\ k \in Nat \ {0} /\ 0 * k = 0 /\ 0 <= n
  BY <1>1, ReverseKGroupAssumption DEF Shape
<1>3. Walk(next[PrefixHead]) = [j \in 1 .. n |-> Order(0, 0)[j]]
  BY <1>1, <1>2, WalkInOrder
<1>4. s' = n
  BY <1>2, <1>3 DEF Size, get_size
<1>5. pc' = "reverseKGroup" /\ UNCHANGED <<next, n, k, i>>
  BY DEF Size
<1>6. Shape' /\ InOrder(0, 0)'
  BY <1>1, <1>5, SameOrder DEF Shape
<1>7. Start' = 0
  BY <1>1, <1>2, <1>5 DEF Start
<1> QED BY <1>2, <1>4, <1>5, <1>6, <1>7 DEF IInv

\* Beginning a group keeps IInv.
LEMMA DoRevertKeeps ==
  ASSUME IInv, DoRevert
  PROVE  IInv'
<1>1. /\ Shape /\ s = n /\ InOrder(Start, Start) /\ i < s \div k
      /\ pc' = "do_revert" /\ UNCHANGED <<next, n, k, s, i>>
      /\ head' = get_node_by_index(i * k)
      /\ tail' = next[get_node_by_index((i + 1) * k)]
      /\ pre' = next[head'] /\ p' = next[pre']
  BY DEF IInv, DoRevert, GroupsLeft
<1>2. n \in Nat /\ n <= MaxNodes /\ k \in Nat \ {0} /\ i \in Nat /\ Start = i * k
      /\ NULL \notin 0 .. MaxNodes /\ MaxNodes \in Nat
  BY <1>1, ReverseKGroupAssumption DEF Shape, Start
<1>3. Start \in Nat /\ Start + k <= n /\ Start <= n /\ Start + 1 <= n
  BY <1>1, <1>2, OneMoreGroup
<1>4. (i + 1) * k = Start + k
  BY <1>2
<1> PICK st : st = Start
  OBVIOUS
<1>0. /\ st \in Nat /\ st = i * k /\ st + k <= n /\ st <= n /\ st + 1 <= n /\ st + 1 \in Nat
      /\ st <= st /\ st <= st + 1 /\ st + k \in Nat /\ st <= st + k /\ InOrder(st, st)
  BY <1>1, <1>2, <1>3
<1> PICK f : f = Order(st, st)
  OBVIOUS
<1>5. Linked(f) /\ f[0] = PrefixHead
  BY <1>0, <1>1, <1>2, OrderIsLinked
<1>6. f[n + 1] = NULL /\ \A j \in st + 1 .. n : f[j] = j
  BY <1>0, <1>1, PlacesAre
<1>7. \A j \in 0 .. n : next[f[j]] = f[j + 1]
  BY <1>5 DEF Linked
<1>8. head' = f[st] /\ tail' = f[st + k + 1]
  BY <1>1, <1>2, <1>3, <1>4, <1>5, <1>7, NodeIs
<1>9. pre' = st + 1
  <2>1. st \in 0 .. n /\ st + 1 \in st + 1 .. n
    BY <1>2, <1>3
  <2> QED BY <2>1, <1>1, <1>6, <1>7, <1>8
<1>10. p' = IF st + 1 = n THEN NULL ELSE st + 2
  <2>1. st + 1 \in 0 .. n /\ st + 1 \in st + 1 .. n /\ st + 1 + 1 = st + 2
    BY <1>2, <1>3
  <2>2. p' = f[st + 2]
    BY <2>1, <1>1, <1>6, <1>7, <1>9
  <2>3. st + 1 = n => st + 2 = n + 1
    BY <1>2, <1>3
  <2>4. st + 1 # n => st + 2 \in st + 1 .. n
    BY <1>2, <1>3
  <2> QED BY <2>2, <2>3, <2>4, <1>6
<1>11. Start' = st
  BY <1>1 DEF Start
<1>12. LastMoved' = st + 1
  <2>1. st + 1 # n => st + 2 # NULL /\ (st + 2) - 1 = st + 1
    <3>1. st + 1 # n => st + 2 \in 0 .. MaxNodes
      BY <1>2, <1>3
    <3> QED BY <3>1, <1>2, <1>3
  <2>2. LastMoved' = IF p' = NULL THEN n ELSE p' - 1
    BY <1>1 DEF LastMoved
  <2> QED BY <2>1, <2>2, <1>10
<1> PICK g : g = Order(st, st + 1)
  OBVIOUS
<1> PICK h : h = Order(st, st + k)
  OBVIOUS
<1>13. /\ g[0] = 0 /\ f[0] = 0 /\ g[n + 1] = NULL
       /\ \A j \in 1 .. st : g[j] = Reversed[j] /\ f[j] = Reversed[j]
       /\ g[st + 1] = st + 1
       /\ \A j \in st + 2 .. n : g[j] = j
  <2>1. /\ \A j \in st + 1 .. st + 1 : g[j] = st + (st + 1) + 1 - j
        /\ g[0] = 0 /\ f[0] = 0 /\ g[n + 1] = NULL
        /\ \A j \in 1 .. st : g[j] = Reversed[j] /\ f[j] = Reversed[j]
        /\ \A j \in (st + 1) + 1 .. n : g[j] = j
    <3>1. f[0] = 0 /\ \A j \in 1 .. st : f[j] = Reversed[j]
      BY <1>0, <1>1, PlacesAre
    <3>2. /\ \A j \in st + 1 .. st + 1 : g[j] = st + (st + 1) + 1 - j
          /\ g[0] = 0 /\ g[n + 1] = NULL
          /\ \A j \in 1 .. st : g[j] = Reversed[j]
          /\ \A j \in (st + 1) + 1 .. n : g[j] = j
      BY <1>0, <1>1, PlacesAre
    <3> QED BY <3>1, <3>2
  <2>2. /\ st + 1 \in st + 1 .. st + 1 /\ (st + 1) + 1 = st + 2
        /\ st + (st + 1) + 1 - (st + 1) = st + 1
    BY <1>3
  <2> QED BY <2>1, <2>2
<1>14. \A j \in 0 .. n + 1 : g[j] = f[j]
  <2> TAKE j \in 0 .. n + 1
  <2>1. j = 0 \/ j \in 1 .. st \/ j = st + 1 \/ j \in st + 2 .. n \/ j = n + 1
    BY <1>2, <1>3
  <2>2. (j = st + 1 \/ j \in st + 2 .. n) => j \in st + 1 .. n
    BY <1>2, <1>3
  <2> QED BY <2>1, <2>2, <1>6, <1>13
<1>15. InOrder(st, st + 1)
  <2>1. \A j \in 0 .. n : j \in 0 .. n + 1 /\ j + 1 \in 0 .. n + 1
    BY <1>2
  <2> QED BY <2>1, <1>7, <1>14 DEF InOrder
<1>16. tail' = h[st + k + 1]
  <2>1. h[n + 1] = NULL /\ \A j \in st + k + 1 .. n : h[j] = j
    BY <1>0, <1>1, <1>2, PlacesAre
  <2>2. st + k + 1 = n + 1 \/ (st + k + 1 \in st + k + 1 .. n /\ st + k + 1 \in st + 1 .. n)
    BY <1>2, <1>3
  <2> QED BY <2>1, <2>2, <1>6, <1>8
<1>17. head' = g[st]
  <2>1. st \in 0 .. n + 1
    BY <1>2, <1>3
  <2> QED BY <2>1, <1>8, <1>14
<1>18. p' = g[(st + 1) + 1]
  <2>1. (st + 1) + 1 = st + 2 /\ (st + 1 = n => st + 2 = n + 1)
    BY <1>2, <1>3
  <2>2. st + 1 # n => st + 2 \in st + 2 .. n
    BY <1>2, <1>3
  <2> QED BY <2>1, <2>2, <1>10, <1>13
<1>19. /\ Order(st, st + 1)' = g /\ Order(st, st + k)' = h
       /\ InOrder(st, st + 1)' /\ Shape'
  <2>1. UNCHANGED <<n, k>> /\ next' = next
    BY <1>1
  <2>2. \A b : Order(st, b)' = Order(st, b) /\ InOrder(st, b)' = InOrder(st, b)
    BY <2>1, SameOrder
  <2>3. Order(st, st + k)' = Order(st, st + k)
    BY <2>1, <2>2, <1>1 DEF Order, Reversed
  <2> QED BY <2>2, <2>3, <1>15, <1>1 DEF Shape
<1>20. /\ s' = n' /\ n' = n /\ k' = k /\ st + 1 \in st + 1 .. st + k
  BY <1>1, <1>2, <1>3
<1>21. /\ (Order(Start, LastMoved))' = g /\ (Order(Start, Start + k))' = h
       /\ (InOrder(Start, LastMoved))'
  BY <1>11, <1>12, <1>19, <1>20
<1>22. Inverting'
  BY <1>3, <1>9, <1>11, <1>12, <1>16, <1>17, <1>18, <1>19, <1>20, <1>21 DEF Inverting
<1> QED BY <1>1, <1>19, <1>22 DEF IInv

\* What the state of do_revert() is in plain numbers: st nodes are in front of
\* the group, and the group is turned round up to place e.
LEMMA InvertingIs ==
  ASSUME Shape, Inverting, NEW st, st = Start, NEW e, e = LastMoved
  PROVE  /\ n \in Nat /\ n <= MaxNodes /\ MaxNodes \in Nat /\ NULL \notin 0 .. MaxNodes
         /\ k \in Nat \ {0} /\ i \in Nat /\ st = i * k /\ st \in Nat /\ e \in Nat /\ e + 1 \in Nat
         /\ st + 1 <= e /\ e <= st + k /\ st + k <= n /\ st <= e /\ e <= n
         /\ head = Order(st, e)[st] /\ pre = st + 1 /\ p = Order(st, e)[e + 1]
         /\ tail = Order(st, st + k)[st + k + 1]
         /\ InOrder(st, e)
         /\ p = IF e = n THEN NULL ELSE e + 1
         /\ p = tail <=> e = st + k
<1>1. /\ n \in Nat /\ n <= MaxNodes /\ MaxNodes \in Nat /\ NULL \notin 0 .. MaxNodes
      /\ k \in Nat \ {0} /\ i \in Nat /\ st = i * k
  BY ReverseKGroupAssumption DEF Shape, Start
<1>2. st \in Nat
  BY OneMoreGroup
<1>3. /\ e \in st + 1 .. st + k /\ st + k <= n
      /\ head = Order(st, e)[st] /\ pre = st + 1 /\ p = Order(st, e)[e + 1]
      /\ tail = Order(st, st + k)[st + k + 1]
      /\ InOrder(st, e)
  BY DEF Inverting
<1>4. /\ st \in Nat /\ e \in Nat /\ e + 1 \in Nat /\ st + 1 <= e /\ e <= st + k /\ st + k <= n
      /\ st <= e /\ e <= n /\ st + k \in Nat /\ st <= st + k
  BY <1>1, <1>2, <1>3
<1>5. \A b \in Nat : st <= b /\ b <= n =>
        Order(st, b)[b + 1] = IF b = n THEN NULL ELSE b + 1
  <2> TAKE b \in Nat
  <2> HAVE st <= b /\ b <= n
  <2>1. Order(st, b)[n + 1] = NULL /\ \A j \in b + 1 .. n : Order(st, b)[j] = j
    BY <1>4, PlacesAre
  <2>2. b # n => b + 1 \in b + 1 .. n
    BY <1>1
  <2> QED BY <2>1, <2>2
<1>6. p = IF e = n THEN NULL ELSE e + 1
  BY <1>3, <1>4, <1>5
<1>7. tail = IF st + k = n THEN NULL ELSE st + k + 1
  BY <1>3, <1>4, <1>5
<1>8. p = tail <=> e = st + k
  <2>1. e # n => e + 1 # NULL
    <3>1. e # n => e + 1 \in 0 .. MaxNodes
      BY <1>1, <1>4
    <3> QED BY <3>1, <1>1
  <2>2. st + k # n => st + k + 1 # NULL
    <3>1. st + k # n => st + k + 1 \in 0 .. MaxNodes
      BY <1>1, <1>4
    <3> QED BY <3>1, <1>1
  <2> QED BY <1>1, <1>4, <1>6, <1>7, <2>1, <2>2
<1> QED BY <1>1, <1>3, <1>4, <1>6, <1>8

\* The node at place e + 1 goes behind the one at place st.
LEMMA MoveRelinks ==
  ASSUME Shape, NEW st \in Nat, NEW e \in Nat, st = i * k, st + 1 <= e, e < n,
         InOrder(st, e), NEW f, f = Order(st, e),
         NEW nx, nx = insert(removenode(next, f[e], f[e + 1]), f[st], f[e + 1])
  PROVE  /\ nx \in [Nodes -> Nodes \cup {NULL}]
         /\ \A x \in Nodes : nx[x] = IF x = f[st] THEN f[e + 1]
                                     ELSE IF x = f[e + 1] THEN f[st + 1]
                                     ELSE IF x = f[e] THEN f[e + 2] ELSE next[x]
<1>1. /\ n \in Nat /\ n <= MaxNodes /\ MaxNodes \in Nat /\ i \in Nat /\ k \in Nat
      /\ next \in [Nodes -> Nodes \cup {NULL}]
  BY ReverseKGroupAssumption DEF Shape
<1>2. st <= e /\ e <= n
  BY <1>1
<1>3. Linked(f)
  BY <1>1, <1>2, OrderIsLinked
<1>4. \A j, l \in 0 .. n : f[j] = f[l] => j = l
  BY <1>1, <1>2, Injective
<1>5. st \in 0 .. n /\ e \in 0 .. n /\ e + 1 \in 0 .. n /\ st # e /\ st # e + 1 /\ e # e + 1
      /\ (e + 1) + 1 = e + 2
  BY <1>1
<1>6. /\ f[st] \in Nodes /\ f[e] \in Nodes /\ f[e + 1] \in Nodes
      /\ f[st] # f[e] /\ f[st] # f[e + 1] /\ f[e] # f[e + 1]
      /\ next[f[st]] = f[st + 1] /\ next[f[e]] = f[e + 1] /\ next[f[e + 1]] = f[e + 2]
  BY <1>3, <1>4, <1>5 DEF Linked
<1> PICK a : a = f[st]
  OBVIOUS
<1> PICK b : b = f[e]
  OBVIOUS
<1> PICK c : c = f[e + 1]
  OBVIOUS
<1>7. /\ a \in Nodes /\ b \in Nodes /\ c \in Nodes /\ a # b /\ a # c /\ b # c
      /\ next[a] = f[st + 1] /\ next[b] = c /\ next[c] = f[e + 2]
      /\ nx = insert(removenode(next, b, c), a, c)
  BY <1>6
<1>8. nx = [[[next EXCEPT ![b] = next[c], ![c] = NULL] EXCEPT ![c] =
              [next EXCEPT ![b] = next[c], ![c] = NULL][a]] EXCEPT ![a] = c]
  BY <1>1, <1>7 DEF insert, removenode
<1>9. nx = [next EXCEPT ![b] = next[c], ![c] = next[a], ![a] = c]
  BY <1>1, <1>7, <1>8
<1> QED BY <1>1, <1>7, <1>9

\* Moving a node to the front of its group keeps IInv.
LEMMA MoveToFrontKeeps ==
  ASSUME IInv, MoveToFront
  PROVE  IInv'
<1>1. /\ Shape /\ Inverting /\ p # tail /\ pc = "do_revert"
      /\ next' = insert(removenode(next, pre, p), head, p)
      /\ p' = next[p]
      /\ UNCHANGED <<pc, n, k, s, i, head, tail, pre>>
  BY DEF MoveToFront, IInv
<1> PICK st : st = Start
  OBVIOUS
<1> PICK e : e = LastMoved
  OBVIOUS
<1>2. /\ n \in Nat /\ n <= MaxNodes /\ MaxNodes \in Nat /\ NULL \notin 0 .. MaxNodes
      /\ k \in Nat \ {0} /\ i \in Nat /\ st = i * k /\ st \in Nat /\ e \in Nat /\ e + 1 \in Nat
      /\ st + 1 <= e /\ e <= st + k /\ st + k <= n /\ st <= e /\ e <= n
      /\ head = Order(st, e)[st] /\ pre = st + 1 /\ p = Order(st, e)[e + 1]
      /\ tail = Order(st, st + k)[st + k + 1]
      /\ InOrder(st, e)
      /\ p = IF e = n THEN NULL ELSE e + 1
      /\ p = tail <=> e = st + k
  BY <1>1, InvertingIs
<1>3. e < st + k /\ e < n /\ e + 1 <= n /\ e + 1 <= st + k /\ st <= e + 1 /\ p = e + 1
  BY <1>1, <1>2
<1> PICK f : f = Order(st, e)
  OBVIOUS
<1> PICK g : g = Order(st, e + 1)
  OBVIOUS
<1>4. /\ f[0] = 0 /\ f[n + 1] = NULL
      /\ \A j \in 1 .. st : f[j] = Reversed[j]
      /\ \A j \in st + 1 .. e : f[j] = st + e + 1 - j
      /\ \A j \in e + 1 .. n : f[j] = j
  <2>1. Shape /\ st \in Nat /\ e \in Nat /\ st <= e /\ e <= n
    BY <1>1, <1>2
  <2> QED BY <2>1, PlacesAre
<1>5. /\ g[0] = 0 /\ g[n + 1] = NULL
      /\ \A j \in 1 .. st : g[j] = Reversed[j]
      /\ \A j \in st + 1 .. e + 1 : g[j] = st + (e + 1) + 1 - j
      /\ \A j \in (e + 1) + 1 .. n : g[j] = j
  <2>1. Shape /\ st \in Nat /\ e + 1 \in Nat /\ st <= e + 1 /\ e + 1 <= n
    BY <1>1, <1>2, <1>3
  <2> QED BY <2>1, PlacesAre
<1>6. pre = f[e] /\ p = f[e + 1] /\ head = f[st]
  <2>1. e \in st + 1 .. e /\ st + e + 1 - e = st + 1
    BY <1>2
  <2> QED BY <2>1, <1>2, <1>4
<1>7. /\ next' \in [Nodes -> Nodes \cup {NULL}]
      /\ \A x \in Nodes : next'[x] = IF x = f[st] THEN f[e + 1]
                                     ELSE IF x = f[e + 1] THEN f[st + 1]
                                     ELSE IF x = f[e] THEN f[e + 2] ELSE next[x]
  <2> PICK nx : nx = next'
    OBVIOUS
  <2>1. nx = insert(removenode(next, f[e], f[e + 1]), f[st], f[e + 1])
    BY <1>1, <1>6
  <2>2. /\ nx \in [Nodes -> Nodes \cup {NULL}]
        /\ \A x \in Nodes : nx[x] = IF x = f[st] THEN f[e + 1]
                                     ELSE IF x = f[e + 1] THEN f[st + 1]
                                     ELSE IF x = f[e] THEN f[e + 2] ELSE next[x]
    BY <2>1, <1>1, <1>2, <1>3, MoveRelinks
  <2> QED BY <2>2
<1>8. /\ \A j \in 0 .. n : f[j] \in Nodes /\ next[f[j]] = f[j + 1]
      /\ \A j, l \in 0 .. n : f[j] = f[l] => j = l
  <2>1. Linked(f)
    BY <1>1, <1>2, OrderIsLinked
  <2>2. \A j, l \in 0 .. n : f[j] = f[l] => j = l
    BY <1>1, <1>2, Injective
  <2> QED BY <2>1, <2>2 DEF Linked
<1>9. \A j \in 0 .. n :
        next'[f[j]] = IF j = st THEN f[e + 1] ELSE IF j = e + 1 THEN f[st + 1]
                      ELSE IF j = e THEN f[e + 2] ELSE f[j + 1]
  <2>1. st \in 0 .. n /\ e \in 0 .. n /\ e + 1 \in 0 .. n
    BY <1>2, <1>3
  <2> QED BY <2>1, <1>7, <1>8
<1>10. /\ g[st + 1] = f[e + 1]
       /\ \A j \in 0 .. st : g[j] = f[j]
       /\ \A j \in st + 2 .. e + 1 : g[j] = f[j - 1]
       /\ \A j \in e + 2 .. n + 1 : g[j] = f[j]
  <2>1. g[st + 1] = f[e + 1]
    <3>1. st + 1 \in st + 1 .. e + 1 /\ st + (e + 1) + 1 - (st + 1) = e + 1
      BY <1>2
    <3>2. e + 1 \in e + 1 .. n
      BY <1>2, <1>3
    <3> QED BY <3>1, <3>2, <1>4, <1>5
  <2>2. \A j \in 0 .. st : g[j] = f[j]
    BY <1>2, <1>4, <1>5
  <2>3. \A j \in st + 2 .. e + 1 : g[j] = f[j - 1]
    <3> TAKE j \in st + 2 .. e + 1
    <3>1. j \in st + 1 .. e + 1 /\ j - 1 \in st + 1 .. e
          /\ st + (e + 1) + 1 - j = st + e + 1 - (j - 1)
      BY <1>2
    <3> QED BY <3>1, <1>4, <1>5
  <2>4. \A j \in e + 2 .. n + 1 : g[j] = f[j]
    BY <1>2, <1>3, <1>4, <1>5
  <2> QED BY <2>1, <2>2, <2>3, <2>4
<1>11. \A j \in 0 .. n : next'[g[j]] = g[j + 1]
  <2> TAKE j \in 0 .. n
  <2>1. CASE j < st
    <3>1. j \in 0 .. st /\ j + 1 \in 0 .. st /\ j # e /\ j # e + 1 /\ j # st
      BY <2>1, <1>2
    <3> QED BY <3>1, <1>9, <1>10
  <2>2. CASE j = st
    <3>1. j \in 0 .. st
      BY <2>2, <1>2
    <3> QED BY <3>1, <2>2, <1>9, <1>10
  <2>3. CASE j = st + 1
    <3>1. st + 2 \in st + 2 .. e + 1 /\ (st + 2) - 1 = st + 1 /\ j + 1 = st + 2
      BY <2>3, <1>2
    <3>2. e + 1 \in 0 .. n /\ e + 1 # st
      BY <1>2, <1>3
    <3> QED BY <3>1, <3>2, <2>3, <1>9, <1>10
  <2>4. CASE st + 2 <= j /\ j <= e
    <3>1. j \in st + 2 .. e + 1 /\ j + 1 \in st + 2 .. e + 1 /\ j - 1 \in 0 .. n
          /\ (j + 1) - 1 = j /\ (j - 1) + 1 = j
          /\ j - 1 # st /\ j - 1 # e /\ j - 1 # e + 1
      BY <2>4, <1>2, <1>3
    <3> QED BY <3>1, <1>9, <1>10
  <2>5. CASE j = e + 1
    <3>1. j \in st + 2 .. e + 1 /\ j - 1 = e /\ e \in 0 .. n /\ e # st /\ e # e + 1
          /\ j + 1 = e + 2 /\ e + 2 \in e + 2 .. n + 1
      BY <2>5, <1>2, <1>3
    <3> QED BY <3>1, <1>9, <1>10
  <2>6. CASE e + 2 <= j
    <3>1. j \in e + 2 .. n + 1 /\ j + 1 \in e + 2 .. n + 1 /\ j # st /\ j # e /\ j # e + 1
      BY <2>6, <1>2, <1>3
    <3> QED BY <3>1, <1>9, <1>10
  <2>7. j < st \/ j = st \/ j = st + 1 \/ (st + 2 <= j /\ j <= e) \/ j = e + 1 \/ e + 2 <= j
    BY <1>2, <1>3
  <2> QED BY <2>1, <2>2, <2>3, <2>4, <2>5, <2>6, <2>7
<1>12. p' = g[(e + 1) + 1] /\ p' = IF e + 1 = n THEN NULL ELSE e + 2
  <2>1. e + 1 \in 0 .. n /\ (e + 1) + 1 = e + 2 /\ e + 2 \in e + 2 .. n + 1
    BY <1>2, <1>3
  <2>2. p' = f[e + 2]
    BY <2>1, <1>1, <1>6, <1>8
  <2>3. e + 1 = n => e + 2 = n + 1
    BY <1>2
  <2>4. e + 1 # n => e + 2 \in e + 1 .. n
    BY <1>2, <1>3
  <2> QED BY <2>1, <2>2, <2>3, <2>4, <1>4, <1>10
<1>13. LastMoved' = e + 1
  <2>1. e + 1 # n => e + 2 # NULL /\ (e + 2) - 1 = e + 1
    <3>1. e + 1 # n => e + 2 \in 0 .. MaxNodes
      BY <1>2, <1>3
    <3> QED BY <3>1, <1>2
  <2>2. LastMoved' = IF p' = NULL THEN n ELSE p' - 1
    BY <1>1 DEF LastMoved
  <2> QED BY <2>1, <2>2, <1>12, <1>2
<1>14. Start' = st
  BY <1>1 DEF Start
<1>15. /\ Order(st, e + 1)' = g /\ Order(st, st + k)' = Order(st, st + k)
       /\ InOrder(st, e + 1)' /\ Shape'
  <2>1. UNCHANGED <<n, k>>
    BY <1>1
  <2>2. \A b : Order(st, b)' = Order(st, b)
    BY <2>1, SameOrder
  <2>3. Order(st, st + k)' = Order(st, st + k)
    BY <2>1, <2>2, <1>1 DEF Order, Reversed
  <2>4. InOrder(st, e + 1)'
    BY <1>11, <2>2, <2>1 DEF InOrder
  <2>5. Shape'
    BY <1>1, <1>7 DEF Shape
  <2> QED BY <2>2, <2>3, <2>4, <2>5
<1>16. s' = n' /\ k' = k /\ n' = n /\ e + 1 \in st + 1 .. st + k
  BY <1>1, <1>2, <1>3 DEF Inverting
<1>17. /\ (Order(Start, LastMoved))' = g /\ (Order(Start, Start + k))' = Order(st, st + k)
       /\ (InOrder(Start, LastMoved))'
  BY <1>13, <1>14, <1>15, <1>16
<1>18. head' = g[st] /\ pre' = st + 1 /\ tail' = Order(st, st + k)[st + k + 1]
  <2>1. st \in 0 .. st
    BY <1>2
  <2> QED BY <2>1, <1>1, <1>2, <1>6, <1>10
<1>19. Inverting'
  BY <1>2, <1>12, <1>13, <1>14, <1>15, <1>16, <1>17, <1>18 DEF Inverting
<1> QED BY <1>1, <1>15, <1>19 DEF IInv

\* Ending a group keeps IInv.
LEMMA RevertedKeeps ==
  ASSUME IInv, Reverted
  PROVE  IInv'
<1>1. /\ Shape /\ Inverting /\ p = tail
      /\ pc' = "reverseKGroup" /\ i' = i + 1
      /\ UNCHANGED <<next, n, k, s>>
  BY DEF Reverted, IInv
<1> PICK st : st = Start
  OBVIOUS
<1> PICK e : e = LastMoved
  OBVIOUS
<1>2. /\ n \in Nat /\ k \in Nat \ {0} /\ i \in Nat /\ st = i * k /\ st \in Nat
      /\ st + k <= n /\ InOrder(st, e) /\ e = st + k
  BY <1>1, InvertingIs
<1>3. Start' = st + k
  <2>1. (i + 1) * k = st + k
    BY <1>2
  <2> QED BY <2>1, <1>1 DEF Start
<1>4. st + k \in Nat /\ st <= st + k /\ st + k <= st + k
  BY <1>2
<1> PICK f : f = Order(st, st + k)
  OBVIOUS
<1> PICK g : g = Order(st + k, st + k)
  OBVIOUS
<1>5. /\ f[0] = 0 /\ f[n + 1] = NULL
      /\ \A j \in 1 .. st : f[j] = Reversed[j]
      /\ \A j \in st + 1 .. st + k : f[j] = st + (st + k) + 1 - j
      /\ \A j \in (st + k) + 1 .. n : f[j] = j
  BY <1>1, <1>2, <1>4, PlacesAre
<1>6. /\ g[0] = 0 /\ g[n + 1] = NULL
      /\ \A j \in 1 .. st + k : g[j] = Reversed[j]
      /\ \A j \in (st + k) + 1 .. n : g[j] = j
  BY <1>1, <1>2, <1>4, PlacesAre
<1>7. \A j \in st + 1 .. st + k : Reversed[j] = st + (st + k) + 1 - j
  <2> TAKE j \in st + 1 .. st + k
  <2>1. j \in 1 .. n /\ st + 1 <= j /\ j <= st + k
    BY <1>2
  <2>2. Reversed[j] = IF st + k <= n THEN 2 * st + k + 1 - j ELSE j
    BY <2>1, <1>1, <1>2, OneGroup
  <2> QED BY <2>1, <2>2, <1>2
<1>8. \A j \in 0 .. n + 1 : g[j] = f[j]
  <2> TAKE j \in 0 .. n + 1
  <2>1. \/ j = 0
        \/ j = n + 1
        \/ j \in 1 .. st /\ j \in 1 .. st + k
        \/ j \in st + 1 .. st + k /\ j \in 1 .. st + k
        \/ j \in (st + k) + 1 .. n
    BY <1>2
  <2> QED BY <2>1, <1>5, <1>6, <1>7
<1>9. InOrder(st + k, st + k)
  <2>1. \A j \in 0 .. n : j \in 0 .. n + 1 /\ j + 1 \in 0 .. n + 1
    BY <1>2
  <2> QED BY <2>1, <1>2, <1>8 DEF InOrder
<1>10. InOrder(st + k, st + k)'
  <2> PICK m : m = st + k
    OBVIOUS
  <2>1. InOrder(m, m)' = InOrder(m, m)
    BY <1>1, SameOrder
  <2>2. InOrder(m, m)
    BY <1>9
  <2>3. k' = k /\ next' = next /\ n' = n
    BY <1>1
  <2>4. InOrder(m, m)'
    BY <2>1, <2>2
  <2> QED BY <2>3, <2>4
<1>11. (InOrder(Start, Start))'
  BY <1>3, <1>10, <1>1
<1>12. Shape' /\ s' = n' /\ Start' <= n'
  BY <1>1, <1>2, <1>3 DEF Shape, Inverting
<1> QED BY <1>1, <1>11, <1>12 DEF IInv

\* Returning keeps IInv.
LEMMA ReturnKeeps == ASSUME IInv, Return PROVE IInv'
BY DEF IInv, Return, Shape

\* A step that changes nothing keeps IInv.
LEMMA StutterKeeps == ASSUME IInv, UNCHANGED vars PROVE IInv'
<1>1. UNCHANGED <<pc, next, n, k, s, i, head, tail, pre, p>>
  BY DEF vars
<1>2. Start' = Start /\ LastMoved' = LastMoved
  BY <1>1 DEF Start, LastMoved
<1>3. \A a, b : Order(a, b)' = Order(a, b) /\ InOrder(a, b)' = InOrder(a, b)
  BY <1>1, SameOrder
<1>4. InOrder(0, 0)' = InOrder(0, 0)
  BY <1>3
<1>5. (InOrder(Start, Start))' = InOrder(Start, Start)
  BY <1>1, <1>2 DEF InOrder, Order, Reversed
<1>6. Inverting' = Inverting
  BY <1>1 DEF Inverting, InOrder, Order, Reversed, Start, LastMoved
<1> QED BY <1>1, <1>2, <1>4, <1>5, <1>6 DEF IInv, Shape

\* Every step keeps IInv.
LEMMA NextKeeps == IInv /\ [Next]_vars => IInv'
<1> SUFFICES ASSUME IInv, [Next]_vars PROVE IInv'
  OBVIOUS
<1>1. ASSUME NEW size \in 0 .. MaxNodes, NEW group \in 1 .. MaxNodes, Call(size, group)
      PROVE  IInv'
  BY <1>1, CallKeeps
<1>2. CASE Size
  BY <1>2, SizeKeeps
<1>3. CASE DoRevert
  BY <1>3, DoRevertKeeps
<1>4. CASE MoveToFront
  BY <1>4, MoveToFrontKeeps
<1>5. CASE Reverted
  BY <1>5, RevertedKeeps
<1>6. CASE Return
  BY <1>6, ReturnKeeps
<1>7. CASE UNCHANGED vars
  BY <1>7, StutterKeeps
<1> QED BY <1>1, <1>2, <1>3, <1>4, <1>5, <1>6, <1>7 DEF Next

(* What reverseKGroup() and do_revert() keep: see IInv.                     *)
THEOREM ReversalInvariance == Spec => []IInv
BY InitOK, NextKeeps, PTL DEF Spec

\* The list between two moves is as GroupsInOrder says.
LEMMA GroupsAre == IInv => GroupsInOrder
<1> SUFFICES ASSUME IInv, pc = "do_revert" PROVE GroupsInOrder
  BY DEF GroupsInOrder
<1>1. Shape /\ Inverting
  BY DEF IInv
<1> PICK st : st = Start
  OBVIOUS
<1> PICK e : e = LastMoved
  OBVIOUS
<1>2. /\ n \in Nat /\ i \in Nat /\ st = i * k /\ st \in Nat /\ e \in Nat
      /\ st <= e /\ e <= n /\ InOrder(st, e)
  BY <1>1, InvertingIs
<1>3. Walk(next[PrefixHead]) = [j \in 1 .. n |-> Order(st, e)[j]]
  BY <1>1, <1>2, WalkInOrder
<1>4. \A j \in 1 .. n :
        Order(st, e)[j] = IF j <= st THEN Reversed[j] ELSE IF j <= e THEN st + e + 1 - j ELSE j
  BY <1>2 DEF Order
<1>5. Walk(next[PrefixHead]) =
        [j \in 1 .. n |-> IF j <= st THEN Reversed[j] ELSE IF j <= e THEN st + e + 1 - j ELSE j]
  BY <1>3, <1>4
<1> QED BY <1>5 DEF GroupsInOrder, Start, LastMoved

(* do_revert() keeps the groups before the one it works on reversed, the    *)
(* nodes it has moved in reverse order and the others as they were, for     *)
(* lists and groups of any length.                                          *)
THEOREM GroupsStayInOrder == Spec => []GroupsInOrder
BY ReversalInvariance, GroupsAre, PTL

\* When no full group is left, the order is the one asked for.
LEMMA ReturnsReversed == IInv /\ Return => Walk(next[PrefixHead]) = Reversed
<1> SUFFICES ASSUME IInv, Return PROVE Walk(next[PrefixHead]) = Reversed
  OBVIOUS
<1>1. Shape /\ s = n /\ Start <= n /\ InOrder(Start, Start) /\ ~(i < s \div k)
  BY DEF IInv, Return, GroupsLeft
<1> PICK st : st = Start
  OBVIOUS
<1>2. /\ n \in Nat /\ k \in Nat \ {0} /\ i \in Nat /\ st = i * k /\ st \in Nat
      /\ st <= n /\ st <= st /\ InOrder(st, st) /\ n < st + k
  <2>1. n \in Nat /\ k \in Nat \ {0} /\ i \in Nat /\ st = i * k /\ InOrder(st, st)
    BY <1>1, ReverseKGroupAssumption DEF Shape, Start
  <2>2. st \in Nat /\ ~(st + k <= n)
    BY <1>1, OneMoreGroup
  <2> QED BY <1>1, <2>1, <2>2
<1>3. Walk(next[PrefixHead]) = [j \in 1 .. n |-> Order(st, st)[j]]
  BY <1>1, <1>2, WalkInOrder
<1>4. \A j \in 1 .. n : Order(st, st)[j] = Reversed[j]
  <2> TAKE j \in 1 .. n
  <2>1. CASE j <= st
    <3>1. j \in 1 .. st
      BY <2>1, <1>2
    <3> QED BY <3>1, <1>1, <1>2, PlacesAre
  <2>2. CASE st + 1 <= j
    <3>1. j \in st + 1 .. n /\ j <= st + k /\ ~(st + k <= n)
      BY <2>2, <1>2
    <3>2. Order(st, st)[j] = j
      BY <3>1, <1>1, <1>2, PlacesAre
    <3>3. Reversed[j] = IF st + k <= n THEN 2 * st + k + 1 - j ELSE j
      BY <3>1, <2>2, <1>1, <1>2, OneGroup
    <3> QED BY <3>1, <3>2, <3>3
  <2> QED BY <2>1, <2>2, <1>2
<1>5. Reversed = [j \in 1 .. n |-> Reversed[j]]
  BY DEF Reversed
<1> HIDE DEF Reversed
<1> QED BY <1>3, <1>4, <1>5

(* reverseKGroup() answers with the groups of k reversed and what is left   *)
(* over as it was, for lists and groups of any length.                      *)
THEOREM ReversalAnswers == Spec => AnswersReversed
<1>1. IInv /\ [Next]_vars => [Return => Walk(next[PrefixHead]) = Reversed]_vars
  BY ReturnsReversed
<1> QED BY <1>1, ReversalInvariance, PTL DEF Spec, AnswersReversed

-----------------------------------------------------------------------------
(* clock_gettime.c.                                                         *)

\* C's division is at most one divisor off, towards zero.
LEMMA QuotientIs ==
  ASSUME NEW a \in Int, NEW d \in Nat \ {0}
  PROVE  /\ Quotient(a, d) \in Int
         /\ -d < Quotient(a, d) * d - a /\ Quotient(a, d) * d - a < d
<1>1. \A b \in Nat : /\ b \div d \in Nat /\ (b \div d) * d \in Nat
                     /\ (b \div d) * d <= b /\ b < (b \div d) * d + d
  BY SMTT(30)
<1>2. CASE a < 0
  <2> DEFINE b == -a
  <2>1. b \in Nat /\ a = -b
    BY <1>2
  <2> HIDE DEF b
  <2> DEFINE e == b \div d
  <2>2. e \in Nat /\ e * d \in Nat /\ e * d <= b /\ b < e * d + d
    BY <1>1, <2>1
  <2>3. Quotient(a, d) = -e
    BY <1>2, <2>1 DEF Quotient, b
  <2> HIDE DEF e
  <2>4. (-e) * d = -(e * d)
    BY <2>2
  <2> QED BY <2>1, <2>2, <2>3, <2>4
<1>3. CASE ~(a < 0)
  <2> DEFINE e == a \div d
  <2>1. a \in Nat /\ e \in Nat /\ e * d \in Nat /\ e * d <= a /\ a < e * d + d
    BY <1>1, <1>3
  <2>2. Quotient(a, d) = e
    BY <1>3 DEF Quotient
  <2> HIDE DEF e
  <2> QED BY <2>1, <2>2
<1> QED BY <1>2, <1>3

\* What is printed is the time that has passed, to less than a millisecond.
THEOREM TimeIsPassed ==
  ASSUME NEW t1 \in Readings(Seconds), NEW t2 \in Readings(Seconds)
  PROVE  IsTheTimePassed(t1, t2, TimePass(t1, t2))
<1>0. Milli \in Nat \ {0} /\ Second \in Nat \ {0} /\ Seconds \subseteq Int
  BY ExercisesAssumption DEF NumberAssumption, ArraysAssumption
<1>1. Second * Milli \in Nat
  BY <1>0
<1>2. /\ t1.tv_sec \in Int /\ t2.tv_sec \in Int
      /\ t1.tv_nsec \in Int /\ t2.tv_nsec \in Int
  <2>1. \A u \in 0 .. Second * Milli - 1 : u \in Int
    BY <1>1
  <2> QED BY <1>0, <2>1 DEF Readings
<1>3. PICK a1, a2, b1, b2 \in Int : /\ a1 = t1.tv_sec /\ a2 = t2.tv_sec
                                    /\ b1 = t1.tv_nsec /\ b2 = t2.tv_nsec
  BY <1>2
<1> DEFINE q == Quotient(b2 - b1, Milli)
<1>4. q \in Int /\ -Milli < q * Milli - (b2 - b1) /\ q * Milli - (b2 - b1) < Milli
  BY <1>0, <1>3, QuotientIs
<1>5. TimePass(t1, t2) = (a2 - a1) * Second + q
  BY <1>3 DEF TimePass
<1>6. /\ Nanoseconds(t1) = a1 * Second * Milli + b1
      /\ Nanoseconds(t2) = a2 * Second * Milli + b2
  BY <1>3 DEF Nanoseconds
<1> HIDE DEF q
<1>7. PICK r \in Int : r = (a2 - a1) * Second + q
  BY <1>0, <1>3, <1>4
<1>8. PICK m \in Int : m = (a2 * Second * Milli + b2) - (a1 * Second * Milli + b1)
  BY <1>0, <1>3
<1>9. r * Milli - m = q * Milli - (b2 - b1)
  <2>1. /\ a1 * Second * Milli = a1 * (Second * Milli)
        /\ a2 * Second * Milli = a2 * (Second * Milli)
    BY <1>0, <1>3
  <2>2. (a2 - a1) * Second * Milli = a2 * (Second * Milli) - a1 * (Second * Milli)
    <3>1. \A u, v, w \in Int : (u - v) * w = u * w - v * w
      OBVIOUS
    <3>2. \A u \in Int : u * Second * Milli = u * (Second * Milli)
      BY <1>0
    <3> QED BY <1>1, <1>3, <3>1, <3>2
  <2>3. r * Milli = (a2 - a1) * Second * Milli + q * Milli
    BY <1>0, <1>3, <1>4, <1>7
  <2>4. /\ a1 * (Second * Milli) \in Int /\ a2 * (Second * Milli) \in Int
        /\ q * Milli \in Int
    BY <1>0, <1>1, <1>3, <1>4
  <2> QED BY <1>3, <1>8, <2>1, <2>2, <2>3, <2>4
<1>10. m >= Second * Milli => r >= Second
  <2> SUFFICES ASSUME m >= Second * Milli, ~(r >= Second) PROVE FALSE
    OBVIOUS
  <2>1. PICK e \in Nat : Second = r + 1 + e
    <3>1. Second - r - 1 \in Nat /\ Second = r + 1 + (Second - r - 1)
      BY <1>0, <1>7
    <3> QED BY <3>1
  <2>2. Second * Milli = r * Milli + Milli + e * Milli /\ e * Milli \in Nat /\ r * Milli \in Int
    BY <1>0, <1>7, <2>1
  <2> QED BY <1>0, <1>3, <1>4, <1>8, <1>9, <2>2
<1> QED BY <1>0, <1>3, <1>4, <1>5, <1>6, <1>7, <1>8, <1>9, <1>10 DEF IsTheTimePassed

-----------------------------------------------------------------------------
(* Functions defined by recursion over arguments that have a size.          *)

\* F's value at an argument asks its function only for smaller arguments.
Recursive(D, B, size, F) ==
  /\ B # {} /\ size \in [D -> Nat] /\ F \in [D \X [D -> B] -> B]
  /\ \A d \in D, g, h \in [D -> B] :
       (\A e \in D : size[e] < size[d] => g[e] = h[e]) => F[<<d, g>>] = F[<<d, h>>]

\* g is as the recursion says for arguments of less than the size m.
Below(D, size, F, g, m) == \A d \in D : size[d] < m => g[d] = F[<<d, g>>]

\* Two functions agree where both are as the recursion says.
LEMMA BelowSame ==
  ASSUME NEW D, NEW B, NEW size, NEW F, Recursive(D, B, size, F),
         NEW g \in [D -> B], NEW h \in [D -> B], NEW m \in Nat, NEW l \in Nat,
         Below(D, size, F, g, m), Below(D, size, F, h, l)
  PROVE  \A d \in D : size[d] < m /\ size[d] < l => g[d] = h[d]
<1> DEFINE bad == {a \in Nat : \E d \in D : /\ size[d] = a /\ a < m /\ a < l
                                             /\ g[d] # h[d]}
<1> SUFFICES ASSUME bad # {} PROVE FALSE
  BY DEF Recursive
<1>1. PICK a \in bad : \A b \in bad : a <= b
  BY Least
<1>2. PICK d \in D : size[d] = a /\ a < m /\ a < l /\ g[d] # h[d]
  BY <1>1
<1>3. \A e \in D : size[e] < size[d] => g[e] = h[e]
  <2> TAKE e \in D
  <2> HAVE size[e] < size[d]
  <2>1. size[e] \in Nat /\ size[e] < a /\ a \in Nat
    BY <1>2, <1>1 DEF Recursive
  <2>2. size[e] \notin bad
    BY <1>1, <2>1
  <2> QED BY <1>2, <2>1, <2>2
<1>4. F[<<d, g>>] = F[<<d, h>>]
  BY <1>3 DEF Recursive
<1> QED BY <1>2, <1>4 DEF Below

\* A function that is as the recursion says for one size more.
LEMMA BelowMore ==
  ASSUME NEW D, NEW B, NEW size, NEW F, Recursive(D, B, size, F),
         NEW g \in [D -> B], NEW m \in Nat, Below(D, size, F, g, m)
  PROVE  \E h \in [D -> B] : Below(D, size, F, h, m + 1)
<1> DEFINE h == [d \in D |-> F[<<d, g>>]]
<1>1. h \in [D -> B]
  BY DEF Recursive
<1>2. ASSUME NEW d \in D, size[d] < m + 1 PROVE h[d] = F[<<d, h>>]
  <2>1. \A e \in D : size[e] < size[d] => h[e] = g[e]
    BY <1>2 DEF Below, Recursive
  <2>2. F[<<d, h>>] = F[<<d, g>>]
    BY <1>1, <2>1 DEF Recursive
  <2> QED BY <2>2
<1> HIDE DEF h
<1> QED BY <1>1, <1>2 DEF Below

\* There is one for every size.
LEMMA BelowAll ==
  ASSUME NEW D, NEW B, NEW size, NEW F, Recursive(D, B, size, F)
  PROVE  \A m \in Nat : \E g \in [D -> B] : Below(D, size, F, g, m)
<1> DEFINE bad == {m \in Nat : ~\E g \in [D -> B] : Below(D, size, F, g, m)}
<1> SUFFICES ASSUME bad # {} PROVE FALSE
  OBVIOUS
<1>1. PICK m \in bad : \A b \in bad : m <= b
  BY Least
<1>2. m # 0
  <2>1. PICK b : b \in B
    BY DEF Recursive
  <2>2. [d \in D |-> b] \in [D -> B]
    BY <2>1
  <2>3. Below(D, size, F, [d \in D |-> b], 0)
    BY DEF Below, Recursive
  <2> QED BY <1>1, <2>2, <2>3
<1>3. m - 1 \in Nat /\ m - 1 \notin bad /\ m - 1 + 1 = m
  <2>1. m \in Nat /\ m - 1 \in Nat /\ m - 1 + 1 = m /\ ~(m <= m - 1)
    BY <1>1, <1>2
  <2> QED BY <1>1, <2>1
<1>4. PICK g \in [D -> B] : Below(D, size, F, g, m - 1)
  BY <1>3
<1>5. \E h \in [D -> B] : Below(D, size, F, h, m - 1 + 1)
  BY <1>3, <1>4, BelowMore
<1> QED BY <1>1, <1>3, <1>5

\* A function defined by such a recursion exists.
LEMMA Recursion ==
  ASSUME NEW D, NEW B, NEW size, NEW F, Recursive(D, B, size, F)
  PROVE  \E f \in [D -> B] : \A d \in D : f[d] = F[<<d, f>>]
<1> DEFINE G(m) == CHOOSE g \in [D -> B] : Below(D, size, F, g, m)
<1>1. \A m \in Nat : G(m) \in [D -> B] /\ Below(D, size, F, G(m), m)
  BY BelowAll
<1> HIDE DEF G
<1>2. \A m, l \in Nat, g, h \in [D -> B] :
        Below(D, size, F, g, m) /\ Below(D, size, F, h, l)
          => \A d \in D : size[d] < m /\ size[d] < l => g[d] = h[d]
  BY BelowSame
<1> DEFINE f == [d \in D |-> G(size[d] + 1)[d]]
<1>3. f \in [D -> B]
  <2>1. \A d \in D : size[d] + 1 \in Nat
    BY DEF Recursive
  <2> QED BY <1>1, <2>1
<1>4. ASSUME NEW d \in D PROVE f[d] = F[<<d, f>>]
  <2>1. size[d] \in Nat /\ size[d] + 1 \in Nat /\ size[d] < size[d] + 1
    BY DEF Recursive
  <2> DEFINE g == G(size[d] + 1)
  <2>2. g \in [D -> B] /\ Below(D, size, F, g, size[d] + 1)
    BY <1>1, <2>1
  <2>3. f[d] = g[d] /\ g[d] = F[<<d, g>>]
    BY <2>1, <2>2 DEF Below
  <2>4. ASSUME NEW e \in D, size[e] < size[d] PROVE f[e] = g[e]
    <3>1. size[e] + 1 \in Nat /\ size[e] < size[e] + 1 /\ size[e] < size[d] + 1
      BY <2>1, <2>4 DEF Recursive
    <3>2. /\ G(size[e] + 1) \in [D -> B]
          /\ Below(D, size, F, G(size[e] + 1), size[e] + 1)
      BY <1>1, <3>1
    <3>3. \A x \in D : size[x] < size[e] + 1 /\ size[x] < size[d] + 1 => G(size[e] + 1)[x] = g[x]
      BY <1>2, <2>1, <2>2, <3>1, <3>2
    <3>4. G(size[e] + 1)[e] = g[e]
      BY <3>1, <3>3
    <3> QED BY <3>4 DEF f
  <2> HIDE DEF g, f
  <2>5. F[<<d, f>>] = F[<<d, g>>]
    BY <1>3, <2>2, <2>4 DEF Recursive
  <2> QED BY <2>3, <2>5
<1> HIDE DEF f
<1> QED BY <1>3, <1>4

-----------------------------------------------------------------------------
(* The largest and the least number of a set.                               *)
\* Min's least number.
LEMMA MinIs ==
  ASSUME NEW S, S \subseteq Nat, S # {}
  PROVE  Min(S) \in S /\ \A x \in S : Min(S) <= x
BY Least DEF Min

\* Max's largest number, of a set that has a bound.
LEMMA MaxIs ==
  ASSUME NEW S, S \subseteq Nat, S # {}, NEW b \in Nat, \A x \in S : x <= b
  PROVE  Max(S) \in S /\ \A x \in S : x <= Max(S)
<1> DEFINE rest == {b - x : x \in S}
<1>1. rest \subseteq Nat /\ rest # {}
  <2>1. \A x \in S : b - x \in Nat
    OBVIOUS
  <2> QED BY <2>1
<1>2. PICK a \in rest : \A y \in rest : a <= y
  BY <1>1, Least
<1>3. PICK m \in S : a = b - m
  BY <1>2
<1>4. \A x \in S : m >= x
  <2> TAKE x \in S
  <2>1. b - m <= b - x /\ x \in Nat /\ m \in Nat
    BY <1>2, <1>3
  <2> QED BY <2>1
<1>5. Max(S) \in S /\ \A x \in S : Max(S) >= x
  BY <1>4, Zenon DEF Max
<1>6. \A x \in S : x \in Nat
  OBVIOUS
<1> QED BY <1>5, <1>6

\* The largest of the first m numbers.
LEMMA MaxOfInterval ==
  ASSUME NEW m \in Nat \ {0}
  PROVE  Max(1 .. m) = m /\ (1 .. m) \ {m} = 1 .. m - 1 /\ 1 .. m # {}
<1>1. m \in 1 .. m /\ 1 .. m \subseteq Nat /\ \A x \in 1 .. m : x <= m
  OBVIOUS
<1>2. Max(1 .. m) \in 1 .. m /\ \A x \in 1 .. m : x <= Max(1 .. m)
  BY <1>1, MaxIs
<1>3. (1 .. m) \ {m} = 1 .. m - 1
  OBVIOUS
<1>4. \A x \in 1 .. m : m <= x => x = m
  OBVIOUS
<1> QED BY <1>1, <1>2, <1>3, <1>4

-----------------------------------------------------------------------------
(* FoldLeft goes through a sequence from its first element on.              *)
LEMMA LessWithoutMax ==
  ASSUME NEW m \in Nat, NEW S \in SUBSET (1 .. m)
  PROVE  /\ IsFiniteSet(S) /\ Cardinality(S) \in Nat
         /\ S # {} => /\ Max(S) \in S /\ S \ {Max(S)} \in SUBSET (1 .. m)
                      /\ Cardinality(S \ {Max(S)}) < Cardinality(S)
<1>1. IsFiniteSet(S) /\ Cardinality(S) \in Nat
  <2>1. IsFiniteSet(1 .. m)
    BY FS_Interval
  <2> QED BY <2>1, FS_Subset, FS_CardinalityType
<1>2. ASSUME S # {}
      PROVE  /\ Max(S) \in S /\ S \ {Max(S)} \in SUBSET (1 .. m)
             /\ Cardinality(S \ {Max(S)}) < Cardinality(S)
  <2>1. S \subseteq Nat /\ \A x \in S : x <= m
    OBVIOUS
  <2>2. Max(S) \in S
    BY <1>2, <2>1, MaxIs
  <2>3. /\ IsFiniteSet(S \ {Max(S)})
        /\ Cardinality(S \ {Max(S)}) = IF Max(S) \in S THEN Cardinality(S) - 1 ELSE Cardinality(S)
    BY <1>1, FS_RemoveElement
  <2>4. Cardinality(S \ {Max(S)}) = Cardinality(S) - 1
    BY <2>2, <2>3
  <2>5. Cardinality(S) - 1 < Cardinality(S)
    BY <1>1
  <2> QED BY <2>2, <2>4, <2>5
<1> QED BY <1>1, <1>2

Step(m, B, base, F) == m \in Nat /\ base \in B /\ F \in [B \X (1 .. m) -> B]

IsFold(m, base, F, f) ==
  \A S \in SUBSET (1 .. m) :
    f[S] = IF S = {} THEN base ELSE F[<<f[S \ {Max(S)}], Max(S)>>]

\* The function over sets of places that a fold defines.
LEMMA FoldExists ==
  ASSUME NEW m, NEW B, NEW base, NEW F, Step(m, B, base, F)
  PROVE  \E f \in [SUBSET (1 .. m) -> B] : IsFold(m, base, F, f)
<1>0. m \in Nat /\ base \in B /\ F \in [B \X (1 .. m) -> B]
  BY DEF Step
<1> DEFINE D == SUBSET (1 .. m)
           size == [S \in D |-> Cardinality(S)]
           G == [y \in D \X [D -> B] |->
                   IF y[1] = {} THEN base ELSE F[<<y[2][y[1] \ {Max(y[1])}], Max(y[1])>>]]
<1>1. \A S \in D : Cardinality(S) \in Nat
  BY <1>0, LessWithoutMax
<1>2. size \in [D -> Nat] /\ \A S \in D : size[S] = Cardinality(S)
  BY <1>1
<1>3. \A S \in D : S # {} => Max(S) \in 1 .. m /\ S \ {Max(S)} \in D
                             /\ size[S \ {Max(S)}] < size[S]
  BY <1>0, <1>2, LessWithoutMax
<1> HIDE DEF D, size
<1>4. \A S \in D, g \in [D -> B] :
        /\ G[<<S, g>>] = IF S = {} THEN base ELSE F[<<g[S \ {Max(S)}], Max(S)>>]
        /\ G[<<S, g>>] \in B
  BY <1>0, <1>3
<1>5. G \in [D \X [D -> B] -> B]
  BY <1>0, <1>3
<1> HIDE DEF G
<1>6. Recursive(D, B, size, G)
  <2>1. ASSUME NEW S \in D, NEW g \in [D -> B], NEW h \in [D -> B],
               \A e \in D : size[e] < size[S] => g[e] = h[e]
        PROVE  G[<<S, g>>] = G[<<S, h>>]
    <3>1. S # {} => g[S \ {Max(S)}] = h[S \ {Max(S)}]
      BY <1>3, <2>1
    <3> QED BY <1>4, <3>1
  <2>2. B # {}
    BY <1>0
  <2> QED BY <1>2, <1>5, <2>1, <2>2 DEF Recursive
<1>7. \E f \in [D -> B] : \A S \in D : f[S] = G[<<S, f>>]
  BY <1>6, Recursion
<1> QED BY <1>4, <1>7 DEF D, IsFold

\* it is the fold as long as its values are in B.
Follows(m, B, base, F, it) ==
  /\ it[{}] = base
  /\ \A S \in SUBSET (1 .. m) : S # {} /\ it[S \ {Max(S)}] \in B
       => it[S] = F[<<it[S \ {Max(S)}], Max(S)>>]

\* What a fold makes of the first elements, one more at a time.
LEMMA FoldRuns ==
  ASSUME NEW m, NEW B, NEW base, NEW F, NEW it,
         Step(m, B, base, F), Follows(m, B, base, F, it)
  PROVE  \E after \in [0 .. m -> B] :
           /\ after[0] = base /\ it[1 .. m] = after[m]
           /\ \A j \in 1 .. m : after[j] = F[<<after[j - 1], j>>]
<1>0. m \in Nat /\ base \in B /\ F \in [B \X (1 .. m) -> B]
  BY DEF Step
<1> DEFINE bad == {j \in 0 .. m : it[1 .. j] \notin B}
<1>1. it[1 .. 0] = base
  <2>1. 1 .. 0 = {}
    OBVIOUS
  <2> QED BY <2>1 DEF Follows
<1>2. ASSUME NEW j \in 1 .. m, it[1 .. j - 1] \in B
      PROVE  it[1 .. j] = F[<<it[1 .. j - 1], j>>] /\ it[1 .. j] \in B
  <2>1. j \in Nat \ {0}
    BY <1>0
  <2>2. Max(1 .. j) = j /\ (1 .. j) \ {j} = 1 .. j - 1 /\ 1 .. j # {}
    BY <2>1, MaxOfInterval
  <2>3. 1 .. j \in SUBSET (1 .. m)
    BY <1>0
  <2>4. it[1 .. j] = F[<<it[1 .. j - 1], j>>]
    BY <1>2, <2>2, <2>3 DEF Follows
  <2> QED BY <1>0, <1>2, <2>4
<1>3. bad = {}
  <2> SUFFICES ASSUME bad # {} PROVE FALSE
    OBVIOUS
  <2>1. bad \subseteq Nat
    BY <1>0
  <2>2. PICK j \in bad : \A e \in bad : j <= e
    BY <2>1, Least
  <2>3. j \in 1 .. m
    BY <1>0, <1>1, <2>2
  <2>4. j - 1 \in 0 .. m /\ ~(j <= j - 1)
    BY <1>0, <2>3
  <2>5. it[1 .. j - 1] \in B
    BY <2>2, <2>4
  <2> QED BY <1>2, <2>2, <2>3, <2>5
<1> DEFINE after == [j \in 0 .. m |-> it[1 .. j]]
<1>4. after \in [0 .. m -> B]
  BY <1>3
<1>5. after[0] = base /\ it[1 .. m] = after[m]
  BY <1>0, <1>1
<1>6. ASSUME NEW j \in 1 .. m PROVE after[j] = F[<<after[j - 1], j>>]
  <2>1. j \in 0 .. m /\ j - 1 \in 0 .. m
    BY <1>0
  <2> QED BY <1>2, <1>3, <2>1
<1> HIDE DEF after
<1> QED BY <1>4, <1>5, <1>6

-----------------------------------------------------------------------------
(* lengthOfLongestSubstring.                                                *)
LEMMA OfTwo ==
  ASSUME NEW a \in Int, NEW b \in Int
  PROVE  /\ Max({a, b}) = (IF a >= b THEN a ELSE b)
         /\ Min({a, b}) = (IF a <= b THEN a ELSE b)
<1>1. \A x \in {a, b} : (\A y \in {a, b} : x >= y) <=> x = IF a >= b THEN a ELSE b
  OBVIOUS
<1>2. \A x \in {a, b} : (\A y \in {a, b} : x <= y) <=> x = IF a <= b THEN a ELSE b
  OBVIOUS
<1>3. (IF a >= b THEN a ELSE b) \in {a, b} /\ (IF a <= b THEN a ELSE b) \in {a, b}
  OBVIOUS
<1>4. Max({a, b}) = IF a >= b THEN a ELSE b
  BY <1>1, <1>3 DEF Max
<1>5. Min({a, b}) = IF a <= b THEN a ELSE b
  BY <1>2, <1>3 DEF Min
<1> QED BY <1>4, <1>5

\* What the loop does with one character.
LongestStep(t, st, end) ==
  LET start == WindowStart(t, st, end)
  IN  [start |-> start, map |-> st.map \cup {t[end]},
       maxlength |-> Max({st.maxlength, end - start + 1})]

LongestStates(X) == [start : Nat, map : SUBSET X, maxlength : Nat]

\* What one step of the loop leaves.
LEMMA LongestStepType ==
  ASSUME NEW X, NEW t \in Seq(X), NEW st \in LongestStates(X), NEW end \in 1 .. Len(t)
  PROVE  /\ WindowStart(t, st, end) \in Nat
         /\ LongestStep(t, st, end) \in LongestStates(X)
<1>1. st.start \in Nat /\ st.map \subseteq X /\ st.maxlength \in Nat /\ end \in Nat
  BY DEF LongestStates
<1>2. Again(t, st.start, end) \subseteq Nat
  BY <1>1 DEF Again
<1>3. Again(t, st.start, end) # {} => Min(Again(t, st.start, end)) \in Nat
  BY <1>2, MinIs
<1>4. WindowStart(t, st, end) \in Nat
  BY <1>1, <1>3 DEF WindowStart
<1>5. end - WindowStart(t, st, end) + 1 \in Int
  BY <1>1, <1>4
<1>6. Max({st.maxlength, end - WindowStart(t, st, end) + 1}) \in Nat
  BY <1>1, <1>5, OfTwo
<1>7. t[end] \in X
  OBVIOUS
<1> QED BY <1>1, <1>4, <1>6, <1>7 DEF LongestStep, LongestStates

\* The states of the loop.
LEMMA LongestFold ==
  ASSUME NEW X, NEW t \in Seq(X)
  PROVE  \E after \in [0 .. Len(t) -> LongestStates(X)] :
           /\ after[0] = longestState
           /\ \A end \in 1 .. Len(t) : after[end] = LongestStep(t, after[end - 1], end)
           /\ lengthOfLongestSubstring(t) = after[Len(t)].maxlength
<1> DEFINE m == Len(t)
           B == LongestStates(X)
           seq == [end \in 1 .. Len(t) |-> end]
           Is(it) == it = [S \in SUBSET DOMAIN seq |->
                             IF S = {} THEN longestState
                             ELSE LongestStep(t, it[S \ {Max(S)}], seq[Max(S)])]
           F == [y \in B \X (1 .. m) |-> LongestStep(t, y[1], y[2])]
<1>1. lengthOfLongestSubstring(t) = (CHOOSE it : Is(it))[DOMAIN seq].maxlength
  BY DEF lengthOfLongestSubstring, FoldLeft, MapThenFoldSet, LongestStep
<1>2. m \in Nat /\ DOMAIN seq = 1 .. m /\ \A x \in 1 .. m : seq[x] = x
  OBVIOUS
<1>3. longestState \in B
  BY DEF longestState, LongestStates
<1>4. F \in [B \X (1 .. m) -> B] /\ \A b \in B, x \in 1 .. m : F[<<b, x>>] = LongestStep(t, b, x)
  BY LongestStepType
<1> HIDE DEF m, B, seq, F
<1>5. \A S \in SUBSET (1 .. m) : S # {} => Max(S) \in 1 .. m /\ S \ {Max(S)} \in SUBSET (1 .. m)
  <2> TAKE S \in SUBSET (1 .. m)
  <2> HAVE S # {}
  <2>1. Max(S) \in S /\ S \ {Max(S)} \in SUBSET (1 .. m)
    BY <1>2, LessWithoutMax
  <2> QED BY <2>1
<1>6. Step(m, B, longestState, F)
  BY <1>2, <1>3, <1>4 DEF Step
<1>7. PICK f \in [SUBSET (1 .. m) -> B] : IsFold(m, longestState, F, f)
  BY <1>6, FoldExists
<1>8. Is(f)
  <2>1. \A S \in SUBSET (1 .. m) :
          f[S] = IF S = {} THEN longestState
                 ELSE LongestStep(t, f[S \ {Max(S)}], seq[Max(S)])
    <3> TAKE S \in SUBSET (1 .. m)
    <3>1. f[S] = IF S = {} THEN longestState ELSE F[<<f[S \ {Max(S)}], Max(S)>>]
      BY <1>7 DEF IsFold
    <3>2. S # {} => /\ seq[Max(S)] = Max(S)
                    /\ F[<<f[S \ {Max(S)}], Max(S)>>] = LongestStep(t, f[S \ {Max(S)}], Max(S))
      BY <1>2, <1>4, <1>5
    <3> QED BY <3>1, <3>2
  <2> QED BY <1>2, <2>1
<1>9. PICK it : it = CHOOSE u : Is(u)
  OBVIOUS
<1>10. Is(it)
  BY <1>8, <1>9
<1>11. it[{}] = longestState
  BY <1>2, <1>10
<1>12. \A S \in SUBSET (1 .. m) : S # {} /\ it[S \ {Max(S)}] \in B
         => it[S] = F[<<it[S \ {Max(S)}], Max(S)>>]
  <2> TAKE S \in SUBSET (1 .. m)
  <2> HAVE S # {} /\ it[S \ {Max(S)}] \in B
  <2>1. Max(S) \in 1 .. m /\ seq[Max(S)] = Max(S)
    BY <1>2, <1>5
  <2>2. it[S] = LongestStep(t, it[S \ {Max(S)}], seq[Max(S)])
    BY <1>2, <1>10
  <2> QED BY <1>4, <2>1, <2>2
<1> HIDE DEF Is
<1>13. PICK after \in [0 .. m -> B] :
         /\ after[0] = longestState /\ it[1 .. m] = after[m]
         /\ \A j \in 1 .. m : after[j] = F[<<after[j - 1], j>>]
  <2>1. Follows(m, B, longestState, F, it)
    BY <1>11, <1>12 DEF Follows
  <2> QED BY <1>6, <2>1, FoldRuns
<1>14. \A j \in 1 .. m : after[j] = LongestStep(t, after[j - 1], j)
  <2> TAKE j \in 1 .. m
  <2>1. j - 1 \in 0 .. m
    BY <1>2
  <2>2. after[j - 1] \in B
    BY <2>1
  <2> QED BY <1>4, <1>13, <2>2
<1>15. lengthOfLongestSubstring(t) = after[m].maxlength
  BY <1>1, <1>2, <1>9, <1>13
<1> QED BY <1>13, <1>14, <1>15 DEF B, m

\* No character is twice between the places a and b.
Distinct(t, a, b) == \A x, y \in a .. b : t[x] = t[y] => x = y

\* The window starts as early as it can, and the longest one is known.
Longest(t, end, st) ==
  /\ st.start \in 1 .. end + 1 /\ st.map = {t[x] : x \in 1 .. end}
  /\ Distinct(t, st.start, end)
  /\ st.start > 1 => \E x \in st.start .. end : t[x] = t[st.start - 1]
  /\ st.maxlength \in Nat
  /\ \E a \in 1 .. end + 1 : \E b \in a - 1 .. end :
       Distinct(t, a, b) /\ st.maxlength = b - a + 1
  /\ \A a, b \in 1 .. end : a <= b /\ Distinct(t, a, b) => b - a + 1 <= st.maxlength

\* The new start lies in the window, which has no character twice and cannot begin earlier.
LEMMA StartIs ==
  ASSUME NEW X, NEW t \in Seq(X), NEW end \in 1 .. Len(t), NEW st \in LongestStates(X),
         Longest(t, end - 1, st)
  PROVE  /\ WindowStart(t, st, end) \in st.start .. end
         /\ Distinct(t, WindowStart(t, st, end), end)
         /\ WindowStart(t, st, end) > 1 =>
              \E x \in WindowStart(t, st, end) .. end : t[x] = t[WindowStart(t, st, end) - 1]
<1>1. /\ st.start \in 1 .. end /\ end \in Nat /\ st.map = {t[x] : x \in 1 .. end - 1}
      /\ Distinct(t, st.start, end - 1)
      /\ st.start > 1 => \E x \in st.start .. end - 1 : t[x] = t[st.start - 1]
  BY DEF Longest
<1> DEFINE A == Again(t, st.start, end)
           w == WindowStart(t, st, end)
<1>2. \A x : x \in A <=> x \in st.start .. end - 1 /\ t[x] = t[end]
  BY DEF Again
<1>3. A # {} => t[end] \in st.map
  BY <1>1, <1>2
<1>4. CASE A = {}
  <2>1. w = st.start
    BY <1>4 DEF WindowStart
  <2>2. Distinct(t, st.start, end)
    <3> SUFFICES ASSUME NEW x \in st.start .. end, NEW y \in st.start .. end, t[x] = t[y]
                 PROVE  x = y
      BY DEF Distinct
    <3>1. CASE x = end \/ y = end
      BY <1>1, <1>2, <1>4, <3>1
    <3>2. CASE x # end /\ y # end
      BY <1>1, <3>2 DEF Distinct
    <3> QED BY <3>1, <3>2
  <2>3. st.start > 1 => \E x \in st.start .. end : t[x] = t[st.start - 1]
    BY <1>1
  <2> HIDE DEF w
  <2> QED BY <1>1, <2>1, <2>2, <2>3 DEF w
<1>5. CASE A # {}
  <2>1. A \subseteq Nat
    BY <1>1, <1>2
  <2>2. PICK x \in A : x = Min(A)
    BY <1>5, <2>1, MinIs
  <2>3. w = x + 1
    BY <1>3, <1>5, <2>2 DEF WindowStart
  <2>4. x \in st.start .. end - 1 /\ t[x] = t[end]
    BY <1>2
  <2>5. Distinct(t, x + 1, end)
    <3> SUFFICES ASSUME NEW y \in x + 1 .. end, NEW z \in x + 1 .. end, t[y] = t[z]
                 PROVE  y = z
      BY DEF Distinct
    <3>1. \A u \in x + 1 .. end - 1 : t[u] # t[end]
      BY <1>1, <2>4 DEF Distinct
    <3>2. CASE y = end \/ z = end
      BY <1>1, <2>4, <3>1, <3>2
    <3>3. CASE y # end /\ z # end
      BY <1>1, <2>4, <3>3 DEF Distinct
    <3> QED BY <3>2, <3>3
  <2>6. x + 1 \in st.start .. end /\ end \in x + 1 .. end /\ x + 1 - 1 = x
    BY <1>1, <2>4
  <2> HIDE DEF w
  <2> QED BY <2>3, <2>4, <2>5, <2>6 DEF w
<1> QED BY <1>4, <1>5

\* A character more keeps what the loop has found.
LEMMA LongestKept ==
  ASSUME NEW X, NEW t \in Seq(X), NEW end \in 1 .. Len(t), NEW st \in LongestStates(X),
         Longest(t, end - 1, st)
  PROVE  Longest(t, end, LongestStep(t, st, end))
<1>1. /\ st.start \in 1 .. end /\ end \in Nat /\ st.map = {t[x] : x \in 1 .. end - 1}
      /\ st.maxlength \in Nat
  BY DEF Longest
<1>2. PICK w : w = WindowStart(t, st, end)
  OBVIOUS
<1>3. /\ w \in st.start .. end /\ Distinct(t, w, end)
      /\ w > 1 => \E x \in w .. end : t[x] = t[w - 1]
  BY <1>2, StartIs
<1>4. PICK l : l = LongestStep(t, st, end)
  OBVIOUS
<1>5. l.start = w /\ l.map = st.map \cup {t[end]} /\ l.maxlength = Max({st.maxlength, end - w + 1})
  BY <1>2, <1>4 DEF LongestStep
<1>6. l.maxlength = IF st.maxlength >= end - w + 1 THEN st.maxlength ELSE end - w + 1
  <2>1. end - w + 1 \in Int /\ st.maxlength \in Int
    BY <1>1, <1>3
  <2> QED BY <1>5, <2>1, OfTwo
<1>7. l.maxlength \in Nat /\ st.maxlength <= l.maxlength /\ end - w + 1 <= l.maxlength
  BY <1>1, <1>3, <1>6
<1>8. l.map = {t[x] : x \in 1 .. end}
  BY <1>1, <1>5
<1>9. \E a \in 1 .. end + 1 : \E b \in a - 1 .. end : Distinct(t, a, b) /\ l.maxlength = b - a + 1
  <2>1. CASE l.maxlength = end - w + 1
    <3>1. w \in 1 .. end + 1 /\ end \in w - 1 .. end
      BY <1>1, <1>3
    <3> QED BY <1>3, <2>1, <3>1
  <2>2. CASE l.maxlength = st.maxlength
    <3>1. PICK a \in 1 .. end : \E b \in a - 1 .. end - 1 :
            Distinct(t, a, b) /\ st.maxlength = b - a + 1
      BY <1>1 DEF Longest
    <3>2. PICK b \in a - 1 .. end - 1 : Distinct(t, a, b) /\ st.maxlength = b - a + 1
      BY <3>1
    <3>3. a \in 1 .. end + 1 /\ b \in a - 1 .. end
      BY <1>1
    <3> QED BY <2>2, <3>2, <3>3
  <2> QED BY <1>6, <2>1, <2>2
<1>10. ASSUME NEW a \in 1 .. end, NEW b \in 1 .. end, a <= b, Distinct(t, a, b)
       PROVE  b - a + 1 <= l.maxlength
  <2>1. CASE b = end
    <3>1. a >= w
      <4> SUFFICES ASSUME a < w PROVE FALSE
        BY <1>1, <1>3
      <4>1. PICK x \in w .. end : t[x] = t[w - 1]
        BY <1>1, <1>3
      <4>2. x \in a .. b /\ w - 1 \in a .. b /\ x # w - 1
        BY <1>1, <1>3, <2>1
      <4> QED BY <1>10, <4>1, <4>2 DEF Distinct
    <3> QED BY <1>1, <1>3, <1>7, <2>1, <3>1
  <2>2. CASE b # end
    <3>1. a \in 1 .. end - 1 /\ b \in 1 .. end - 1
      BY <1>1, <1>10, <2>2
    <3>2. b - a + 1 <= st.maxlength
      BY <1>10, <3>1 DEF Longest
    <3> QED BY <1>1, <1>7, <3>1, <3>2
  <2> QED BY <2>1, <2>2
<1>11. l.start \in 1 .. end + 1
  BY <1>1, <1>3, <1>5
<1> QED BY <1>3, <1>4, <1>5, <1>7, <1>8, <1>9, <1>10, <1>11 DEF Longest

\* The loop's result is the length of a window, and of no shorter one than any other.
LEMMA LongestFound ==
  ASSUME NEW X, NEW t \in Seq(X)
  PROVE  /\ lengthOfLongestSubstring(t) \in 0 .. Len(t)
         /\ \E a \in 1 .. Len(t) + 1 : \E b \in a - 1 .. Len(t) :
              Distinct(t, a, b) /\ lengthOfLongestSubstring(t) = b - a + 1
         /\ \A a, b \in 1 .. Len(t) :
              a <= b /\ Distinct(t, a, b) => b - a + 1 <= lengthOfLongestSubstring(t)
<1> DEFINE m == Len(t)
<1>1. m \in Nat
  OBVIOUS
<1>2. PICK after \in [0 .. m -> LongestStates(X)] :
        /\ after[0] = longestState
        /\ \A end \in 1 .. m : after[end] = LongestStep(t, after[end - 1], end)
        /\ lengthOfLongestSubstring(t) = after[m].maxlength
  BY LongestFold
<1> DEFINE bad == {end \in 0 .. m : ~Longest(t, end, after[end])}
<1>3. Longest(t, 0, after[0])
  <2>1. /\ longestState.start = 1 /\ longestState.map = {} /\ longestState.maxlength = 0
    BY DEF longestState
  <2>2. Distinct(t, 1, 0) /\ 1 \in 1 .. 0 + 1 /\ 0 \in 1 - 1 .. 0
    BY DEF Distinct
  <2> QED BY <1>2, <2>1, <2>2 DEF Longest
<1>4. bad = {}
  <2> SUFFICES ASSUME bad # {} PROVE FALSE
    OBVIOUS
  <2>1. bad \subseteq Nat
    BY <1>1
  <2>2. PICK end \in bad : \A e \in bad : end <= e
    BY <2>1, Least
  <2>3. end \in 1 .. m
    BY <1>1, <1>3, <2>2
  <2>4. end - 1 \in 0 .. m /\ ~(end <= end - 1)
    BY <1>1, <2>3
  <2>5. Longest(t, end - 1, after[end - 1]) /\ after[end - 1] \in LongestStates(X)
    BY <2>2, <2>4
  <2>6. Longest(t, end, LongestStep(t, after[end - 1], end))
    BY <2>3, <2>5, LongestKept
  <2> QED BY <1>2, <2>2, <2>3, <2>6
<1>5. PICK st : st = after[m]
  OBVIOUS
<1>6. Longest(t, m, st)
  <2>1. m \in 0 .. m
    BY <1>1
  <2> QED BY <1>4, <1>5, <2>1
<1>7. PICK a \in 1 .. m + 1 : \E b \in a - 1 .. m : Distinct(t, a, b) /\ st.maxlength = b - a + 1
  BY <1>6 DEF Longest
<1>8. st.maxlength \in 0 .. m
  BY <1>1, <1>7
<1> QED BY <1>2, <1>5, <1>6, <1>7, <1>8 DEF Longest

-----------------------------------------------------------------------------
(* Windows.                                                                 *)
LEMMA WindowIs ==
  ASSUME NEW X, NEW t \in Seq(X), NEW a \in 1 .. Len(t) + 1, NEW b \in 0 .. Len(t)
  PROVE  /\ SubSeq(t, a, b) \in Seq(X)
         /\ Len(SubSeq(t, a, b)) = (IF a <= b THEN b - a + 1 ELSE 0)
         /\ DOMAIN SubSeq(t, a, b) = 1 .. Len(SubSeq(t, a, b))
         /\ \A x \in 1 .. Len(SubSeq(t, a, b)) : SubSeq(t, a, b)[x] = t[a + x - 1]
<1>1. \A x \in a .. b : t[x] \in X
  OBVIOUS
<1>2. CASE a <= b
  <2>1. /\ SubSeq(t, a, b) \in Seq(X) /\ Len(SubSeq(t, a, b)) = b - a + 1
        /\ \A x \in 1 .. b - a + 1 : SubSeq(t, a, b)[x] = t[a + x - 1]
    BY <1>1, <1>2
  <2> QED BY <1>2, <2>1
<1>3. CASE ~(a <= b)
  <2>1. SubSeq(t, a, b) = <<>>
    BY <1>3
  <2> QED BY <1>3, <2>1
<1> QED BY <1>2, <1>3

\* The result is the length of the longest window without a repetition.
THEOREM LongestWindow ==
  ASSUME NEW X, NEW t \in Seq(X)
  PROVE  IsLongestWindow(t, lengthOfLongestSubstring(t))
<1> DEFINE W == {v \in Windows(t) : \A x, y \in DOMAIN v : v[x] = v[y] => x = y}
           L == {Len(w) : w \in W}
           m == Len(t)
<1>1. m \in Nat
  OBVIOUS
<1>2. PICK r \in 0 .. m :
        /\ r = lengthOfLongestSubstring(t)
        /\ \E a \in 1 .. m + 1 : \E b \in a - 1 .. m : Distinct(t, a, b) /\ r = b - a + 1
        /\ \A a, b \in 1 .. m : a <= b /\ Distinct(t, a, b) => b - a + 1 <= r
  BY LongestFound
<1>3. r \in L
  <2>1. PICK a \in 1 .. m + 1 : \E b \in a - 1 .. m : Distinct(t, a, b) /\ r = b - a + 1
    BY <1>2
  <2>2. PICK b \in a - 1 .. m : Distinct(t, a, b) /\ r = b - a + 1
    BY <2>1
  <2>3. PICK w : w = SubSeq(t, a, b)
    OBVIOUS
  <2>4. b \in 0 .. m
    BY <1>1
  <2>5. Len(w) = r /\ DOMAIN w = 1 .. r /\ \A x \in 1 .. r : w[x] = t[a + x - 1]
    BY <1>1, <2>2, <2>3, <2>4, WindowIs
  <2>6. \A x, y \in DOMAIN w : w[x] = w[y] => x = y
    <3> SUFFICES ASSUME NEW x \in 1 .. r, NEW y \in 1 .. r, w[x] = w[y] PROVE x = y
      BY <2>5
    <3>1. a + x - 1 \in a .. b /\ a + y - 1 \in a .. b /\ x \in Int /\ y \in Int
      BY <1>1, <2>2
    <3>2. a + x - 1 = a + y - 1
      BY <2>2, <2>5, <3>1 DEF Distinct
    <3> QED BY <1>1, <3>1, <3>2
  <2>7. w \in Windows(t)
    BY <2>3, <2>4 DEF Windows
  <2> QED BY <2>5, <2>6, <2>7
<1>4. ASSUME NEW l \in L PROVE l \in Nat /\ l <= r
  <2>1. PICK w \in W : l = Len(w)
    OBVIOUS
  <2>2. PICK a \in 1 .. m + 1, b \in 0 .. m : w = SubSeq(t, a, b)
    BY <2>1 DEF Windows
  <2>3. /\ l = (IF a <= b THEN b - a + 1 ELSE 0) /\ DOMAIN w = 1 .. l
        /\ \A x \in 1 .. l : w[x] = t[a + x - 1]
    BY <2>1, <2>2, WindowIs
  <2>4. CASE a <= b
    <3>1. l = b - a + 1 /\ a \in 1 .. m /\ b \in 1 .. m
      BY <1>1, <2>3, <2>4
    <3>2. Distinct(t, a, b)
      <4> SUFFICES ASSUME NEW x \in a .. b, NEW y \in a .. b, t[x] = t[y] PROVE x = y
        BY DEF Distinct
      <4>1. x - a + 1 \in 1 .. l /\ y - a + 1 \in 1 .. l
            /\ a + (x - a + 1) - 1 = x /\ a + (y - a + 1) - 1 = y /\ x \in Int /\ y \in Int
        BY <1>1, <3>1
      <4>2. w[x - a + 1] = w[y - a + 1]
        BY <2>3, <4>1
      <4>3. x - a + 1 = y - a + 1
        BY <2>3, <4>1, <4>2
      <4> QED BY <1>1, <4>1, <4>3
    <3> QED BY <1>1, <1>2, <2>4, <3>1, <3>2
  <2>5. CASE ~(a <= b)
    BY <1>1, <2>3, <2>5
  <2> QED BY <2>4, <2>5
<1>5. L \subseteq Nat /\ L # {} /\ r \in Nat /\ \A l \in L : l <= r
  BY <1>1, <1>3, <1>4
<1> HIDE DEF L
<1>6. Max(L) \in L /\ \A l \in L : l <= Max(L)
  BY <1>5, MaxIs
<1>7. Max(L) = r
  <2>1. Max(L) \in Nat /\ Max(L) <= r /\ r <= Max(L)
    BY <1>3, <1>5, <1>6
  <2> QED BY <1>5, <2>1
<1> QED BY <1>2, <1>7 DEF L, IsLongestWindow

-----------------------------------------------------------------------------
(* longestPalindrome.                                                       *)
Mirrored(t, a, b) == \A x \in a .. b : t[x] = t[a + b - x]

\* A window is a palindrome when its characters are mirrored.
LEMMA PalindromeIs ==
  ASSUME NEW X, NEW t \in Seq(X), NEW a \in 1 .. Len(t), NEW b \in a .. Len(t)
  PROVE  SubSeq(t, a, b) = Reverse(SubSeq(t, a, b)) <=> Mirrored(t, a, b)
<1>1. PICK w : w = SubSeq(t, a, b)
  OBVIOUS
<1>2. PICK l \in Nat \ {0} : l = b - a + 1
  OBVIOUS
<1>3. w \in Seq(X) /\ Len(w) = l /\ DOMAIN w = 1 .. l /\ \A x \in 1 .. l : w[x] = t[a + x - 1]
  <2>1. a \in 1 .. Len(t) + 1 /\ b \in 0 .. Len(t) /\ a <= b
    OBVIOUS
  <2> QED BY <1>1, <1>2, <2>1, WindowIs
<1>4. Reverse(w) = [x \in 1 .. l |-> w[l - x + 1]]
  BY <1>3 DEF Reverse
<1>5. w = Reverse(w) <=> \A x \in 1 .. l : w[x] = w[l - x + 1]
  BY <1>3, <1>4
<1>6. ASSUME \A x \in 1 .. l : w[x] = w[l - x + 1] PROVE Mirrored(t, a, b)
  <2> SUFFICES ASSUME NEW x \in a .. b PROVE t[x] = t[a + b - x]
    BY DEF Mirrored
  <2>1. /\ x - a + 1 \in 1 .. l /\ l - (x - a + 1) + 1 \in 1 .. l
        /\ a + (x - a + 1) - 1 = x /\ a + (l - (x - a + 1) + 1) - 1 = a + b - x
    BY <1>2
  <2>2. w[x - a + 1] = w[l - (x - a + 1) + 1]
    BY <1>6, <2>1
  <2>3. w[x - a + 1] = t[a + (x - a + 1) - 1]
    BY <1>3, <2>1
  <2>4. w[l - (x - a + 1) + 1] = t[a + (l - (x - a + 1) + 1) - 1]
    BY <1>3, <2>1
  <2> QED BY <2>1, <2>2, <2>3, <2>4
<1>7. ASSUME Mirrored(t, a, b) PROVE \A x \in 1 .. l : w[x] = w[l - x + 1]
  <2> TAKE x \in 1 .. l
  <2>1. /\ a + x - 1 \in a .. b /\ l - x + 1 \in 1 .. l
        /\ a + b - (a + x - 1) = a + (l - x + 1) - 1
    BY <1>2
  <2>2. t[a + x - 1] = t[a + b - (a + x - 1)]
    BY <1>7, <2>1 DEF Mirrored
  <2> QED BY <1>3, <2>1, <2>2
<1> QED BY <1>1, <1>5, <1>6, <1>7

\* m characters on both sides are equal.
Around(t, c, gap, m) ==
  \A d \in 0 .. m - 1 : 1 <= c - d /\ c + d + gap <= Len(t) /\ t[c - d] = t[c + d + gap]

\* Steps is the largest number of characters that are equal on both sides.
LEMMA StepsAre ==
  ASSUME NEW X, NEW t \in Seq(X), NEW c \in 1 .. Len(t), NEW gap \in {0, 1}
  PROVE  /\ Steps(t, c, gap) \in 0 .. Len(t) /\ Around(t, c, gap, Steps(t, c, gap))
         /\ \A m \in 0 .. Len(t) : Around(t, c, gap, m) => m <= Steps(t, c, gap)
<1> DEFINE S == {m \in 0 .. Len(t) : Around(t, c, gap, m)}
<1>1. S \subseteq Nat /\ Len(t) \in Nat /\ \A x \in S : x <= Len(t)
  OBVIOUS
<1>2. 0 \in S
  BY DEF Around
<1>3. Max(S) \in S /\ \A x \in S : x <= Max(S)
  BY <1>1, <1>2, MaxIs
<1>4. Steps(t, c, gap) = Max(S)
  BY DEF Steps, Around
<1> QED BY <1>3, <1>4

\* Characters that are equal on both sides make a palindrome.
LEMMA AroundMirrors ==
  ASSUME NEW t, NEW c \in Int, NEW gap \in {0, 1}, NEW h \in Nat, Around(t, c, gap, h)
  PROVE  Mirrored(t, c - h + 1, c + h - 1 + gap)
<1> SUFFICES ASSUME NEW x \in c - h + 1 .. c + h - 1 + gap
             PROVE  t[x] = t[(c - h + 1) + (c + h - 1 + gap) - x]
  BY DEF Mirrored
<1>1. (c - h + 1) + (c + h - 1 + gap) - x = 2 * c + gap - x
  OBVIOUS
<1>2. CASE x <= c
  <2>1. c - x \in 0 .. h - 1 /\ c - (c - x) = x /\ c + (c - x) + gap = 2 * c + gap - x
    BY <1>2
  <2> QED BY <1>1, <2>1 DEF Around
<1>3. CASE ~(x <= c)
  <2>1. /\ x - c - gap \in 0 .. h - 1 /\ c - (x - c - gap) = 2 * c + gap - x
        /\ c + (x - c - gap) + gap = x
    BY <1>3
  <2> QED BY <1>1, <2>1 DEF Around
<1> QED BY <1>2, <1>3

\* Every palindrome has a middle, a character or a gap.
LEMMA MirrorsAround ==
  ASSUME NEW X, NEW t \in Seq(X), NEW a \in 1 .. Len(t), NEW b \in a .. Len(t), Mirrored(t, a, b)
  PROVE  \E c \in 1 .. Len(t), gap \in {0, 1}, h \in 0 .. Len(t) :
           Around(t, c, gap, h) /\ b - a + 1 = 2 * h - 1 + gap
<1>1. \E h \in Nat, gap \in {0, 1} : b - a + 1 = 2 * h - 1 + gap
  <2>1. \E h \in Nat : b - a = 2 * h \/ b - a = 2 * h + 1
    <3>1. b - a \in Nat
      OBVIOUS
    <3>2. \A x \in Nat : x = 2 * (x \div 2) \/ x = 2 * (x \div 2) + 1
      OBVIOUS
    <3>3. (b - a) \div 2 \in Nat
      BY <3>1
    <3> QED BY <3>1, <3>2, <3>3
  <2>2. PICK h \in Nat : b - a = 2 * h \/ b - a = 2 * h + 1
    BY <2>1
  <2>3. h + 1 \in Nat
    OBVIOUS
  <2>4. CASE b - a = 2 * h
    <3>1. b - a + 1 = 2 * (h + 1) - 1 + 0
      BY <2>4
    <3> QED BY <2>3, <3>1
  <2>5. CASE b - a = 2 * h + 1
    <3>1. b - a + 1 = 2 * (h + 1) - 1 + 1
      BY <2>5
    <3> QED BY <2>3, <3>1
  <2> QED BY <2>2, <2>4, <2>5
<1>2. PICK h \in Nat, gap \in {0, 1} : b - a + 1 = 2 * h - 1 + gap
  BY <1>1
<1>3. PICK c \in Int : c = a + h - 1
  OBVIOUS
<1>4. c \in 1 .. Len(t) /\ h \in 0 .. Len(t)
  BY <1>2, <1>3
<1>5. Around(t, c, gap, h)
  <2> SUFFICES ASSUME NEW d \in 0 .. h - 1
               PROVE  1 <= c - d /\ c + d + gap <= Len(t) /\ t[c - d] = t[c + d + gap]
    BY DEF Around
  <2>1. c - d \in a .. b /\ a + b - (c - d) = c + d + gap /\ 1 <= c - d /\ c + d + gap <= Len(t)
    BY <1>2, <1>3
  <2> QED BY <2>1 DEF Mirrored
<1> QED BY <1>2, <1>4, <1>5

\* What Best does with one place.
BetterStep(t, gap, b, c) ==
  IF Steps(t, c, gap) >= Max({b.step, 1}) THEN [step |-> Steps(t, c, gap), index |-> c] ELSE b

Bests == [step : Nat, index : Nat]

\* One step of Best without its Max.
LEMMA BetterStepIs ==
  ASSUME NEW X, NEW t \in Seq(X), NEW gap \in {0, 1}, NEW b \in Bests, NEW c \in 1 .. Len(t)
  PROVE  /\ BetterStep(t, gap, b, c) \in Bests
         /\ BetterStep(t, gap, b, c) =
              IF Steps(t, c, gap) >= b.step /\ Steps(t, c, gap) >= 1
              THEN [step |-> Steps(t, c, gap), index |-> c] ELSE b
<1>1. Steps(t, c, gap) \in Nat /\ c \in Nat /\ b.step \in Nat
  BY StepsAre DEF Bests
<1>2. Max({b.step, 1}) = IF b.step >= 1 THEN b.step ELSE 1
  BY <1>1, OfTwo
<1>3. Steps(t, c, gap) >= Max({b.step, 1}) <=> Steps(t, c, gap) >= b.step /\ Steps(t, c, gap) >= 1
  BY <1>1, <1>2
<1> QED BY <1>1, <1>3 DEF BetterStep, Bests

\* Best's values, place after place.
LEMMA BestFold ==
  ASSUME NEW X, NEW t \in Seq(X), NEW gap \in {0, 1}
  PROVE  \E after \in [0 .. Len(t) -> Bests] :
           /\ after[0] = [step |-> 0, index |-> 1]
           /\ \A c \in 1 .. Len(t) : after[c] = BetterStep(t, gap, after[c - 1], c)
           /\ Best(t, gap) = after[Len(t)]
<1> DEFINE m == Len(t)
           B == Bests
           base == [step |-> 0, index |-> 1]
           seq == [c \in 1 .. Len(t) |-> c]
           Is(it) == it = [S \in SUBSET DOMAIN seq |->
                             IF S = {} THEN base
                             ELSE BetterStep(t, gap, it[S \ {Max(S)}], seq[Max(S)])]
           F == [y \in B \X (1 .. m) |-> BetterStep(t, gap, y[1], y[2])]
<1>1. Best(t, gap) = (CHOOSE it : Is(it))[DOMAIN seq]
  BY DEF Best, FoldLeft, MapThenFoldSet, BetterStep
<1>2. m \in Nat /\ DOMAIN seq = 1 .. m /\ \A x \in 1 .. m : seq[x] = x
  OBVIOUS
<1>3. base \in B
  BY DEF Bests
<1>4. /\ F \in [B \X (1 .. m) -> B]
      /\ \A b \in B, x \in 1 .. m : F[<<b, x>>] = BetterStep(t, gap, b, x)
  BY BetterStepIs
<1> HIDE DEF m, B, seq, F, base
<1>5. \A S \in SUBSET (1 .. m) : S # {} => Max(S) \in 1 .. m /\ S \ {Max(S)} \in SUBSET (1 .. m)
  <2> TAKE S \in SUBSET (1 .. m)
  <2> HAVE S # {}
  <2>1. Max(S) \in S /\ S \ {Max(S)} \in SUBSET (1 .. m)
    BY <1>2, LessWithoutMax
  <2> QED BY <2>1
<1>6. Step(m, B, base, F)
  BY <1>2, <1>3, <1>4 DEF Step
<1>7. PICK f \in [SUBSET (1 .. m) -> B] : IsFold(m, base, F, f)
  BY <1>6, FoldExists
<1>8. Is(f)
  <2>1. \A S \in SUBSET (1 .. m) :
          f[S] = IF S = {} THEN base ELSE BetterStep(t, gap, f[S \ {Max(S)}], seq[Max(S)])
    <3> TAKE S \in SUBSET (1 .. m)
    <3>1. f[S] = IF S = {} THEN base ELSE F[<<f[S \ {Max(S)}], Max(S)>>]
      BY <1>7 DEF IsFold
    <3>2. S # {} => /\ seq[Max(S)] = Max(S)
                    /\ F[<<f[S \ {Max(S)}], Max(S)>>] = BetterStep(t, gap, f[S \ {Max(S)}], Max(S))
      BY <1>2, <1>4, <1>5
    <3> QED BY <3>1, <3>2
  <2> QED BY <1>2, <2>1
<1>9. PICK it : it = CHOOSE u : Is(u)
  OBVIOUS
<1>10. Is(it)
  BY <1>8, <1>9
<1>11. it[{}] = base
  BY <1>2, <1>10
<1>12. \A S \in SUBSET (1 .. m) : S # {} /\ it[S \ {Max(S)}] \in B
         => it[S] = F[<<it[S \ {Max(S)}], Max(S)>>]
  <2> TAKE S \in SUBSET (1 .. m)
  <2> HAVE S # {} /\ it[S \ {Max(S)}] \in B
  <2>1. Max(S) \in 1 .. m /\ seq[Max(S)] = Max(S)
    BY <1>2, <1>5
  <2>2. it[S] = BetterStep(t, gap, it[S \ {Max(S)}], seq[Max(S)])
    BY <1>2, <1>10
  <2> QED BY <1>4, <2>1, <2>2
<1> HIDE DEF Is
<1>13. PICK after \in [0 .. m -> B] :
         /\ after[0] = base /\ it[1 .. m] = after[m]
         /\ \A j \in 1 .. m : after[j] = F[<<after[j - 1], j>>]
  <2>1. Follows(m, B, base, F, it)
    BY <1>11, <1>12 DEF Follows
  <2> QED BY <1>6, <2>1, FoldRuns
<1>14. \A j \in 1 .. m : after[j] = BetterStep(t, gap, after[j - 1], j)
  <2> TAKE j \in 1 .. m
  <2>1. j - 1 \in 0 .. m
    BY <1>2
  <2>2. after[j - 1] \in B
    BY <2>1
  <2> QED BY <1>4, <1>13, <2>2
<1>15. Best(t, gap) = after[m]
  BY <1>1, <1>2, <1>9, <1>13
<1> QED BY <1>13, <1>14, <1>15 DEF B, m, base

\* The best of the places up to end.
BestUpTo(t, gap, end, b) ==
  /\ b.step # 0 => b.index \in 1 .. end /\ b.step = Steps(t, b.index, gap)
  /\ \A c \in 1 .. end : Steps(t, c, gap) <= b.step

\* Best has the place that reaches farthest.
LEMMA BestIs ==
  ASSUME NEW X, NEW t \in Seq(X), NEW gap \in {0, 1}
  PROVE  Best(t, gap) \in Bests /\ BestUpTo(t, gap, Len(t), Best(t, gap))
<1> DEFINE m == Len(t)
<1>1. m \in Nat
  OBVIOUS
<1>2. PICK after \in [0 .. m -> Bests] :
        /\ after[0] = [step |-> 0, index |-> 1]
        /\ \A c \in 1 .. m : after[c] = BetterStep(t, gap, after[c - 1], c)
        /\ Best(t, gap) = after[m]
  BY BestFold
<1> HIDE DEF m
<1> DEFINE bad == {end \in 0 .. m : ~BestUpTo(t, gap, end, after[end])}
<1>3. BestUpTo(t, gap, 0, after[0])
  <2>1. after[0].step = 0
    BY <1>2
  <2> QED BY <2>1 DEF BestUpTo
<1>4. bad = {}
  <2> SUFFICES ASSUME bad # {} PROVE FALSE
    OBVIOUS
  <2>1. bad \subseteq Nat
    BY <1>1
  <2>2. PICK end \in bad : \A e \in bad : end <= e
    BY <2>1, Least
  <2>3. end \in 1 .. m
    BY <1>1, <1>3, <2>2
  <2>4. end - 1 \in 0 .. m /\ ~(end <= end - 1)
    BY <1>1, <2>3
  <2>5. PICK b \in Bests : b = after[end - 1]
    BY <2>4
  <2>6. BestUpTo(t, gap, end - 1, b)
    BY <2>2, <2>4, <2>5
  <2>7. PICK w : w = Steps(t, end, gap)
    OBVIOUS
  <2>8. w \in Nat
    BY <2>3, <2>7, StepsAre DEF m
  <2>9. after[end] = IF w >= b.step /\ w >= 1 THEN [step |-> w, index |-> end] ELSE b
    BY <1>2, <2>3, <2>5, <2>7, BetterStepIs DEF m
  <2>10. b.step \in Nat
    BY DEF Bests
  <2>11. \A c \in 1 .. end - 1 : Steps(t, c, gap) \in Nat
    BY <1>1, <2>3, StepsAre DEF m
  <2>12. \A c \in 1 .. end : c = end \/ c \in 1 .. end - 1
    BY <1>1, <2>3
  <2>13. \A c \in 1 .. end - 1 : c \in 1 .. end
    BY <1>1, <2>3
  <2>14. CASE w >= b.step /\ w >= 1
    <3>1. after[end].step = w /\ after[end].index = end
      BY <2>9, <2>14
    <3>2. \A c \in 1 .. end : Steps(t, c, gap) <= w
      BY <2>6, <2>7, <2>8, <2>10, <2>11, <2>12, <2>14 DEF BestUpTo
    <3>3. end \in 1 .. end
      BY <1>1, <2>3
    <3> QED BY <2>2, <2>7, <3>1, <3>2, <3>3 DEF BestUpTo
  <2>15. CASE ~(w >= b.step /\ w >= 1)
    <3>1. after[end] = b /\ w <= b.step
      BY <2>8, <2>9, <2>10, <2>15
    <3>2. \A c \in 1 .. end : Steps(t, c, gap) <= b.step
      BY <2>6, <2>7, <2>12, <3>1 DEF BestUpTo
    <3> QED BY <2>2, <2>6, <2>13, <3>1, <3>2 DEF BestUpTo
  <2> QED BY <2>14, <2>15
<1>5. m \in 0 .. m
  BY <1>1
<1> QED BY <1>2, <1>4, <1>5 DEF m

\* The palindrome around a place lies in the string.
LEMMA AroundWindow ==
  ASSUME NEW X, NEW t \in Seq(X), NEW c \in 1 .. Len(t), NEW gap \in {0, 1}, NEW h \in Nat \ {0},
         Around(t, c, gap, h)
  PROVE  /\ c - h + 1 \in 1 .. Len(t) /\ c + h - 1 + gap \in c - h + 1 .. Len(t)
         /\ Mirrored(t, c - h + 1, c + h - 1 + gap)
<1>1. h - 1 \in 0 .. h - 1 /\ c \in Int /\ h \in Nat
  OBVIOUS
<1>2. 1 <= c - (h - 1) /\ c + (h - 1) + gap <= Len(t)
  BY <1>1 DEF Around
<1>3. Mirrored(t, c - h + 1, c + h - 1 + gap)
  BY <1>1, AroundMirrors
<1> QED BY <1>2, <1>3

\* snprintf's function.
IsPrinted(f, it) ==
  it = [j \in 1 .. Len(f) + 1 |->
          IF j > Len(f) THEN <<>>
          ELSE CASE f[j] # Percent -> <<f[j]>> \o it[j + 1]
                 [] f[j] = Percent /\ j < Len(f) /\ f[j + 1] = Percent ->
                      <<Percent>> \o it[j + 2]]

\* A format without a % is printed as it is: from each place on, what is left of it.
LEMMA PrintedIs ==
  ASSUME NEW X, NEW f \in Seq(X), \A j \in 1 .. Len(f) : f[j] # Percent,
         NEW it, it = CHOOSE u : IsPrinted(f, u)
  PROVE  it[1] = f
<1> DEFINE m == Len(f)
           Rest(j) == SubSeq(f, j, m)
<1>1. m \in Nat
  OBVIOUS
<1>2. ASSUME NEW j \in 1 .. m PROVE Rest(j) = <<f[j]>> \o Rest(j + 1)
  <2>1. f[j] \in X /\ j \in Nat
    OBVIOUS
  <2>2. /\ Rest(j) \in Seq(X) /\ Len(Rest(j)) = m - j + 1
        /\ \A x \in 1 .. m - j + 1 : Rest(j)[x] = f[j + x - 1]
    <3>1. j \in 1 .. m + 1 /\ m \in 0 .. m /\ j <= m
      BY <1>1
    <3>2. /\ Rest(j) \in Seq(X) /\ Len(Rest(j)) = (IF j <= m THEN m - j + 1 ELSE 0)
          /\ \A x \in 1 .. Len(Rest(j)) : Rest(j)[x] = f[j + x - 1]
      BY <3>1, WindowIs
    <3> QED BY <3>1, <3>2
  <2>3. /\ Rest(j + 1) \in Seq(X) /\ Len(Rest(j + 1)) = m - j
        /\ \A x \in 1 .. m - j : Rest(j + 1)[x] = f[j + x]
    <3>1. j + 1 \in 1 .. m + 1 /\ m \in 0 .. m
      BY <1>1
    <3>2. /\ Rest(j + 1) \in Seq(X)
          /\ Len(Rest(j + 1)) = (IF j + 1 <= m THEN m - (j + 1) + 1 ELSE 0)
          /\ \A x \in 1 .. Len(Rest(j + 1)) : Rest(j + 1)[x] = f[j + 1 + x - 1]
      BY <3>1, WindowIs
    <3>3. Len(Rest(j + 1)) = m - j
      BY <1>1, <2>1, <3>2
    <3>4. \A x \in 1 .. m - j : j + 1 + x - 1 = j + x
      BY <2>1
    <3> QED BY <3>2, <3>3, <3>4
  <2> HIDE DEF Rest
  <2>4. PICK u \in Seq(X) : u = Rest(j)
    BY <2>2
  <2>5. PICK v \in Seq(X) : v = Rest(j + 1)
    BY <2>3
  <2>6. <<f[j]>> \o v \in Seq(X) /\ Len(<<f[j]>> \o v) = m - j + 1
    BY <1>1, <2>1, <2>3, <2>5
  <2>7. \A x \in 1 .. m - j + 1 : (<<f[j]>> \o v)[x] = u[x]
    <3> TAKE x \in 1 .. m - j + 1
    <3>1. CASE x = 1
      <4>1. (<<f[j]>> \o v)[1] = f[j] /\ j + 1 - 1 = j
        BY <2>1
      <4> QED BY <2>2, <2>4, <3>1, <4>1
    <3>2. CASE x # 1
      <4>1. PICK y \in 1 .. m - j : y = x - 1 /\ x = y + 1
        BY <1>1, <2>1, <3>2
      <4>2. (<<f[j]>> \o v)[y + 1] = v[y]
        <5>1. PICK w \in Seq(X) : w = <<f[j]>> /\ Len(w) = 1
          <6>1. PICK e \in X : e = f[j]
            BY <2>1
          <6>2. <<e>> \in Seq(X) /\ Len(<<e>>) = 1
            OBVIOUS
          <6> QED BY <6>1, <6>2
        <5>2. y + 1 \in 1 .. Len(w) + Len(v) /\ ~(y + 1 <= Len(w)) /\ y + 1 - Len(w) = y
          BY <1>1, <2>1, <2>3, <2>5, <4>1, <5>1
        <5>3. (w \o v)[y + 1] = v[y + 1 - Len(w)]
          BY ONLY <5>1, <5>2, v \in Seq(X), y \in Int
        <5> QED BY <5>1, <5>2, <5>3
      <4>3. v[y] = f[j + y] /\ j + y = j + x - 1
        BY <2>1, <2>3, <2>5, <4>1
      <4> QED BY <2>2, <2>4, <4>1, <4>2, <4>3
    <3> QED BY <3>1, <3>2
  <2>8. u = <<f[j]>> \o v
    <3>1. PICK c \in Seq(X) : c = <<f[j]>> \o v
      BY <2>6
    <3>2. Len(u) = m - j + 1 /\ Len(c) = Len(u) /\ \A x \in 1 .. Len(u) : c[x] = u[x]
      BY <2>2, <2>4, <2>6, <2>7, <3>1
    <3>3. u = c
      BY ONLY <3>2, u \in Seq(X), c \in Seq(X)
    <3> QED BY <3>1, <3>3
  <2> QED BY <2>4, <2>5, <2>8
<1>3. Rest(m + 1) = <<>>
  BY <1>1
<1>4. Rest(1) = f
  BY <1>1
<1> HIDE DEF m, Rest
<1>5. ASSUME NEW g, NEW j \in 1 .. m + 1, j \in 1 .. m => g[j + 1] = Rest(j + 1)
      PROVE  Rest(j) = IF j > m THEN <<>>
                       ELSE CASE f[j] # Percent -> <<f[j]>> \o g[j + 1]
                              [] f[j] = Percent /\ j < m /\ f[j + 1] = Percent ->
                                   <<Percent>> \o g[j + 2]
  <2>1. CASE j > m
    <3>1. j = m + 1
      BY <1>1, <2>1
    <3> QED BY <1>3, <2>1, <3>1
  <2>2. CASE ~(j > m)
    <3>1. j \in 1 .. m
      BY <1>1, <2>2
    <3>2. f[j] # Percent
      BY <3>1 DEF m
    <3>3. Rest(j) = <<f[j]>> \o g[j + 1]
      BY <1>2, <1>5, <3>1
    <3> QED BY <2>2, <3>2, <3>3, Zenon
  <2> QED BY <2>1, <2>2
<1>6. \E u : IsPrinted(f, u)
  <2>1. PICK u : u = [j \in 1 .. m + 1 |-> Rest(j)]
    OBVIOUS
  <2>2. \A j \in 1 .. m : j + 1 \in 1 .. m + 1
    BY <1>1
  <2>3. \A j \in 1 .. m + 1 :
          u[j] = IF j > m THEN <<>>
                 ELSE CASE f[j] # Percent -> <<f[j]>> \o u[j + 1]
                        [] f[j] = Percent /\ j < m /\ f[j + 1] = Percent ->
                             <<Percent>> \o u[j + 2]
    BY <1>5, <2>1, <2>2
  <2>4. IsPrinted(f, u)
    BY <2>1, <2>3, Zenon DEF IsPrinted, m
  <2> QED BY <2>4
<1>7. IsPrinted(f, it)
  BY <1>6
<1> DEFINE bad == {l \in Nat : l \in 0 .. m /\ it[m + 1 - l] # Rest(m + 1 - l)}
<1>8. bad = {}
  <2> SUFFICES ASSUME bad # {} PROVE FALSE
    OBVIOUS
  <2>1. PICK l \in bad : \A h \in bad : l <= h
    <3>1. bad \subseteq Nat
      OBVIOUS
    <3> HIDE DEF bad
    <3> QED BY <3>1, Least
  <2>2. PICK j \in 1 .. m + 1 : j = m + 1 - l /\ it[j] # Rest(j)
    <3>1. l \in 0 .. m /\ it[m + 1 - l] # Rest(m + 1 - l)
      BY <2>1
    <3>2. PICK j \in 1 .. m + 1 : j = m + 1 - l
      BY <1>1, <3>1
    <3> QED BY <3>1, <3>2
  <2>3. j \in 1 .. m => it[j + 1] = Rest(j + 1)
    <3> SUFFICES ASSUME j \in 1 .. m PROVE it[j + 1] = Rest(j + 1)
      OBVIOUS
    <3>1. l - 1 \in Nat /\ l - 1 \in 0 .. m /\ m + 1 - (l - 1) = j + 1 /\ ~(l <= l - 1)
      BY <1>1, <2>1, <2>2
    <3> QED BY <2>1, <3>1
  <2>4. it[j] = IF j > m THEN <<>>
                ELSE CASE f[j] # Percent -> <<f[j]>> \o it[j + 1]
                       [] f[j] = Percent /\ j < m /\ f[j + 1] = Percent ->
                            <<Percent>> \o it[j + 2]
    <3>1. \A d \in 1 .. Len(f) + 1 :
            it[d] = IF d > Len(f) THEN <<>>
                    ELSE CASE f[d] # Percent -> <<f[d]>> \o it[d + 1]
                           [] f[d] = Percent /\ d < Len(f) /\ f[d + 1] = Percent ->
                                <<Percent>> \o it[d + 2]
      BY ONLY <1>7, Zenon DEF IsPrinted
    <3>2. j \in 1 .. Len(f) + 1
      BY <2>2 DEF m
    <3> QED BY ONLY <3>1, <3>2, Zenon DEF m
  <2> QED BY <1>5, <2>2, <2>3, <2>4
<1>9. it[1] = Rest(1)
  <2>1. m \in 0 .. m /\ m + 1 - m = 1
    BY <1>1
  <2> QED BY <1>1, <1>8, <2>1
<1> QED BY <1>4, <1>9

\* Of a string without a %, as much is printed as asked for.
LEMMA PrintedWindow ==
  ASSUME NEW X, NEW t \in Seq(X), \A j \in 1 .. Len(t) : t[j] # Percent,
         NEW a \in 1 .. Len(t), NEW b \in a .. Len(t),
         NEW room, room = b - a + 2
  PROVE  Snprintf(room, SubSeq(t, a, Len(t))) = SubSeq(t, a, b)
<1>1. PICK m \in Nat : m = Len(t)
  OBVIOUS
<1>2. PICK f \in Seq(X) : f = SubSeq(t, a, m)
  <2>1. a \in 1 .. Len(t) + 1 /\ m \in 0 .. Len(t)
    BY <1>1
  <2>2. SubSeq(t, a, m) \in Seq(X)
    BY <2>1, WindowIs
  <2> QED BY <2>2
<1>3. Len(f) = m - a + 1 /\ \A x \in 1 .. m - a + 1 : f[x] = t[a + x - 1]
  <2>1. a \in 1 .. m + 1 /\ m \in 0 .. m /\ a <= m
    BY <1>1
  <2>2. /\ Len(f) = (IF a <= m THEN m - a + 1 ELSE 0)
        /\ \A x \in 1 .. Len(f) : f[x] = t[a + x - 1]
    <3>1. t \in Seq(X) /\ a \in 1 .. Len(t) + 1 /\ m \in 0 .. Len(t)
      BY <1>1, <2>1
    <3>2. /\ Len(SubSeq(t, a, m)) = (IF a <= m THEN m - a + 1 ELSE 0)
          /\ \A x \in 1 .. Len(SubSeq(t, a, m)) : SubSeq(t, a, m)[x] = t[a + x - 1]
      BY ONLY <3>1, WindowIs
    <3> QED BY ONLY <1>2, <3>2
  <2> QED BY <2>1, <2>2
<1>4. \A j \in 1 .. Len(f) : f[j] # Percent
  <2> TAKE j \in 1 .. Len(f)
  <2>1. a + j - 1 \in 1 .. m /\ j \in 1 .. m - a + 1
    BY <1>1, <1>3
  <2> QED BY <1>1, <1>3, <2>1
<1>5. PICK it : it = CHOOSE u : IsPrinted(f, u)
  OBVIOUS
<1>6. Snprintf(room, f) = SubSeq(it[1], 1, Min({room - 1, Len(it[1])}))
  BY <1>5 DEF Snprintf, IsPrinted
<1>7. it[1] = f
  BY <1>4, <1>5, PrintedIs
<1>8. Min({room - 1, Len(f)}) = room - 1
  <2>1. room - 1 \in Nat /\ Len(f) \in Nat /\ room - 1 <= Len(f)
    BY <1>1, <1>3
  <2>2. {room - 1, Len(f)} \subseteq Nat /\ {room - 1, Len(f)} # {}
    BY <2>1
  <2>3. /\ Min({room - 1, Len(f)}) \in {room - 1, Len(f)}
        /\ \A x \in {room - 1, Len(f)} : Min({room - 1, Len(f)}) <= x
    BY <2>2, MinIs
  <2> QED BY <2>1, <2>3
<1>9. SubSeq(f, 1, room - 1) = SubSeq(t, a, b)
  <2>1. PICK l \in Nat \ {0} : l = room - 1 /\ l = b - a + 1 /\ l <= Len(f)
    BY <1>1, <1>3
  <2>2. /\ SubSeq(f, 1, l) \in Seq(X) /\ Len(SubSeq(f, 1, l)) = l
        /\ \A x \in 1 .. l : SubSeq(f, 1, l)[x] = f[x]
    <3>1. 1 \in 1 .. Len(f) + 1 /\ l \in 0 .. Len(f) /\ 1 <= l
      BY <1>3, <2>1
    <3>2. /\ SubSeq(f, 1, l) \in Seq(X)
          /\ Len(SubSeq(f, 1, l)) = (IF 1 <= l THEN l - 1 + 1 ELSE 0)
          /\ \A x \in 1 .. Len(SubSeq(f, 1, l)) : SubSeq(f, 1, l)[x] = f[1 + x - 1]
      BY <3>1, WindowIs
    <3> QED BY <2>1, <3>1, <3>2
  <2>3. /\ SubSeq(t, a, b) \in Seq(X) /\ Len(SubSeq(t, a, b)) = l
        /\ \A x \in 1 .. l : SubSeq(t, a, b)[x] = t[a + x - 1]
    <3>1. a \in 1 .. Len(t) + 1 /\ b \in 0 .. Len(t) /\ a <= b
      BY <1>1
    <3>2. /\ SubSeq(t, a, b) \in Seq(X)
          /\ Len(SubSeq(t, a, b)) = (IF a <= b THEN b - a + 1 ELSE 0)
          /\ \A x \in 1 .. Len(SubSeq(t, a, b)) : SubSeq(t, a, b)[x] = t[a + x - 1]
      BY <3>1, WindowIs
    <3> QED BY <2>1, <3>1, <3>2
  <2>4. \A x \in 1 .. l : f[x] = t[a + x - 1]
    BY <1>1, <1>3, <2>1
  <2>5. PICK u, v \in Seq(X) : u = SubSeq(f, 1, l) /\ v = SubSeq(t, a, b)
    BY <2>2, <2>3
  <2>6. Len(u) = l /\ Len(v) = l /\ \A x \in 1 .. l : u[x] = v[x]
    BY <2>2, <2>3, <2>4, <2>5
  <2>7. u = v
    BY <2>6
  <2> QED BY <2>1, <2>5, <2>7
<1> QED BY <1>1, <1>2, <1>6, <1>7, <1>8, <1>9

\* The result is a window that reads the same backwards, and none that does is longer,
\* for a string that can be printed as a format.
THEOREM LongestPalindrome ==
  ASSUME NEW X, NEW t \in Seq(X), Printable(t)
  PROVE  IsLongestPalindrome(t, longestPalindrome(t))
<1> DEFINE m == Len(t)
<1>1. m \in Nat
  OBVIOUS
<1>2. PICK odd \in Bests : odd = Best(t, 1)
  BY BestIs
<1>3. PICK even \in Bests : even = Best(t, 0)
  BY BestIs
<1>4. PICK r : r = longestPalindrome(t)
  OBVIOUS
<1>5. /\ t = <<>> => r = <<>>
      /\ t # <<>> /\ odd.step >= even.step =>
           r = Snprintf(odd.step * 2 + 1, SubSeq(t, odd.index - odd.step + 1, Len(t)))
      /\ t # <<>> /\ odd.step < even.step =>
           r = Snprintf(even.step * 2, SubSeq(t, even.index - even.step + 1, Len(t)))
  <2>1. r = CASE t = <<>> -> <<>>
              [] t # <<>> /\ odd.step >= even.step ->
                   Snprintf(odd.step * 2 + 1, SubSeq(t, odd.index - odd.step + 1, Len(t)))
              [] t # <<>> /\ odd.step < even.step ->
                   Snprintf(even.step * 2, SubSeq(t, even.index - even.step + 1, Len(t)))
    BY <1>2, <1>3, <1>4, Zenon DEF longestPalindrome
  <2>2. odd.step < even.step <=> ~(odd.step >= even.step)
    BY DEF Bests
  <2>3. CASE t = <<>>
    BY <2>1, <2>3, Zenon
  <2>4. CASE t # <<>> /\ odd.step >= even.step
    BY <2>1, <2>2, <2>4, Zenon
  <2>5. CASE t # <<>> /\ odd.step < even.step
    BY <2>1, <2>2, <2>5, Zenon
  <2> QED BY <2>3, <2>4, <2>5, Zenon
<1>6. odd.step \in Nat /\ even.step \in Nat /\ odd.index \in Nat /\ even.index \in Nat
  BY DEF Bests
<1>7. BestUpTo(t, 1, m, odd) /\ BestUpTo(t, 0, m, even)
  BY <1>2, <1>3, BestIs
<1>8. ASSUME NEW a \in 1 .. m, NEW b \in a .. m, Mirrored(t, a, b)
      PROVE  b - a + 1 <= 2 * odd.step \/ b - a + 1 <= 2 * even.step - 1
  <2>1. PICK c \in 1 .. m, gap \in {0, 1}, h \in 0 .. m :
          Around(t, c, gap, h) /\ b - a + 1 = 2 * h - 1 + gap
    BY <1>8, MirrorsAround
  <2>2. Steps(t, c, gap) \in Nat /\ h <= Steps(t, c, gap)
    BY <2>1, StepsAre
  <2>3. Steps(t, c, 1) <= odd.step /\ Steps(t, c, 0) <= even.step
    BY <1>7 DEF BestUpTo
  <2>4. h \in Nat /\ a \in Int /\ b \in Int
    BY <1>1
  <2>5. CASE gap = 1
    <3>1. b - a + 1 = 2 * h - 1 + 1 /\ h <= odd.step
      BY <1>6, <2>1, <2>2, <2>3, <2>4, <2>5
    <3> QED BY <1>6, <2>4, <3>1
  <2>6. CASE gap = 0
    <3>1. b - a + 1 = 2 * h - 1 + 0 /\ h <= even.step
      BY <1>6, <2>1, <2>2, <2>3, <2>4, <2>6
    <3> QED BY <1>6, <2>4, <3>1
  <2> QED BY <2>5, <2>6
<1>9. ASSUME m > 0 PROVE even.step > 0
  <2>1. 1 \in 1 .. m /\ 1 \in 0 .. m
    BY <1>1, <1>9
  <2>2. Around(t, 1, 0, 1)
    BY <1>1, <1>9 DEF Around
  <2>3. Steps(t, 1, 0) \in Nat /\ 1 <= Steps(t, 1, 0)
    BY <2>1, <2>2, StepsAre
  <2>4. Steps(t, 1, 0) <= even.step
    BY <1>7, <2>1 DEF BestUpTo
  <2> QED BY <1>6, <2>3, <2>4
<1> HIDE DEF m
<1>10. CASE m = 0
  <2>1. t = <<>>
    BY <1>10 DEF m
  <2>4. r = <<>>
    BY <1>5, <2>1
  <2>5. <<>> = SubSeq(t, 1, 0) /\ 1 \in 1 .. Len(t) + 1 /\ 0 \in 0 .. Len(t)
    BY <2>1
  <2>6. r \in Windows(t)
    BY <2>4, <2>5 DEF Windows
  <2>7. r = Reverse(r) /\ Len(r) = 0
    BY <2>4 DEF Reverse
  <2>8. \A w \in Windows(t) : Len(w) = 0
    <3> TAKE w \in Windows(t)
    <3>1. PICK a \in 1 .. Len(t) + 1, b \in 0 .. Len(t) : w = SubSeq(t, a, b)
      BY DEF Windows
    <3>2. a = 1 /\ b = 0
      BY <2>1
    <3> QED BY <2>5, <3>1, <3>2
  <2> QED BY <1>4, <2>6, <2>7, <2>8 DEF IsLongestPalindrome
<1>11. m > 0 => t # <<>>
  BY DEF m
<1>12. \A j \in 1 .. m : t[j] # Percent
  BY DEF Printable, m
<1>13. CASE m > 0
  <2>1. \E a \in 1 .. m : \E b \in a .. m :
          /\ r = SubSeq(t, a, b) /\ Mirrored(t, a, b)
          /\ 2 * odd.step <= b - a + 1 /\ 2 * even.step - 1 <= b - a + 1
    <3>1. CASE odd.step >= even.step
      <4>1. PICK h \in Nat \ {0} : h = odd.step
        BY <1>6, <1>9, <1>13, <3>1
      <4>2. PICK c \in 1 .. m : c = odd.index /\ h = Steps(t, c, 1)
        BY <1>7, <4>1 DEF BestUpTo
      <4>3. Around(t, c, 1, h)
        BY <4>2, StepsAre DEF m
      <4>4. /\ c - h + 1 \in 1 .. m /\ c + h - 1 + 1 \in c - h + 1 .. m
            /\ Mirrored(t, c - h + 1, c + h - 1 + 1)
        BY <4>3, AroundWindow DEF m
      <4>5. c + h - 1 + 1 = c + h /\ (c + h) - (c - h + 1) + 1 = 2 * h
        BY <1>1
      <4>6. even.step <= h
        BY <1>6, <3>1, <4>1
      <4>7. 2 * h <= 2 * h /\ 2 * even.step - 1 <= 2 * h
        BY <1>6, <4>6
      <4>8. PICK a \in Int, b \in Int :
              a \in 1 .. m /\ b \in a .. m /\ a = c - h + 1 /\ b = c + h
        BY <4>4, <4>5
      <4>9. r = Snprintf(h * 2 + 1, SubSeq(t, a, Len(t)))
        BY <1>5, <1>11, <1>13, <3>1, <4>1, <4>2, <4>8
      <4>10. h * 2 + 1 = b - a + 2
        BY <1>1, <4>8
      <4>11. r = SubSeq(t, a, b)
        BY <1>12, <4>8, <4>9, <4>10, PrintedWindow DEF m
      <4>12. Mirrored(t, a, b) /\ b - a + 1 = 2 * h
        BY <4>4, <4>5, <4>8
      <4> QED BY <4>1, <4>7, <4>8, <4>11, <4>12
    <3>2. CASE ~(odd.step >= even.step)
      <4>1. PICK h \in Nat \ {0} : h = even.step
        BY <1>6, <1>9, <1>13
      <4>2. PICK c \in 1 .. m : c = even.index /\ h = Steps(t, c, 0)
        BY <1>7, <4>1 DEF BestUpTo
      <4>3. Around(t, c, 0, h)
        BY <4>2, StepsAre DEF m
      <4>4. /\ c - h + 1 \in 1 .. m /\ c + h - 1 + 0 \in c - h + 1 .. m
            /\ Mirrored(t, c - h + 1, c + h - 1 + 0)
        BY <4>3, AroundWindow DEF m
      <4>5. c + h - 1 + 0 = c + h - 1 /\ (c + h - 1) - (c - h + 1) + 1 = 2 * h - 1
        BY <1>1
      <4>6. odd.step < h
        BY <1>6, <3>2, <4>1
      <4>7. 2 * h - 1 <= 2 * h - 1 /\ 2 * odd.step <= 2 * h - 1
        BY <1>6, <4>6
      <4>8. PICK a \in Int, b \in Int :
              a \in 1 .. m /\ b \in a .. m /\ a = c - h + 1 /\ b = c + h - 1
        BY <4>4, <4>5
      <4>9. r = Snprintf(h * 2, SubSeq(t, a, Len(t)))
        BY <1>5, <1>11, <1>13, <4>1, <4>2, <4>6, <4>8
      <4>10. h * 2 = b - a + 2
        BY <1>1, <4>8
      <4>11. r = SubSeq(t, a, b)
        BY <1>12, <4>8, <4>9, <4>10, PrintedWindow DEF m
      <4>12. Mirrored(t, a, b) /\ b - a + 1 = 2 * h - 1
        BY <4>4, <4>5, <4>8
      <4> QED BY <4>1, <4>7, <4>8, <4>11, <4>12
    <3> QED BY <3>1, <3>2
  <2>2. PICK a \in 1 .. m : \E b \in a .. m :
          /\ r = SubSeq(t, a, b) /\ Mirrored(t, a, b)
          /\ 2 * odd.step <= b - a + 1 /\ 2 * even.step - 1 <= b - a + 1
    BY <2>1
  <2>3. PICK b \in a .. m :
          /\ r = SubSeq(t, a, b) /\ Mirrored(t, a, b)
          /\ 2 * odd.step <= b - a + 1 /\ 2 * even.step - 1 <= b - a + 1
    BY <2>2
  <2>4. r = Reverse(r)
    BY <2>3, PalindromeIs DEF m
  <2>5. a \in 1 .. Len(t) + 1 /\ b \in 0 .. Len(t) /\ a <= b
    BY <1>1 DEF m
  <2>6. r \in Windows(t) /\ Len(r) = b - a + 1
    <3>1. SubSeq(t, a, b) \in Windows(t)
      BY ONLY <2>5 DEF Windows
    <3>2. Len(SubSeq(t, a, b)) = (IF a <= b THEN b - a + 1 ELSE 0)
      BY <2>5, WindowIs
    <3> QED BY ONLY <2>3, <2>5, <3>1, <3>2
  <2>7. ASSUME NEW w \in Windows(t), w = Reverse(w) PROVE Len(w) <= Len(r)
    <3>1. PICK x \in 1 .. Len(t) + 1, y \in 0 .. Len(t) : w = SubSeq(t, x, y)
      BY DEF Windows
    <3>2. Len(w) = IF x <= y THEN y - x + 1 ELSE 0
      BY <3>1, WindowIs
    <3>3. CASE x <= y
      <4>1. x \in 1 .. m /\ y \in x .. m
        BY <1>1, <3>3 DEF m
      <4>2. Mirrored(t, x, y)
        BY <2>7, <3>1, <4>1, PalindromeIs DEF m
      <4>3. y - x + 1 <= 2 * odd.step \/ y - x + 1 <= 2 * even.step - 1
        BY <1>8, <4>1, <4>2
      <4>4. Len(w) = y - x + 1
        BY <3>2, <3>3
      <4>5. PICK u, z \in Nat : u = odd.step /\ z = even.step
        BY <1>6
      <4>6. x \in Int /\ y \in Int /\ a \in Int /\ b \in Int
        BY <1>1
      <4>7. /\ 2 * u <= b - a + 1 /\ 2 * z - 1 <= b - a + 1
            /\ y - x + 1 <= 2 * u \/ y - x + 1 <= 2 * z - 1
        BY <2>3, <4>3, <4>5
      <4>8. y - x + 1 <= b - a + 1
        BY <4>6, <4>7
      <4> QED BY <2>6, <4>4, <4>8
    <3>4. CASE ~(x <= y)
      BY <1>1, <2>6, <3>2, <3>4
    <3> QED BY <3>3, <3>4
  <2> QED BY <1>4, <2>4, <2>6, <2>7 DEF IsLongestPalindrome
<1> QED BY <1>1, <1>10, <1>13

-----------------------------------------------------------------------------
(* kSmallestPairs.                                                          *)

\* What a sequence consists of.
LEMMA ElementsAre ==
  ASSUME NEW X, NEW t \in Seq(X)
  PROVE  /\ Len(t) \in Nat /\ DOMAIN t = 1 .. Len(t) /\ \A x \in DOMAIN t : t[x] \in X
         /\ \A Y : X \subseteq Y => t \in Seq(Y)
OBVIOUS

\* As many as what they are one to one with.
LEMMA SameCount ==
  ASSUME NEW S, NEW T, NEW f \in [S -> T], IsFiniteSet(S),
         \A x, y \in S : f[x] = f[y] => x = y, \A z \in T : \E x \in S : f[x] = z
  PROVE  IsFiniteSet(T) /\ Cardinality(T) = Cardinality(S)
<1>1. f \in Bijection(S, T)
  BY DEF Bijection, Injection, Surjection, IsInjective
<1>2. ExistsBijection(S, T)
  BY <1>1 DEF ExistsBijection
<1> QED BY <1>2, FS_Bijection

\* A sequence of all elements has each.
LEMMA AllAreThere ==
  ASSUME NEW S, IsFiniteSet(S), NEW t \in SetToSeqs(S)
  PROVE  /\ Cardinality(S) \in Nat /\ t \in [1 .. Cardinality(S) -> S]
         /\ \A x, y \in 1 .. Cardinality(S) : t[x] = t[y] => x = y
         /\ \A z \in S : \E x \in 1 .. Cardinality(S) : t[x] = z
<1> DEFINE m == Cardinality(S)
<1>1. m \in Nat
  BY FS_CardinalityType
<1>2. t \in [1 .. m -> S] /\ \A x, y \in 1 .. m : t[x] = t[y] => x = y
  BY DEF SetToSeqs
<1>3. t \in Injection(1 .. m, S)
  BY <1>2 DEF Injection, IsInjective
<1>4. Cardinality(1 .. m) = m
  <2>1. Cardinality(1 .. m) = IF 1 > m THEN 0 ELSE m - 1 + 1
    BY <1>1, FS_Interval
  <2> HIDE DEF m
  <2> QED BY <1>1, <2>1
<1>5. t \in Surjection(1 .. m, S)
  <2>1. Cardinality(1 .. m) = Cardinality(S) <=> t \in Surjection(1 .. m, S)
    BY <1>3, FS_Injection
  <2> QED BY <1>4, <2>1
<1>6. \A z \in S : \E x \in 1 .. m : t[x] = z
  BY <1>5 DEF Surjection
<1> QED BY <1>1, <1>2, <1>6

\* What does not go down from one to the next does not go down at all.
LEMMA Ascending ==
  ASSUME NEW m \in Nat, NEW v, \A x \in 1 .. m : v[x] \in Int,
         \A x \in 1 .. m - 1 : v[x] <= v[x + 1]
  PROVE  \A x, y \in 1 .. m : x <= y => v[x] <= v[y]
<1> SUFFICES ASSUME NEW x \in 1 .. m PROVE \A y \in 1 .. m : x <= y => v[x] <= v[y]
  OBVIOUS
<1> DEFINE bad == {y \in 1 .. m : x <= y /\ ~(v[x] <= v[y])}
<1> SUFFICES ASSUME bad # {} PROVE FALSE
  OBVIOUS
<1>1. bad \subseteq Nat
  OBVIOUS
<1>2. PICK y \in bad : \A z \in bad : y <= z
  BY <1>1, Least
<1>3. /\ y # x /\ y - 1 \in 1 .. m - 1 /\ y - 1 \in 1 .. m
      /\ x <= y - 1 /\ ~(y <= y - 1) /\ y - 1 + 1 = y
  BY <1>2
<1>4. v[x] <= v[y - 1]
  BY <1>2, <1>3
<1>5. v[y - 1] <= v[y]
  BY <1>3
<1>6. v[x] \in Int /\ v[y - 1] \in Int /\ v[y] \in Int
  BY <1>2, <1>3
<1> QED BY <1>2, <1>4, <1>5, <1>6

\* Below half of the range nothing wraps around.
LEMMA NoWrap ==
  ASSUME NEW x \in Int, -IntMax - 1 <= x, x <= IntMax
  PROVE  Wrap(x) = x
<1>1. IntMax \in Nat
  BY ExercisesAssumption DEF NumberAssumption
<1>2. PICK a \in Nat : a = x + IntMax + 1
  BY <1>1
<1>3. PICK b \in Nat \ {0} : b = 2 * IntMax + 2
  BY <1>1
<1>4. a < b => a % b = a
  <2>1. \A u \in Nat, w \in Nat \ {0} : u < w => u % w = u
    OBVIOUS
  <2> QED BY <2>1
<1>5. a < b
  BY <1>1, <1>2, <1>3
<1> QED BY <1>1, <1>2, <1>3, <1>4, <1>5 DEF Wrap

\* The numbers of the arrays.
LEMMA QuarterIs ==
  /\ IntMax \in Nat /\ IntMax \div 4 \in Nat /\ 4 * (IntMax \div 4) <= IntMax
  /\ \A x \in -(IntMax \div 4) .. IntMax \div 4 :
       x \in Int /\ -(IntMax \div 4) <= x /\ x <= IntMax \div 4
<1>1. IntMax \in Nat
  BY ExercisesAssumption DEF NumberAssumption
<1>2. \A b \in Nat : b \div 4 \in Nat /\ 4 * (b \div 4) <= b
  OBVIOUS
<1> QED BY <1>1, <1>2

\* The pair of the places c.
PairAt(a, b, c) ==
  [at |-> c, u1 |-> a[c[1]], u2 |-> b[c[2]], sum |-> Wrap(a[c[1]] + b[c[2]])]

\* The sums of two pairs, and cpmSum's difference of them, do not wrap around.
LEMMA SumsAre ==
  ASSUME NEW a \in Arrays, NEW b \in Arrays
  PROVE  \A c, d \in (DOMAIN a) \X (DOMAIN b) :
           /\ a[c[1]] + b[c[2]] \in Int
           /\ cpmSum(PairAt(a, b, c), PairAt(a, b, d))
                = (a[c[1]] + b[c[2]]) - (a[d[1]] + b[d[2]])
<1> DEFINE Q == IntMax \div 4
<1>1. a \in Seq(-Q .. Q) /\ b \in Seq(-Q .. Q)
  BY ExercisesAssumption DEF ArraysAssumption
<1>2. IntMax \in Nat /\ Q \in Nat /\ 4 * Q <= IntMax
  BY QuarterIs
<1> HIDE DEF Q
<1>3. ASSUME NEW c \in (DOMAIN a) \X (DOMAIN b)
      PROVE  \E x \in Int : /\ x = a[c[1]] + b[c[2]] /\ -(2 * Q) <= x /\ x <= 2 * Q
                            /\ PairAt(a, b, c).sum = x
  <2>1. a[c[1]] \in -Q .. Q /\ b[c[2]] \in -Q .. Q
    BY <1>1, ElementsAre
  <2>2. PICK x \in Int : x = a[c[1]] + b[c[2]] /\ -(2 * Q) <= x /\ x <= 2 * Q
    BY <1>2, <2>1
  <2>3. Wrap(x) = x
    BY <1>2, <2>2, NoWrap
  <2> QED BY <2>2, <2>3 DEF PairAt
<1> TAKE c, d \in (DOMAIN a) \X (DOMAIN b)
<1>4. PICK x \in Int : /\ x = a[c[1]] + b[c[2]] /\ -(2 * Q) <= x /\ x <= 2 * Q
                       /\ PairAt(a, b, c).sum = x
  BY <1>3
<1>5. PICK y \in Int : /\ y = a[d[1]] + b[d[2]] /\ -(2 * Q) <= y /\ y <= 2 * Q
                       /\ PairAt(a, b, d).sum = y
  BY <1>3
<1>6. Wrap(x - y) = x - y
  BY <1>2, <1>4, <1>5, NoWrap
<1> QED BY <1>4, <1>5, <1>6 DEF cpmSum

\* kSmallestPairs.c returns the pairs of the smallest sums, in order.
THEOREM SmallestPairs ==
  ASSUME NEW a \in Arrays, NEW b \in Arrays, NEW m \in Ks, NEW r \in kSmallestPairs(a, b, m)
  PROVE  AreTheSmallest(a, b, m, r)
<1> DEFINE places == (DOMAIN a) \X (DOMAIN b)
           sa == {PairAt(a, b, c) : c \in places}
           N == Cardinality(sa)
           sum(c) == a[c[1]] + b[c[2]]
           of == [c \in places |-> PairAt(a, b, c)]
<1>0. a \in Seq(Int) /\ b \in Seq(Int) /\ m \in Nat
  <2>1. -(IntMax \div 4) .. IntMax \div 4 \subseteq Int
    BY QuarterIs
  <2> DEFINE X == -(IntMax \div 4) .. IntMax \div 4
  <2>2. a \in Seq(X) /\ b \in Seq(X) /\ m \in Nat
    BY ExercisesAssumption DEF ArraysAssumption
  <2>3. X \subseteq Int
    BY <2>1
  <2> HIDE DEF X
  <2>4. \A w \in Seq(X) : w \in Seq(Int)
    BY <2>3, ElementsAre
  <2> QED BY ONLY <2>2, <2>4
<1>1. IsFiniteSet(places)
  <2>1. IsFiniteSet(DOMAIN a) /\ IsFiniteSet(DOMAIN b)
    <3>1. \A l \in Nat : IsFiniteSet(1 .. l)
      BY FS_Interval
    <3> QED BY <1>0, <3>1
  <2> QED BY <2>1, FS_Product
<1>a. /\ \A c \in places : PairAt(a, b, c) \in sa
      /\ \A z \in sa : \E c \in places : z = PairAt(a, b, c)
  OBVIOUS
<1>2. IsFiniteSet(sa) /\ N = Cardinality(places)
  <2>1. of \in [places -> sa]
    BY <1>a
  <2>2. \A c, d \in places : of[c] = of[d] => c = d
    BY DEF PairAt
  <2>3. \A z \in sa : \E c \in places : of[c] = z
    BY <1>a
  <2> HIDE DEF places, sa, of
  <2> QED BY <1>1, <2>1, <2>2, <2>3, SameCount
<1>3. \E t \in SetToSeqs(sa) :
        /\ \A x \in 1 .. Len(t) - 1 : cpmSum(t[x], t[x + 1]) <= 0
        /\ r = SubSeq(t, 1, Min({m, N}))
  BY DEF kSmallestPairs, PairAt
<1> HIDE DEF sa, of
<1>4. PICK t \in SetToSeqs(sa) :
        /\ \A x \in 1 .. Len(t) - 1 : cpmSum(t[x], t[x + 1]) <= 0
        /\ r = SubSeq(t, 1, Min({m, N}))
  BY <1>3
<1>5. /\ N \in Nat /\ t \in [1 .. N -> sa]
      /\ \A x, y \in 1 .. N : t[x] = t[y] => x = y
      /\ \A z \in sa : \E x \in 1 .. N : t[x] = z
  BY <1>2, <1>4, AllAreThere
<1> HIDE DEF places, N
<1>6. t \in Seq(sa) /\ Len(t) = N
  BY <1>5
<1> DEFINE at == [x \in 1 .. N |-> t[x].at]
           v == [x \in 1 .. N |-> sum(at[x])]
<1>7. \A x \in 1 .. N : at[x] \in places /\ t[x] = PairAt(a, b, at[x])
  BY <1>5, <1>a DEF PairAt
<1>8. \A x, y \in 1 .. N : at[x] = at[y] => x = y
  BY <1>5, <1>7
<1>9. \A c \in places : \E x \in 1 .. N : at[x] = c
  <2> TAKE c \in places
  <2>1. PairAt(a, b, c) \in sa /\ PairAt(a, b, c).at = c
    BY <1>a DEF PairAt
  <2>2. PICK x \in 1 .. N : t[x] = PairAt(a, b, c)
    BY <1>5, <2>1
  <2> QED BY <2>1, <2>2
<1>10. \A c, d \in places : sum(c) \in Int
                            /\ cpmSum(PairAt(a, b, c), PairAt(a, b, d)) = sum(c) - sum(d)
  BY SumsAre DEF places
<1> HIDE DEF at
<1>11. \A x \in 1 .. N : v[x] \in Int /\ v[x] = sum(at[x])
  BY <1>7, <1>10
<1>12. \A x \in 1 .. N - 1 : v[x] <= v[x + 1]
  <2> TAKE x \in 1 .. N - 1
  <2>1. x \in 1 .. N /\ x + 1 \in 1 .. N
    BY <1>5
  <2>2. cpmSum(t[x], t[x + 1]) <= 0
    BY <1>4, <1>6
  <2>3. cpmSum(t[x], t[x + 1]) = sum(at[x]) - sum(at[x + 1])
    BY <1>7, <1>10, <2>1
  <2>4. cpmSum(t[x], t[x + 1]) = v[x] - v[x + 1]
    BY <1>11, <2>1, <2>3
  <2> QED BY <1>11, <2>1, <2>2, <2>4
<1> HIDE DEF v, sum
<1>13. \A x, y \in 1 .. N : x <= y => v[x] <= v[y]
  BY <1>5, <1>11, <1>12, Ascending
<1> DEFINE M == Min({m, N})
<1>14. M \in Nat /\ M <= N
  <2>1. \A x, y \in Int : Min({x, y}) = IF x <= y THEN x ELSE y
    BY OfTwo, Zenon
  <2>2. m \in Int /\ N \in Int
    BY <1>0, <1>5
  <2>3. M = IF m <= N THEN m ELSE N
    BY <2>1, <2>2, Zenon
  <2> QED BY <1>0, <1>5, <2>3
<1> HIDE DEF M
<1>15. /\ Len(r) = M /\ DOMAIN r = 1 .. M
       /\ \A x \in 1 .. M : r[x] = t[x] /\ r[x].at = at[x] /\ x \in 1 .. N
  <2>1. r = SubSeq(t, 1, M)
    BY <1>4 DEF M
  <2>2. Len(r) = M /\ DOMAIN r = 1 .. M /\ \A x \in 1 .. M : r[x] = t[x] /\ x \in 1 .. N
    BY <1>6, <1>14, <2>1
  <2> QED BY <2>2 DEF at
<1> DEFINE taken == {r[x].at : x \in DOMAIN r}
<1>16. taken = {at[x] : x \in 1 .. M}
  BY <1>15
<1>17. Cardinality(taken) = M
  <2> DEFINE f == [x \in 1 .. M |-> at[x]]
  <2>1. f \in [1 .. M -> taken]
    BY <1>16
  <2>2. \A x, y \in 1 .. M : f[x] = f[y] => x = y
    BY <1>8, <1>15
  <2>3. \A z \in taken : \E x \in 1 .. M : f[x] = z
    BY <1>16
  <2>4. IsFiniteSet(1 .. M) /\ Cardinality(1 .. M) = M
    <3>1. IsFiniteSet(1 .. M) /\ Cardinality(1 .. M) = IF 1 > M THEN 0 ELSE M - 1 + 1
      BY <1>14, FS_Interval
    <3> QED BY <1>14, <3>1
  <2> HIDE DEF f, taken
  <2> QED BY <2>1, <2>2, <2>3, <2>4, SameCount
<1>18. \A x \in 1 .. M - 1 : sum(r[x].at) <= sum(r[x + 1].at)
  <2> TAKE x \in 1 .. M - 1
  <2>1. x \in 1 .. M /\ x + 1 \in 1 .. M /\ x \in 1 .. N - 1
    BY <1>14, <1>5
  <2> QED BY <1>11, <1>12, <1>15, <2>1
<1>19. \A c \in places \ taken, d \in taken : sum(d) <= sum(c)
  <2> TAKE c \in places \ taken, d \in taken
  <2>1. PICK x \in 1 .. N : at[x] = c
    BY <1>9
  <2>2. PICK y \in 1 .. M : at[y] = d
    BY <1>16
  <2>3. ~(x \in 1 .. M)
    BY <1>16, <2>1
  <2>4. y <= x /\ y \in 1 .. N
    BY <1>5, <1>14, <2>3
  <2> QED BY <1>11, <1>13, <2>1, <2>2, <2>4
<1> HIDE DEF taken
<1> QED BY <1>2, <1>15, <1>17, <1>18, <1>19 DEF AreTheSmallest, M, taken, places, sum

-----------------------------------------------------------------------------
(* How many elements of a sequence are in a set.                            *)
Count(t, S) == Cardinality({x \in DOMAIN t : t[x] \in S})

\* A count is a number, 0 where no element is in the set, and the length where all are.
LEMMA CountIs ==
  ASSUME NEW X, NEW t \in Seq(X), NEW S
  PROVE  /\ IsFiniteSet({x \in DOMAIN t : t[x] \in S}) /\ Count(t, S) \in Nat
         /\ Count(t, S) = 0 <=> \A x \in DOMAIN t : t[x] \notin S
         /\ (\A x \in DOMAIN t : t[x] \in S) => Count(t, S) = Len(t)
<1> DEFINE I == {x \in DOMAIN t : t[x] \in S}
<1>1. Len(t) \in Nat /\ DOMAIN t = 1 .. Len(t)
  OBVIOUS
<1>2. IsFiniteSet(1 .. Len(t)) /\ Cardinality(1 .. Len(t)) = Len(t)
  <2>1. PICK m \in Nat : m = Len(t)
    BY <1>1
  <2>2. IsFiniteSet(1 .. m) /\ Cardinality(1 .. m) = IF 1 > m THEN 0 ELSE m - 1 + 1
    BY FS_Interval
  <2> QED BY <2>1, <2>2
<1>3. I \in SUBSET (1 .. Len(t))
  BY <1>1
<1>4. IsFiniteSet(I)
  BY <1>2, <1>3, FS_Subset
<1> HIDE DEF I
<1>5. Cardinality(I) \in Nat /\ (Cardinality(I) = 0 <=> I = {})
  BY <1>4, FS_CardinalityType, FS_EmptySet
<1>6. (\A x \in DOMAIN t : t[x] \in S) => I = 1 .. Len(t)
  BY <1>1 DEF I
<1> QED BY <1>2, <1>4, <1>5, <1>6 DEF I, Count

\* As many as in one and in the other.
LEMMA CountOfBoth ==
  ASSUME NEW X, NEW a \in Seq(X), NEW b \in Seq(X), NEW S
  PROVE  Count(a \o b, S) = Count(a, S) + Count(b, S)
<1> DEFINE I == {x \in DOMAIN a : a[x] \in S}
           J == {x \in DOMAIN b : b[x] \in S}
           K == {x \in DOMAIN (a \o b) : (a \o b)[x] \in S}
           f == [x \in J |-> x + Len(a)]
           T == {x + Len(a) : x \in J}
<1>1. Len(a) \in Nat /\ Len(b) \in Nat /\ DOMAIN a = 1 .. Len(a) /\ DOMAIN b = 1 .. Len(b)
  OBVIOUS
<1>2. /\ DOMAIN (a \o b) = 1 .. Len(a) + Len(b)
      /\ \A x \in 1 .. Len(a) : (a \o b)[x] = a[x]
      /\ \A x \in 1 .. Len(b) : (a \o b)[x + Len(a)] = b[x]
  OBVIOUS
<1>3. /\ IsFiniteSet(I) /\ IsFiniteSet(J)
      /\ Cardinality(I) \in Nat /\ Cardinality(J) \in Nat
  BY CountIs DEF Count
<1>4. IsFiniteSet(T) /\ Cardinality(T) = Cardinality(J)
  <2>1. f \in [J -> T] /\ \A z \in T : \E x \in J : f[x] = z
    OBVIOUS
  <2>2. \A x, y \in J : f[x] = f[y] => x = y
    BY <1>1
  <2> HIDE DEF f, J, T
  <2> QED BY <1>3, <2>1, <2>2, SameCount
<1>5. I \cap T = {}
  BY <1>1
<1>6. K = I \cup T
  <2>1. ASSUME NEW z \in K PROVE z \in I \cup T
    <3>1. z \in 1 .. Len(a) + Len(b) /\ (a \o b)[z] \in S
      BY <1>2
    <3>2. CASE z \in 1 .. Len(a)
      BY <1>1, <1>2, <3>1, <3>2
    <3>3. CASE ~(z \in 1 .. Len(a))
      <4>1. z - Len(a) \in 1 .. Len(b) /\ z = z - Len(a) + Len(a)
        BY <1>1, <3>1, <3>3
      <4>2. b[z - Len(a)] \in S
        BY <1>2, <3>1, <4>1
      <4>3. z - Len(a) \in J
        BY <1>1, <4>1, <4>2
      <4> QED BY <4>1, <4>3
    <3> QED BY <3>2, <3>3
  <2>2. I \subseteq K
    BY <1>1, <1>2
  <2>3. ASSUME NEW x \in J PROVE x + Len(a) \in K
    <3>1. x \in 1 .. Len(b) /\ b[x] \in S
      BY <1>1
    <3>2. (a \o b)[x + Len(a)] \in S /\ x + Len(a) \in 1 .. Len(a) + Len(b)
      BY <1>1, <1>2, <3>1
    <3> QED BY <1>2, <3>2
  <2> QED BY <2>1, <2>2, <2>3
<1>7. Cardinality(I \cup T) = Cardinality(I) + Cardinality(T) - Cardinality(I \cap T)
  BY <1>3, <1>4, FS_Union
<1>8. Cardinality(I \cap T) = 0
  BY <1>5, FS_EmptySet
<1> HIDE DEF I, J, K, T
<1>9. Cardinality(K) = Cardinality(I) + Cardinality(J)
  BY <1>3, <1>4, <1>6, <1>7, <1>8
<1> QED BY <1>9 DEF I, J, K, Count

-----------------------------------------------------------------------------
(* frequencySort.                                                           *)

\* What FlattenSeq has made of the first sequences.
LEMMA FlattenRuns ==
  ASSUME NEW X, NEW u \in Seq(Seq(X)), Len(u) # 0
  PROVE  \E f \in [1 .. Len(u) -> Seq(X)] :
           /\ f[1] = u[1] /\ FlattenSeq(u) = f[Len(u)]
           /\ \A l \in 2 .. Len(u) : f[l] = f[l - 1] \o u[l]
<1> DEFINE D == 1 .. Len(u)
           B == Seq(X)
           size == [l \in D |-> l]
           F == [y \in D \X [D -> B] |-> IF y[1] = 1 THEN u[y[1]] ELSE y[2][y[1] - 1] \o u[y[1]]]
           Is(it) == it = [l \in D |-> IF l = 1 THEN u[l] ELSE it[l - 1] \o u[l]]
<1>0. Len(u) \in Nat /\ D = 1 .. Len(u) /\ \A l \in D : u[l] \in B
  OBVIOUS
<1>1. FlattenSeq(u) = (CHOOSE it : Is(it))[Len(u)]
  BY DEF FlattenSeq
<1>a. \A a, b \in B : a \o b \in B
  OBVIOUS
<1>b. <<>> \in B
  OBVIOUS
<1> HIDE DEF B
<1>2. \A l \in D : l \in Nat /\ (l # 1 => l - 1 \in D /\ l - 1 < l)
  BY <1>0
<1>3. \A l \in D, g \in [D -> B] :
        /\ F[<<l, g>>] = IF l = 1 THEN u[l] ELSE g[l - 1] \o u[l]
        /\ F[<<l, g>>] \in B
  BY <1>0, <1>2, <1>a
<1>4. F \in [D \X [D -> B] -> B]
  BY <1>0, <1>2, <1>a
<1>5. size \in [D -> Nat] /\ \A l \in D : size[l] = l
  BY <1>2
<1> HIDE DEF D, F, size
<1>6. Recursive(D, B, size, F)
  <2>1. ASSUME NEW l \in D, NEW g \in [D -> B], NEW h \in [D -> B],
               \A e \in D : size[e] < size[l] => g[e] = h[e]
        PROVE  F[<<l, g>>] = F[<<l, h>>]
    <3>1. l # 1 => g[l - 1] = h[l - 1]
      BY <1>2, <1>5, <2>1
    <3> QED BY <1>3, <3>1
  <2> QED BY <1>b, <1>4, <1>5, <2>1 DEF Recursive
<1>7. PICK f \in [D -> B] : \A l \in D : f[l] = F[<<l, f>>]
  BY <1>6, Recursion
<1>8. Is(f)
  <2>1. \A l \in D : f[l] = IF l = 1 THEN u[l] ELSE f[l - 1] \o u[l]
    BY <1>3, <1>7
  <2> QED BY <1>7, <2>1
<1>9. PICK it : it = CHOOSE x : Is(x)
  OBVIOUS
<1>10. Is(it)
  BY <1>8, <1>9
<1>11. \A l \in D : it[l] \in B
  <2> DEFINE bad == {l \in D : it[l] \notin B}
  <2> SUFFICES ASSUME bad # {} PROVE FALSE
    OBVIOUS
  <2>1. bad \subseteq Nat
    BY <1>2
  <2>2. PICK l \in bad : \A x \in bad : l <= x
    BY <2>1, Least
  <2>3. l \in D /\ it[l] = IF l = 1 THEN u[l] ELSE it[l - 1] \o u[l]
    BY <1>10, <2>2
  <2>4. l # 1
    BY <1>0, <2>2, <2>3
  <2>5. l - 1 \in D /\ ~(l <= l - 1)
    BY <1>2, <2>3, <2>4
  <2>6. it[l - 1] \in B
    BY <2>2, <2>5
  <2> QED BY <1>0, <1>a, <2>2, <2>3, <2>4, <2>6
<1>12. it \in [D -> B] /\ \A l \in D : it[l] = IF l = 1 THEN u[l] ELSE it[l - 1] \o u[l]
  BY <1>10, <1>11
<1>13. 1 \in D /\ Len(u) \in D /\ \A l \in 2 .. Len(u) : l \in D /\ l # 1
  BY <1>0
<1>14. /\ it[1] = u[1] /\ FlattenSeq(u) = it[Len(u)]
       /\ \A l \in 2 .. Len(u) : it[l] = it[l - 1] \o u[l]
  BY <1>1, <1>9, <1>12, <1>13
<1> QED BY <1>12, <1>14 DEF D, B

\* One sequence behind another.
LEMMA Joined ==
  ASSUME NEW X, NEW a \in Seq(X), NEW b \in Seq(X)
  PROVE  /\ a \o b \in Seq(X) /\ Len(a \o b) = Len(a) + Len(b)
         /\ DOMAIN (a \o b) = 1 .. Len(a) + Len(b)
         /\ \A x \in 1 .. Len(a) + Len(b) :
              (a \o b)[x] = IF x <= Len(a) THEN a[x] ELSE b[x - Len(a)]
OBVIOUS

\* frequencySort's frequency is a count.
LEMMA FrequencyIs ==
  ASSUME NEW X, NEW t \in Seq(X)
  PROVE  \A e : /\ Frequency(t, e) = Count(t, {e}) /\ Frequency(t, e) \in Nat
                /\ Frequency(t, e) = 0 <=> \A x \in DOMAIN t : t[x] # e
<1> TAKE e
<1>1. {x \in DOMAIN t : t[x] \in {e}} = {x \in DOMAIN t : t[x] = e}
  OBVIOUS
<1>2. Frequency(t, e) = Count(t, {e})
  BY <1>1 DEF Frequency, Count
<1>3. /\ Count(t, {e}) \in Nat
      /\ Count(t, {e}) = 0 <=> \A x \in DOMAIN t : t[x] \notin {e}
  BY CountIs
<1> QED BY <1>2, <1>3

\* The m characters of v, those met more often first.
ByFrequency(v, m, t) ==
  /\ m \in Nat /\ t \in [1 .. m -> Nat]
  /\ \A x, y \in 1 .. m : t[x] = t[y] => x = y
  /\ \A x, y \in 1 .. m : x <= y => Frequency(v, t[x]) >= Frequency(v, t[y])

\* The first l of the characters t have been laid out in w.
Arranged(v, t, l, w) ==
  /\ \A x \in DOMAIN w : \E a \in 1 .. l : w[x] = t[a]
  /\ \A a \in 1 .. l : Frequency(w, t[a]) = Frequency(v, t[a])
  /\ \A x, y \in DOMAIN w : x < y =>
       /\ Frequency(v, w[x]) >= Frequency(v, w[y])
       /\ w[x] = w[y] => \A a \in x .. y : w[a] = w[x]

Times(c, e) == [x \in 1 .. c |-> e]

\* The most frequent character, as often as it is met.
LEMMA ArrangedFirst ==
  ASSUME NEW v \in Seq(Nat), NEW m, NEW t, ByFrequency(v, m, t), 1 \in 1 .. m
  PROVE  Arranged(v, t, 1, Times(Frequency(v, t[1]), t[1]))
<1> DEFINE c == Frequency(v, t[1])
           w == Times(c, t[1])
<1>1. c \in Nat /\ t[1] \in Nat
  BY FrequencyIs DEF ByFrequency
<1> HIDE DEF c
<1>2. w \in Seq(Nat) /\ Len(w) = c /\ DOMAIN w = 1 .. c /\ \A x \in 1 .. c : w[x] = t[1]
  BY <1>1 DEF Times
<1> HIDE DEF w
<1>3. Frequency(w, t[1]) = c
  <2>1. Count(w, {t[1]}) = Len(w)
    <3>1. \A x \in DOMAIN w : w[x] \in {t[1]}
      BY <1>2
    <3> QED BY <1>2, <3>1, CountIs
  <2> QED BY <1>2, <2>1, FrequencyIs
<1>4. \A a \in 1 .. 1 : a = 1
  OBVIOUS
<1>5. \A x, y \in DOMAIN w : x < y => w[x] = t[1] /\ w[y] = t[1] /\ \A a \in x .. y : w[a] = t[1]
  BY <1>1, <1>2
<1>6. /\ \A x \in DOMAIN w : \E a \in 1 .. 1 : w[x] = t[a]
      /\ \A a \in 1 .. 1 : Frequency(w, t[a]) = Frequency(v, t[a])
  BY <1>2, <1>3, <1>4 DEF c
<1>7. \A x, y \in DOMAIN w : x < y =>
        /\ Frequency(v, w[x]) >= Frequency(v, w[y])
        /\ w[x] = w[y] => \A a \in x .. y : w[a] = w[x]
  <2> TAKE x, y \in DOMAIN w
  <2> HAVE x < y
  <2>1. w[x] = t[1] /\ w[y] = t[1] /\ \A a \in x .. y : w[a] = t[1]
    BY <1>5
  <2>2. Frequency(v, t[1]) >= Frequency(v, t[1])
    BY <1>1 DEF c
  <2> QED BY <2>1, <2>2
<1>8. Arranged(v, t, 1, w)
  BY <1>6, <1>7 DEF Arranged
<1> QED BY <1>8 DEF w, c

\* The next character behind those before it.
LEMMA ArrangedMore ==
  ASSUME NEW v \in Seq(Nat), NEW m, NEW t, ByFrequency(v, m, t), NEW l \in 2 .. m,
         NEW w \in Seq(Nat), Arranged(v, t, l - 1, w)
  PROVE  Arranged(v, t, l, w \o Times(Frequency(v, t[l]), t[l]))
<1> DEFINE c == Frequency(v, t[l])
           b == Times(c, t[l])
           z == w \o b
<1>0. m \in Nat /\ l \in 1 .. m /\ \A a \in 1 .. l - 1 : a \in 1 .. m /\ a <= l /\ a # l
  BY DEF ByFrequency
<1>1. c \in Nat /\ t[l] \in Nat
  BY <1>0, FrequencyIs DEF ByFrequency
<1> HIDE DEF c
<1>2. b \in Seq(Nat) /\ Len(b) = c /\ DOMAIN b = 1 .. c /\ \A x \in 1 .. c : b[x] = t[l]
  BY <1>1 DEF Times
<1> HIDE DEF b
<1>3. /\ Len(w) \in Nat /\ DOMAIN w = 1 .. Len(w)
      /\ DOMAIN z = 1 .. Len(w) + c
      /\ \A x \in DOMAIN z : IF x <= Len(w) THEN z[x] = w[x] /\ x \in DOMAIN w
                             ELSE z[x] = t[l]
  <2>1. Len(w) \in Nat /\ DOMAIN w = 1 .. Len(w) /\ DOMAIN z = 1 .. Len(w) + Len(b)
    <3>1. Len(w) \in Nat /\ DOMAIN w = 1 .. Len(w)
      BY ElementsAre
    <3>2. z \in Seq(Nat) /\ Len(z) = Len(w) + Len(b)
      BY <1>2, Joined
    <3> QED BY <3>1, <3>2, ElementsAre
  <2>2. /\ \A x \in 1 .. Len(w) : z[x] = w[x]
        /\ \A x \in 1 .. Len(b) : z[x + Len(w)] = b[x]
    BY <1>2
  <2>3. ASSUME NEW x \in DOMAIN z, ~(x <= Len(w)) PROVE z[x] = t[l]
    <3>1. x - Len(w) \in 1 .. c /\ x - Len(w) + Len(w) = x
      BY <1>1, <1>2, <2>1, <2>3
    <3> QED BY <1>2, <2>2, <3>1
  <2>4. \A x \in DOMAIN z : x <= Len(w) => z[x] = w[x] /\ x \in DOMAIN w
    BY <1>1, <1>2, <2>1, <2>2
  <2> HIDE DEF z
  <2> QED BY <1>2, <2>1, <2>3, <2>4
<1>4. z \in Seq(Nat)
  BY <1>2
<1>5. \A e : Frequency(z, e) = Frequency(w, e) + Frequency(b, e)
  <2> TAKE e
  <2>1. Count(z, {e}) = Count(w, {e}) + Count(b, {e})
    BY <1>2, CountOfBoth
  <2> HIDE DEF z
  <2> QED BY <1>2, <1>4, <2>1, FrequencyIs
<1> HIDE DEF z
<1>6. Frequency(b, t[l]) = c /\ \A e : e # t[l] => Frequency(b, e) = 0
  <2>1. Count(b, {t[l]}) = Len(b)
    BY <1>2, CountIs
  <2>2. Frequency(b, t[l]) = Count(b, {t[l]})
    BY <1>2, FrequencyIs
  <2>3. \A e : e # t[l] => Frequency(b, e) = 0
    BY <1>2, FrequencyIs
  <2> QED BY <1>2, <2>1, <2>2, <2>3
<1>7. \A x \in DOMAIN w : \E a \in 1 .. l - 1 : w[x] = t[a]
  BY DEF Arranged
<1>8. \A x \in DOMAIN w : w[x] # t[l] /\ Frequency(v, w[x]) >= Frequency(v, t[l])
  BY <1>0, <1>7 DEF ByFrequency
<1>9. Frequency(w, t[l]) = 0
  BY <1>8, FrequencyIs
<1>10. \A a \in 1 .. l - 1 : t[a] # t[l]
  BY <1>0 DEF ByFrequency
<1>11. \A a \in 1 .. l : a = l \/ a \in 1 .. l - 1
  BY <1>0
<1>12. \A a \in 1 .. l : Frequency(z, t[a]) = Frequency(v, t[a])
  <2> TAKE a \in 1 .. l
  <2>1. CASE a = l
    BY <1>1, <1>5, <1>6, <1>9, <2>1 DEF c
  <2>2. CASE a \in 1 .. l - 1
    <3>1. Frequency(w, t[a]) = Frequency(v, t[a]) /\ Frequency(b, t[a]) = 0
      BY <1>6, <1>10, <2>2 DEF Arranged
    <3>2. Frequency(v, t[a]) \in Nat
      BY FrequencyIs
    <3> QED BY <1>5, <3>1, <3>2
  <2> QED BY <1>11, <2>1, <2>2
<1>13. \A x \in DOMAIN z : \E a \in 1 .. l : z[x] = t[a]
  <2> TAKE x \in DOMAIN z
  <2>1. CASE x <= Len(w)
    <3>1. PICK a \in 1 .. l - 1 : w[x] = t[a]
      BY <1>3, <1>7, <2>1
    <3>2. a \in 1 .. l
      BY <1>0
    <3> QED BY <1>3, <2>1, <3>1, <3>2
  <2>2. CASE ~(x <= Len(w))
    <3>1. l \in 1 .. l
      BY <1>0
    <3> QED BY <1>3, <2>2, <3>1
  <2> QED BY <2>1, <2>2
<1>14. ASSUME NEW x \in DOMAIN z, NEW y \in DOMAIN z, x < y
       PROVE  /\ Frequency(v, z[x]) >= Frequency(v, z[y])
              /\ z[x] = z[y] => \A a \in x .. y : z[a] = z[x]
  <2>0. x \in Nat /\ y \in Nat /\ \A a \in x .. y : a \in DOMAIN z /\ a <= y /\ x <= a
    BY <1>1, <1>3, <1>14
  <2>1. CASE y <= Len(w)
    <3>1. x <= Len(w) /\ \A a \in x .. y : a <= Len(w)
      BY <1>3, <1>14, <2>0, <2>1
    <3>2. z[x] = w[x] /\ z[y] = w[y] /\ \A a \in x .. y : z[a] = w[a]
      BY <1>3, <2>0, <2>1, <3>1
    <3>3. x \in DOMAIN w /\ y \in DOMAIN w
      BY <1>3, <2>1, <3>1
    <3>4. /\ Frequency(v, w[x]) >= Frequency(v, w[y])
          /\ w[x] = w[y] => \A a \in x .. y : w[a] = w[x]
      BY <1>14, <3>3 DEF Arranged
    <3> QED BY <3>2, <3>4
  <2>2. CASE ~(y <= Len(w)) /\ x <= Len(w)
    <3>1. z[y] = t[l] /\ z[x] = w[x] /\ x \in DOMAIN w
      BY <1>3, <2>2
    <3> QED BY <1>8, <3>1
  <2>3. CASE ~(y <= Len(w)) /\ ~(x <= Len(w))
    <3>1. \A a \in x .. y : ~(a <= Len(w))
      BY <1>3, <2>0, <2>3
    <3>2. z[x] = t[l] /\ z[y] = t[l] /\ \A a \in x .. y : z[a] = t[l]
      BY <1>3, <2>0, <2>3, <3>1
    <3> QED BY <1>1, <3>2 DEF c
  <2> QED BY <2>1, <2>2, <2>3
<1>15. Arranged(v, t, l, z)
  BY <1>12, <1>13, <1>14 DEF Arranged
<1> QED BY <1>15 DEF z, b, c

\* 451-sort-frequency returns the characters by their frequency.
THEOREM SortedByFrequency ==
  ASSUME NEW v \in Strings, NEW r \in frequencySort(v)
  PROVE  IsByFrequency(v, r)
<1> DEFINE used == {e \in 1 .. CHAR_MAX - 1 : Frequency(v, e) > 0}
           m == Cardinality(used)
<1>1. /\ v \in Seq(Nat) /\ DOMAIN v = 1 .. Len(v) /\ Len(v) \in Nat
      /\ \A x \in DOMAIN v : v[x] \in 1 .. CHAR_MAX - 1
  <2>1. v \in Seq(1 .. CHAR_MAX - 1)
    BY ExercisesAssumption DEF StringsAssumption
  <2>2. 1 .. CHAR_MAX - 1 \subseteq Nat
    BY DEF CHAR_MAX
  <2> QED BY <2>1, <2>2, ElementsAre
<1>2. \A e : Frequency(v, e) \in Nat
             /\ (Frequency(v, e) = 0 <=> \A x \in DOMAIN v : v[x] # e)
  BY <1>1, FrequencyIs
<1>3. IsFiniteSet(used) /\ used \subseteq Nat
  <2>1. IsFiniteSet(1 .. CHAR_MAX - 1)
    <3>1. CHAR_MAX - 1 \in Int
      BY DEF CHAR_MAX
    <3> QED BY <3>1, FS_Interval
  <2>2. used \in SUBSET (1 .. CHAR_MAX - 1)
    OBVIOUS
  <2>3. 1 .. CHAR_MAX - 1 \subseteq Nat
    BY DEF CHAR_MAX
  <2> HIDE DEF used
  <2> QED BY <2>1, <2>2, <2>3, FS_Subset
<1>4. \A e : e \in used <=> \E x \in DOMAIN v : v[x] = e
  BY <1>1, <1>2
<1>5. PICK t \in SetToSeqs(used) :
        /\ \A x \in 1 .. Len(t) - 1 : Frequency(v, t[x]) >= Frequency(v, t[x + 1])
        /\ r = FlattenSeq([x \in DOMAIN t |->
                             [y \in 1 .. Frequency(v, t[x]) |-> t[x]]])
  BY DEF frequencySort
<1> HIDE DEF used
<1>6. /\ m \in Nat /\ t \in [1 .. m -> used]
      /\ \A x, y \in 1 .. m : t[x] = t[y] => x = y
      /\ \A z \in used : \E x \in 1 .. m : t[x] = z
  BY <1>3, <1>5, AllAreThere
<1> HIDE DEF m
<1>7. DOMAIN t = 1 .. m /\ Len(t) = m
  BY <1>6
<1>8. ByFrequency(v, m, t)
  <2> DEFINE d == [x \in 1 .. m |-> -Frequency(v, t[x])]
  <2>1. \A x \in 1 .. m : d[x] \in Int /\ d[x] = -Frequency(v, t[x])
    BY <1>2
  <2>2. \A x \in 1 .. m - 1 : d[x] <= d[x + 1]
    <3> TAKE x \in 1 .. m - 1
    <3>1. x \in 1 .. m /\ x + 1 \in 1 .. m /\ x \in 1 .. Len(t) - 1
      BY <1>6, <1>7
    <3>2. Frequency(v, t[x]) >= Frequency(v, t[x + 1])
      BY <1>5, <3>1
    <3> HIDE DEF d
    <3> QED BY <1>2, <2>1, <3>1, <3>2
  <2> HIDE DEF d
  <2>3. \A x, y \in 1 .. m : x <= y => d[x] <= d[y]
    BY <1>6, <2>1, <2>2, Ascending
  <2>4. \A x, y \in 1 .. m : x <= y => Frequency(v, t[x]) >= Frequency(v, t[y])
    BY <1>2, <2>1, <2>3
  <2>5. t \in [1 .. m -> Nat]
    BY <1>3, <1>6
  <2> QED BY <1>6, <2>4, <2>5 DEF ByFrequency
<1> DEFINE u == [x \in 1 .. m |-> Times(Frequency(v, t[x]), t[x])]
<1>9. r = FlattenSeq(u)
  BY <1>5, <1>7 DEF Times
<1>10. u \in Seq(Seq(Nat)) /\ Len(u) = m
  <2>1. ASSUME NEW x \in 1 .. m PROVE Times(Frequency(v, t[x]), t[x]) \in Seq(Nat)
    <3>1. t[x] \in Nat /\ Frequency(v, t[x]) \in Nat
      BY <1>2, <1>3, <1>6
    <3> QED BY <3>1 DEF Times
  <2> QED BY <1>6, <2>1
<1>11. CASE m = 0
  <2>1. used = {}
    BY <1>6, <1>11
  <2>2. DOMAIN v = {}
    BY <1>4, <2>1
  <2>3. r = u
    BY <1>9, <1>10, <1>11 DEF FlattenSeq
  <2>4. DOMAIN r = {}
    BY <1>11, <2>3
  <2> QED BY <2>2, <2>4 DEF IsByFrequency, ToSet
<1>12. CASE m # 0
  <2> HIDE DEF u
  <2>1. PICK f \in [1 .. m -> Seq(Nat)] :
           /\ f[1] = u[1] /\ FlattenSeq(u) = f[m]
           /\ \A l \in 2 .. m : f[l] = f[l - 1] \o u[l]
    BY <1>10, <1>12, FlattenRuns
  <2>2. \A l \in 1 .. m : u[l] = Times(Frequency(v, t[l]), t[l])
    BY DEF u
  <2> DEFINE bad == {l \in 1 .. m : ~Arranged(v, t, l, f[l])}
  <2>3. bad = {}
    <3> SUFFICES ASSUME bad # {} PROVE FALSE
      OBVIOUS
    <3>1. bad \subseteq Nat
      BY <1>6
    <3>2. PICK l \in bad : \A x \in bad : l <= x
      BY <3>1, Least
    <3>3. 1 \in 1 .. m
      BY <1>6, <1>12
    <3>4. Arranged(v, t, 1, f[1])
      BY <1>1, <1>8, <2>1, <2>2, <3>3, ArrangedFirst
    <3>5. l # 1
      BY <3>2, <3>4
    <3>6. l \in 2 .. m /\ l - 1 \in 1 .. m /\ l \in 1 .. m /\ ~(l <= l - 1)
      BY <1>6, <3>2, <3>5
    <3>7. Arranged(v, t, l - 1, f[l - 1]) /\ f[l - 1] \in Seq(Nat)
      BY <2>1, <3>2, <3>6
    <3> HIDE DEF bad
    <3>8. Arranged(v, t, l, f[l - 1] \o Times(Frequency(v, t[l]), t[l]))
      BY <1>1, <1>8, <3>6, <3>7, ArrangedMore
    <3>9. Arranged(v, t, l, f[l])
      BY <2>1, <2>2, <3>6, <3>8
    <3> QED BY <3>2, <3>9 DEF bad
  <2>4. Arranged(v, t, m, r)
    <3>1. m \in 1 .. m
      BY <1>6, <1>12
    <3> QED BY <1>9, <2>1, <2>3, <3>1
  <2>5. \A e \in ToSet(v) \cup ToSet(r) : \E l \in 1 .. m : e = t[l]
    <3>1. \A e \in ToSet(v) : e \in used
      BY <1>4 DEF ToSet
    <3>2. \A e \in ToSet(r) : \E l \in 1 .. m : e = t[l]
      BY <2>4 DEF ToSet, Arranged
    <3> QED BY <1>6, <3>1, <3>2
  <2> QED BY <2>4, <2>5 DEF IsByFrequency, Arranged
<1> QED BY <1>11, <1>12

-----------------------------------------------------------------------------
(* findMedianSortedArrays.                                                  *)
Sorted(t) == \A x, y \in DOMAIN t : x <= y => t[x] <= t[y]

\* w has the numbers of l and r, in their order.
Merges(X, l, r, w) ==
  /\ w \in Seq(X) /\ Sorted(w)
  /\ \A S : Count(w, S) = Count(l, S) + Count(r, S)

\* With an empty array there is nothing to merge.
LEMMA MergesWithNone ==
  ASSUME NEW X, NEW l \in Seq(X), NEW r \in Seq(X), Sorted(l), Sorted(r), l = <<>> \/ r = <<>>
  PROVE  Merges(X, l, r, l \o r)
<1>1. l \o r = l \/ l \o r = r
  <2>1. <<>> \o r = r /\ l \o <<>> = l
    OBVIOUS
  <2> QED BY <2>1
<1>2. \A S : Count(l \o r, S) = Count(l, S) + Count(r, S)
  BY CountOfBoth
<1>3. l \o r \in Seq(X)
  OBVIOUS
<1> QED BY <1>1, <1>2, <1>3 DEF Merges

\* A merge of two arrays is one of them the other way round.
LEMMA MergesOtherwise ==
  ASSUME NEW X, NEW l \in Seq(X), NEW r \in Seq(X), NEW w, Merges(X, l, r, w)
  PROVE  Merges(X, r, l, w)
<1>1. \A S : Count(l, S) \in Nat /\ Count(r, S) \in Nat
  BY CountIs
<1> QED BY <1>1 DEF Merges

\* What is in the two is in the one, and the other way round.
LEMMA MergedElements ==
  ASSUME NEW X, NEW l \in Seq(X), NEW r \in Seq(X), NEW w, Merges(X, l, r, w)
  PROVE  \A e : (\E x \in DOMAIN w : w[x] = e)
                  <=> (\E x \in DOMAIN l : l[x] = e) \/ (\E x \in DOMAIN r : r[x] = e)
<1> TAKE e
<1>1. w \in Seq(X) /\ Count(w, {e}) = Count(l, {e}) + Count(r, {e})
  BY DEF Merges
<1>2. \A t \in Seq(X) : Count(t, {e}) \in Nat
                        /\ (Count(t, {e}) = 0 <=> \A x \in DOMAIN t : t[x] \notin {e})
  BY CountIs
<1>3. \A t \in Seq(X) : Count(t, {e}) \in Nat
                        /\ (Count(t, {e}) = 0 <=> ~\E x \in DOMAIN t : t[x] = e)
  BY <1>2
<1>4. PICK a, b, c \in Nat : a = Count(l, {e}) /\ b = Count(r, {e}) /\ c = Count(w, {e})
  BY <1>1, <1>3
<1>5. /\ a = 0 <=> ~\E x \in DOMAIN l : l[x] = e
      /\ b = 0 <=> ~\E x \in DOMAIN r : r[x] = e
      /\ c = 0 <=> ~\E x \in DOMAIN w : w[x] = e
  BY <1>1, <1>3, <1>4
<1>6. c = a + b
  BY <1>1, <1>4
<1>7. c = 0 <=> a = 0 /\ b = 0
  BY <1>6
<1> QED BY <1>5, <1>7

\* The least number goes to the front.
LEMMA MergesFirst ==
  ASSUME NEW X, X \subseteq Int, NEW l \in Seq(X), NEW r \in Seq(X), NEW e \in X, NEW w,
         Merges(X, l, r, w), \A x \in DOMAIN l : e <= l[x], \A x \in DOMAIN r : e <= r[x]
  PROVE  Merges(X, <<e>> \o l, r, <<e>> \o w)
<1>1. w \in Seq(X) /\ Sorted(w) /\ \A S : Count(w, S) = Count(l, S) + Count(r, S)
  BY DEF Merges
<1>2. <<e>> \in Seq(X) /\ Len(<<e>>) = 1 /\ <<e>>[1] = e
  OBVIOUS
<1> DEFINE u == <<e>>
<1>3. u \o w \in Seq(X) /\ DOMAIN (u \o w) = 1 .. 1 + Len(w)
      /\ \A x \in 1 .. 1 + Len(w) : (u \o w)[x] = IF x <= 1 THEN u[x] ELSE w[x - 1]
  BY <1>1, <1>2, Joined
<1>a. u \in Seq(X) /\ Len(u) = 1 /\ u[1] = e
  BY <1>2
<1> HIDE DEF u
<1>4. \A S : /\ Count(u \o w, S) = Count(u, S) + Count(w, S)
             /\ Count(u \o l, S) = Count(u, S) + Count(l, S)
             /\ Count(u, S) \in Nat /\ Count(l, S) \in Nat /\ Count(r, S) \in Nat
  <2> TAKE S
  <2>1. Count(u \o w, S) = Count(u, S) + Count(w, S)
    BY <1>1, <1>a, CountOfBoth
  <2>2. Count(u \o l, S) = Count(u, S) + Count(l, S)
    BY <1>a, CountOfBoth
  <2>3. Count(u, S) \in Nat /\ Count(l, S) \in Nat /\ Count(r, S) \in Nat
    BY <1>a, CountIs
  <2> QED BY <2>1, <2>2, <2>3
<1>5. \A S : Count(u \o w, S) = Count(u \o l, S) + Count(r, S)
  <2> TAKE S
  <2>1. PICK a, b, c \in Nat : a = Count(u, S) /\ b = Count(l, S) /\ c = Count(r, S)
    BY <1>4
  <2>2. Count(u \o w, S) = a + (b + c) /\ Count(u \o l, S) = a + b
    BY <1>1, <1>4, <2>1
  <2> QED BY <2>1, <2>2
<1>6. Len(w) \in Nat /\ DOMAIN w = 1 .. Len(w) /\ \A x \in DOMAIN w : w[x] \in Int
  BY <1>1, ElementsAre
<1>7. \A x \in DOMAIN w : e <= w[x]
  <2> TAKE x \in DOMAIN w
  <2>1. (\E y \in DOMAIN l : l[y] = w[x]) \/ (\E y \in DOMAIN r : r[y] = w[x])
    BY MergedElements
  <2> QED BY <2>1
<1>8. \A x \in 1 .. 1 + Len(w) : /\ x <= 1 => (u \o w)[x] = e
                                 /\ ~(x <= 1) => x - 1 \in DOMAIN w /\ (u \o w)[x] = w[x - 1]
  <2>1. \A x \in 1 .. 1 + Len(w) : x <= 1 => x = 1
    BY <1>6
  <2> QED BY <1>a, <1>3, <1>6, <2>1
<1>9. Sorted(u \o w)
  <2> SUFFICES ASSUME NEW x \in 1 .. 1 + Len(w), NEW y \in 1 .. 1 + Len(w), x <= y
               PROVE  (u \o w)[x] <= (u \o w)[y]
    BY <1>3 DEF Sorted
  <2>1. CASE y <= 1
    <3>1. x <= 1
      BY <1>6, <2>1
    <3>2. (u \o w)[x] = e /\ (u \o w)[y] = e
      BY <1>8, <2>1, <3>1
    <3>3. e \in Int /\ e <= e
      OBVIOUS
    <3> QED BY <3>2, <3>3, Zenon
  <2>2. CASE ~(y <= 1) /\ x <= 1
    <3>1. y - 1 \in DOMAIN w /\ (u \o w)[y] = w[y - 1] /\ (u \o w)[x] = e
      BY <1>8, <2>2
    <3>2. e <= w[y - 1]
      BY <1>7, <3>1
    <3> QED BY <3>1, <3>2, Zenon
  <2>3. CASE ~(y <= 1) /\ ~(x <= 1)
    <3>1. x - 1 <= y - 1
      BY <1>6
    <3>2. /\ x - 1 \in DOMAIN w /\ (u \o w)[x] = w[x - 1]
          /\ y - 1 \in DOMAIN w /\ (u \o w)[y] = w[y - 1]
      BY <1>8, <2>3
    <3>3. w[x - 1] <= w[y - 1]
      BY <1>1, <3>1, <3>2, Zenon DEF Sorted
    <3> QED BY <3>2, <3>3, Zenon
  <2> HIDE DEF u
  <2> QED BY <2>1, <2>2, <2>3
<1> QED BY <1>3, <1>5, <1>9 DEF Merges, u

\* What is left of a sequence after x elements.
From(t, x) == SubSeq(t, x + 1, Len(t))

\* What is left of an array.
LEMMA SuffixIs ==
  ASSUME NEW X, NEW t \in Seq(X), NEW x \in 0 .. Len(t)
  PROVE  /\ From(t, x) \in Seq(X) /\ Len(From(t, x)) = Len(t) - x
         /\ DOMAIN From(t, x) = 1 .. Len(t) - x
         /\ \A y \in 1 .. Len(t) - x : From(t, x)[y] = t[x + y]
         /\ From(t, x) = <<>> <=> x = Len(t)
         /\ From(t, x) # <<>> => /\ x + 1 \in 0 .. Len(t) /\ From(t, x)[1] \in X
                                 /\ From(t, x) = <<From(t, x)[1]>> \o From(t, x + 1)
<1> DEFINE left == SubSeq(t, x + 1, Len(t))
           rest == SubSeq(t, x + 2, Len(t))
<1>0. /\ Len(t) \in Nat /\ x \in Nat /\ x <= Len(t)
      /\ x + 1 \in 1 .. Len(t) + 1 /\ Len(t) \in 0 .. Len(t)
  OBVIOUS
<1>1. left \in Seq(X) /\ Len(left) = Len(t) - x /\ \A y \in 1 .. Len(t) - x : left[y] = t[x + y]
  <2>1. /\ left \in Seq(X)
        /\ Len(left) = (IF x + 1 <= Len(t) THEN Len(t) - (x + 1) + 1 ELSE 0)
        /\ \A y \in 1 .. Len(left) : left[y] = t[x + 1 + y - 1]
    BY <1>0, WindowIs
  <2> HIDE DEF left
  <2>2. Len(left) = Len(t) - x
    BY <1>0, <2>1
  <2>3. \A y \in 1 .. Len(t) - x : x + 1 + y - 1 = x + y
    BY <1>0
  <2> QED BY <2>1, <2>2, <2>3
<1> HIDE DEF left, rest
<1>2. left = <<>> <=> x = Len(t)
  BY <1>0, <1>1
<1>3. ASSUME x # Len(t) PROVE left = <<left[1]>> \o rest /\ left[1] \in X
  <2>0. x + 1 \in Nat /\ x + 1 <= Len(t) /\ x + 2 \in 1 .. Len(t) + 1 /\ 1 \in 1 .. Len(t) - x
    BY <1>0, <1>3
  <2>1. /\ rest \in Seq(X) /\ Len(rest) = Len(t) - x - 1
        /\ \A y \in 1 .. Len(t) - x - 1 : rest[y] = t[x + 1 + y]
    <3>1. /\ rest \in Seq(X)
          /\ Len(rest) = (IF x + 2 <= Len(t) THEN Len(t) - (x + 2) + 1 ELSE 0)
          /\ \A y \in 1 .. Len(rest) : rest[y] = t[x + 2 + y - 1]
      BY <1>0, <2>0, WindowIs DEF rest
    <3>2. Len(rest) = Len(t) - x - 1
      BY <1>0, <2>0, <3>1
    <3>3. \A y \in 1 .. Len(t) - x - 1 : x + 2 + y - 1 = x + 1 + y
      BY <1>0
    <3> QED BY <3>1, <3>2, <3>3
  <2>2. left[1] \in X
    BY <1>1, <2>0, ElementsAre
  <2>3. <<left[1]>> \in Seq(X) /\ Len(<<left[1]>>) = 1 /\ <<left[1]>>[1] = left[1]
    BY <2>2
  <2> DEFINE z == <<left[1]>> \o rest
  <2>4. /\ z \in Seq(X) /\ Len(z) = 1 + Len(rest)
        /\ \A y \in 1 .. 1 + Len(rest) : z[y] = IF y <= 1 THEN <<left[1]>>[y] ELSE rest[y - 1]
    BY <2>1, <2>3, Joined
  <2> HIDE DEF z
  <2>5. Len(z) = Len(t) - x
    BY <1>0, <2>1, <2>4
  <2>6. ASSUME NEW y \in 1 .. Len(t) - x PROVE z[y] = left[y]
    <3>1. CASE y = 1
      <4>1. z[1] = <<left[1]>>[1]
        BY <1>0, <2>0, <2>1, <2>4
      <4> QED BY <2>3, <3>1, <4>1
    <3>2. CASE y # 1
      <4>1. /\ y - 1 \in 1 .. Len(t) - x - 1 /\ ~(y <= 1) /\ y \in 1 .. 1 + Len(rest)
            /\ x + 1 + (y - 1) = x + y
        BY <1>0, <2>1, <3>2
      <4>2. z[y] = rest[y - 1]
        BY <2>4, <4>1
      <4>3. rest[y - 1] = t[x + 1 + (y - 1)]
        BY <2>1, <4>1
      <4> QED BY <1>1, <4>1, <4>2, <4>3
    <3> QED BY <3>1, <3>2
  <2>7. left = z
    BY <1>1, <2>4, <2>5, <2>6
  <2> QED BY <2>2, <2>7 DEF z
<1>4. \A y : y = x + 2 => SubSeq(t, y, Len(t)) = rest
  BY DEF rest
<1>5. x + 1 + 1 = x + 2
  BY <1>0
<1>6. rest = From(t, x + 1)
  BY <1>4, <1>5 DEF From
<1>7. x # Len(t) => x + 1 \in 0 .. Len(t)
  BY <1>0
<1>8. left = From(t, x)
  BY DEF From, left
<1>9. DOMAIN left = 1 .. Len(t) - x
  BY <1>1, ElementsAre
<1> QED BY <1>0, <1>1, <1>2, <1>3, <1>6, <1>7, <1>8, <1>9

\* It is sorted as the array is.
LEMMA SuffixSorted ==
  ASSUME NEW X, NEW t \in Seq(X), Sorted(t), NEW c \in 0 .. Len(t)
  PROVE  Sorted(From(t, c))
<1>1. DOMAIN t = 1 .. Len(t) /\ Len(t) \in Nat
  BY ElementsAre
<1>a. /\ From(t, c) \in Seq(X) /\ Len(From(t, c)) = Len(t) - c
      /\ DOMAIN From(t, c) = 1 .. Len(t) - c
      /\ \A y \in 1 .. Len(t) - c : From(t, c)[y] = t[c + y]
      /\ From(t, c) = <<>> <=> c = Len(t)
      /\ From(t, c) # <<>> => /\ c + 1 \in 0 .. Len(t) /\ From(t, c)[1] \in X
                              /\ From(t, c) = <<From(t, c)[1]>> \o From(t, c + 1)
  BY SuffixIs
<1>2. /\ DOMAIN From(t, c) = 1 .. Len(t) - c
      /\ \A y \in 1 .. Len(t) - c : From(t, c)[y] = t[c + y]
  BY <1>a
<1> SUFFICES ASSUME NEW x \in 1 .. Len(t) - c, NEW y \in 1 .. Len(t) - c, x <= y
             PROVE  From(t, c)[x] <= From(t, c)[y]
  BY <1>2 DEF Sorted
<1>3. PICK m \in Nat : m = Len(t)
  BY <1>1
<1>4. c + x \in 1 .. m /\ c + y \in 1 .. m /\ c + x <= c + y
  <2>1. c \in 0 .. m /\ x \in 1 .. m - c /\ y \in 1 .. m - c
    BY <1>3
  <2> QED BY <2>1
<1>5. t[c + x] <= t[c + y]
  BY <1>1, <1>3, <1>4, Zenon DEF Sorted
<1>6. From(t, c)[x] = t[c + x] /\ From(t, c)[y] = t[c + y]
  BY <1>2
<1> QED BY <1>5, <1>6, Zenon

\* One step of the merge, m being the merge of what remains behind a place.
MergeStep(a, b, c, d, m) ==
  IF From(a, c) = <<>> \/ From(b, d) = <<>> THEN From(a, c) \o From(b, d)
  ELSE IF From(a, c)[1] <= From(b, d)[1] THEN <<From(a, c)[1]>> \o m[<<c + 1, d>>]
  ELSE <<From(b, d)[1]>> \o m[<<c, d + 1>>]

\* What remains of a and b after c and d elements.
MergedFrom(X, a, b, c, d, w) == Merges(X, From(a, c), From(b, d), w)

\* A step looks at no place but the two behind this one.
LEMMA MergeStepIs ==
  ASSUME NEW X, NEW a \in Seq(X), NEW b \in Seq(X),
         NEW c \in 0 .. Len(a), NEW d \in 0 .. Len(b), NEW m,
         c + 1 \in 0 .. Len(a) => m[<<c + 1, d>>] \in Seq(X),
         d + 1 \in 0 .. Len(b) => m[<<c, d + 1>>] \in Seq(X)
  PROVE  MergeStep(a, b, c, d, m) \in Seq(X)
<1> DEFINE left == From(a, c)
           right == From(b, d)
<1>1. /\ left \in Seq(X) /\ right \in Seq(X)
      /\ (left # <<>> => left[1] \in X /\ c + 1 \in 0 .. Len(a))
      /\ (right # <<>> => right[1] \in X /\ d + 1 \in 0 .. Len(b))
  BY SuffixIs
<1>2. MergeStep(a, b, c, d, m) =
        IF left = <<>> \/ right = <<>> THEN left \o right
        ELSE IF left[1] <= right[1] THEN <<left[1]>> \o m[<<c + 1, d>>]
        ELSE <<right[1]>> \o m[<<c, d + 1>>]
  BY DEF MergeStep
<1> HIDE DEF left, right
<1>3. left \o right \in Seq(X) /\ \A e \in X, w \in Seq(X) : <<e>> \o w \in Seq(X)
  BY <1>1
<1> QED BY <1>1, <1>2, <1>3

\* A step looks at the function only where less is left.
LEMMA MergeStepSame ==
  ASSUME NEW X, NEW a \in Seq(X), NEW b \in Seq(X),
         NEW c \in 0 .. Len(a), NEW d \in 0 .. Len(b), NEW m, NEW l,
         c + 1 \in 0 .. Len(a) => m[<<c + 1, d>>] = l[<<c + 1, d>>],
         d + 1 \in 0 .. Len(b) => m[<<c, d + 1>>] = l[<<c, d + 1>>]
  PROVE  MergeStep(a, b, c, d, m) = MergeStep(a, b, c, d, l)
<1> DEFINE left == From(a, c)
           right == From(b, d)
<1>1. /\ (left # <<>> => c + 1 \in 0 .. Len(a))
      /\ (right # <<>> => d + 1 \in 0 .. Len(b))
  BY SuffixIs
<1>2. \A x : MergeStep(a, b, c, d, x) =
        IF left = <<>> \/ right = <<>> THEN left \o right
        ELSE IF left[1] <= right[1] THEN <<left[1]>> \o x[<<c + 1, d>>]
        ELSE <<right[1]>> \o x[<<c, d + 1>>]
  BY DEF MergeStep
<1> HIDE DEF left, right
<1> QED BY <1>1, <1>2

\* A step merges when what it looks at has been merged.
LEMMA MergeStepMerges ==
  ASSUME NEW X, X \subseteq Int, NEW a \in Seq(X), NEW b \in Seq(X), Sorted(a), Sorted(b),
         NEW c \in 0 .. Len(a), NEW d \in 0 .. Len(b), NEW m
  PROVE  \/ MergedFrom(X, a, b, c, d, MergeStep(a, b, c, d, m))
         \/ c + 1 \in 0 .. Len(a) /\ ~MergedFrom(X, a, b, c + 1, d, m[<<c + 1, d>>])
         \/ d + 1 \in 0 .. Len(b) /\ ~MergedFrom(X, a, b, c, d + 1, m[<<c, d + 1>>])
<1> DEFINE left == From(a, c)
           right == From(b, d)
           left2 == From(a, c + 1)
           right2 == From(b, d + 1)
           up == <<c + 1, d>>
           down == <<c, d + 1>>
<1>0. \A x \in X : x \in Int
  OBVIOUS
<1>1. Len(a) \in Nat /\ Len(b) \in Nat /\ DOMAIN a = 1 .. Len(a) /\ DOMAIN b = 1 .. Len(b)
  BY ElementsAre
<1>2. /\ left \in Seq(X) /\ DOMAIN left = 1 .. Len(a) - c
      /\ \A y \in 1 .. Len(a) - c : left[y] = a[c + y]
      /\ left = <<>> <=> c = Len(a)
      /\ left # <<>> => left[1] \in X /\ left = <<left[1]>> \o left2 /\ c + 1 \in 0 .. Len(a)
  BY SuffixIs
<1>3. /\ right \in Seq(X) /\ DOMAIN right = 1 .. Len(b) - d
      /\ \A y \in 1 .. Len(b) - d : right[y] = b[d + y]
      /\ right = <<>> <=> d = Len(b)
      /\ right # <<>> => right[1] \in X /\ right = <<right[1]>> \o right2 /\ d + 1 \in 0 .. Len(b)
  BY SuffixIs
<1>4. /\ left # <<>> => left2 \in Seq(X)
      /\ right # <<>> => right2 \in Seq(X)
  BY <1>2, <1>3, SuffixIs
<1>5. \A w : MergedFrom(X, a, b, c, d, w) <=> Merges(X, left, right, w)
  BY DEF MergedFrom
<1>6. \A w : MergedFrom(X, a, b, c + 1, d, w) <=> Merges(X, left2, right, w)
  BY DEF MergedFrom
<1>7. \A w : MergedFrom(X, a, b, c, d + 1, w) <=> Merges(X, left, right2, w)
  BY DEF MergedFrom
<1>8. MergeStep(a, b, c, d, m) =
        IF left = <<>> \/ right = <<>> THEN left \o right
        ELSE IF left[1] <= right[1] THEN <<left[1]>> \o m[up] ELSE <<right[1]>> \o m[down]
  BY DEF MergeStep
<1> HIDE DEF left, right, left2, right2, up, down
<1>9. /\ \A x, y \in DOMAIN left : x <= y => left[x] <= left[y]
      /\ \A x, y \in DOMAIN right : x <= y => right[x] <= right[y]
  <2>1. Sorted(left) /\ Sorted(right)
    BY SuffixSorted DEF left, right
  <2> QED BY <2>1 DEF Sorted
<1>10. CASE left = <<>> \/ right = <<>>
  <2>1. Merges(X, left, right, left \o right)
    BY <1>2, <1>3, <1>9, <1>10, MergesWithNone DEF Sorted
  <2> QED BY <1>5, <1>8, <1>10, <2>1
<1>11. ASSUME left # <<>> PROVE \A x \in DOMAIN left : left[1] <= left[x]
  <2> TAKE x \in DOMAIN left
  <2>1. 1 \in DOMAIN left /\ 1 <= x
    BY <1>2, <1>11
  <2> QED BY <1>9, <2>1
<1>12. ASSUME right # <<>> PROVE \A x \in DOMAIN right : right[1] <= right[x]
  <2> TAKE x \in DOMAIN right
  <2>1. 1 \in DOMAIN right /\ 1 <= x
    BY <1>3, <1>12
  <2> QED BY <1>9, <2>1
<1>13. ASSUME left # <<>> PROVE \A x \in DOMAIN left2 : \E y \in DOMAIN left : left2[x] = left[y]
  <2>1. /\ <<left[1]>> \in Seq(X) /\ Len(<<left[1]>>) = 1
        /\ left2 \in Seq(X) /\ left = <<left[1]>> \o left2
    BY <1>2, <1>4, <1>13
  <2>2. Len(left2) \in Nat /\ DOMAIN left2 = 1 .. Len(left2)
    BY <2>1, ElementsAre
  <2>3. /\ DOMAIN (<<left[1]>> \o left2) = 1 .. 1 + Len(left2)
        /\ \A x \in 1 .. 1 + Len(left2) :
             (<<left[1]>> \o left2)[x] = IF x <= 1 THEN <<left[1]>>[x] ELSE left2[x - 1]
    BY <2>1, Joined
  <2>4. /\ DOMAIN left = 1 .. 1 + Len(left2)
        /\ \A x \in 1 .. 1 + Len(left2) : ~(x <= 1) => left[x] = left2[x - 1]
    BY <2>1, <2>3
  <2> TAKE x \in DOMAIN left2
  <2>5. x + 1 \in DOMAIN left /\ ~(x + 1 <= 1) /\ x + 1 - 1 = x
    BY <2>2, <2>4
  <2>6. left[x + 1] = left2[x]
    BY <2>4, <2>5
  <2> QED BY <2>5, <2>6
<1>14. ASSUME right # <<>>
       PROVE  \A x \in DOMAIN right2 : \E y \in DOMAIN right : right2[x] = right[y]
  <2>1. /\ <<right[1]>> \in Seq(X) /\ Len(<<right[1]>>) = 1
        /\ right2 \in Seq(X) /\ right = <<right[1]>> \o right2
    BY <1>3, <1>4, <1>14
  <2>2. Len(right2) \in Nat /\ DOMAIN right2 = 1 .. Len(right2)
    BY <2>1, ElementsAre
  <2>3. /\ DOMAIN (<<right[1]>> \o right2) = 1 .. 1 + Len(right2)
        /\ \A x \in 1 .. 1 + Len(right2) :
             (<<right[1]>> \o right2)[x] = IF x <= 1 THEN <<right[1]>>[x] ELSE right2[x - 1]
    BY <2>1, Joined
  <2>4. /\ DOMAIN right = 1 .. 1 + Len(right2)
        /\ \A x \in 1 .. 1 + Len(right2) : ~(x <= 1) => right[x] = right2[x - 1]
    BY <2>1, <2>3
  <2> TAKE x \in DOMAIN right2
  <2>5. x + 1 \in DOMAIN right /\ ~(x + 1 <= 1) /\ x + 1 - 1 = x
    BY <2>2, <2>4
  <2>6. right[x + 1] = right2[x]
    BY <2>4, <2>5
  <2> QED BY <2>5, <2>6
<1>15. CASE left # <<>> /\ right # <<>> /\ left[1] <= right[1]
  <2>1. ASSUME MergedFrom(X, a, b, c + 1, d, m[up])
        PROVE  MergedFrom(X, a, b, c, d, MergeStep(a, b, c, d, m))
    <3>1. Merges(X, left2, right, m[up]) /\ left2 \in Seq(X) /\ left[1] \in X
      BY <1>2, <1>4, <1>6, <1>15, <2>1
    <3>2. \A x \in DOMAIN left2 : left[1] <= left2[x]
      BY <1>11, <1>13, <1>15
    <3>3. \A x \in DOMAIN right : left[1] <= right[x]
      <4> TAKE x \in DOMAIN right
      <4>1. right[1] <= right[x] /\ right[x] \in X /\ right[1] \in X
        BY <1>3, <1>12, <1>15, ElementsAre
      <4>2. PICK e, f, g \in Int : e = left[1] /\ f = right[1] /\ g = right[x]
        BY <1>0, <1>2, <1>15, <4>1
      <4>3. e <= f /\ f <= g
        BY <1>15, <4>1, <4>2
      <4>4. e <= g
        BY <4>3
      <4> QED BY <4>2, <4>4, Zenon
    <3>4. Merges(X, <<left[1]>> \o left2, right, <<left[1]>> \o m[up])
      BY <1>3, <3>1, <3>2, <3>3, MergesFirst
    <3> QED BY <1>2, <1>5, <1>8, <1>15, <3>4
  <2> QED BY <1>2, <1>15, <2>1 DEF up
<1>16. CASE left # <<>> /\ right # <<>> /\ ~(left[1] <= right[1])
  <2>1. ASSUME MergedFrom(X, a, b, c, d + 1, m[down])
        PROVE  MergedFrom(X, a, b, c, d, MergeStep(a, b, c, d, m))
    <3>1. Merges(X, left, right2, m[down]) /\ right2 \in Seq(X) /\ right[1] \in X
      BY <1>3, <1>4, <1>7, <1>16, <2>1
    <3>2. \A x \in DOMAIN right2 : right[1] <= right2[x]
      BY <1>12, <1>14, <1>16
    <3>3. \A x \in DOMAIN left : right[1] <= left[x]
      <4> TAKE x \in DOMAIN left
      <4>1. left[1] <= left[x] /\ left[x] \in X /\ left[1] \in X
        BY <1>2, <1>11, <1>16, ElementsAre
      <4>2. PICK e, f, g \in Int : e = right[1] /\ f = left[1] /\ g = left[x]
        BY <1>0, <1>3, <1>16, <4>1
      <4>3. ~(f <= e) /\ f <= g
        BY <1>16, <4>1, <4>2
      <4>4. e <= g
        BY <4>3
      <4> QED BY <4>2, <4>4, Zenon
    <3>4. Merges(X, right2, left, m[down])
      BY <1>2, <3>1, MergesOtherwise
    <3>5. Merges(X, <<right[1]>> \o right2, left, <<right[1]>> \o m[down])
      BY <1>2, <3>1, <3>2, <3>3, <3>4, MergesFirst
    <3>6. Merges(X, right, left, <<right[1]>> \o m[down])
      BY <1>3, <1>16, <3>5
    <3>7. Merges(X, left, right, <<right[1]>> \o m[down])
      BY <1>2, <1>3, <3>6, MergesOtherwise
    <3> QED BY <1>5, <1>8, <1>16, <3>7
  <2> QED BY <1>3, <1>16, <2>1 DEF down
<1> QED BY <1>10, <1>15, <1>16

MergePlaces(a, b) == (0 .. Len(a)) \X (0 .. Len(b))

\* The function that Merged defines.
IsMerge(a, b, it) == it = [j \in MergePlaces(a, b) |-> MergeStep(a, b, j[1], j[2], it)]

\* The function that Merged chooses exists.
LEMMA MergeExists ==
  ASSUME NEW X, NEW a \in Seq(X), NEW b \in Seq(X)
  PROVE  \E it : IsMerge(a, b, it)
<1> DEFINE D == MergePlaces(a, b)
           B == Seq(X)
           size == [j \in D |-> (Len(a) - j[1]) + (Len(b) - j[2])]
           F == [y \in D \X [D -> B] |-> MergeStep(a, b, y[1][1], y[1][2], y[2])]
<1>0. Len(a) \in Nat /\ Len(b) \in Nat
  OBVIOUS
<1>a. \A x, y, u, v \in Int : (x - u) + (y - (v + 1)) = (x - u) + (y - v) - 1
  OBVIOUS
<1>b. \A x, y, u, v \in Int : (x - (u + 1)) + (y - v) = (x - u) + (y - v) - 1
  OBVIOUS
<1>1. ASSUME NEW j \in D
      PROVE  \E c \in 0 .. Len(a), d \in 0 .. Len(b) :
               /\ c = j[1] /\ d = j[2] /\ j = <<c, d>>
               /\ size[j] = (Len(a) - c) + (Len(b) - d) /\ size[j] \in Nat
  <2>1. PICK c \in 0 .. Len(a), d \in 0 .. Len(b) : c = j[1] /\ d = j[2] /\ j = <<c, d>>
    BY DEF MergePlaces
  <2>2. (Len(a) - c) + (Len(b) - d) \in Nat
    BY <1>0
  <2> QED BY <2>1, <2>2
<1>2. ASSUME NEW c \in 0 .. Len(a), NEW d \in 0 .. Len(b)
      PROVE  <<c, d>> \in D /\ size[<<c, d>>] = (Len(a) - c) + (Len(b) - d)
  BY DEF MergePlaces
<1>3. size \in [D -> Nat]
  BY <1>1
<1>4. \A j \in D, g \in [D -> B] : F[<<j, g>>] = MergeStep(a, b, j[1], j[2], g)
  OBVIOUS
<1>5. <<>> \in B
  OBVIOUS
<1>6. ASSUME NEW j \in D, NEW g \in [D -> B]
      PROVE  /\ MergeStep(a, b, j[1], j[2], g) \in B
             /\ \A h \in [D -> B] : (\A e \in D : size[e] < size[j] => g[e] = h[e])
                  => MergeStep(a, b, j[1], j[2], g) = MergeStep(a, b, j[1], j[2], h)
  <2>1. PICK c \in 0 .. Len(a), d \in 0 .. Len(b) :
               /\ c = j[1] /\ d = j[2] /\ j = <<c, d>>
               /\ size[j] = (Len(a) - c) + (Len(b) - d) /\ size[j] \in Nat
    BY <1>1
  <2> HIDE DEF D, B, size, F
  <2>3. c + 1 \in 0 .. Len(a) => <<c + 1, d>> \in D /\ size[<<c + 1, d>>] < size[j]
    <3> HAVE c + 1 \in 0 .. Len(a)
    <3>1. <<c + 1, d>> \in D /\ size[<<c + 1, d>>] = (Len(a) - (c + 1)) + (Len(b) - d)
      BY <1>2
    <3>2. size[<<c + 1, d>>] = size[j] - 1 /\ size[j] \in Int
      <4>1. (Len(a) - (c + 1)) + (Len(b) - d) = (Len(a) - c) + (Len(b) - d) - 1
        BY <1>0, <1>b
      <4>2. size[<<c + 1, d>>] = size[j] - 1
        <5>1. size[j] = (Len(a) - c) + (Len(b) - d)
          BY <2>1
        <5>2. PICK u : u = (Len(a) - c) + (Len(b) - d)
          OBVIOUS
        <5>3. size[<<c + 1, d>>] = u - 1
          BY <3>1, <4>1, <5>2
        <5> QED BY <5>1, <5>2, <5>3
      <4>3. size[j] \in Int
        BY <2>1
      <4> QED BY <4>2, <4>3
    <3> QED BY <3>1, <3>2
  <2>4. d + 1 \in 0 .. Len(b) => <<c, d + 1>> \in D /\ size[<<c, d + 1>>] < size[j]
    <3> HAVE d + 1 \in 0 .. Len(b)
    <3>1. <<c, d + 1>> \in D /\ size[<<c, d + 1>>] = (Len(a) - c) + (Len(b) - (d + 1))
      BY <1>2
    <3>2. size[<<c, d + 1>>] = size[j] - 1 /\ size[j] \in Int
      <4>1. (Len(a) - c) + (Len(b) - (d + 1)) = (Len(a) - c) + (Len(b) - d) - 1
        BY <1>0, <1>a
      <4>2. size[<<c, d + 1>>] = size[j] - 1
        <5>1. size[j] = (Len(a) - c) + (Len(b) - d)
          BY <2>1
        <5>2. PICK u : u = (Len(a) - c) + (Len(b) - d)
          OBVIOUS
        <5>3. size[<<c, d + 1>>] = u - 1
          BY <3>1, <4>1, <5>2
        <5> QED BY <5>1, <5>2, <5>3
      <4>3. size[j] \in Int
        BY <2>1
      <4> QED BY <4>2, <4>3
    <3> QED BY <3>1, <3>2
  <2>5. MergeStep(a, b, c, d, g) \in Seq(X)
    <3>1. c + 1 \in 0 .. Len(a) => g[<<c + 1, d>>] \in Seq(X)
      BY <2>3 DEF B
    <3>2. d + 1 \in 0 .. Len(b) => g[<<c, d + 1>>] \in Seq(X)
      BY <2>4 DEF B
    <3> QED BY <3>1, <3>2, MergeStepIs
  <2>6. ASSUME NEW h \in [D -> B], \A e \in D : size[e] < size[j] => g[e] = h[e]
        PROVE  MergeStep(a, b, c, d, g) = MergeStep(a, b, c, d, h)
    <3>1. c + 1 \in 0 .. Len(a) => g[<<c + 1, d>>] = h[<<c + 1, d>>]
      BY <2>3, <2>6
    <3>2. d + 1 \in 0 .. Len(b) => g[<<c, d + 1>>] = h[<<c, d + 1>>]
      BY <2>4, <2>6
    <3> QED BY <3>1, <3>2, MergeStepSame
  <2> QED BY <2>1, <2>5, <2>6 DEF B
<1> HIDE DEF D, B, size
<1>7. F \in [D \X [D -> B] -> B]
  BY <1>6
<1> HIDE DEF F
<1>8. Recursive(D, B, size, F)
  <2>1. B # {}
    BY <1>5
  <2>2. ASSUME NEW j \in D, NEW g \in [D -> B], NEW h \in [D -> B],
               \A e \in D : size[e] < size[j] => g[e] = h[e]
        PROVE  F[<<j, g>>] = F[<<j, h>>]
    <3>1. MergeStep(a, b, j[1], j[2], g) = MergeStep(a, b, j[1], j[2], h)
      BY <1>6, <2>2
    <3> QED BY <1>4, <3>1
  <2> QED BY <1>3, <1>7, <2>1, <2>2 DEF Recursive
<1>9. PICK f \in [D -> B] : \A j \in D : f[j] = F[<<j, f>>]
  BY <1>8, Recursion
<1>10. IsMerge(a, b, f)
  BY <1>4, <1>9 DEF IsMerge, D
<1> QED BY <1>10

\* The arrays are merged.
LEMMA MergedIs ==
  ASSUME NEW X, X \subseteq Int, NEW a \in Seq(X), NEW b \in Seq(X), Sorted(a), Sorted(b)
  PROVE  Merges(X, a, b, Merged(a, b))
<1>0. Len(a) \in Nat /\ Len(b) \in Nat
  OBVIOUS
<1>a. \A x, y, u, v \in Int : (x - u) + (y - (v + 1)) = (x - u) + (y - v) - 1
  OBVIOUS
<1>b. \A x, y, u, v \in Int : (x - (u + 1)) + (y - v) = (x - u) + (y - v) - 1
  OBVIOUS
<1>1. Merged(a, b) = (CHOOSE it : IsMerge(a, b, it))[<<0, 0>>]
  BY Zenon DEF Merged, IsMerge, MergePlaces, MergeStep, From
<1>2. PICK it : it = CHOOSE x : IsMerge(a, b, x)
  OBVIOUS
<1>3. IsMerge(a, b, it)
  BY <1>2, MergeExists
<1>4. \A c \in 0 .. Len(a), d \in 0 .. Len(b) : it[<<c, d>>] = MergeStep(a, b, c, d, it)
  BY <1>3 DEF IsMerge, MergePlaces
<1> DEFINE size(c, d) == (Len(a) - c) + (Len(b) - d)
           bad == {z \in Nat : \E c \in 0 .. Len(a), d \in 0 .. Len(b) :
                     z = size(c, d) /\ ~MergedFrom(X, a, b, c, d, it[<<c, d>>])}
<1>5. bad = {}
  <2> SUFFICES ASSUME bad # {} PROVE FALSE
    OBVIOUS
  <2>1. PICK z \in bad : \A x \in bad : z <= x
    BY Least
  <2>2. PICK c \in 0 .. Len(a), d \in 0 .. Len(b) :
          z = size(c, d) /\ ~MergedFrom(X, a, b, c, d, it[<<c, d>>])
    BY <2>1
  <2>3. \/ MergedFrom(X, a, b, c, d, MergeStep(a, b, c, d, it))
        \/ c + 1 \in 0 .. Len(a) /\ ~MergedFrom(X, a, b, c + 1, d, it[<<c + 1, d>>])
        \/ d + 1 \in 0 .. Len(b) /\ ~MergedFrom(X, a, b, c, d + 1, it[<<c, d + 1>>])
    BY MergeStepMerges
  <2>4. (z - 1 \in Nat /\ ~(z <= z - 1)) \/ z = 0
    BY <2>1
  <2>5. CASE c + 1 \in 0 .. Len(a) /\ ~MergedFrom(X, a, b, c + 1, d, it[<<c + 1, d>>])
    <3>1. size(c + 1, d) = z - 1
      BY <1>0, <1>b, <2>2
    <3>2. size(c + 1, d) \in Nat
      BY <1>0, <2>5
    <3>3. z - 1 \in Nat /\ ~(z <= z - 1)
      BY <2>1, <3>1, <3>2
    <3> QED BY <2>1, <2>5, <3>1, <3>2, <3>3
  <2>6. CASE d + 1 \in 0 .. Len(b) /\ ~MergedFrom(X, a, b, c, d + 1, it[<<c, d + 1>>])
    <3>1. size(c, d + 1) = z - 1
      BY <1>0, <1>a, <2>2
    <3>2. size(c, d + 1) \in Nat
      BY <1>0, <2>6
    <3>3. z - 1 \in Nat /\ ~(z <= z - 1)
      BY <2>1, <3>1, <3>2
    <3> QED BY <2>1, <2>6, <3>1, <3>2, <3>3
  <2> QED BY <1>4, <2>2, <2>3, <2>5, <2>6
<1>6. MergedFrom(X, a, b, 0, 0, it[<<0, 0>>])
  <2>1. 0 \in 0 .. Len(a) /\ 0 \in 0 .. Len(b) /\ size(0, 0) \in Nat
    BY <1>0
  <2> QED BY <1>5, <2>1
<1>7. From(a, 0) = a /\ From(b, 0) = b
  BY DEF From
<1> QED BY <1>1, <1>2, <1>6, <1>7 DEF MergedFrom

\* There are m numbers from 1 to m.
LEMMA FirstNumbers ==
  ASSUME NEW m \in Nat
  PROVE  IsFiniteSet(1 .. m) /\ Cardinality(1 .. m) = m
<1>1. IsFiniteSet(1 .. m) /\ Cardinality(1 .. m) = IF 1 > m THEN 0 ELSE m - 1 + 1
  BY FS_Interval
<1> QED BY <1>1

Lower(v) == {x \in Int : x < v}
AtMost(v) == {x \in Int : x <= v}

\* No fewer elements are in a larger set.
LEMMA CountMonotone ==
  ASSUME NEW X, NEW t \in Seq(X), NEW S, NEW T, S \subseteq T
  PROVE  Count(t, S) <= Count(t, T)
<1> DEFINE I == {x \in DOMAIN t : t[x] \in S}
           J == {x \in DOMAIN t : t[x] \in T}
<1>1. I \in SUBSET J
  OBVIOUS
<1>2. IsFiniteSet(J)
  BY CountIs
<1> HIDE DEF I, J
<1>3. Cardinality(I) <= Cardinality(J)
  BY <1>1, <1>2, FS_Subset
<1> QED BY <1>3 DEF I, J, Count

\* The counts that make a number the m-th.
IsKth(c, m, v) == Count(c, Lower(v)) < m /\ Count(c, AtMost(v)) >= m

\* Only one number is the m-th.
LEMMA KthIsOne ==
  ASSUME NEW X, X \subseteq Int, NEW c \in Seq(X), NEW m \in Nat, NEW u \in Int, NEW v \in Int,
         IsKth(c, m, u), IsKth(c, m, v)
  PROVE  ~(u < v)
<1> SUFFICES ASSUME u < v PROVE FALSE
  OBVIOUS
<1>1. AtMost(u) \subseteq Lower(v)
  BY DEF AtMost, Lower
<1>2. Count(c, AtMost(u)) <= Count(c, Lower(v))
  BY <1>1, CountMonotone
<1>3. Count(c, AtMost(u)) \in Nat /\ Count(c, Lower(v)) \in Nat
  BY CountIs
<1> QED BY <1>2, <1>3 DEF IsKth

\* The m-th element of a sorted array is the m-th number.
LEMMA KthOfSorted ==
  ASSUME NEW X, X \subseteq Int, NEW w \in Seq(X), Sorted(w), NEW m \in 1 .. Len(w)
  PROVE  IsKth(w, m, w[m])
<1>1. /\ Len(w) \in Nat /\ DOMAIN w = 1 .. Len(w)
      /\ \A x \in DOMAIN w : w[x] \in Int
  BY ElementsAre
<1>2. m \in Nat \ {0} /\ m \in DOMAIN w /\ m <= Len(w)
  BY <1>1
<1> DEFINE I == {x \in DOMAIN w : w[x] \in Lower(w[m])}
           J == {x \in DOMAIN w : w[x] \in AtMost(w[m])}
<1>3. IsFiniteSet(I) /\ IsFiniteSet(J)
  BY CountIs
<1>4. ASSUME NEW x \in DOMAIN w, m <= x PROVE w[m] <= w[x]
  BY <1>2, <1>4, Zenon DEF Sorted
<1>5. ASSUME NEW x \in DOMAIN w, x <= m PROVE w[x] <= w[m]
  BY <1>2, <1>5, Zenon DEF Sorted
<1>6. I \in SUBSET (1 .. m - 1)
  <2>1. ASSUME NEW x \in I PROVE x \in 1 .. m - 1
    <3>1. x \in DOMAIN w /\ w[x] < w[m] /\ w[x] \in Int /\ w[m] \in Int
      BY <1>1, <1>2 DEF Lower
    <3>2. ~(w[m] <= w[x])
      BY <3>1
    <3>3. ~(m <= x)
      BY <1>4, <3>1, <3>2
    <3> QED BY <1>1, <1>2, <3>1, <3>3
  <2> QED BY <2>1
<1>7. 1 .. m \in SUBSET J
  <2>1. ASSUME NEW x \in 1 .. m PROVE x \in J
    <3>1. x \in DOMAIN w /\ x <= m
      BY <1>1, <1>2
    <3>2. w[x] <= w[m] /\ w[x] \in Int
      BY <1>1, <1>5, <3>1
    <3> QED BY <3>1, <3>2 DEF AtMost
  <2> HIDE DEF J
  <2> QED BY <2>1
<1>8. /\ IsFiniteSet(1 .. m - 1) /\ Cardinality(1 .. m - 1) = m - 1
      /\ Cardinality(1 .. m) = m
  <2>1. m \in Nat /\ m - 1 \in Nat
    BY <1>2
  <2> QED BY <2>1, FirstNumbers
<1> HIDE DEF I, J
<1>9. Cardinality(I) <= m - 1
  <2>1. Cardinality(I) <= Cardinality(1 .. m - 1)
    BY <1>6, <1>8, FS_Subset
  <2> QED BY <1>8, <2>1
<1>10. m <= Cardinality(J)
  BY <1>3, <1>7, <1>8, FS_Subset
<1>11. Cardinality(I) \in Nat /\ Cardinality(J) \in Nat
  BY <1>3, FS_CardinalityType
<1> QED BY <1>2, <1>9, <1>10, <1>11 DEF IsKth, Count, I, J

\* It is the one that KthOf chooses from any array of the same numbers.
LEMMA KthIs ==
  ASSUME NEW X, X \subseteq Int, NEW c \in Seq(X), NEW w \in Seq(X), Sorted(w),
         \A S : Count(w, S) = Count(c, S), NEW m \in 1 .. Len(w)
  PROVE  KthOf(c, m) = w[m]
<1>1. /\ \A x \in DOMAIN c : c[x] \in Int
      /\ Len(w) \in Nat /\ m \in Nat /\ m \in DOMAIN w /\ w[m] \in Int
  <2>1. \A x \in DOMAIN c : c[x] \in Int
    BY ElementsAre
  <2>2. Len(w) \in Nat /\ DOMAIN w = 1 .. Len(w) /\ \A x \in DOMAIN w : w[x] \in Int
    BY ElementsAre
  <2>3. m \in Nat /\ m \in DOMAIN w
    BY <2>2
  <2> QED BY <2>1, <2>2, <2>3
<1>2. ASSUME NEW v \in ToSet(c)
      PROVE  /\ v \in Int
             /\ /\ Cardinality({x \in DOMAIN c : c[x] < v}) < m
                /\ Cardinality({x \in DOMAIN c : c[x] <= v}) >= m
                <=> IsKth(c, m, v)
  <2>1. v \in Int
    BY <1>1 DEF ToSet
  <2>2. /\ {x \in DOMAIN c : c[x] < v} = {x \in DOMAIN c : c[x] \in Lower(v)}
        /\ {x \in DOMAIN c : c[x] <= v} = {x \in DOMAIN c : c[x] \in AtMost(v)}
    BY <1>1, <2>1 DEF Lower, AtMost
  <2> QED BY <2>1, <2>2 DEF IsKth, Count
<1>3. w[m] \in ToSet(c)
  <2>1. Count(w, {w[m]}) = Count(c, {w[m]})
    OBVIOUS
  <2>2. Count(w, {w[m]}) # 0
    <3>1. w[m] \in {w[m]}
      OBVIOUS
    <3>2. Count(w, {w[m]}) = 0 <=> \A x \in DOMAIN w : w[x] \notin {w[m]}
      BY CountIs
    <3> QED BY <1>1, <3>1, <3>2
  <2>3. Count(c, {w[m]}) = 0 <=> \A x \in DOMAIN c : c[x] \notin {w[m]}
    BY CountIs
  <2> QED BY <2>1, <2>2, <2>3 DEF ToSet
<1>4. IsKth(c, m, w[m])
  BY KthOfSorted DEF IsKth
<1>5. ASSUME NEW v \in ToSet(c), IsKth(c, m, v) PROVE v = w[m]
  <2>1. v \in Int
    BY <1>2
  <2>2. ~(v < w[m]) /\ ~(w[m] < v)
    BY <1>1, <1>4, <1>5, <2>1, KthIsOne
  <2> QED BY <1>1, <2>1, <2>2
<1>6. /\ \E v \in ToSet(c) : /\ Cardinality({x \in DOMAIN c : c[x] < v}) < m
                             /\ Cardinality({x \in DOMAIN c : c[x] <= v}) >= m
      /\ \A v \in ToSet(c) : /\ Cardinality({x \in DOMAIN c : c[x] < v}) < m
                             /\ Cardinality({x \in DOMAIN c : c[x] <= v}) >= m
                             => v = w[m]
  BY <1>2, <1>3, <1>4, <1>5
<1> QED BY <1>6 DEF KthOf

\* median-of-two-sorted-arrays.c returns the median (twice it, in the model).
THEOREM MedianIsFound ==
  ASSUME NEW a \in Arrays, NEW b \in Arrays, a # <<>> \/ b # <<>>
  PROVE  IsTwiceTheMedian(a, b, TwiceTheMedian(a, b))
<1> DEFINE Q == IntMax \div 4
           X == -Q .. Q
           c == a \o b
           w == Merged(a, b)
<1>1. /\ a \in Seq(X) /\ b \in Seq(X) /\ X \subseteq Int
      /\ IntMax \in Nat /\ Q \in Nat /\ 4 * Q <= IntMax
      /\ \A x \in X : x \in Int /\ -Q <= x /\ x <= Q
  BY QuarterIs, ExercisesAssumption DEF ArraysAssumption
<1> HIDE DEF Q, X
<1>2. Sorted(a) /\ Sorted(b)
  <2>1. ASSUME NEW t \in Arrays, t \in Seq(X) PROVE Sorted(t)
    <3>1. /\ DOMAIN t = 1 .. Len(t) /\ Len(t) \in Nat /\ \A x \in DOMAIN t : t[x] \in Int
      BY <1>1, <2>1, ElementsAre
    <3>2. \A x, y \in 1 .. Len(t) : x < y => t[x] <= t[y]
      BY ExercisesAssumption DEF ArraysAssumption
    <3> SUFFICES ASSUME NEW x \in DOMAIN t, NEW y \in DOMAIN t, x <= y PROVE t[x] <= t[y]
      BY DEF Sorted
    <3>3. CASE x = y
      BY <3>1, <3>3
    <3>4. CASE x # y
      <4>1. x < y
        BY <3>1, <3>4
      <4> QED BY <3>1, <3>2, <4>1
    <3> QED BY <3>3, <3>4
  <2> QED BY <1>1, <2>1
<1>3. Merges(X, a, b, w)
  BY <1>1, <1>2, MergedIs
<1> HIDE DEF w
<1>4. c \in Seq(X) /\ Len(c) = Len(a) + Len(b) /\ \A S : Count(w, S) = Count(c, S)
  <2>1. \A S : Count(c, S) = Count(a, S) + Count(b, S)
    BY <1>1, CountOfBoth
  <2> HIDE DEF c
  <2>2. \A S : Count(w, S) = Count(c, S)
    BY <1>3, <2>1 DEF Merges
  <2> QED BY <1>1, <2>2, Joined DEF c
<1>5. Len(a) \in Nat /\ Len(b) \in Nat /\ Len(c) # 0
  <2>1. Len(a) \in Nat /\ Len(b) \in Nat /\ (Len(a) # 0 \/ Len(b) # 0)
    BY <1>1
  <2> QED BY <1>4, <2>1
<1> HIDE DEF c
<1>6. w \in Seq(X) /\ Sorted(w) /\ Len(w) = Len(c)
  <2>1. w \in Seq(X) /\ Sorted(w)
    BY <1>3 DEF Merges
  <2>2. Count(w, X) = Len(w) /\ Count(c, X) = Len(c)
    BY <1>4, <2>1, CountIs, ElementsAre
  <2> QED BY <1>4, <2>1, <2>2
<1>7. PICK s0 \in Nat : s0 = Len(w) /\ s0 # 0
  BY <1>4, <1>5, <1>6
<1>8. \A m \in 1 .. s0 : KthOf(c, m) = w[m] /\ w[m] \in X
  <2> TAKE m \in 1 .. s0
  <2>1. m \in 1 .. Len(w) /\ m \in DOMAIN w
    BY <1>6, <1>7, ElementsAre
  <2>2. KthOf(c, m) = w[m]
    BY <1>1, <1>4, <1>6, <2>1, KthIs
  <2> QED BY <1>6, <2>1, <2>2, ElementsAre
<1>9. PICK h \in Nat : h = s0 \div 2 /\ (s0 = 2 * h \/ s0 = 2 * h + 1)
  <2>1. s0 \div 2 \in Nat /\ (s0 = 2 * (s0 \div 2) \/ s0 = 2 * (s0 \div 2) + 1)
    BY <1>7
  <2> QED BY <2>1
<1>10. IsTwiceTheMedian(a, b, TwiceTheMedian(a, b)) <=>
         TwiceTheMedian(a, b) = KthOf(c, (s0 + 1) \div 2) + KthOf(c, s0 \div 2 + 1)
  BY <1>6, <1>7 DEF IsTwiceTheMedian, c
<1>11. TwiceTheMedian(a, b) =
         IF s0 % 2 = 0 THEN Wrap(w[s0 \div 2 + 1] + w[s0 \div 2]) ELSE 2 * w[s0 \div 2 + 1]
  BY <1>7 DEF TwiceTheMedian, w
<1>12. CASE s0 = 2 * h
  <2>1. s0 % 2 = 0 /\ (s0 + 1) \div 2 = h /\ h \in 1 .. s0 /\ h + 1 \in 1 .. s0
    BY <1>7, <1>12
  <2>2. PICK x, y \in X : x = w[h] /\ y = w[h + 1]
    BY <1>8, <2>1
  <2>3. Wrap(y + x) = y + x
    <3>1. y + x \in Int /\ -IntMax - 1 <= y + x /\ y + x <= IntMax
      BY <1>1
    <3> QED BY <3>1, NoWrap
  <2>4. y + x = x + y
    BY <1>1
  <2>5. TwiceTheMedian(a, b) = x + y
    BY <1>9, <1>11, <2>1, <2>2, <2>3, <2>4
  <2>6. KthOf(c, (s0 + 1) \div 2) = x /\ KthOf(c, s0 \div 2 + 1) = y
    BY <1>8, <1>9, <2>1, <2>2
  <2> QED BY <1>10, <2>5, <2>6
<1>13. CASE s0 = 2 * h + 1
  <2>1. s0 % 2 = 1 /\ (s0 + 1) \div 2 = h + 1 /\ h + 1 \in 1 .. s0
    BY <1>7, <1>13
  <2>2. PICK x \in X : x = w[h + 1]
    BY <1>8, <2>1
  <2>3. 2 * x = x + x
    BY <1>1
  <2>4. TwiceTheMedian(a, b) = 2 * x
    BY <1>9, <1>11, <2>1, <2>2
  <2>5. KthOf(c, (s0 + 1) \div 2) = x /\ KthOf(c, s0 \div 2 + 1) = x
    BY <1>8, <1>9, <2>1, <2>2
  <2> QED BY <1>10, <2>3, <2>4, <2>5
<1> QED BY <1>9, <1>12, <1>13

-----------------------------------------------------------------------------
(* Runs in the order of the text.                                           *)

\* q has the elements of R, each once, by their first components.
Lists(R, q) ==
  /\ q \in Seq(Nat \X Nat) /\ (\A z \in R : \E x \in DOMAIN q : q[x] = z)
  /\ \A x \in DOMAIN q : q[x] \in R
  /\ \A x, y \in DOMAIN q : x < y => q[x][1] < q[y][1]

\* A list of R is R in the order of the text.
LEMMA ListsInOrder ==
  ASSUME NEW R, NEW q, Lists(R, q)
  PROVE  q \in InTextOrder(R) /\ DOMAIN q = 1 .. Len(q) /\ Len(q) \in Nat
<1>1. /\ q \in Seq(Nat \X Nat) /\ Len(q) \in Nat /\ DOMAIN q = 1 .. Len(q)
      /\ \A x \in DOMAIN q : q[x] \in R
  BY ElementsAre DEF Lists
<1>2. \A x \in DOMAIN q : q[x][1] \in Nat
  <2>1. \A x \in DOMAIN q : q[x] \in Nat \X Nat
    BY <1>1, ElementsAre
  <2> QED BY <2>1
<1>3. q \in [1 .. Len(q) -> R]
  BY <1>1
<1>4. \A x, y \in 1 .. Len(q) : q[x] = q[y] => x = y
  <2> SUFFICES ASSUME NEW x \in 1 .. Len(q), NEW y \in 1 .. Len(q), x # y, q[x] = q[y] PROVE FALSE
    OBVIOUS
  <2>1. x < y \/ y < x
    BY <1>1
  <2>2. q[x][1] < q[y][1] \/ q[y][1] < q[x][1]
    BY <1>1, <2>1 DEF Lists
  <2>3. q[x][1] \in Nat /\ q[x][1] = q[y][1]
    BY <1>1, <1>2
  <2> QED BY <2>2, <2>3
<1>5. Cardinality(R) = Len(q)
  <2>1. IsFiniteSet(1 .. Len(q)) /\ Cardinality(1 .. Len(q)) = Len(q)
    BY <1>1, FirstNumbers
  <2>2. \A z \in R : \E x \in 1 .. Len(q) : q[x] = z
    BY <1>1 DEF Lists
  <2> QED BY <1>3, <1>4, <2>1, <2>2, SameCount
<1>6. q \in SetToSeqs(R)
  BY <1>3, <1>4, <1>5 DEF SetToSeqs
<1> QED BY <1>1, <1>6 DEF InTextOrder, Lists

Behind(R, a) == {z \in R : z[1] >= a}

\* r has the values of the elements of R from a on.
Listed(R, val, a, r) ==
  \E q : Lists(Behind(R, a), q) /\ r = [x \in DOMAIN q |-> val[q[x]]]

\* Where nothing is left, nothing is listed.
LEMMA ListedNone ==
  ASSUME NEW R, NEW val, NEW a, Behind(R, a) = {}
  PROVE  Listed(R, val, a, <<>>)
<1>1. Lists({}, <<>>)
  BY DEF Lists
<1>2. <<>> = [x \in DOMAIN <<>> |-> val[<<>>[x]]]
  OBVIOUS
<1> QED BY <1>1, <1>2 DEF Listed

\* What is listed further on is listed from here on, with nothing in between.
LEMMA ListedSame ==
  ASSUME NEW R, NEW val, NEW a, NEW b, NEW r, Behind(R, a) = Behind(R, b), Listed(R, val, b, r)
  PROVE  Listed(R, val, a, r)
BY DEF Listed

\* An element in front of a sequence.
LEMMA Prepended ==
  ASSUME NEW X, NEW e \in X, NEW t \in Seq(X)
  PROVE  LET w == <<e>> \o t
         IN  /\ w \in Seq(X) /\ DOMAIN w = 1 .. 1 + Len(t) /\ 1 \in DOMAIN w /\ w[1] = e
             /\ \A x \in DOMAIN w : x # 1 => x - 1 \in DOMAIN t /\ w[x] = t[x - 1]
             /\ \A x \in DOMAIN t : x + 1 \in DOMAIN w /\ w[x + 1] = t[x]
<1> DEFINE u == <<e>>
           w == u \o t
<1>1. u \in Seq(X) /\ Len(u) = 1 /\ u[1] = e
  OBVIOUS
<1>2. PICK m \in Nat : m = Len(t) /\ DOMAIN t = 1 .. m
  OBVIOUS
<1> HIDE DEF u
<1>3. /\ w \in Seq(X) /\ DOMAIN w = 1 .. Len(u) + Len(t)
      /\ \A x \in 1 .. Len(u) + Len(t) : w[x] = IF x <= Len(u) THEN u[x] ELSE t[x - Len(u)]
  BY <1>1, Joined
<1> HIDE DEF w
<1>4. /\ w \in Seq(X) /\ DOMAIN w = 1 .. 1 + m
      /\ \A x \in 1 .. 1 + m : w[x] = IF x <= 1 THEN u[x] ELSE t[x - 1]
  BY <1>1, <1>2, <1>3
<1>5. 1 \in DOMAIN w /\ w[1] = e
  BY <1>1, <1>2, <1>4
<1>6. ASSUME NEW x \in 1 .. 1 + m, x # 1 PROVE x - 1 \in DOMAIN t /\ w[x] = t[x - 1]
  <2>1. ~(x <= 1) /\ x - 1 \in 1 .. m
    BY <1>6
  <2> QED BY <1>2, <1>4, <2>1
<1>7. ASSUME NEW x \in 1 .. m PROVE x + 1 \in DOMAIN w /\ w[x + 1] = t[x]
  <2>1. x + 1 \in 1 .. 1 + m /\ ~(x + 1 <= 1) /\ x + 1 - 1 = x
    OBVIOUS
  <2>2. w[x + 1] = t[x + 1 - 1]
    BY <1>4, <2>1
  <2> QED BY <1>4, <2>1, <2>2
<1> QED BY <1>2, <1>4, <1>5, <1>6, <1>7 DEF w, u

\* One element more in front.
LEMMA ListedMore ==
  ASSUME NEW R, NEW val, NEW a, NEW b \in Nat, NEW r, NEW z \in Nat \X Nat, z[1] < b,
         Behind(R, a) = {z} \cup Behind(R, b), Listed(R, val, b, r)
  PROVE  Listed(R, val, a, <<val[z]>> \o r)
<1>1. PICK q : Lists(Behind(R, b), q) /\ r = [x \in DOMAIN q |-> val[q[x]]]
  BY DEF Listed
<1>2. /\ q \in Seq(Nat \X Nat) /\ Len(q) \in Nat /\ DOMAIN q = 1 .. Len(q)
      /\ \A x \in DOMAIN q : q[x] \in Behind(R, b) /\ q[x] \in Nat \X Nat
  BY <1>1, ElementsAre DEF Lists
<1> DEFINE w == <<z>> \o q
           N2 == Nat \X Nat
<1>3. q \in Seq(N2) /\ z \in N2
  BY <1>2
<1> HIDE DEF N2
<1>4. /\ w \in Seq(N2) /\ DOMAIN w = 1 .. 1 + Len(q) /\ 1 \in DOMAIN w /\ w[1] = z
      /\ \A x \in DOMAIN w : x # 1 => x - 1 \in DOMAIN q /\ w[x] = q[x - 1]
      /\ \A x \in DOMAIN q : x + 1 \in DOMAIN w /\ w[x + 1] = q[x]
  BY <1>3, Prepended
<1>5. /\ w \in Seq(Nat \X Nat) /\ DOMAIN w = 1 .. 1 + Len(q) /\ 1 \in DOMAIN w /\ w[1] = z
      /\ \A x \in DOMAIN w : x # 1 => x - 1 \in DOMAIN q /\ w[x] = q[x - 1]
      /\ \A x \in DOMAIN q : x + 1 \in DOMAIN w /\ w[x + 1] = q[x]
  BY <1>4 DEF N2
<1> HIDE DEF w
<1>6. \A y \in Behind(R, a) : \E x \in DOMAIN w : w[x] = y
  <2> TAKE y \in Behind(R, a)
  <2>1. CASE y = z
    BY <1>5, <2>1
  <2>2. CASE y # z
    <3>1. PICK x \in DOMAIN q : q[x] = y
      BY <1>1, <2>2 DEF Lists
    <3> QED BY <1>5, <3>1
  <2> QED BY <2>1, <2>2
<1>7. \A x \in DOMAIN w : w[x] \in Behind(R, a)
  <2> TAKE x \in DOMAIN w
  <2>1. CASE x = 1
    BY <1>5, <2>1
  <2>2. CASE x # 1
    BY <1>2, <1>5, <2>2
  <2> QED BY <2>1, <2>2
<1>8. ASSUME NEW x \in DOMAIN w, NEW y \in DOMAIN w, x < y PROVE w[x][1] < w[y][1]
  <2>0. x \in Nat /\ y \in Nat /\ y # 1 /\ y - 1 \in DOMAIN q /\ w[y] = q[y - 1]
    <3>1. x \in 1 .. 1 + Len(q) /\ y \in 1 .. 1 + Len(q)
      BY <1>5
    <3>2. x \in Nat /\ y \in Nat /\ y # 1
      BY <1>2, <1>8, <3>1
    <3> QED BY <1>5, <3>2
  <2>1. CASE x = 1
    <3>1. w[x] = z /\ w[y] \in Behind(R, b) /\ w[y] \in Nat \X Nat
      BY <1>2, <1>5, <2>0, <2>1
    <3>2. w[y][1] >= b /\ w[y][1] \in Nat /\ z[1] \in Nat
      BY <3>1 DEF Behind
    <3> QED BY <3>1, <3>2
  <2>2. CASE x # 1
    <3>1. x - 1 \in DOMAIN q /\ w[x] = q[x - 1] /\ x - 1 < y - 1
      BY <1>5, <1>8, <2>0, <2>2
    <3>2. q[x - 1][1] < q[y - 1][1]
      BY <1>1, <2>0, <3>1, Zenon DEF Lists
    <3> QED BY <2>0, <3>1, <3>2, Zenon
  <2> QED BY <2>1, <2>2
<1>9. Lists(Behind(R, a), w)
  BY <1>5, <1>6, <1>7, <1>8 DEF Lists
<1>10. <<val[z]>> \o r = [x \in DOMAIN w |-> val[w[x]]]
  <2> DEFINE V == {val[y] : y \in Behind(R, a)}
             v == <<val[z]>> \o r
             g == [x \in DOMAIN w |-> val[w[x]]]
  <2>1. r \in Seq(V) /\ Len(r) = Len(q) /\ \A x \in 1 .. Len(q) : r[x] = val[q[x]]
    <3>1. \A x \in 1 .. Len(q) : val[q[x]] \in V
      BY <1>2
    <3> HIDE DEF V
    <3> QED BY <1>1, <1>2, <3>1
  <2>2. val[z] \in V
    OBVIOUS
  <2> HIDE DEF V
  <2>3. /\ v \in Seq(V) /\ DOMAIN v = 1 .. 1 + Len(r) /\ 1 \in DOMAIN v /\ v[1] = val[z]
        /\ \A x \in DOMAIN v : x # 1 => x - 1 \in DOMAIN r /\ v[x] = r[x - 1]
        /\ \A x \in DOMAIN r : x + 1 \in DOMAIN v /\ v[x + 1] = r[x]
    BY <2>1, <2>2, Prepended
  <2> HIDE DEF v
  <2>4. ASSUME NEW x \in DOMAIN v PROVE v[x] = val[w[x]]
    <3>0. x \in DOMAIN w
      BY <1>5, <2>1, <2>3
    <3>1. CASE x = 1
      BY <1>5, <2>3, <3>1
    <3>2. CASE x # 1
      <4>1. x - 1 \in 1 .. Len(q) /\ w[x] = q[x - 1] /\ v[x] = r[x - 1]
        BY <1>2, <1>5, <2>3, <3>0, <3>2
      <4> QED BY <2>1, <4>1
    <3> QED BY <3>1, <3>2
  <2>5. DOMAIN v = DOMAIN w
    BY <1>5, <2>1, <2>3
  <2>6. v = [x \in DOMAIN v |-> v[x]]
    BY <2>3
  <2>7. v = [x \in DOMAIN w |-> val[w[x]]]
    BY <2>4, <2>5, <2>6
  <2> QED BY <2>7 DEF v
<1> QED BY <1>9, <1>10 DEF Listed

-----------------------------------------------------------------------------
(* Numbers and what sscanf reads.                                           *)

\* A number with one more digit.
OneDigitMore(v, e) == v * 10 + e - 48

\* The fold of Decimal, digit after digit.
LEMMA DecimalFold ==
  ASSUME NEW d \in Seq(Int)
  PROVE  \E after \in [0 .. Len(d) -> Int] :
           /\ after[0] = 0 /\ Decimal(d) = after[Len(d)]
           /\ \A x \in 1 .. Len(d) : after[x] = OneDigitMore(after[x - 1], d[x])
<1> DEFINE m == Len(d)
           B == Int
           Is(it) == it = [S \in SUBSET DOMAIN d |->
                             IF S = {} THEN 0 ELSE OneDigitMore(it[S \ {Max(S)}], d[Max(S)])]
           F == [y \in B \X (1 .. m) |-> OneDigitMore(y[1], d[y[2]])]
<1>1. Decimal(d) = (CHOOSE it : Is(it))[DOMAIN d]
  BY DEF Decimal, FoldLeft, MapThenFoldSet, OneDigitMore
<1>2. m \in Nat /\ DOMAIN d = 1 .. m /\ \A x \in 1 .. m : d[x] \in Int
  OBVIOUS
<1>3. 0 \in B
  OBVIOUS
<1>4. F \in [B \X (1 .. m) -> B] /\ \A b \in B, x \in 1 .. m : F[<<b, x>>] = OneDigitMore(b, d[x])
  <2>1. \A b \in B, x \in 1 .. m : OneDigitMore(b, d[x]) \in B
    BY <1>2 DEF OneDigitMore
  <2> QED BY <2>1
<1> HIDE DEF m, B, F
<1>5. \A S \in SUBSET (1 .. m) : S # {} => Max(S) \in 1 .. m /\ S \ {Max(S)} \in SUBSET (1 .. m)
  <2> TAKE S \in SUBSET (1 .. m)
  <2> HAVE S # {}
  <2>1. Max(S) \in S /\ S \ {Max(S)} \in SUBSET (1 .. m)
    BY <1>2, LessWithoutMax
  <2> QED BY <2>1
<1>6. Step(m, B, 0, F)
  BY <1>2, <1>3, <1>4 DEF Step
<1>7. PICK f \in [SUBSET (1 .. m) -> B] : IsFold(m, 0, F, f)
  BY <1>6, FoldExists
<1>8. Is(f)
  <2>1. \A S \in SUBSET (1 .. m) :
          f[S] = IF S = {} THEN 0 ELSE OneDigitMore(f[S \ {Max(S)}], d[Max(S)])
    <3> TAKE S \in SUBSET (1 .. m)
    <3>1. f[S] = IF S = {} THEN 0 ELSE F[<<f[S \ {Max(S)}], Max(S)>>]
      BY <1>7 DEF IsFold
    <3>2. S # {} => F[<<f[S \ {Max(S)}], Max(S)>>] = OneDigitMore(f[S \ {Max(S)}], d[Max(S)])
      BY <1>2, <1>4, <1>5
    <3> QED BY <3>1, <3>2
  <2> QED BY <1>2, <2>1
<1>9. PICK it : it = CHOOSE u : Is(u)
  OBVIOUS
<1>10. Is(it)
  BY <1>8, <1>9
<1>11. it[{}] = 0
  BY <1>2, <1>10
<1>12. \A S \in SUBSET (1 .. m) : S # {} /\ it[S \ {Max(S)}] \in B
         => it[S] = F[<<it[S \ {Max(S)}], Max(S)>>]
  <2> TAKE S \in SUBSET (1 .. m)
  <2> HAVE S # {} /\ it[S \ {Max(S)}] \in B
  <2>1. Max(S) \in 1 .. m
    BY <1>2, <1>5
  <2>2. it[S] = OneDigitMore(it[S \ {Max(S)}], d[Max(S)])
    BY <1>2, <1>10
  <2> QED BY <1>4, <2>1, <2>2
<1> HIDE DEF Is
<1>13. PICK after \in [0 .. m -> B] :
         /\ after[0] = 0 /\ it[1 .. m] = after[m]
         /\ \A x \in 1 .. m : after[x] = F[<<after[x - 1], x>>]
  <2>1. Follows(m, B, 0, F, it)
    BY <1>11, <1>12 DEF Follows
  <2> QED BY <1>6, <2>1, FoldRuns
<1>14. \A x \in 1 .. m : after[x] = OneDigitMore(after[x - 1], d[x])
  <2> TAKE x \in 1 .. m
  <2>1. x - 1 \in 0 .. m
    BY <1>2
  <2>2. after[x - 1] \in B
    BY <2>1
  <2> QED BY <1>4, <1>13, <2>2
<1>15. Decimal(d) = after[m]
  BY <1>1, <1>2, <1>9, <1>13
<1> QED BY <1>13, <1>14, <1>15 DEF B, m

\* Value's function.
IsValue(t, from, to, it) ==
  it = [x \in from - 1 .. to |-> IF x < from THEN 0 ELSE it[x - 1] * 10 + t[x] - 48]

\* The function that Value chooses exists.
LEMMA ValueExists ==
  ASSUME NEW t \in Seq(Int), NEW from \in 1 .. Len(t) + 1, NEW to \in from - 1 .. Len(t)
  PROVE  \E it : IsValue(t, from, to, it)
<1> DEFINE D == from - 1 .. to
           B == Int
           size == [x \in D |-> x - (from - 1)]
           F == [y \in D \X [D -> B] |->
                   IF y[1] < from THEN 0 ELSE y[2][y[1] - 1] * 10 + t[y[1]] - 48]
<1>0. Len(t) \in Nat /\ DOMAIN t = 1 .. Len(t) /\ (\A x \in DOMAIN t : t[x] \in Int) /\ from \in Nat
  BY ElementsAre
<1>1. \A x \in D : /\ x \in Int /\ x - (from - 1) \in Nat
                   /\ ~(x < from) => /\ x - 1 \in D /\ x \in DOMAIN t
                                      /\ x - 1 - (from - 1) < x - (from - 1)
  BY <1>0
<1>2. size \in [D -> Nat] /\ \A x \in D : size[x] = x - (from - 1)
  BY <1>1
<1> HIDE DEF D, size
<1>3. ASSUME NEW x \in D, NEW g \in [D -> B]
      PROVE  F[<<x, g>>] = (IF x < from THEN 0 ELSE g[x - 1] * 10 + t[x] - 48) /\ F[<<x, g>>] \in B
  <2>1. ~(x < from) => g[x - 1] \in Int /\ t[x] \in Int
    BY <1>0, <1>1
  <2>2. F[<<x, g>>] = (IF x < from THEN 0 ELSE g[x - 1] * 10 + t[x] - 48)
    OBVIOUS
  <2>3. \A e, d \in Int : e * 10 + d - 48 \in Int
    OBVIOUS
  <2> HIDE DEF F
  <2>4. CASE x < from
    BY <2>2, <2>4
  <2>5. CASE ~(x < from)
    <3>1. PICK e, d \in Int : e = g[x - 1] /\ d = t[x]
      BY <2>1, <2>5
    <3>2. F[<<x, g>>] = e * 10 + d - 48
      BY <2>2, <2>5, <3>1
    <3> QED BY <2>2, <2>3, <3>2
  <2> QED BY <2>4, <2>5
<1>4. F \in [D \X [D -> B] -> B]
  <2>1. \A y \in D \X [D -> B] : F[y] \in B
    <3> TAKE y \in D \X [D -> B]
    <3>1. PICK x \in D, g \in [D -> B] : y = <<x, g>>
      OBVIOUS
    <3>2. F[<<x, g>>] \in B
      BY <1>3
    <3> QED BY <3>1, <3>2
  <2> QED BY <2>1
<1> HIDE DEF F
<1>5. Recursive(D, B, size, F)
  <2>1. B # {}
    OBVIOUS
  <2>2. ASSUME NEW x \in D, NEW g \in [D -> B], NEW h \in [D -> B],
               \A e \in D : size[e] < size[x] => g[e] = h[e]
        PROVE  F[<<x, g>>] = F[<<x, h>>]
    <3>1. ~(x < from) => g[x - 1] = h[x - 1]
      BY <1>1, <1>2, <2>2
    <3> QED BY <1>3, <3>1
  <2> HIDE DEF B
  <2> QED BY <1>2, <1>4, <2>1, <2>2 DEF Recursive
<1>6. PICK f \in [D -> B] : \A x \in D : f[x] = F[<<x, f>>]
  BY <1>5, Recursion
<1>7. \A x \in D : f[x] = IF x < from THEN 0 ELSE f[x - 1] * 10 + t[x] - 48
  BY <1>3, <1>6
<1>8. IsValue(t, from, to, f)
  BY <1>6, <1>7 DEF IsValue, D
<1> QED BY <1>8

\* sscanf's value of the digits is the number they stand for.
LEMMA ValueIs ==
  ASSUME NEW t \in Seq(Int), NEW from \in 1 .. Len(t) + 1, NEW to \in from - 1 .. Len(t)
  PROVE  Value(t, from, to) \in Int /\ Value(t, from, to) = Decimal(SubSeq(t, from, to))
<1> DEFINE d == SubSeq(t, from, to)
<1>0. /\ Len(t) \in Nat /\ DOMAIN t = 1 .. Len(t) /\ \A x \in DOMAIN t : t[x] \in Int
      /\ from \in Nat /\ to \in Int /\ to \in 0 .. Len(t)
  BY ElementsAre
<1>1. /\ d \in Seq(Int) /\ Len(d) = to - from + 1
      /\ \A x \in 1 .. to - from + 1 : d[x] = t[from + x - 1]
  <2>1. /\ d \in Seq(Int) /\ Len(d) = (IF from <= to THEN to - from + 1 ELSE 0)
        /\ DOMAIN d = 1 .. Len(d) /\ \A x \in 1 .. Len(d) : d[x] = t[from + x - 1]
    BY <1>0, WindowIs
  <2>2. Len(d) = to - from + 1
    BY <1>0, <2>1
  <2> QED BY <2>1, <2>2
<1> HIDE DEF d
<1>2. PICK after \in [0 .. Len(d) -> Int] :
           /\ after[0] = 0 /\ Decimal(d) = after[Len(d)]
           /\ \A x \in 1 .. Len(d) : after[x] = OneDigitMore(after[x - 1], d[x])
  BY <1>1, DecimalFold
<1>3. PICK it : it = CHOOSE u : IsValue(t, from, to, u)
  OBVIOUS
<1>4. IsValue(t, from, to, it)
  BY <1>3, ValueExists
<1>5. Value(t, from, to) = it[to]
  BY <1>3 DEF Value, IsValue
<1>6. PICK m \in Nat : m = to - from + 1
  BY <1>0
<1>7. to = from - 1 + m
  BY <1>0, <1>6
<1>8. ASSUME NEW x \in 0 .. m
      PROVE  it[from - 1 + x] =
               IF x = 0 THEN 0 ELSE it[from - 1 + (x - 1)] * 10 + t[from + x - 1] - 48
  <2>1. /\ from - 1 + x \in from - 1 .. to /\ (from - 1 + x < from <=> x = 0)
        /\ from - 1 + x - 1 = from - 1 + (x - 1) /\ from - 1 + x = from + x - 1
    BY <1>0, <1>7
  <2>2. it[from - 1 + x] = IF from - 1 + x < from THEN 0
                           ELSE it[from - 1 + x - 1] * 10 + t[from - 1 + x] - 48
    BY <1>4, <2>1 DEF IsValue
  <2> QED BY <2>1, <2>2
<1> DEFINE bad == {x \in 0 .. m : it[from - 1 + x] # after[x]}
<1>9. bad = {}
  <2> SUFFICES ASSUME bad # {} PROVE FALSE
    OBVIOUS
  <2>1. bad \subseteq Nat
    OBVIOUS
  <2>2. PICK x \in bad : \A y \in bad : x <= y
    BY <2>1, Least
  <2>3. x \in 0 .. m /\ it[from - 1 + x] # after[x]
    BY <2>2
  <2>4. x # 0
    BY <1>2, <1>8, <2>3
  <2>5. x - 1 \in 0 .. m /\ x \in 1 .. m /\ ~(x <= x - 1)
    BY <2>3, <2>4
  <2>6. it[from - 1 + (x - 1)] = after[x - 1]
    BY <2>2, <2>5
  <2>7. after[x] = after[x - 1] * 10 + t[from + x - 1] - 48
    BY <1>1, <1>2, <1>6, <2>5 DEF OneDigitMore
  <2>8. it[from - 1 + x] = it[from - 1 + (x - 1)] * 10 + t[from + x - 1] - 48
    BY <1>8, <2>3, <2>4
  <2> QED BY <2>3, <2>6, <2>7, <2>8
<1>10. m \in 0 .. m /\ Len(d) = m
  BY <1>1, <1>6
<1>11. it[to] = after[m]
  BY <1>7, <1>9, <1>10
<1>12. after[m] \in Int
  BY <1>10
<1> QED BY <1>2, <1>5, <1>10, <1>11, <1>12 DEF d

\* Nothing but blanks from a on; no number at a; and from .. to as the first run of
\* characters of C from a on.
OnlyBlanks(t, a) == \A x \in a .. Len(t) : t[x] = Space

NoNumber(t, a) ==
  /\ a <= Len(t) /\ t[a] \notin Digits
  /\ t[a] \in Signs /\ a < Len(t) => t[a + 1] \notin Digits

RunRead(t, C, a, from, to) ==
  /\ from \in a .. Len(t) /\ to \in from .. Len(t)
  /\ \A x \in a .. from - 1 : t[x] \notin C
  /\ \A x \in from .. to : t[x] \in C
  /\ to < Len(t) => t[to + 1] \notin C

NumberRead(t, a, from, to) ==
  IF from > a /\ t[from - 1] = 45 THEN -Value(t, from, to) ELSE Value(t, from, to)

\* sscanf returns -1 at the end of the text, 0 where no number is, and 1 for one.
LEMMA ScanIntIs ==
  ASSUME NEW t \in Seq(Int), NEW a \in 1 .. Len(t) + 1, NEW r, r = ScanInt(t, a)
  PROVE  /\ r.k \in {-1, 0, 1}
         /\ r.k = -1 => OnlyBlanks(t, a)
         /\ r.k = 0 => NoNumber(t, a)
         /\ r.k = 1 => \E from, to \in Nat :
              /\ RunRead(t, Digits, a, from, to)
              /\ r.v = NumberRead(t, a, from, to) /\ r.n = to - a + 1
<1>0. PICK m \in Nat : m = Len(t)
  BY ElementsAre
<1>1. a \in Nat /\ 1 <= a /\ a <= m + 1
  BY <1>0
<1> DEFINE blanks == {j \in a .. Len(t) + 1 : j > Len(t) \/ t[j] # Space}
<1>2. PICK first \in Nat : first = Min(blanks) /\ first \in blanks /\ \A x \in blanks : first <= x
  <2>1. blanks \subseteq Nat /\ m + 1 \in blanks
    BY <1>0, <1>1
  <2>2. Min(blanks) \in blanks /\ \A x \in blanks : Min(blanks) <= x
    BY <2>1, MinIs
  <2> QED BY <2>1, <2>2
<1>3. /\ a <= first /\ first <= m + 1 /\ (first <= m => t[first] # Space)
      /\ \A x \in a .. first - 1 : t[x] = Space
  <2>1. a <= first /\ first <= m + 1 /\ (first <= m => t[first] # Space)
    BY <1>0, <1>1, <1>2
  <2>2. ASSUME NEW x \in a .. first - 1 PROVE t[x] = Space
    <3>1. x \in a .. Len(t) + 1 /\ ~(x > Len(t)) /\ ~(first <= x)
      BY <1>0, <1>1, <2>1
    <3>2. x \notin blanks
      BY <1>2, <3>1
    <3> QED BY <3>1, <3>2
  <2> QED BY <2>1, <2>2
<1> DEFINE sign == first <= Len(t) /\ t[first] \in Signs
<1>4. PICK from \in Nat : from = (IF sign THEN first + 1 ELSE first)
  OBVIOUS
<1>5. /\ a <= from /\ first <= from /\ from <= m + 1
      /\ (sign => from - 1 = first) /\ (~sign => from = first)
  BY <1>0, <1>1, <1>3, <1>4
<1> DEFINE others == {j \in from .. Len(t) + 1 : j > Len(t) \/ t[j] \notin Digits}
<1>6. PICK end \in Nat : end = Min(others) /\ end \in others /\ \A x \in others : end <= x
  <2>1. others \subseteq Nat /\ m + 1 \in others
    BY <1>0, <1>5
  <2>2. Min(others) \in others /\ \A x \in others : Min(others) <= x
    BY <2>1, MinIs
  <2> QED BY <2>1, <2>2
<1>7. /\ from <= end /\ end <= m + 1 /\ (end <= m => t[end] \notin Digits)
      /\ \A x \in from .. end - 1 : t[x] \in Digits
  <2>1. from <= end /\ end <= m + 1 /\ (end <= m => t[end] \notin Digits)
    BY <1>0, <1>5, <1>6
  <2>2. ASSUME NEW x \in from .. end - 1 PROVE t[x] \in Digits
    <3>1. x \in from .. Len(t) + 1 /\ ~(x > Len(t)) /\ ~(end <= x)
      BY <1>0, <1>5, <2>1
    <3>2. x \notin others
      BY <1>6, <3>1
    <3> QED BY <3>1, <3>2
  <2> QED BY <2>1, <2>2
<1>8. PICK to \in Int : to = end - 1
  OBVIOUS
<1> DEFINE val == IF sign /\ t[first] = 45 THEN -Value(t, from, to) ELSE Value(t, from, to)
<1>9. r = [k |-> IF first > Len(t) THEN -1 ELSE IF to < from THEN 0 ELSE 1,
           v |-> val, n |-> to - a + 1]
  BY <1>2, <1>4, <1>6, <1>8, Zenon DEF ScanInt
<1> HIDE DEF val
<1>10. /\ r.k = (IF first > m THEN -1 ELSE IF to < from THEN 0 ELSE 1)
       /\ r.v = val /\ r.n = to - a + 1
  BY <1>0, <1>9
<1>11. Space \notin Digits /\ Space \notin Signs /\ 45 # Space /\ Signs \cap Digits = {}
  BY DEF Space, Digits, Signs
<1>12. r.k \in {-1, 0, 1}
  BY <1>10
<1>13. ASSUME r.k = -1 PROVE OnlyBlanks(t, a)
  <2>1. first = m + 1
    BY <1>3, <1>10, <1>13
  <2> QED BY <1>0, <1>3, <2>1 DEF OnlyBlanks
<1>14. ASSUME r.k = 0 PROVE NoNumber(t, a)
  <2>1. first <= m /\ to < from
    BY <1>3, <1>10, <1>14
  <2>2. end = from
    BY <1>7, <1>8, <2>1
  <2>3. a <= m
    BY <1>1, <1>3, <2>1
  <2>4. CASE a < first
    <3>1. t[a] = Space
      BY <1>1, <1>3, <2>4
    <3> QED BY <1>0, <1>11, <2>3, <3>1 DEF NoNumber
  <2>5. CASE a = first
    <3>1. t[a] \notin Digits
      <4>1. CASE sign
        BY <1>11, <2>5, <4>1
      <4>2. CASE ~sign
        BY <1>5, <1>7, <2>1, <2>2, <2>5, <4>2
      <4> QED BY <4>1, <4>2
    <3>2. ASSUME t[a] \in Signs, a < Len(t) PROVE t[a + 1] \notin Digits
      <4>1. sign
        BY <1>0, <2>1, <2>5, <3>2
      <4>2. from = a + 1 /\ from <= m
        BY <1>0, <1>4, <2>5, <3>2, <4>1
      <4> QED BY <1>7, <2>2, <4>2
    <3> QED BY <1>0, <2>3, <3>1, <3>2 DEF NoNumber
  <2> QED BY <1>1, <1>3, <2>4, <2>5
<1>15. ASSUME r.k = 1 PROVE \E x, y \in Nat :
              RunRead(t, Digits, a, x, y) /\ r.v = NumberRead(t, a, x, y) /\ r.n = y - a + 1
  <2>1. first <= m /\ ~(to < from)
    BY <1>3, <1>10, <1>15
  <2>2. to \in Nat /\ from \in a .. Len(t) /\ to \in from .. Len(t)
    BY <1>0, <1>1, <1>5, <1>7, <1>8, <2>1
  <2>3. \A x \in from .. to : t[x] \in Digits
    BY <1>7, <1>8
  <2>4. to < Len(t) => t[to + 1] \notin Digits
    <3>1. to + 1 = end
      BY <1>8
    <3> HAVE to < Len(t)
    <3>2. end <= m
      BY <1>0, <2>2, <3>1
    <3> QED BY <1>7, <3>1, <3>2
  <2>5. ASSUME NEW x \in a .. from - 1 PROVE t[x] \notin Digits
    <3>1. CASE x < first
      <4>1. x \in a .. first - 1
        BY <1>1, <3>1
      <4> QED BY <1>3, <1>11, <4>1
    <3>2. CASE ~(x < first)
      <4>1. x = first /\ sign
        BY <1>1, <1>4, <1>5, <3>2
      <4> QED BY <1>11, <4>1
    <3> QED BY <3>1, <3>2
  <2>6. RunRead(t, Digits, a, from, to)
    BY <2>2, <2>3, <2>4, <2>5 DEF RunRead
  <2>7. (from > a /\ t[from - 1] = 45) <=> (sign /\ t[first] = 45)
    <3>1. CASE sign
      BY <1>3, <1>5, <3>1
    <3>2. CASE ~sign
      <4>1. from > a => t[from - 1] = Space
        BY <1>1, <1>3, <1>5, <3>2
      <4> QED BY <1>11, <3>2, <4>1
    <3> QED BY <3>1, <3>2
  <2>8. r.v = NumberRead(t, a, from, to)
    BY <1>10, <2>7 DEF NumberRead, val
  <2> QED BY <1>10, <2>2, <2>6, <2>8
<1> QED BY <1>12, <1>13, <1>14, <1>15

-----------------------------------------------------------------------------
(* A scanner of a text of m characters: at each place it stops, goes on to  *)
(* a later place, or does so and has something to put in front.             *)
Scanner(m, kind, go) ==
  \A a \in 1 .. m + 1 :
    kind[a] # "stop" => go[a] \in 1 .. m + 1 /\ go[a] > a

ScanStep(kind, out, go, a, it) ==
  IF kind[a] = "stop" THEN <<>>
  ELSE IF kind[a] = "skip" THEN it[go[a]] ELSE <<out[a]>> \o it[go[a]]

IsScan(m, kind, out, go, it) == it = [a \in 1 .. m + 1 |-> ScanStep(kind, out, go, a, it)]

\* The scanner's function exists.
LEMMA ScanExists ==
  ASSUME NEW m \in Nat, NEW kind, NEW out, NEW go, Scanner(m, kind, go)
  PROVE  \E it : IsScan(m, kind, out, go, it)
<1> DEFINE D == 1 .. m + 1
           X == {out[a] : a \in D}
           B == Seq(X)
           size == [a \in D |-> m + 1 - a]
           F == [y \in D \X [D -> B] |-> ScanStep(kind, out, go, y[1], y[2])]
<1>1. \A a \in D : /\ a \in Nat /\ m + 1 - a \in Nat /\ out[a] \in X
                   /\ kind[a] # "stop" => go[a] \in D /\ m + 1 - go[a] < m + 1 - a
  <2> TAKE a \in D
  <2>1. a \in Nat /\ m + 1 - a \in Nat /\ out[a] \in X
    OBVIOUS
  <2>2. ASSUME kind[a] # "stop" PROVE go[a] \in D /\ m + 1 - go[a] < m + 1 - a
    <3>1. PICK b \in Nat : b = go[a] /\ b \in D /\ b > a
      BY <2>2 DEF Scanner
    <3> QED BY <2>1, <3>1
  <2> QED BY <2>1, <2>2
<1>2. size \in [D -> Nat] /\ \A a \in D : size[a] = m + 1 - a
  BY <1>1
<1> HIDE DEF D, size, X
<1>3. ASSUME NEW a \in D, NEW g \in [D -> B]
      PROVE  F[<<a, g>>] = ScanStep(kind, out, go, a, g) /\ F[<<a, g>>] \in B
  <2>1. F[<<a, g>>] = ScanStep(kind, out, go, a, g)
    OBVIOUS
  <2>2. kind[a] # "stop" => g[go[a]] \in B
    BY <1>1
  <2>3. <<>> \in B /\ <<out[a]>> \in B
    BY <1>1
  <2>4. kind[a] # "stop" => <<out[a]>> \o g[go[a]] \in B
    BY <2>2, <2>3
  <2> HIDE DEF B, F
  <2> QED BY <2>1, <2>2, <2>3, <2>4, Zenon DEF ScanStep
<1>4. F \in [D \X [D -> B] -> B]
  <2>1. \A y \in D \X [D -> B] : F[y] \in B
    <3> HIDE DEF B, F
    <3> TAKE y \in D \X [D -> B]
    <3>1. PICK a \in D, g \in [D -> B] : y = <<a, g>>
      OBVIOUS
    <3>2. F[<<a, g>>] \in B
      BY <1>3
    <3> QED BY <3>1, <3>2
  <2>2. F = [y \in D \X [D -> B] |-> F[y]]
    OBVIOUS
  <2> HIDE DEF B, F
  <2> QED BY <2>1, <2>2
<1>5. B # {}
  <2>1. <<>> \in B
    OBVIOUS
  <2> QED BY <2>1
<1> HIDE DEF B, F
<1>6. Recursive(D, B, size, F)
  <2>1. ASSUME NEW a \in D, NEW g \in [D -> B], NEW h \in [D -> B],
               \A e \in D : size[e] < size[a] => g[e] = h[e]
        PROVE  F[<<a, g>>] = F[<<a, h>>]
    <3>1. kind[a] # "stop" => g[go[a]] = h[go[a]]
      BY <1>1, <1>2, <2>1
    <3>2. ScanStep(kind, out, go, a, g) = ScanStep(kind, out, go, a, h)
      BY <3>1 DEF ScanStep
    <3> QED BY <1>3, <3>2
  <2> QED BY <1>2, <1>4, <1>5, <2>1 DEF Recursive
<1>7. PICK f \in [D -> B] : \A a \in D : f[a] = F[<<a, f>>]
  BY <1>6, Recursion
<1>8. \A a \in D : f[a] = ScanStep(kind, out, go, a, f)
  BY <1>3, <1>7
<1>9. IsScan(m, kind, out, go, f)
  BY <1>7, <1>8 DEF IsScan, D
<1> QED BY <1>9

\* A scanner that meets the elements of R one after the other, at the places
\* where it begins clean, lists their values.
Meets(m, kind, out, go, clean, R, val) ==
  \A a \in 1 .. m + 1 : clean[a] =>
    /\ kind[a] = "stop" => Behind(R, a) = {}
    /\ kind[a] # "stop" => clean[go[a]]
    /\ kind[a] = "skip" => Behind(R, a) = Behind(R, go[a])
    /\ kind[a] \notin {"stop", "skip"} =>
         \E z \in Nat \X Nat : /\ out[a] = val[z] /\ z[1] < go[a]
                               /\ Behind(R, a) = {z} \cup Behind(R, go[a])

\* From every clean place on, what is scanned is listed.
LEMMA ScanLists ==
  ASSUME NEW m \in Nat, NEW kind, NEW out, NEW go, NEW clean, NEW R, NEW val, NEW it,
         Scanner(m, kind, go), Meets(m, kind, out, go, clean, R, val),
         IsScan(m, kind, out, go, it)
  PROVE  \A a \in 1 .. m + 1 : clean[a] => Listed(R, val, a, it[a])
<1> DEFINE bad == {x \in Nat : \E a \in 1 .. m + 1 :
                     x = m + 1 - a /\ clean[a] /\ ~Listed(R, val, a, it[a])}
<1>1. bad = {}
  <2> SUFFICES ASSUME bad # {} PROVE FALSE
    OBVIOUS
  <2>1. PICK x \in bad : \A y \in bad : x <= y
    BY Least
  <2>2. PICK a \in 1 .. m + 1 : x = m + 1 - a /\ clean[a] /\ ~Listed(R, val, a, it[a])
    BY <2>1
  <2>3. it[a] = ScanStep(kind, out, go, a, it)
    BY DEF IsScan
  <2>4. kind[a] # "stop" => go[a] \in 1 .. m + 1 /\ go[a] > a /\ clean[go[a]]
    BY <2>2 DEF Scanner, Meets
  <2>5. ASSUME kind[a] # "stop" PROVE Listed(R, val, go[a], it[go[a]])
    <3>1. PICK b \in 1 .. m + 1 : b = go[a] /\ b > a /\ clean[b]
      BY <2>4, <2>5
    <3>2. m + 1 - b \in Nat /\ ~(x <= m + 1 - b)
      BY <2>2, <3>1
    <3>3. m + 1 - b \notin bad
      BY <2>1, <3>2
    <3> QED BY <3>1, <3>2, <3>3
  <2>6. CASE kind[a] = "stop"
    <3>1. it[a] = <<>> /\ Behind(R, a) = {}
      BY <2>2, <2>3, <2>6 DEF ScanStep, Meets
    <3>2. Listed(R, val, a, <<>>)
      BY <3>1, ListedNone
    <3> QED BY <2>2, <3>1, <3>2
  <2>7. CASE kind[a] = "skip"
    <3>1. it[a] = it[go[a]] /\ Behind(R, a) = Behind(R, go[a])
      BY <2>2, <2>3, <2>7 DEF ScanStep, Meets
    <3>2. Listed(R, val, go[a], it[go[a]])
      BY <2>5, <2>7
    <3>3. Listed(R, val, a, it[go[a]])
      BY <3>1, <3>2, ListedSame
    <3> QED BY <2>2, <3>1, <3>3
  <2>8. CASE kind[a] \notin {"stop", "skip"}
    <3>1. PICK z \in Nat \X Nat : /\ out[a] = val[z] /\ z[1] < go[a]
                                  /\ Behind(R, a) = {z} \cup Behind(R, go[a])
      BY <2>2, <2>8 DEF Meets
    <3>2. it[a] = <<val[z]>> \o it[go[a]]
      BY <2>3, <2>8, <3>1 DEF ScanStep
    <3>3. Listed(R, val, go[a], it[go[a]])
      BY <2>5, <2>8
    <3>4. PICK b \in Nat : b = go[a]
      BY <2>4, <2>8
    <3>5. Listed(R, val, a, <<val[z]>> \o it[go[a]])
      BY <3>1, <3>3, <3>4, ListedMore
    <3> QED BY <2>2, <3>2, <3>5
  <2> QED BY <2>6, <2>7, <2>8
<1>2. ASSUME NEW a \in 1 .. m + 1, clean[a], ~Listed(R, val, a, it[a]) PROVE FALSE
  <2>1. m + 1 - a \in Nat
    OBVIOUS
  <2>2. m + 1 - a \in bad
    BY <1>2, <2>1
  <2> QED BY <1>1, <2>2
<1> QED BY <1>2

\* A run is the first one from a on, the next ones begin behind its end.
LEMMA FirstRun ==
  ASSUME NEW t, Len(t) \in Nat, NEW C, NEW a \in Nat \ {0}, NEW from \in Nat, NEW to \in Nat,
         RunRead(t, C, a, from, to), from = 1 \/ t[from - 1] \notin C
  PROVE  /\ <<from, to>> \in Runs(t, C)
         /\ Behind(Runs(t, C), a) = {<<from, to>>} \cup Behind(Runs(t, C), to + 1)
<1> DEFINE R == Runs(t, C)
<1>0. PICK m \in Nat : m = Len(t)
  OBVIOUS
<1>1. /\ a <= from /\ from <= to /\ to <= m /\ 1 <= a
      /\ from \in 1 .. m /\ to \in 1 .. m
  BY <1>0 DEF RunRead
<1>2. <<from, to>> \in R
  <2>1. to = Len(t) \/ t[to + 1] \notin C
    BY <1>0, <1>1 DEF RunRead
  <2>2. \A l \in from .. to : t[l] \in C
    BY DEF RunRead
  <2> QED BY <1>0, <1>1, <2>1, <2>2 DEF Runs
<1>3. ASSUME NEW z \in R, z[1] >= a PROVE z = <<from, to>> \/ z[1] >= to + 1
  <2>1. PICK b \in 1 .. m, e \in 1 .. m : z = <<b, e>> /\ b = z[1] /\ e = z[2]
    BY <1>0 DEF Runs
  <2>2. /\ b <= e /\ (\A l \in b .. e : t[l] \in C) /\ (b = 1 \/ t[b - 1] \notin C)
        /\ (e = m \/ t[e + 1] \notin C)
    BY <1>0, <2>1 DEF Runs
  <2>3. b >= from
    <3> SUFFICES ASSUME b < from PROVE FALSE
      BY <1>1, <2>1
    <3>1. b \in a .. from - 1 /\ b \in b .. e
      BY <1>1, <1>3, <2>1, <2>2
    <3> QED BY <2>2, <3>1 DEF RunRead
  <2>4. CASE b = from
    <3>1. ~(e < to)
      <4> SUFFICES ASSUME e < to PROVE FALSE
        OBVIOUS
      <4>1. e + 1 \in from .. to /\ e # m
        BY <1>1, <2>1, <2>2, <2>4
      <4> QED BY <2>2, <4>1 DEF RunRead
    <3>2. ~(to < e)
      <4> SUFFICES ASSUME to < e PROVE FALSE
        OBVIOUS
      <4>1. to + 1 \in b .. e /\ to < m
        BY <1>1, <2>1, <2>2, <2>4
      <4> QED BY <1>0, <2>2, <4>1 DEF RunRead
    <3> QED BY <2>1, <2>4, <3>1, <3>2
  <2>5. CASE b # from
    <3>1. ~(b <= to)
      <4> SUFFICES ASSUME b <= to PROVE FALSE
        OBVIOUS
      <4>1. b - 1 \in from .. to /\ b # 1
        BY <1>1, <2>1, <2>3, <2>5
      <4> QED BY <2>2, <4>1 DEF RunRead
    <3> QED BY <2>1, <3>1
  <2> QED BY <2>4, <2>5
<1>4. ASSUME NEW z \in R, z[1] >= to + 1 PROVE z[1] >= a
  <2>1. PICK b \in 1 .. m : b = z[1]
    BY <1>0 DEF Runs
  <2> QED BY <1>1, <1>4, <2>1
<1>5. <<from, to>>[1] >= a
  BY <1>1
<1> HIDE DEF R
<1>6. Behind(R, a) = {<<from, to>>} \cup Behind(R, to + 1)
  BY <1>2, <1>3, <1>4, <1>5 DEF Behind
<1> QED BY <1>2, <1>6 DEF R

\* Where there is no character of C, no run begins.
LEMMA NoRun ==
  ASSUME NEW t, Len(t) \in Nat, NEW C, NEW a \in Nat, NEW b \in Nat, a <= b,
         \A x \in a .. b - 1 : x <= Len(t) => t[x] \notin C
  PROVE  Behind(Runs(t, C), a) = Behind(Runs(t, C), b)
<1> DEFINE R == Runs(t, C)
<1>1. ASSUME NEW z \in R PROVE z[1] >= a <=> z[1] >= b
  <2>1. PICK x \in 1 .. Len(t), e \in 1 .. Len(t) : x = z[1] /\ e = z[2]
    BY DEF Runs
  <2>2. x <= e /\ \A l \in x .. e : t[l] \in C
    BY <2>1 DEF Runs
  <2>3. t[x] \in C
    BY <2>1, <2>2
  <2> QED BY <2>1, <2>3
<1> QED BY <1>1 DEF Behind

\* No run begins behind the text, and all begin from the first place on.
LEMMA NoRunLeft ==
  ASSUME NEW t, Len(t) \in Nat, NEW C
  PROVE  /\ Behind(Runs(t, C), Len(t) + 1) = {}
         /\ Behind(Runs(t, C), 1) = Runs(t, C)
<1>1. \A z \in Runs(t, C) : z[1] \in 1 .. Len(t)
  BY DEF Runs
<1> QED BY <1>1 DEF Behind

-----------------------------------------------------------------------------
(* The numbers that as.c finds.                                             *)

\* No number has begun before a.
CleanNumber(t, a) ==
  a > 1 /\ a <= Len(t) /\ t[a] \in Digits => t[a - 1] \notin Digits /\ t[a - 1] # 45

ScanKind(t, a) ==
  IF ScanInt(t, a).k = 1 THEN "one" ELSE IF ScanInt(t, a).k = 0 THEN "skip" ELSE "stop"

ScanGo(t, a) == IF ScanInt(t, a).k = 1 THEN a + ScanInt(t, a).n ELSE a + 1

NumberAt(t, z) ==
  LET v == Decimal(SubSeq(t, z[1], z[2]))
  IN  IF z[1] > 1 /\ t[z[1] - 1] = 45 THEN -v ELSE v

\* as.c goes on to a later place.
LEMMA NumbersScanned ==
  ASSUME NEW t \in Seq(Int)
  PROVE  LET D == 1 .. Len(t) + 1
             kind == [a \in D |-> ScanKind(t, a)]
             go == [a \in D |-> ScanGo(t, a)]
         IN  Scanner(Len(t), kind, go)
<1>1. Len(t) \in Nat
  OBVIOUS
<1>2. ASSUME NEW a \in 1 .. Len(t) + 1, ScanKind(t, a) # "stop"
      PROVE  ScanGo(t, a) \in 1 .. Len(t) + 1 /\ ScanGo(t, a) > a
  <2>1. PICK r : r = ScanInt(t, a)
    OBVIOUS
  <2>2. CASE r.k = 1
    <3>1. PICK from \in Nat, to \in Nat :
             RunRead(t, Digits, a, from, to) /\ r.v = NumberRead(t, a, from, to) /\ r.n = to - a + 1
      BY <2>1, <2>2, ScanIntIs
    <3>2. ScanGo(t, a) = a + (to - a + 1)
      BY <2>1, <2>2, <3>1 DEF ScanGo
    <3> QED BY <1>1, <3>1, <3>2 DEF RunRead
  <2>3. CASE r.k # 1
    <3>1. r.k = 0
      BY <1>2, <2>1, <2>3 DEF ScanKind
    <3>2. NoNumber(t, a)
      BY <2>1, <3>1, ScanIntIs
    <3>3. ScanGo(t, a) = a + 1
      BY <2>1, <2>3 DEF ScanGo
    <3> QED BY <1>1, <3>2, <3>3 DEF NoNumber
  <2> QED BY <2>2, <2>3
<1> QED BY <1>2 DEF Scanner

\* as.c meets the numbers one after the other.
LEMMA NumbersMet ==
  ASSUME NEW t \in Seq(Int)
  PROVE  LET D == 1 .. Len(t) + 1
             R == Runs(t, Digits)
             kind == [a \in D |-> ScanKind(t, a)]
             out == [a \in D |-> ScanInt(t, a).v]
             go == [a \in D |-> ScanGo(t, a)]
             clean == [a \in D |-> CleanNumber(t, a)]
             val == [z \in R |-> NumberAt(t, z)]
         IN  Meets(Len(t), kind, out, go, clean, R, val)
<1> DEFINE D == 1 .. Len(t) + 1
           R == Runs(t, Digits)
           kind == [a \in D |-> ScanKind(t, a)]
           out == [a \in D |-> ScanInt(t, a).v]
           go == [a \in D |-> ScanGo(t, a)]
           clean == [a \in D |-> CleanNumber(t, a)]
           val == [z \in R |-> NumberAt(t, z)]
<1>0. PICK m \in Nat : m = Len(t)
  BY ElementsAre
<1>s. Space \notin Digits /\ 45 \notin Digits /\ 45 \in Signs
  BY DEF Space, Digits, Signs
<1>1. ASSUME NEW a \in D, CleanNumber(t, a)
      PROVE  /\ kind[a] = "stop" => Behind(R, a) = {}
             /\ kind[a] # "stop" => clean[go[a]]
             /\ kind[a] = "skip" => Behind(R, a) = Behind(R, go[a])
             /\ kind[a] \notin {"stop", "skip"} =>
                  \E z \in Nat \X Nat : /\ out[a] = val[z] /\ z[1] < go[a]
                                        /\ Behind(R, a) = {z} \cup Behind(R, go[a])
  <2>0. PICK r : r = ScanInt(t, a)
    OBVIOUS
  <2>1. r.k \in {-1, 0, 1} /\ a \in Nat /\ a >= 1 /\ a <= m + 1
    BY <1>0, <2>0, ScanIntIs
  <2>2. kind[a] = ScanKind(t, a) /\ out[a] = r.v /\ go[a] = ScanGo(t, a)
    BY <2>0
  <2>3. \A b \in D : clean[b] = CleanNumber(t, b)
    OBVIOUS
  <2> HIDE DEF kind, out, go, clean
  <2>4. CASE r.k = -1
    <3>1. kind[a] = "stop" /\ OnlyBlanks(t, a)
      BY <2>0, <2>2, <2>4, ScanIntIs DEF ScanKind
    <3>2. \A x \in a .. (m + 1) - 1 : x <= Len(t) => t[x] \notin Digits
      BY <1>0, <1>s, <3>1 DEF OnlyBlanks
    <3>3. Behind(R, a) = Behind(R, m + 1)
      BY <1>0, <2>1, <3>2, NoRun
    <3>4. Behind(R, m + 1) = {}
      BY <1>0, NoRunLeft
    <3> QED BY <3>1, <3>3, <3>4
  <2>5. CASE r.k = 0
    <3>1. kind[a] = "skip" /\ NoNumber(t, a) /\ go[a] = a + 1
      BY <2>0, <2>2, <2>5, ScanIntIs DEF ScanKind, ScanGo
    <3>2. a <= m /\ a + 1 \in D /\ t[a] \notin Digits
      BY <1>0, <2>1, <3>1 DEF NoNumber
    <3>3. Behind(R, a) = Behind(R, a + 1)
      <4>1. \A x \in a .. (a + 1) - 1 : x <= Len(t) => t[x] \notin Digits
        BY <2>1, <3>2
      <4> QED BY <1>0, <2>1, <4>1, NoRun
    <3>4. CleanNumber(t, a + 1)
      <4>1. (a + 1) - 1 = a /\ (a + 1 <= Len(t) => a < Len(t))
        BY <1>0, <2>1
      <4> QED BY <1>s, <3>1, <3>2, <4>1 DEF NoNumber, CleanNumber
    <3> QED BY <2>3, <3>1, <3>2, <3>3, <3>4
  <2>6. CASE r.k = 1
    <3>1. PICK from \in Nat, to \in Nat :
             RunRead(t, Digits, a, from, to) /\ r.v = NumberRead(t, a, from, to) /\ r.n = to - a + 1
      BY <2>0, <2>6, ScanIntIs
    <3>2. /\ a <= from /\ from <= to /\ to <= m
          /\ (\A x \in a .. from - 1 : t[x] \notin Digits)
          /\ (\A x \in from .. to : t[x] \in Digits)
          /\ to < m => t[to + 1] \notin Digits
      BY <1>0, <3>1 DEF RunRead
    <3>3. kind[a] = "one" /\ go[a] = to + 1 /\ to + 1 \in D
      <4>1. kind[a] = "one" /\ go[a] = a + (to - a + 1)
        BY <2>0, <2>2, <2>6, <3>1 DEF ScanKind, ScanGo
      <4> QED BY <1>0, <2>1, <3>2, <4>1
    <3>4. from = 1 \/ (t[from - 1] \notin Digits /\ (from = a => t[from - 1] # 45))
      <4>1. CASE from = a
        <5>1. a <= Len(t) /\ t[a] \in Digits
          BY <1>0, <3>2, <4>1
        <5> QED BY <1>1, <2>1, <4>1, <5>1 DEF CleanNumber
      <4>2. CASE from # a
        <5>1. from - 1 \in a .. from - 1
          BY <2>1, <3>2, <4>2
        <5> QED BY <3>2, <4>2, <5>1
      <4> QED BY <4>1, <4>2
    <3>5. /\ <<from, to>> \in R
          /\ Behind(R, a) = {<<from, to>>} \cup Behind(R, to + 1)
      <4>1. a \in Nat \ {0} /\ (from = 1 \/ t[from - 1] \notin Digits) /\ Len(t) \in Nat
        BY <1>0, <2>1, <3>4
      <4> QED BY <3>1, <4>1, FirstRun
    <3>6. out[a] = val[<<from, to>>]
      <4>1. val[<<from, to>>] = NumberAt(t, <<from, to>>)
        BY <3>5
      <4>2. Value(t, from, to) = Decimal(SubSeq(t, from, to))
        <5>1. from \in 1 .. Len(t) + 1 /\ to \in from - 1 .. Len(t)
          BY <1>0, <2>1, <3>2
        <5> QED BY <5>1, ValueIs
      <4>3. (from > a /\ t[from - 1] = 45) <=> (from > 1 /\ t[from - 1] = 45)
        BY <2>1, <3>2, <3>4
      <4>4. NumberAt(t, <<from, to>>) =
              IF from > 1 /\ t[from - 1] = 45 THEN -Decimal(SubSeq(t, from, to))
              ELSE Decimal(SubSeq(t, from, to))
        BY DEF NumberAt
      <4> QED BY <2>2, <3>1, <4>1, <4>2, <4>3, <4>4 DEF NumberRead
    <3>7. CleanNumber(t, to + 1)
      <4>1. t[to] \in Digits /\ (to + 1) - 1 = to
        BY <3>2
      <4>2. to + 1 <= Len(t) => t[to + 1] \notin Digits
        BY <1>0, <3>2
      <4> QED BY <4>2 DEF CleanNumber
    <3>8. <<from, to>> \in Nat \X Nat /\ <<from, to>>[1] < to + 1
      BY <3>2
    <3>9. clean[go[a]]
      BY <2>3, <3>3, <3>7
    <3> HIDE DEF R, val
    <3> QED BY <3>3, <3>5, <3>6, <3>8, <3>9
  <2> QED BY <2>1, <2>4, <2>5, <2>6
<1>2. \A a \in 1 .. Len(t) + 1 : clean[a] = CleanNumber(t, a)
  OBVIOUS
<1> HIDE DEF kind, out, go, clean, R, val
<1>3. Meets(Len(t), kind, out, go, clean, R, val)
  BY <1>1, <1>2, Zenon DEF Meets, D
<1> QED BY <1>3 DEF D, kind, out, go, clean, R, val

\* as.c's function.
IsNumberScan(t, it) ==
  it = [a \in 1 .. Len(t) + 1 |->
          LET r == ScanInt(t, a)
          IN  CASE r.k = 1 -> <<r.v>> \o it[a + r.n]
                [] r.k = 0 -> it[a + 1]
                [] OTHER -> <<>>]

\* r has the values of the elements of R.
ListedAll(R, val, r) ==
  \E q \in InTextOrder(R) :
    r = [j \in DOMAIN q |-> val[q[j]]] /\ \A j \in DOMAIN q : q[j] \in R

\* What is listed from the first place on is all.
LEMMA AllListed ==
  ASSUME NEW R, NEW val, NEW r, Behind(R, 1) = R, Listed(R, val, 1, r)
  PROVE  ListedAll(R, val, r)
<1>1. PICK q : Lists(R, q) /\ r = [x \in DOMAIN q |-> val[q[x]]]
  BY DEF Listed
<1>2. q \in InTextOrder(R) /\ \A x \in DOMAIN q : q[x] \in R
  BY <1>1, ListsInOrder DEF Lists
<1> QED BY <1>1, <1>2 DEF ListedAll

\* as.c finds the numbers of a text, each run of digits with its sign.
THEOREM NumbersAreFound ==
  ASSUME NEW t \in Seq(Int)
  PROVE  AreTheNumbers(t, ScanNumbers(t))
<1> DEFINE D == 1 .. Len(t) + 1
           R == Runs(t, Digits)
           kind == [a \in D |-> ScanKind(t, a)]
           out == [a \in D |-> ScanInt(t, a).v]
           go == [a \in D |-> ScanGo(t, a)]
           clean == [a \in D |-> CleanNumber(t, a)]
           val == [z \in R |-> NumberAt(t, z)]
<1>0. Len(t) \in Nat
  OBVIOUS
<1>1. Scanner(Len(t), kind, go) /\ Meets(Len(t), kind, out, go, clean, R, val)
  BY NumbersScanned, NumbersMet
<1>2. ASSUME NEW f, NEW a \in D
      PROVE  ScanStep(kind, out, go, a, f) = LET r == ScanInt(t, a)
                                             IN  CASE r.k = 1 -> <<r.v>> \o f[a + r.n]
                                                   [] r.k = 0 -> f[a + 1]
                                                   [] OTHER -> <<>>
  <2>1. PICK r : r = ScanInt(t, a)
    OBVIOUS
  <2>2. kind[a] = ScanKind(t, a) /\ out[a] = r.v /\ go[a] = ScanGo(t, a)
    BY <2>1
  <2> HIDE DEF kind, out, go
  <2>3. CASE r.k = 1
    <3>1. kind[a] = "one" /\ go[a] = a + r.n
      BY <2>1, <2>2, <2>3 DEF ScanKind, ScanGo
    <3>2. ScanStep(kind, out, go, a, f) = <<r.v>> \o f[a + r.n]
      BY <2>2, <3>1 DEF ScanStep
    <3> QED BY <2>1, <2>3, <3>2
  <2>4. CASE r.k = 0
    <3>1. kind[a] = "skip" /\ go[a] = a + 1
      BY <2>1, <2>2, <2>4 DEF ScanKind, ScanGo
    <3>2. ScanStep(kind, out, go, a, f) = f[a + 1]
      BY <2>2, <3>1 DEF ScanStep
    <3> QED BY <2>1, <2>4, <3>2
  <2>5. CASE r.k # 1 /\ r.k # 0
    <3>1. kind[a] = "stop"
      BY <2>1, <2>2, <2>5 DEF ScanKind
    <3>2. ScanStep(kind, out, go, a, f) = <<>>
      BY <3>1 DEF ScanStep
    <3> QED BY <2>1, <2>5, <3>2
  <2> QED BY <2>3, <2>4, <2>5
<1>3. clean[1] /\ 1 \in D
  <2>1. 1 \in D
    BY <1>0
  <2>2. CleanNumber(t, 1)
    BY DEF CleanNumber
  <2>3. clean[1] = CleanNumber(t, 1)
    BY <2>1
  <2> QED BY <2>1, <2>2, <2>3
<1> HIDE DEF kind, out, go, clean, val, R
<1>4. ASSUME NEW f PROVE IsScan(Len(t), kind, out, go, f) <=> IsNumberScan(t, f)
  BY <1>2, Zenon DEF IsScan, IsNumberScan, D
<1>5. \E f : IsNumberScan(t, f)
  BY <1>0, <1>1, <1>4, ScanExists
<1>6. PICK it : it = CHOOSE f : IsNumberScan(t, f)
  OBVIOUS
<1>7. IsNumberScan(t, it)
  BY <1>5, <1>6
<1>8. ScanNumbers(t) = it[1]
  BY <1>6, Zenon DEF ScanNumbers, IsNumberScan
<1>9. Listed(R, val, 1, it[1])
  <2>1. IsScan(Len(t), kind, out, go, it)
    BY <1>4, <1>7
  <2>2. \A a \in 1 .. Len(t) + 1 : clean[a] => Listed(R, val, a, it[a])
    BY <1>0, <1>1, <2>1, ScanLists
  <2> QED BY <1>3, <2>2
<1>10. Behind(R, 1) = R
  BY <1>0, NoRunLeft DEF R
<1>11. PICK q \in InTextOrder(R) : /\ it[1] = [j \in DOMAIN q |-> val[q[j]]]
                                   /\ \A j \in DOMAIN q : q[j] \in R
  <2>1. ListedAll(R, val, it[1])
    BY <1>9, <1>10, AllListed
  <2> QED BY <2>1, Zenon DEF ListedAll
<1>12. \A j \in DOMAIN q : val[q[j]] = NumberAt(t, q[j])
  BY <1>11 DEF val
<1>13. it[1] = [j \in DOMAIN q |-> NumberAt(t, q[j])]
  BY <1>11, <1>12
<1>14. q \in InTextOrder(Runs(t, Digits))
  BY DEF R
<1> QED BY <1>8, <1>13, <1>14, Zenon DEF AreTheNumbers, NumberAt

-----------------------------------------------------------------------------
(* The tokens that sscanf.c finds.                                          *)
SignPlaces(t) == {<<j, j>> : j \in {l \in DOMAIN t : t[l] \in Operators}}
TokenPlaces(t) == Runs(t, Digits) \cup SignPlaces(t)

TokenAt(t, z) ==
  IF t[z[1]] \in Operators THEN [op |-> t[z[1]]]
  ELSE [num |-> Decimal(SubSeq(t, z[1], z[2]))]

TokenKind(t, a) ==
  IF a > Len(t) THEN "stop" ELSE IF t[a] \in Operators THEN "one"
  ELSE IF t[a] = Space THEN "skip" ELSE "one"

TokenOut(t, a) == IF t[a] \in Operators THEN [op |-> t[a]] ELSE [num |-> ScanInt(t, a).v]

TokenGo(t, a) == IF t[a] \in Operators \/ t[a] = Space THEN a + 1 ELSE a + ScanInt(t, a).n

CleanToken(t, a) ==
  a > 1 /\ a <= Len(t) /\ t[a] \in Digits => t[a - 1] \notin Digits

\* A number that begins at a.
LEMMA NumberToken ==
  ASSUME NEW t \in Seq(Int), NEW a \in 1 .. Len(t), t[a] \in Digits
  PROVE  \E to \in Nat : /\ RunRead(t, Digits, a, a, to) /\ ScanInt(t, a).n = to - a + 1
                         /\ ScanInt(t, a).v = Decimal(SubSeq(t, a, to))
<1>0. PICK m \in Nat : m = Len(t)
  BY ElementsAre
<1>1. PICK r : r = ScanInt(t, a)
  OBVIOUS
<1>2. a \in 1 .. Len(t) + 1 /\ a \in Nat /\ a <= m /\ Space \notin Digits
  BY <1>0 DEF Space, Digits
<1>3. /\ r.k \in {-1, 0, 1}
      /\ r.k = -1 => OnlyBlanks(t, a)
      /\ r.k = 0 => NoNumber(t, a)
      /\ r.k = 1 => \E from, to \in Nat :
           RunRead(t, Digits, a, from, to) /\ r.v = NumberRead(t, a, from, to) /\ r.n = to - a + 1
  BY <1>1, <1>2, ScanIntIs
<1>4. r.k # -1
  <2>1. a \in a .. Len(t)
    BY <1>0, <1>2
  <2> QED BY <1>2, <1>3, <2>1 DEF OnlyBlanks
<1>5. r.k # 0
  BY <1>3 DEF NoNumber
<1>6. PICK from \in Nat, to \in Nat :
        RunRead(t, Digits, a, from, to) /\ r.v = NumberRead(t, a, from, to) /\ r.n = to - a + 1
  BY <1>3, <1>4, <1>5
<1>7. from = a
  <2>1. a <= from /\ \A x \in a .. from - 1 : t[x] \notin Digits
    BY <1>0, <1>2, <1>6 DEF RunRead
  <2>2. ~(a < from)
    <3>1. a < from => a \in a .. from - 1
      BY <1>2
    <3> QED BY <2>1, <3>1
  <2> QED BY <1>2, <2>1, <2>2
<1>8. Value(t, a, to) = Decimal(SubSeq(t, a, to))
  <2>1. a \in 1 .. Len(t) + 1 /\ to \in a - 1 .. Len(t)
    BY <1>0, <1>2, <1>6, <1>7 DEF RunRead
  <2> QED BY <2>1, ValueIs
<1>9. r.v = Value(t, a, to)
  <2>1. ~(from > a)
    BY <1>2, <1>7
  <2> QED BY <1>6, <1>7, <2>1 DEF NumberRead
<1> QED BY <1>1, <1>6, <1>7, <1>8, <1>9

\* sscanf.c goes on to a later place.
LEMMA TokensScanned ==
  ASSUME NEW t \in Seq({Space} \cup Digits \cup Operators)
  PROVE  LET D == 1 .. Len(t) + 1
             kind == [a \in D |-> TokenKind(t, a)]
             go == [a \in D |-> TokenGo(t, a)]
         IN  Scanner(Len(t), kind, go)
<1>0. PICK m \in Nat : m = Len(t)
  BY ElementsAre
<1>1. t \in Seq(Int)
  <2>1. {Space} \cup Digits \cup Operators \subseteq Int
    BY DEF Space, Digits, Operators, Signs
  <2> QED BY <2>1, ElementsAre
<1>2. ASSUME NEW a \in 1 .. Len(t) + 1, TokenKind(t, a) # "stop"
      PROVE  TokenGo(t, a) \in 1 .. Len(t) + 1 /\ TokenGo(t, a) > a
  <2>1. a \in 1 .. Len(t) /\ a \in Nat
    BY <1>0, <1>2 DEF TokenKind
  <2>2. CASE t[a] \in Operators \/ t[a] = Space
    <3>1. TokenGo(t, a) = a + 1
      BY <2>2 DEF TokenGo
    <3> QED BY <1>0, <2>1, <3>1
  <2>3. CASE ~(t[a] \in Operators \/ t[a] = Space)
    <3>1. t[a] \in Digits
      BY <2>1, <2>3
    <3>2. PICK to \in Nat : RunRead(t, Digits, a, a, to) /\ ScanInt(t, a).n = to - a + 1
      BY <1>1, <2>1, <3>1, NumberToken
    <3>3. TokenGo(t, a) = a + (to - a + 1)
      BY <2>3, <3>2 DEF TokenGo
    <3>4. a <= to /\ to <= m
      BY <1>0, <2>1, <3>2 DEF RunRead
    <3> QED BY <1>0, <2>1, <3>3, <3>4
  <2> QED BY <2>2, <2>3
<1> QED BY <1>2 DEF Scanner

\* Where an operator is, it is the only token; elsewhere the operators play no part.
LEMMA OperatorPlaces ==
  ASSUME NEW t, NEW m \in Nat, DOMAIN t = 1 .. m, NEW a \in Nat \ {0}, NEW b \in Nat, a <= b,
         \A x \in a .. b - 1 : x <= m => t[x] \notin Operators
  PROVE  /\ Behind(SignPlaces(t), a) = Behind(SignPlaces(t), b)
         /\ Behind(SignPlaces(t), m + 1) = {}
<1>1. \A z : z \in SignPlaces(t) <=> \E j \in 1 .. m : z = <<j, j>> /\ t[j] \in Operators
  BY DEF SignPlaces
<1>2. ASSUME NEW z \in SignPlaces(t) PROVE (z[1] >= a <=> z[1] >= b) /\ ~(z[1] >= m + 1)
  <2>1. PICK j \in 1 .. m : z = <<j, j>> /\ z[1] = j /\ t[j] \in Operators
    BY <1>1
  <2>2. ~(j >= a /\ j < b)
    <3>1. j >= a /\ j < b => j \in a .. b - 1 /\ j <= m
      OBVIOUS
    <3> QED BY <2>1, <3>1
  <2> QED BY <2>1, <2>2
<1> QED BY <1>2 DEF Behind

\* An operator at a is the first one from a on.
LEMMA OperatorHere ==
  ASSUME NEW t, NEW m \in Nat, DOMAIN t = 1 .. m, NEW a \in 1 .. m, t[a] \in Operators
  PROVE  Behind(SignPlaces(t), a) = {<<a, a>>} \cup Behind(SignPlaces(t), a + 1)
<1>1. \A z : z \in SignPlaces(t) <=> \E j \in 1 .. m : z = <<j, j>> /\ t[j] \in Operators
  BY DEF SignPlaces
<1>2. <<a, a>> \in SignPlaces(t) /\ <<a, a>>[1] >= a
  BY <1>1
<1>3. ASSUME NEW z \in SignPlaces(t)
      PROVE  z[1] >= a <=> z = <<a, a>> \/ z[1] >= a + 1
  <2>1. PICK j \in 1 .. m : z = <<j, j>> /\ z[1] = j
    BY <1>1
  <2> QED BY <2>1
<1> QED BY <1>2, <1>3 DEF Behind

\* Behind, of two sets.
LEMMA BehindBoth ==
  ASSUME NEW R, NEW S, NEW a
  PROVE  Behind(R \cup S, a) = Behind(R, a) \cup Behind(S, a)
BY DEF Behind

\* sscanf.c meets the tokens one after the other.
LEMMA TokensMet ==
  ASSUME NEW t \in Seq({Space} \cup Digits \cup Operators)
  PROVE  LET D == 1 .. Len(t) + 1
             R == TokenPlaces(t)
             kind == [a \in D |-> TokenKind(t, a)]
             out == [a \in D |-> TokenOut(t, a)]
             go == [a \in D |-> TokenGo(t, a)]
             clean == [a \in D |-> CleanToken(t, a)]
             val == [z \in R |-> TokenAt(t, z)]
         IN  Meets(Len(t), kind, out, go, clean, R, val)
<1> DEFINE D == 1 .. Len(t) + 1
           R == TokenPlaces(t)
           kind == [a \in D |-> TokenKind(t, a)]
           out == [a \in D |-> TokenOut(t, a)]
           go == [a \in D |-> TokenGo(t, a)]
           clean == [a \in D |-> CleanToken(t, a)]
           val == [z \in R |-> TokenAt(t, z)]
<1>0. PICK m \in Nat : m = Len(t) /\ DOMAIN t = 1 .. m
  BY ElementsAre
<1>s. Space \notin Digits /\ Space \notin Operators /\ Operators \cap Digits = {}
  BY DEF Space, Digits, Operators, Signs
<1>t. t \in Seq(Int)
  <2>1. {Space} \cup Digits \cup Operators \subseteq Int
    BY DEF Space, Digits, Operators, Signs
  <2> QED BY <2>1, ElementsAre
<1>b. \A a : Behind(R, a) = Behind(Runs(t, Digits), a) \cup Behind(SignPlaces(t), a)
  BY BehindBoth DEF TokenPlaces
<1>1. ASSUME NEW a \in D, CleanToken(t, a)
      PROVE  /\ kind[a] = "stop" => Behind(R, a) = {}
             /\ kind[a] # "stop" => clean[go[a]]
             /\ kind[a] = "skip" => Behind(R, a) = Behind(R, go[a])
             /\ kind[a] \notin {"stop", "skip"} =>
                  \E z \in Nat \X Nat : /\ out[a] = val[z] /\ z[1] < go[a]
                                        /\ Behind(R, a) = {z} \cup Behind(R, go[a])
  <2>1. a \in Nat /\ a >= 1 /\ a <= m + 1
    BY <1>0
  <2>2. kind[a] = TokenKind(t, a) /\ out[a] = TokenOut(t, a) /\ go[a] = TokenGo(t, a)
    OBVIOUS
  <2>3. \A b \in D : clean[b] = CleanToken(t, b)
    OBVIOUS
  <2>v. \A z \in R : val[z] = TokenAt(t, z)
    OBVIOUS
  <2> HIDE DEF kind, out, go, clean, val, R
  <2>4. CASE a > m
    <3>1. kind[a] = "stop" /\ a = m + 1
      BY <1>0, <2>1, <2>2, <2>4 DEF TokenKind
    <3>2. Behind(Runs(t, Digits), a) = {}
      BY <1>0, <3>1, NoRunLeft
    <3>3. Behind(SignPlaces(t), a) = {}
      <4>1. \A x \in a .. a - 1 : x <= m => t[x] \notin Operators
        BY <2>1
      <4>2. a \in Nat \ {0} /\ a <= a
        BY <2>1
      <4> QED BY <1>0, <3>1, <4>1, <4>2, OperatorPlaces
    <3>4. Behind(R, a) = {}
      BY <1>b, <3>2, <3>3
    <3> QED BY <3>1, <3>4
  <2>5. CASE a <= m /\ t[a] = Space
    <3>1. kind[a] = "skip" /\ go[a] = a + 1 /\ a + 1 \in D
      BY <1>0, <1>s, <2>1, <2>2, <2>5 DEF TokenKind, TokenGo
    <3>2. Behind(Runs(t, Digits), a) = Behind(Runs(t, Digits), a + 1)
      <4>1. \A x \in a .. (a + 1) - 1 : x <= Len(t) => t[x] \notin Digits
        BY <1>s, <2>1, <2>5
      <4> QED BY <1>0, <2>1, <4>1, NoRun
    <3>3. Behind(SignPlaces(t), a) = Behind(SignPlaces(t), a + 1)
      <4>1. \A x \in a .. (a + 1) - 1 : x <= m => t[x] \notin Operators
        BY <1>s, <2>1, <2>5
      <4>2. a \in Nat \ {0} /\ a + 1 \in Nat /\ a <= a + 1
        BY <2>1
      <4> QED BY <1>0, <4>1, <4>2, OperatorPlaces
    <3>4. Behind(R, a) = Behind(R, a + 1)
      BY <1>b, <3>2, <3>3
    <3>5. CleanToken(t, a + 1)
      <4>1. (a + 1) - 1 = a
        BY <2>1
      <4> QED BY <1>s, <2>5, <4>1 DEF CleanToken
    <3> QED BY <2>3, <3>1, <3>4, <3>5
  <2>6. CASE a <= m /\ t[a] \in Operators
    <3>1. kind[a] = "one" /\ go[a] = a + 1 /\ out[a] = [op |-> t[a]] /\ a + 1 \in D /\ a \in 1 .. m
      BY <1>0, <2>1, <2>2, <2>6 DEF TokenKind, TokenGo, TokenOut
    <3>2. Behind(Runs(t, Digits), a) = Behind(Runs(t, Digits), a + 1)
      <4>1. \A x \in a .. (a + 1) - 1 : x <= Len(t) => t[x] \notin Digits
        BY <1>s, <2>1, <2>6
      <4> QED BY <1>0, <2>1, <4>1, NoRun
    <3>3. Behind(SignPlaces(t), a) = {<<a, a>>} \cup Behind(SignPlaces(t), a + 1)
      BY <1>0, <2>6, <3>1, OperatorHere
    <3>4. Behind(R, a) = {<<a, a>>} \cup Behind(R, a + 1)
      BY <1>b, <3>2, <3>3
    <3>5. CleanToken(t, a + 1)
      <4>1. (a + 1) - 1 = a
        BY <2>1
      <4> QED BY <1>s, <2>6, <4>1 DEF CleanToken
    <3>6. <<a, a>> \in R
      BY <1>0, <2>6, <3>1 DEF R, TokenPlaces, SignPlaces
    <3>7. out[a] = val[<<a, a>>]
      BY <2>6, <2>v, <3>1, <3>6 DEF TokenAt
    <3>8. <<a, a>> \in Nat \X Nat /\ <<a, a>>[1] < a + 1
      BY <2>1
    <3>9. clean[go[a]]
      BY <2>3, <3>1, <3>5
    <3> QED BY <3>1, <3>4, <3>7, <3>8, <3>9
  <2>7. CASE a <= m /\ t[a] # Space /\ t[a] \notin Operators
    <3>0. a \in 1 .. Len(t) /\ t[a] \in Digits
      BY <1>0, <2>1, <2>7, ElementsAre
    <3>1. PICK to \in Nat : /\ RunRead(t, Digits, a, a, to) /\ ScanInt(t, a).n = to - a + 1
                            /\ ScanInt(t, a).v = Decimal(SubSeq(t, a, to))
      BY <1>t, <3>0, NumberToken
    <3>2. /\ a <= to /\ to <= m /\ (to < m => t[to + 1] \notin Digits)
          /\ \A x \in a .. to : t[x] \in Digits
      BY <1>0, <2>1, <3>1 DEF RunRead
    <3>3. kind[a] = "one" /\ go[a] = to + 1 /\ to + 1 \in D
          /\ out[a] = [num |-> Decimal(SubSeq(t, a, to))]
      <4>1. /\ kind[a] = "one" /\ go[a] = a + (to - a + 1)
            /\ out[a] = [num |-> Decimal(SubSeq(t, a, to))]
        BY <1>0, <2>2, <2>7, <3>0, <3>1 DEF TokenKind, TokenGo, TokenOut
      <4> QED BY <1>0, <2>1, <3>2, <4>1
    <3>4. a = 1 \/ t[a - 1] \notin Digits
      BY <1>0, <1>1, <2>1, <3>0 DEF CleanToken
    <3>5. /\ <<a, to>> \in Runs(t, Digits)
          /\ Behind(Runs(t, Digits), a) = {<<a, to>>} \cup Behind(Runs(t, Digits), to + 1)
      <4>1. a \in Nat \ {0} /\ Len(t) \in Nat
        BY <1>0, <2>1
      <4> QED BY <3>1, <3>4, <4>1, FirstRun
    <3>6. Behind(SignPlaces(t), a) = Behind(SignPlaces(t), to + 1)
      <4>1. \A x \in a .. (to + 1) - 1 : x <= m => t[x] \notin Operators
        BY <1>s, <3>2
      <4>2. a \in Nat \ {0} /\ to + 1 \in Nat /\ a <= to + 1
        BY <2>1, <3>2
      <4> QED BY <1>0, <4>1, <4>2, OperatorPlaces
    <3>7. Behind(R, a) = {<<a, to>>} \cup Behind(R, to + 1)
      BY <1>b, <3>5, <3>6
    <3>8. out[a] = val[<<a, to>>]
      <4>1. <<a, to>> \in R
        BY <3>5 DEF R, TokenPlaces
      <4>2. TokenAt(t, <<a, to>>) = [num |-> Decimal(SubSeq(t, a, to))]
        BY <2>7 DEF TokenAt
      <4> QED BY <2>v, <3>3, <4>1, <4>2
    <3>9. CleanToken(t, to + 1)
      <4>1. to + 1 <= Len(t) => t[to + 1] \notin Digits
        BY <1>0, <3>2
      <4> QED BY <4>1 DEF CleanToken
    <3>10. <<a, to>> \in Nat \X Nat /\ <<a, to>>[1] < to + 1
      BY <2>1, <3>2
    <3>11. clean[go[a]]
      BY <2>3, <3>3, <3>9
    <3> QED BY <3>3, <3>7, <3>8, <3>10, <3>11
  <2> QED BY <2>1, <2>4, <2>5, <2>6, <2>7
<1>2. \A a \in 1 .. Len(t) + 1 : clean[a] = CleanToken(t, a)
  OBVIOUS
<1> HIDE DEF kind, out, go, clean, R, val
<1>3. Meets(Len(t), kind, out, go, clean, R, val)
  BY <1>1, <1>2, Zenon DEF Meets, D
<1> QED BY <1>3 DEF D, kind, out, go, clean, R, val

\* sscanf.c's function.
IsTokenScan(t, it) ==
  it = [a \in 1 .. Len(t) + 1 |->
          IF a > Len(t) THEN <<>>
          ELSE CASE t[a] \in Operators -> <<[op |-> t[a]]>> \o it[a + 1]
                 [] t[a] = Space -> it[a + 1]
                 [] OTHER -> <<[num |-> ScanInt(t, a).v]>> \o it[a + ScanInt(t, a).n]]

\* sscanf.c finds the tokens of a text, its numbers and its operators.
THEOREM TokensAreFound ==
  ASSUME NEW t \in Seq({Space} \cup Digits \cup Operators)
  PROVE  AreTheTokens(t, ScanTokens(t))
<1> DEFINE D == 1 .. Len(t) + 1
           R == TokenPlaces(t)
           kind == [a \in D |-> TokenKind(t, a)]
           out == [a \in D |-> TokenOut(t, a)]
           go == [a \in D |-> TokenGo(t, a)]
           clean == [a \in D |-> CleanToken(t, a)]
           val == [z \in R |-> TokenAt(t, z)]
<1>0. Len(t) \in Nat /\ DOMAIN t = 1 .. Len(t)
  BY ElementsAre
<1>s. Space \notin Operators
  BY DEF Space, Operators, Signs
<1>1. Scanner(Len(t), kind, go) /\ Meets(Len(t), kind, out, go, clean, R, val)
  BY TokensScanned, TokensMet
<1>2. ASSUME NEW f, NEW a \in D
      PROVE  ScanStep(kind, out, go, a, f) =
               IF a > Len(t) THEN <<>>
               ELSE CASE t[a] \in Operators -> <<[op |-> t[a]]>> \o f[a + 1]
                      [] t[a] = Space -> f[a + 1]
                      [] OTHER -> <<[num |-> ScanInt(t, a).v]>> \o f[a + ScanInt(t, a).n]
  <2>2. kind[a] = TokenKind(t, a) /\ out[a] = TokenOut(t, a) /\ go[a] = TokenGo(t, a)
    OBVIOUS
  <2> HIDE DEF kind, out, go
  <2>3. CASE a > Len(t)
    <3>1. ScanStep(kind, out, go, a, f) = <<>>
      BY <2>2, <2>3 DEF ScanStep, TokenKind
    <3> QED BY <2>3, <3>1
  <2>4. CASE ~(a > Len(t)) /\ t[a] \in Operators
    <3>1. kind[a] = "one" /\ go[a] = a + 1 /\ out[a] = [op |-> t[a]]
      BY <2>2, <2>4 DEF TokenKind, TokenGo, TokenOut
    <3>2. ScanStep(kind, out, go, a, f) = <<[op |-> t[a]]>> \o f[a + 1]
      BY <3>1 DEF ScanStep
    <3> QED BY <1>s, <2>4, <3>2
  <2>5. CASE ~(a > Len(t)) /\ t[a] = Space
    <3>1. kind[a] = "skip" /\ go[a] = a + 1
      BY <1>s, <2>2, <2>5 DEF TokenKind, TokenGo
    <3>2. ScanStep(kind, out, go, a, f) = f[a + 1]
      BY <3>1 DEF ScanStep
    <3> QED BY <1>s, <2>5, <3>2
  <2>6. CASE ~(a > Len(t)) /\ t[a] \notin Operators /\ t[a] # Space
    <3>1. kind[a] = "one" /\ go[a] = a + ScanInt(t, a).n /\ out[a] = [num |-> ScanInt(t, a).v]
      BY <2>2, <2>6 DEF TokenKind, TokenGo, TokenOut
    <3>2. ScanStep(kind, out, go, a, f) = <<[num |-> ScanInt(t, a).v]>> \o f[a + ScanInt(t, a).n]
      BY <3>1 DEF ScanStep
    <3> QED BY <2>6, <3>2
  <2> QED BY <2>3, <2>4, <2>5, <2>6
<1>3. clean[1] /\ 1 \in D
  <2>1. 1 \in D
    BY <1>0
  <2>2. CleanToken(t, 1)
    BY DEF CleanToken
  <2>3. clean[1] = CleanToken(t, 1)
    BY <2>1
  <2> QED BY <2>1, <2>2, <2>3
<1> HIDE DEF kind, out, go, clean, val, R
<1>4. ASSUME NEW f PROVE IsScan(Len(t), kind, out, go, f) <=> IsTokenScan(t, f)
  BY <1>2, Zenon DEF IsScan, IsTokenScan, D
<1>5. \E f : IsTokenScan(t, f)
  BY <1>0, <1>1, <1>4, ScanExists
<1>6. PICK it : it = CHOOSE f : IsTokenScan(t, f)
  OBVIOUS
<1>7. IsTokenScan(t, it)
  BY <1>5, <1>6
<1>8. ScanTokens(t) = it[1]
  BY <1>6, Zenon DEF ScanTokens, IsTokenScan
<1>9. Listed(R, val, 1, it[1])
  <2>1. IsScan(Len(t), kind, out, go, it)
    BY <1>4, <1>7
  <2>2. \A a \in 1 .. Len(t) + 1 : clean[a] => Listed(R, val, a, it[a])
    BY <1>0, <1>1, <2>1, ScanLists
  <2> QED BY <1>3, <2>2
<1>10. Behind(R, 1) = R
  <2>1. Behind(Runs(t, Digits), 1) = Runs(t, Digits)
    BY <1>0, NoRunLeft
  <2>2. \A z \in SignPlaces(t) : z[1] >= 1
    <3> TAKE z \in SignPlaces(t)
    <3>1. PICK j \in 1 .. Len(t) : z = <<j, j>>
      BY <1>0 DEF SignPlaces
    <3> QED BY <3>1
  <2>3. Behind(SignPlaces(t), 1) = SignPlaces(t)
    BY <2>2 DEF Behind
  <2> QED BY <2>1, <2>3, BehindBoth DEF R, TokenPlaces
<1>11. PICK q \in InTextOrder(R) : /\ it[1] = [j \in DOMAIN q |-> val[q[j]]]
                                   /\ \A j \in DOMAIN q : q[j] \in R
  <2>1. ListedAll(R, val, it[1])
    BY <1>9, <1>10, AllListed
  <2> QED BY <2>1, Zenon DEF ListedAll
<1>12. \A j \in DOMAIN q : val[q[j]] = TokenAt(t, q[j])
  BY <1>11 DEF val
<1>13. it[1] = [j \in DOMAIN q |-> TokenAt(t, q[j])]
  BY <1>11, <1>12
<1>14. q \in InTextOrder(TokenPlaces(t))
  BY DEF R
<1> QED BY <1>8, <1>13, <1>14, Zenon DEF AreTheTokens, TokenAt, TokenPlaces, SignPlaces

-----------------------------------------------------------------------------
(* The words of a text in reverse order.                                    *)
Char == 1 .. CHAR_MAX - 1

WordInFront(t, b, e, v) ==
  SubSeq(t, b, e) \o (IF v = <<>> THEN <<>> ELSE <<Space>> \o v)

\* r has the l characters of t from b on, and a blank and v behind them unless v
\* is empty.
IsInFront(t, b, l, v, r) ==
  /\ r \in Seq(Char) /\ Len(r) = (IF v = <<>> THEN l ELSE l + 1 + Len(v))
  /\ \A x \in 1 .. l : r[x] = t[b + x - 1]
  /\ v # <<>> => r[l + 1] = Space /\ \A x \in 1 .. Len(v) : r[x + (l + 1)] = v[x]

\* What reverseWords puts together for a word.
LEMMA InFront ==
  ASSUME NEW t \in Seq(Char), NEW v \in Seq(Char), NEW b \in 1 .. Len(t), NEW e \in b .. Len(t)
  PROVE  IsInFront(t, b, e - b + 1, v, WordInFront(t, b, e, v))
<1> DEFINE w == SubSeq(t, b, e)
           g == <<Space>>
<1>0. PICK l \in Nat \ {0} : l = e - b + 1
  OBVIOUS
<1>1. w \in Seq(Char) /\ Len(w) = l /\ \A x \in 1 .. l : w[x] = t[b + x - 1]
  <2>1. /\ w \in Seq(Char) /\ Len(w) = (IF b <= e THEN e - b + 1 ELSE 0)
        /\ DOMAIN w = 1 .. Len(w) /\ \A x \in 1 .. Len(w) : w[x] = t[b + x - 1]
    BY WindowIs
  <2> QED BY <1>0, <2>1
<1>2. g \in Seq(Char) /\ Len(g) = 1 /\ g[1] = Space
  BY DEF Space, Char, CHAR_MAX
<1>3. Len(v) \in Nat /\ (v = <<>> => Len(v) = 0) /\ (v # <<>> => Len(v) # 0)
  OBVIOUS
<1> HIDE DEF w, g
<1> DEFINE u == g \o v
           r == w \o u
<1>4. /\ u \in Seq(Char) /\ Len(u) = 1 + Len(v) /\ u[1] = Space
      /\ \A x \in 1 .. Len(v) : u[x + 1] = v[x]
  <2>1. /\ u \in Seq(Char) /\ Len(u) = Len(g) + Len(v) /\ DOMAIN u = 1 .. Len(g) + Len(v)
        /\ \A x \in 1 .. Len(g) + Len(v) : u[x] = IF x <= Len(g) THEN g[x] ELSE v[x - Len(g)]
    <3>1. g \in Seq(Char) /\ v \in Seq(Char)
      BY <1>2
    <3> QED BY ONLY <3>1, Joined
  <2> HIDE DEF u
  <2>2. \A x \in 1 .. 1 + Len(v) : u[x] = IF x <= 1 THEN g[x] ELSE v[x - 1]
    BY <1>2, <2>1
  <2>3. u[1] = Space
    BY <1>2, <1>3, <2>2
  <2>4. ASSUME NEW x \in 1 .. Len(v) PROVE u[x + 1] = v[x]
    <3>1. x + 1 \in 1 .. 1 + Len(v) /\ ~(x + 1 <= 1) /\ (x + 1) - 1 = x
      BY <1>3
    <3> QED BY <2>2, <3>1
  <2> QED BY <1>2, <2>1, <2>3, <2>4
<1> HIDE DEF u
<1>5. /\ r \in Seq(Char) /\ Len(r) = l + (1 + Len(v)) /\ (\A x \in 1 .. l : r[x] = w[x])
      /\ \A x \in 1 .. 1 + Len(v) : r[l + x] = u[x]
  <2>1. /\ r \in Seq(Char) /\ Len(r) = Len(w) + Len(u) /\ DOMAIN r = 1 .. Len(w) + Len(u)
        /\ \A x \in 1 .. Len(w) + Len(u) : r[x] = IF x <= Len(w) THEN w[x] ELSE u[x - Len(w)]
    <3>1. w \in Seq(Char) /\ u \in Seq(Char)
      BY <1>1, <1>4
    <3> QED BY ONLY <3>1, Joined
  <2> HIDE DEF r
  <2>2. \A x \in 1 .. l + (1 + Len(v)) : r[x] = IF x <= l THEN w[x] ELSE u[x - l]
    BY <1>1, <1>4, <2>1
  <2>3. ASSUME NEW x \in 1 .. l PROVE r[x] = w[x]
    <3>1. x \in 1 .. l + (1 + Len(v)) /\ x <= l
      BY <1>3
    <3> QED BY <2>2, <3>1
  <2>4. ASSUME NEW x \in 1 .. 1 + Len(v) PROVE r[l + x] = u[x]
    <3>1. l + x \in 1 .. l + (1 + Len(v)) /\ ~(l + x <= l) /\ (l + x) - l = x
      BY <1>3
    <3> QED BY <2>2, <3>1
  <2> QED BY <1>1, <1>4, <2>1, <2>3, <2>4
<1>6. CASE v = <<>>
  <2>1. WordInFront(t, b, e, v) = w
    BY <1>1, <1>6 DEF WordInFront, w
  <2> QED BY <1>0, <1>1, <1>6, <2>1 DEF IsInFront
<1>7. CASE v # <<>>
  <2>1. WordInFront(t, b, e, v) = r
    BY <1>7 DEF WordInFront, w, u, g
  <2> HIDE DEF r
  <2>2. r[l + 1] = Space
    BY <1>3, <1>4, <1>5
  <2>3. ASSUME NEW x \in 1 .. Len(v) PROVE r[x + (l + 1)] = v[x]
    <3>1. x + 1 \in 1 .. 1 + Len(v) /\ x + (l + 1) = l + (x + 1)
      BY <1>3
    <3> QED BY <1>4, <1>5, <3>1
  <2>4. \A x \in 1 .. l : r[x] = t[b + x - 1]
    BY <1>1, <1>5
  <2>5. Len(r) = l + 1 + Len(v)
    BY <1>3, <1>5
  <2>6. IsInFront(t, b, l, v, r)
    BY <1>5, <1>7, <2>2, <2>3, <2>4, <2>5 DEF IsInFront
  <2> QED BY <1>0, <2>1, <2>6
<1> QED BY <1>6, <1>7

\* No blank in front of the first word or behind the last one, nor two together.
Neat(r) ==
  /\ r \in Seq(Char)
  /\ Len(r) # 0 => r[1] # Space /\ r[Len(r)] # Space
  /\ \A x \in 1 .. Len(r) - 1 : r[x] = Space => r[x + 1] # Space

\* A word of l letters of t from b on.
WordAt(t, b, l) == \A x \in 1 .. l : t[b + x - 1] \in Char \ {Space}

\* A word in front leaves the blanks as they have to be.
LEMMA NeatInFront ==
  ASSUME NEW t, NEW b, NEW l \in Nat \ {0}, NEW v, NEW r, IsInFront(t, b, l, v, r), Neat(v),
         WordAt(t, b, l)
  PROVE  Neat(r)
<1>1. /\ v \in Seq(Char) /\ Len(v) \in Nat /\ (v = <<>> <=> Len(v) = 0)
      /\ r \in Seq(Char) /\ Len(r) = (IF v = <<>> THEN l ELSE l + 1 + Len(v))
  BY DEF Neat, IsInFront
<1>2. \A x \in 1 .. l : r[x] # Space
  BY DEF IsInFront, WordAt
<1>3. v # <<>> => r[l + 1] = Space /\ \A x \in 1 .. Len(v) : r[x + (l + 1)] = v[x]
  BY DEF IsInFront
<1>4. Len(v) # 0 => v[1] # Space /\ v[Len(v)] # Space
  BY DEF Neat
<1>5. \A x \in 1 .. Len(v) - 1 : v[x] = Space => v[x + 1] # Space
  BY DEF Neat
<1>6. r[1] # Space
  <2>1. 1 \in 1 .. l
    OBVIOUS
  <2> QED BY <1>2, <2>1
<1>7. r[Len(r)] # Space
  <2>1. CASE v = <<>>
    <3>1. l \in 1 .. l /\ Len(r) = l
      BY <1>1, <2>1
    <3> QED BY <1>2, <3>1
  <2>2. CASE v # <<>>
    <3>1. Len(v) \in 1 .. Len(v) /\ Len(r) = Len(v) + (l + 1)
      BY <1>1, <2>2
    <3>2. r[Len(v) + (l + 1)] = v[Len(v)]
      BY <1>3, <2>2, <3>1
    <3> QED BY <1>1, <1>4, <2>2, <3>1, <3>2
  <2> QED BY <2>1, <2>2
<1>8. ASSUME NEW x \in 1 .. Len(r) - 1, r[x] = Space PROVE r[x + 1] # Space
  <2>1. ~(x \in 1 .. l) /\ x \in Nat /\ x >= 1 /\ x < Len(r)
    BY <1>1, <1>2, <1>8
  <2>2. v # <<>> /\ x >= l + 1 /\ x < l + 1 + Len(v)
    BY <1>1, <2>1
  <2>3. CASE x = l + 1
    <3>1. 1 \in 1 .. Len(v) /\ x + 1 = 1 + (l + 1)
      BY <1>1, <2>2, <2>3
    <3>2. r[1 + (l + 1)] = v[1]
      BY <1>3, <2>2, <3>1
    <3> QED BY <1>1, <1>4, <2>2, <3>1, <3>2
  <2>4. CASE x # l + 1
    <3>1. PICK y \in Nat : y = x - (l + 1)
      BY <2>1, <2>2
    <3>2. y \in 1 .. Len(v) - 1 /\ y + 1 \in 1 .. Len(v) /\ y \in 1 .. Len(v)
          /\ x = y + (l + 1) /\ x + 1 = (y + 1) + (l + 1)
      BY <1>1, <2>1, <2>2, <2>4, <3>1
    <3>3. r[y + (l + 1)] = v[y] /\ r[(y + 1) + (l + 1)] = v[y + 1]
      BY <1>3, <2>2, <3>2
    <3>4. v[y] = Space
      BY <1>8, <3>2, <3>3
    <3> QED BY <1>5, <3>2, <3>3, <3>4
  <2> QED BY <2>3, <2>4
<1> QED BY <1>1, <1>6, <1>7, <1>8 DEF Neat

\* A run at a later place.
Moved(y, d) == <<y[1] + d, y[2] + d>>

\* The words of r are the one in front, and those of v at later places.
LEMMA WordsInFront ==
  ASSUME NEW t, NEW b, NEW l \in Nat \ {0}, NEW v \in Seq(Char), NEW r, IsInFront(t, b, l, v, r),
         WordAt(t, b, l)
  PROVE  /\ <<1, l>> \in Runs(r, Letters)
         /\ \A y \in Runs(v, Letters) : Moved(y, l + 1) \in Runs(r, Letters)
         /\ \A z \in Runs(r, Letters) :
              z = <<1, l>> \/ \E y \in Runs(v, Letters) : z = Moved(y, l + 1)
<1> DEFINE d == l + 1
<1>1. PICK m \in Nat : /\ m = Len(v) /\ (v = <<>> <=> m = 0) /\ DOMAIN v = 1 .. m
                       /\ \A x \in 1 .. m : v[x] \in Char
  OBVIOUS
<1>2. PICK h \in Nat : h = Len(r) /\ h = (IF v = <<>> THEN l ELSE d + m)
  BY <1>1 DEF IsInFront
<1>3. \A x \in 1 .. l : r[x] \in Letters
  <2>1. Char \ {Space} \subseteq Letters
    BY DEF Letters, Char, CHAR_MAX
  <2>2. \A x \in 1 .. l : r[x] \in Char \ {Space}
    BY DEF IsInFront, WordAt
  <2> QED BY <2>1, <2>2
<1>4. v # <<>> => r[d] = Space /\ \A x \in 1 .. m : r[x + d] = v[x]
  BY <1>1 DEF IsInFront
<1>5. Space \notin Letters
  BY DEF Letters
<1>6. d \in Nat /\ d >= 2 /\ l = d - 1 /\ l <= h
  BY <1>1, <1>2
<1> HIDE DEF d
<1>7. RunRead(r, Letters, 1, 1, l)
  <2>1. 1 \in 1 .. h /\ l \in 1 .. h
    BY <1>6
  <2>2. l < h => r[l + 1] \notin Letters
    <3>1. l < h => v # <<>> /\ l + 1 = d
      BY <1>2, <1>6
    <3> QED BY <1>4, <1>5, <3>1
  <2>3. \A x \in 1 .. 1 - 1 : r[x] \notin Letters
    OBVIOUS
  <2> QED BY <1>2, <1>3, <2>1, <2>2, <2>3 DEF RunRead
<1>8. /\ <<1, l>> \in Runs(r, Letters)
      /\ Behind(Runs(r, Letters), 1) = {<<1, l>>} \cup Behind(Runs(r, Letters), l + 1)
  <2>1. Len(r) \in Nat /\ 1 \in Nat \ {0}
    BY <1>2
  <2> QED BY <1>7, <2>1, FirstRun
<1>9. Behind(Runs(r, Letters), 1) = Runs(r, Letters)
  BY <1>2, NoRunLeft
<1>10. ASSUME NEW y \in Runs(v, Letters) PROVE Moved(y, d) \in Runs(r, Letters)
  <2>1. PICK c \in 1 .. m, e \in 1 .. m : y = <<c, e>> /\ y[1] = c /\ y[2] = e
    BY <1>1 DEF Runs
  <2>2. /\ c <= e /\ (\A x \in c .. e : v[x] \in Letters) /\ (c = 1 \/ v[c - 1] \notin Letters)
        /\ (e = m \/ v[e + 1] \notin Letters)
    BY <1>1, <2>1 DEF Runs
  <2>3. v # <<>> /\ h = d + m
    BY <1>1, <1>2, <2>1
  <2>4. <<c + d, e + d>> \in (1 .. h) \X (1 .. h) /\ c + d <= e + d
    BY <1>6, <2>1, <2>2, <2>3
  <2>5. ASSUME NEW x \in c + d .. e + d PROVE r[x] \in Letters
    <3>1. PICK a \in Nat : a = x - d
      BY <1>6, <2>1
    <3>2. a \in 1 .. m /\ a \in c .. e /\ x = a + d
      BY <1>6, <2>1, <3>1
    <3> QED BY <1>4, <2>2, <2>3, <3>2
  <2>6. c + d = 1 \/ r[(c + d) - 1] \notin Letters
    <3>1. CASE c = 1
      <4>1. (c + d) - 1 = d
        BY <1>6, <3>1
      <4> QED BY <1>4, <1>5, <2>3, <4>1
    <3>2. CASE c # 1
      <4>1. c - 1 \in 1 .. m /\ (c + d) - 1 = (c - 1) + d
        BY <1>6, <2>1, <3>2
      <4> QED BY <1>4, <2>2, <2>3, <3>2, <4>1
    <3> QED BY <3>1, <3>2
  <2>7. e + d = h \/ r[(e + d) + 1] \notin Letters
    <3>1. CASE e = m
      BY <1>6, <2>3, <3>1
    <3>2. CASE e # m
      <4>1. e + 1 \in 1 .. m /\ (e + d) + 1 = (e + 1) + d
        BY <1>6, <2>1, <3>2
      <4> QED BY <1>4, <2>2, <2>3, <3>2, <4>1
    <3> QED BY <3>1, <3>2
  <2>8. <<c + d, e + d>> \in Runs(r, Letters)
    BY <1>2, <2>4, <2>5, <2>6, <2>7 DEF Runs
  <2> QED BY <2>1, <2>8 DEF Moved
<1>11. ASSUME NEW z \in Runs(r, Letters), z # <<1, l>>
       PROVE  \E y \in Runs(v, Letters) : z = Moved(y, d)
  <2>1. PICK c \in 1 .. h, e \in 1 .. h : z = <<c, e>> /\ z[1] = c /\ z[2] = e
    BY <1>2 DEF Runs
  <2>2. /\ c <= e /\ (\A x \in c .. e : r[x] \in Letters) /\ (c = 1 \/ r[c - 1] \notin Letters)
        /\ (e = h \/ r[e + 1] \notin Letters)
    BY <1>2, <2>1 DEF Runs
  <2>3. c >= d
    <3>1. z \in Behind(Runs(r, Letters), l + 1)
      BY <1>8, <1>9, <1>11
    <3> QED BY <1>6, <2>1, <3>1 DEF Behind
  <2>4. v # <<>> /\ h = d + m
    BY <1>2, <1>6, <2>1, <2>3
  <2>5. c # d
    <3>1. c \in c .. e
      BY <2>1, <2>2
    <3> QED BY <1>4, <1>5, <2>2, <2>4, <3>1
  <2>6. PICK f \in Nat, g \in Nat : f = c - d /\ g = e - d
    BY <1>6, <2>1, <2>2, <2>3
  <2>7. f \in 1 .. m /\ g \in 1 .. m /\ f <= g /\ c = f + d /\ e = g + d
    BY <1>6, <2>1, <2>2, <2>3, <2>4, <2>5, <2>6
  <2>8. ASSUME NEW x \in f .. g PROVE v[x] \in Letters
    <3>1. x \in 1 .. m /\ x + d \in c .. e
      BY <1>6, <2>7
    <3> QED BY <1>4, <2>2, <2>4, <3>1
  <2>9. f = 1 \/ v[f - 1] \notin Letters
    <3> SUFFICES ASSUME f # 1 PROVE v[f - 1] \notin Letters
      OBVIOUS
    <3>1. f - 1 \in 1 .. m /\ (f - 1) + d = c - 1 /\ c # 1
      BY <1>6, <2>7
    <3> QED BY <1>4, <2>2, <2>4, <3>1
  <2>10. g = m \/ v[g + 1] \notin Letters
    <3> SUFFICES ASSUME g # m PROVE v[g + 1] \notin Letters
      OBVIOUS
    <3>1. g + 1 \in 1 .. m /\ (g + 1) + d = e + 1 /\ e # h
      BY <1>6, <2>4, <2>7
    <3> QED BY <1>4, <2>2, <2>4, <3>1
  <2>11. <<f, g>> \in Runs(v, Letters)
    BY <1>1, <2>7, <2>8, <2>9, <2>10 DEF Runs
  <2>12. z = Moved(<<f, g>>, d)
    BY <2>1, <2>7 DEF Moved
  <2> QED BY <2>11, <2>12, Zenon
<1> QED BY <1>8, <1>10, <1>11 DEF d

\* The same characters from x[1] to x[2] and from y[1] to y[2].
SameWord(t, x, r, y) ==
  /\ x[2] - x[1] = y[2] - y[1]
  /\ \A e \in 0 .. x[2] - x[1] : t[x[1] + e] = r[y[1] + e]

\* The words u of t are those of q of r, the last one first.
Mirror(t, u, r, q) ==
  Len(u) = Len(q) /\ \A j \in 1 .. Len(q) : SameWord(t, u[j], r, q[Len(q) + 1 - j])

\* A function on the first m numbers is a sequence.
LEMMA FirstTo ==
  ASSUME NEW X, NEW m \in Nat, NEW f \in [1 .. m -> X]
  PROVE  f \in Seq(X) /\ Len(f) = m /\ DOMAIN f = 1 .. m
OBVIOUS

\* The elements of a list.
LEMMA ListIs ==
  ASSUME NEW S, NEW u, Lists(S, u)
  PROVE  /\ Len(u) \in Nat /\ DOMAIN u = 1 .. Len(u)
         /\ \A x \in 1 .. Len(u) : u[x] \in S /\ u[x] \in Nat \X Nat
<1>1. u \in Seq(Nat \X Nat) /\ \A x \in DOMAIN u : u[x] \in S
  BY DEF Lists
<1> DEFINE X == Nat \X Nat
<1>2. u \in Seq(X)
  BY <1>1
<1> HIDE DEF X
<1>3. Len(u) \in Nat /\ DOMAIN u = 1 .. Len(u) /\ \A x \in DOMAIN u : u[x] \in X
  BY <1>2, ElementsAre
<1> QED BY <1>1, <1>3 DEF X

\* One element more at the end.
LEMMA ListedLast ==
  ASSUME NEW S, NEW u, NEW z \in Nat \X Nat, Lists(S, u), \A y \in S : y[1] < z[1], NEW w,
         w = [x \in 1 .. Len(u) + 1 |-> IF x <= Len(u) THEN u[x] ELSE z]
  PROVE  Lists(S \cup {z}, w) /\ Len(w) = Len(u) + 1
<1>1. PICK c \in Nat : /\ c = Len(u) /\ DOMAIN u = 1 .. c
                       /\ \A x \in 1 .. c : u[x] \in S /\ u[x] \in Nat \X Nat
  BY ListIs
<1>2. DOMAIN w = 1 .. c + 1 /\ (\A x \in 1 .. c : w[x] = u[x]) /\ w[c + 1] = z
      /\ \A x \in 1 .. c + 1 : x \in 1 .. c \/ x = c + 1
  BY <1>1
<1>3. w \in Seq(Nat \X Nat) /\ Len(w) = c + 1
  <2>1. w \in [1 .. c + 1 -> Nat \X Nat]
    BY <1>1
  <2> QED BY <1>1, <2>1, FirstTo
<1>4. \A y \in S \cup {z} : \E x \in DOMAIN w : w[x] = y
  <2>1. ASSUME NEW y \in S PROVE \E x \in DOMAIN w : w[x] = y
    <3>1. PICK x \in DOMAIN u : u[x] = y
      BY DEF Lists
    <3>2. x \in 1 .. c /\ x \in DOMAIN w
      BY <1>1, <1>2
    <3>3. w[x] = y
      BY <1>2, <3>1, <3>2
    <3> QED BY <3>2, <3>3
  <2>2. c + 1 \in DOMAIN w
    BY <1>1, <1>2
  <2> QED BY <1>2, <2>1, <2>2
<1>5. \A x \in DOMAIN w : w[x] \in S \cup {z}
  BY <1>1, <1>2
<1>6. ASSUME NEW x \in DOMAIN w, NEW y \in DOMAIN w, x < y PROVE w[x][1] < w[y][1]
  <2>1. x \in 1 .. c /\ w[x] = u[x]
    BY <1>1, <1>2, <1>6
  <2>2. CASE y \in 1 .. c
    <3>1. u[x][1] < u[y][1]
      BY <1>1, <1>6, <2>1, <2>2 DEF Lists
    <3> QED BY <1>2, <2>1, <2>2, <3>1
  <2>3. CASE y = c + 1
    <3>1. u[x][1] < z[1]
      BY <1>1, <2>1
    <3> QED BY <1>2, <2>1, <2>3, <3>1
  <2> QED BY <1>2, <2>2, <2>3
<1> QED BY <1>1, <1>3, <1>4, <1>5, <1>6 DEF Lists

\* One run more in front, and all others at later places.
LEMMA ListedFirst ==
  ASSUME NEW S, NEW T, NEW u, NEW l \in Nat \ {0}, Lists(S, u), NEW w,
         <<1, l>> \in T, \A y \in S : Moved(y, l + 1) \in T,
         \A z \in T : z = <<1, l>> \/ \E y \in S : z = Moved(y, l + 1),
         w = [x \in 1 .. Len(u) + 1 |-> IF x = 1 THEN <<1, l>> ELSE Moved(u[x - 1], l + 1)]
  PROVE  Lists(T, w) /\ Len(w) = Len(u) + 1
<1>1. PICK c \in Nat : /\ c = Len(u) /\ DOMAIN u = 1 .. c
                       /\ \A x \in 1 .. c : u[x] \in S /\ u[x] \in Nat \X Nat
  BY ListIs
<1>2. DOMAIN w = 1 .. c + 1 /\ w[1] = <<1, l>>
      /\ \A x \in 1 .. c : x + 1 \in 1 .. c + 1 /\ w[x + 1] = Moved(u[x], l + 1)
  <2>1. DOMAIN w = 1 .. c + 1 /\ w[1] = <<1, l>>
    BY <1>1
  <2>2. ASSUME NEW x \in 1 .. c PROVE x + 1 \in 1 .. c + 1 /\ w[x + 1] = Moved(u[x], l + 1)
    <3>1. x + 1 \in 1 .. c + 1 /\ x + 1 # 1 /\ (x + 1) - 1 = x
      OBVIOUS
    <3> QED BY <1>1, <3>1
  <2> QED BY <2>1, <2>2
<1>3. \A x \in 1 .. c + 1 : x = 1 \/ \E y \in 1 .. c : x = y + 1
  <2> TAKE x \in 1 .. c + 1
  <2>1. x # 1 => x - 1 \in 1 .. c /\ x = (x - 1) + 1
    OBVIOUS
  <2> QED BY <2>1
<1>4. \A x \in 1 .. c : /\ Moved(u[x], l + 1) \in Nat \X Nat /\ u[x][1] \in Nat
                        /\ Moved(u[x], l + 1)[1] = u[x][1] + (l + 1)
  <2> TAKE x \in 1 .. c
  <2>1. PICK a \in Nat, b \in Nat : u[x] = <<a, b>>
    BY <1>1
  <2>2. Moved(u[x], l + 1) = <<a + (l + 1), b + (l + 1)>>
    BY <2>1 DEF Moved
  <2> QED BY <2>1, <2>2
<1>5. \A x \in DOMAIN w : w[x] \in Nat \X Nat /\ w[x] \in T
  <2> TAKE x \in DOMAIN w
  <2>1. CASE x = 1
    <3>1. <<1, l>> \in Nat \X Nat
      OBVIOUS
    <3> QED BY <1>2, <2>1, <3>1
  <2>2. CASE x # 1
    <3>1. PICK y \in 1 .. c : x = y + 1
      BY <1>2, <1>3, <2>2
    <3> QED BY <1>1, <1>2, <1>4, <3>1
  <2> QED BY <2>1, <2>2
<1>6. w \in Seq(Nat \X Nat) /\ Len(w) = c + 1
  <2>1. w = [x \in 1 .. c + 1 |-> w[x]]
    BY <1>1
  <2>2. w \in [1 .. c + 1 -> Nat \X Nat]
    BY <1>2, <1>5, <2>1
  <2> DEFINE X == Nat \X Nat
             j == c + 1
  <2>3. w \in [1 .. j -> X] /\ j \in Nat
    BY <2>2
  <2> HIDE DEF X, j
  <2>4. w \in Seq(X) /\ Len(w) = j
    BY <2>3, FirstTo
  <2> QED BY <2>4 DEF X, j
<1>7. \A z \in T : \E x \in DOMAIN w : w[x] = z
  <2> TAKE z \in T
  <2>1. CASE z = <<1, l>>
    <3>1. 1 \in DOMAIN w
      BY <1>1, <1>2
    <3> QED BY <1>2, <2>1, <3>1
  <2>2. CASE \E y \in S : z = Moved(y, l + 1)
    <3>1. PICK y \in S : z = Moved(y, l + 1)
      BY <2>2
    <3>2. PICK x \in 1 .. c : u[x] = y
      BY <1>1 DEF Lists
    <3> QED BY <1>2, <3>1, <3>2
  <2> QED BY <2>1, <2>2
<1>8. ASSUME NEW x \in DOMAIN w, NEW y \in DOMAIN w, x < y PROVE w[x][1] < w[y][1]
  <2>1. PICK g \in 1 .. c : y = g + 1
    BY <1>1, <1>2, <1>3, <1>8
  <2>2. w[y][1] = u[g][1] + (l + 1) /\ u[g][1] \in Nat
    BY <1>2, <1>4, <2>1
  <2>3. CASE x = 1
    <3>1. w[x][1] = 1
      BY <1>2, <2>3
    <3> QED BY <2>2, <3>1
  <2>4. CASE x # 1
    <3>1. PICK f \in 1 .. c : x = f + 1
      BY <1>2, <1>3, <2>4
    <3>2. w[x][1] = u[f][1] + (l + 1) /\ u[f][1] \in Nat
      BY <1>2, <1>4, <3>1
    <3>3. u[f][1] < u[g][1]
      <4>1. f < g
        BY <1>8, <2>1, <3>1
      <4> QED BY <1>1, <4>1 DEF Lists
    <3>4. \A m, d \in Nat : m < d => m + (l + 1) < d + (l + 1)
      OBVIOUS
    <3> QED BY ONLY <2>2, <3>2, <3>3, <3>4
  <2> QED BY <2>3, <2>4
<1> QED BY <1>1, <1>5, <1>6, <1>7, <1>8 DEF Lists

\* One more word, at the end of t's and in front of r's.
LEMMA MirrorMore ==
  ASSUME NEW t, NEW b \in Nat \ {0}, NEW l \in Nat \ {0}, NEW v \in Seq(Char), NEW r,
         IsInFront(t, b, l, v, r), WordAt(t, b, l), NEW S, NEW u, NEW q,
         Lists(S, u), Lists(Runs(v, Letters), q), Mirror(t, u, v, q),
         \A y \in S : y[1] < b
  PROVE  \E w, h : /\ Lists(S \cup {<<b, b + l - 1>>}, w) /\ Lists(Runs(r, Letters), h)
                   /\ Mirror(t, w, r, h)
<1> DEFINE z == <<b, b + l - 1>>
           w == [x \in 1 .. Len(u) + 1 |-> IF x <= Len(u) THEN u[x] ELSE z]
           h == [x \in 1 .. Len(q) + 1 |-> IF x = 1 THEN <<1, l>> ELSE Moved(q[x - 1], l + 1)]
<1>1. Lists(S \cup {z}, w) /\ Len(w) = Len(u) + 1
  <2>1. z \in Nat \X Nat /\ \A y \in S : y[1] < z[1]
    OBVIOUS
  <2> HIDE DEF z
  <2> QED BY <2>1, ListedLast
<1>2. Lists(Runs(r, Letters), h) /\ Len(h) = Len(q) + 1
  <2>1. /\ <<1, l>> \in Runs(r, Letters)
        /\ \A y \in Runs(v, Letters) : Moved(y, l + 1) \in Runs(r, Letters)
        /\ \A x \in Runs(r, Letters) :
             x = <<1, l>> \/ \E y \in Runs(v, Letters) : x = Moved(y, l + 1)
    BY WordsInFront
  <2>2. PICK T, R : T = Runs(r, Letters) /\ R = Runs(v, Letters)
    OBVIOUS
  <2>3. /\ l \in Nat \ {0} /\ Lists(R, q) /\ <<1, l>> \in T
        /\ \A y \in R : Moved(y, l + 1) \in T
        /\ \A x \in T : x = <<1, l>> \/ \E y \in R : x = Moved(y, l + 1)
    BY <2>1, <2>2
  <2>4. PICK hh : hh = h
    OBVIOUS
  <2>5. hh = [x \in 1 .. Len(q) + 1 |-> IF x = 1 THEN <<1, l>> ELSE Moved(q[x - 1], l + 1)]
    BY ONLY <2>4
  <2>6. Lists(T, hh) /\ Len(hh) = Len(q) + 1
    BY ONLY <2>3, <2>5, ListedFirst
  <2> QED BY <2>2, <2>4, <2>6
<1>3. PICK c \in Nat : /\ c = Len(q) /\ c = Len(u)
                       /\ \A j \in 1 .. c : SameWord(t, u[j], v, q[c + 1 - j])
  <2>1. Len(q) \in Nat
    BY ElementsAre DEF Lists
  <2> QED BY <2>1 DEF Mirror
<1>4. /\ \A j \in 1 .. c : w[j] = u[j] /\ h[c + 2 - j] = Moved(q[c + 1 - j], l + 1)
      /\ w[c + 1] = z /\ h[1] = <<1, l>>
  <2>1. w[c + 1] = z /\ h[1] = <<1, l>>
    BY <1>3
  <2>2. ASSUME NEW j \in 1 .. c PROVE w[j] = u[j] /\ h[c + 2 - j] = Moved(q[c + 1 - j], l + 1)
    <3>1. /\ j \in 1 .. c + 1 /\ j <= c /\ c + 2 - j \in 1 .. c + 1 /\ c + 2 - j # 1
          /\ (c + 2 - j) - 1 = c + 1 - j
      OBVIOUS
    <3> QED BY <1>3, <3>1
  <2> QED BY <2>1, <2>2
<1> HIDE DEF w, h
<1>5. ASSUME NEW j \in 1 .. c PROVE SameWord(t, w[j], r, h[c + 2 - j])
  <2>1. PICK y : y = q[c + 1 - j] /\ y \in Runs(v, Letters)
    <3>1. c + 1 - j \in 1 .. c
      OBVIOUS
    <3> QED BY <1>3, <3>1, ElementsAre DEF Lists
  <2>2. PICK m \in Nat : m = Len(v)
    BY ElementsAre
  <2>3. PICK f \in 1 .. m, g \in 1 .. m : y = <<f, g>> /\ y[1] = f /\ y[2] = g
    BY <2>1, <2>2 DEF Runs
  <2>4. SameWord(t, u[j], v, y)
    BY <1>3, <2>1
  <2>5. PICK x : x = u[j]
    OBVIOUS
  <2>6. x[2] - x[1] = g - f /\ \A e \in 0 .. g - f : t[x[1] + e] = v[f + e]
    BY <2>3, <2>4, <2>5 DEF SameWord
  <2>7. PICK a : a = Moved(y, l + 1)
    OBVIOUS
  <2>8. a[1] = f + (l + 1) /\ a[2] = g + (l + 1) /\ a[2] - a[1] = g - f
    BY <2>3, <2>7 DEF Moved
  <2>9. ASSUME NEW e \in 0 .. g - f PROVE t[x[1] + e] = r[a[1] + e]
    <3>1. f + e \in 1 .. m /\ a[1] + e = (f + e) + (l + 1) /\ v # <<>>
      BY <2>2, <2>3, <2>8
    <3>2. r[(f + e) + (l + 1)] = v[f + e]
      BY <2>2, <3>1 DEF IsInFront
    <3> QED BY <2>6, <3>1, <3>2
  <2>10. SameWord(t, x, r, a)
    BY <2>6, <2>8, <2>9 DEF SameWord
  <2> QED BY <1>4, <2>1, <2>5, <2>7, <2>10
<1>6. SameWord(t, z, r, <<1, l>>)
  <2>1. z[1] = b /\ z[2] = b + l - 1 /\ z[2] - z[1] = l - 1
    OBVIOUS
  <2> HIDE DEF z
  <2>2. PICK y \in Nat \X Nat : y = <<1, l>> /\ y[1] = 1 /\ y[2] = l
    <3>1. <<1, l>> \in Nat \X Nat /\ <<1, l>>[1] = 1 /\ <<1, l>>[2] = l
      OBVIOUS
    <3> QED BY <3>1, Zenon
  <2>3. ASSUME NEW e \in 0 .. l - 1 PROVE t[b + e] = r[1 + e]
    <3>1. 1 + e \in 1 .. l /\ b + (1 + e) - 1 = b + e
      OBVIOUS
    <3>2. r[1 + e] = t[b + (1 + e) - 1]
      BY <3>1 DEF IsInFront
    <3> QED BY <3>1, <3>2
  <2>4. SameWord(t, z, r, y)
    BY <2>1, <2>2, <2>3 DEF SameWord
  <2> QED BY <2>2, <2>4
<1>7. Mirror(t, w, r, h)
  <2>1. ASSUME NEW j \in 1 .. c + 1 PROVE SameWord(t, w[j], r, h[(c + 1) + 1 - j])
    <3>1. (c + 1) + 1 - j = c + 2 - j
      OBVIOUS
    <3>2. CASE j = c + 1
      <4>1. (c + 1) + 1 - j = 1
        BY <3>2
      <4> QED BY <1>4, <1>6, <3>2, <4>1
    <3>3. CASE j # c + 1
      <4>1. j \in 1 .. c
        BY <3>3
      <4> QED BY <1>5, <3>1, <4>1
    <3> QED BY <3>2, <3>3
  <2>2. Len(w) = c + 1 /\ Len(h) = c + 1
    BY <1>1, <1>2, <1>3
  <2> QED BY <2>1, <2>2 DEF Mirror
<1> QED BY <1>1, <1>2, <1>7

\* The last character but a blank up to x, the last blank before it, and where
\* the code goes on from there.
WordEnd(t, x) == LastOf({j \in 1 .. x : t[j] # Space})
BlankBefore(t, x) == LastOf({j \in 1 .. WordEnd(t, x) - 1 : t[j] = Space})
GoesOn(t, x) == IF BlankBefore(t, x) = 0 THEN 0 ELSE BlankBefore(t, x) - 1

IsLast(S, e) ==
  /\ e \in Nat /\ (\A x \in S : x <= e)
  /\ e = 0 <=> S = {}
  /\ e # 0 => e \in S

\* LastOf's largest element, or 0.
LEMMA LastOfIs ==
  ASSUME NEW m \in Int, NEW S \in SUBSET (1 .. m)
  PROVE  IsLast(S, LastOf(S))
<1>0. PICK e : e = LastOf(S)
  OBVIOUS
<1>1. CASE S = {}
  <2>1. e = 0
    BY <1>0, <1>1 DEF LastOf
  <2> QED BY <1>0, <1>1, <2>1 DEF IsLast
<1>2. CASE S # {}
  <2>0. PICK y \in S : TRUE
    BY <1>2
  <2>1. S \subseteq Nat /\ m \in Nat /\ \A x \in S : x <= m
    <3>1. y \in 1 .. m
      BY <2>0
    <3>2. \A x \in S : x \in 1 .. m
      OBVIOUS
    <3> QED BY <3>1, <3>2
  <2>2. Max(S) \in S /\ \A x \in S : x <= Max(S)
    BY <1>2, <2>1, MaxIs
  <2>3. e = Max(S)
    BY <1>0, <1>2 DEF LastOf
  <2>4. e \in 1 .. m
    BY <2>2, <2>3
  <2> QED BY <1>0, <1>2, <2>2, <2>3, <2>4 DEF IsLast
<1> QED BY <1>1, <1>2

\* The words that end at x or before.
Before(R, x) == {z \in R : z[2] <= x}

\* x is not inside a word.
CleanWord(t, x) == x = 0 \/ x = Len(t) \/ t[x + 1] = Space

\* Every character but a blank is a letter.
LEMMA CharIs ==
  ASSUME NEW c \in Char
  PROVE  c \in Letters <=> c # Space
BY DEF Char, Letters, CHAR_MAX

\* The word that is copied next, and the words that are left.
LEMMA WordBefore ==
  ASSUME NEW t \in Seq(Char), NEW x \in 0 .. Len(t), CleanWord(t, x)
  PROVE  LET R == Runs(t, Letters)
             e == WordEnd(t, x)
             b == BlankBefore(t, x)
             y == GoesOn(t, x)
         IN  /\ e = 0 => Before(R, x) = {}
             /\ e # 0 => /\ b \in Nat /\ b < e /\ e \in 1 .. x
                         /\ y \in 0 .. x - 1 /\ CleanWord(t, y)
                         /\ \A j \in b + 1 .. e : t[j] \in Char \ {Space}
                         /\ Before(R, x) = Before(R, y) \cup {<<b + 1, e>>}
                         /\ \A z \in Before(R, y) : z[1] < b + 1
<1> DEFINE R == Runs(t, Letters)
<1>0. PICK m \in Nat : /\ m = Len(t) /\ x \in Nat /\ x <= m
                       /\ \A j \in 1 .. m : t[j] \in Char
  BY ElementsAre
<1>l. \A j \in 1 .. m : t[j] \in Letters <=> t[j] # Space
  BY <1>0, CharIs
<1> DEFINE E == {j \in 1 .. x : t[j] # Space}
<1>1. PICK e : e = WordEnd(t, x)
  OBVIOUS
<1>2. e \in Nat /\ (\A j \in E : j <= e) /\ (e = 0 <=> E = {}) /\ (e # 0 => e \in E)
  <2>1. x \in Int /\ E \in SUBSET (1 .. x)
    BY <1>0
  <2>2. e = LastOf(E)
    BY <1>1 DEF WordEnd
  <2> HIDE DEF E
  <2>3. /\ e \in Nat /\ (\A j \in E : j <= e)
        /\ e = 0 <=> E = {}
        /\ e # 0 => e \in E
    BY <2>1, <2>2, LastOfIs DEF IsLast
  <2> QED BY <2>3
<1> DEFINE B == {j \in 1 .. e - 1 : t[j] = Space}
<1>3. PICK b : b = BlankBefore(t, x)
  OBVIOUS
<1>4. b \in Nat /\ (\A j \in B : j <= b) /\ (b = 0 <=> B = {}) /\ (b # 0 => b \in B)
  <2>1. e - 1 \in Int /\ B \in SUBSET (1 .. e - 1)
    BY <1>2
  <2>2. b = LastOf(B)
    BY <1>1, <1>3 DEF BlankBefore
  <2> HIDE DEF B
  <2> QED BY <2>1, <2>2, LastOfIs DEF IsLast
<1>5. \A z \in R : /\ z[1] \in 1 .. m /\ z[2] \in 1 .. m /\ z = <<z[1], z[2]>> /\ z[1] <= z[2]
                   /\ \A j \in z[1] .. z[2] : t[j] # Space
                   /\ (z[1] = 1 \/ t[z[1] - 1] = Space)
                   /\ (z[2] = m \/ t[z[2] + 1] = Space)
  <2> TAKE z \in R
  <2>1. PICK c \in 1 .. m, d \in 1 .. m : z = <<c, d>> /\ z[1] = c /\ z[2] = d
    BY <1>0 DEF Runs
  <2>2. /\ c <= d /\ (\A j \in c .. d : t[j] \in Letters) /\ (c = 1 \/ t[c - 1] \notin Letters)
        /\ (d = m \/ t[d + 1] \notin Letters)
    BY <1>0, <2>1 DEF Runs
  <2>3. \A j \in c .. d : t[j] # Space
    BY <1>l, <2>1, <2>2
  <2>4. c = 1 \/ t[c - 1] = Space
    <3>1. c # 1 => c - 1 \in 1 .. m
      BY <2>1
    <3> QED BY <1>l, <2>2, <3>1
  <2>5. d = m \/ t[d + 1] = Space
    <3>1. d # m => d + 1 \in 1 .. m
      BY <2>1
    <3> QED BY <1>l, <2>2, <3>1
  <2> QED BY <2>1, <2>2, <2>3, <2>4, <2>5
<1>6. \A z \in R : z[2] <= x => z[2] <= e /\ e # 0
  <2> TAKE z \in R
  <2> HAVE z[2] <= x
  <2>1. PICK d \in Nat : d = z[2]
    BY <1>5
  <2>2. d \in z[1] .. z[2] /\ d \in 1 .. x
    BY <1>0, <1>5, <2>1
  <2>3. d \in E
    BY <1>5, <2>2
  <2> QED BY <1>2, <2>1, <2>2, <2>3
<1>7. e = 0 => Before(R, x) = {}
  BY <1>6 DEF Before
<1>8. ASSUME e # 0
      PROVE  /\ b \in Nat /\ b < e /\ e \in 1 .. x /\ GoesOn(t, x) \in 0 .. x - 1
             /\ CleanWord(t, GoesOn(t, x))
             /\ \A j \in b + 1 .. e : t[j] \in Char \ {Space}
             /\ Before(R, x) = Before(R, GoesOn(t, x)) \cup {<<b + 1, e>>}
             /\ \A z \in Before(R, GoesOn(t, x)) : z[1] < b + 1
  <2>1. e \in 1 .. x /\ t[e] # Space /\ b < e /\ e <= m
    BY <1>0, <1>2, <1>4, <1>8
  <2>2. PICK y \in Nat : y = GoesOn(t, x) /\ y = (IF b = 0 THEN 0 ELSE b - 1)
    BY <1>3, <1>4 DEF GoesOn
  <2>3. y \in 0 .. x - 1 /\ y <= b
    BY <1>0, <1>4, <2>1, <2>2
  <2>4. CleanWord(t, y)
    <3>1. b # 0 => y + 1 = b /\ t[b] = Space
      BY <1>4, <2>2
    <3> QED BY <2>2, <3>1 DEF CleanWord
  <2>5. ASSUME NEW j \in b + 1 .. e PROVE t[j] \in Char /\ t[j] # Space
    <3>1. j \in 1 .. m /\ ~(j <= b)
      BY <1>0, <1>4, <2>1
    <3>2. CASE j = e
      BY <1>0, <2>1, <3>1, <3>2
    <3>3. CASE j # e
      <4>1. j \in 1 .. e - 1 /\ j \notin B
        BY <1>2, <1>4, <3>1, <3>3
      <4> QED BY <1>0, <3>1, <4>1
    <3> QED BY <3>2, <3>3
  <2>6. e = m \/ t[e + 1] = Space
    <3>1. CASE e = x
      <4>1. x # 0
        BY <1>8, <3>1
      <4> QED BY <1>0, <3>1, <4>1 DEF CleanWord
    <3>2. CASE e # x
      <4>1. e + 1 \in 1 .. x /\ ~(e + 1 <= e)
        BY <1>0, <1>2, <2>1, <3>2
      <4>2. e + 1 \notin E
        BY <1>2, <4>1
      <4> QED BY <4>1, <4>2
    <3> QED BY <3>1, <3>2
  <2>7. <<b + 1, e>> \in R
    <3>1. b + 1 \in 1 .. m /\ e \in 1 .. m /\ b + 1 <= e
      BY <1>0, <1>4, <2>1
    <3>2. \A j \in b + 1 .. e : t[j] \in Letters
      <4>1. \A j \in b + 1 .. e : j \in 1 .. m
        BY <3>1
      <4> QED BY <1>l, <2>5, <4>1
    <3>3. b + 1 = 1 \/ t[(b + 1) - 1] \notin Letters
      <4>1. b # 0 => b \in 1 .. m /\ t[b] = Space /\ (b + 1) - 1 = b
        BY <1>0, <1>4, <2>1
      <4> QED BY <1>l, <1>4, <4>1
    <3>4. e = m \/ t[e + 1] \notin Letters
      <4>1. e # m => e + 1 \in 1 .. m
        BY <2>1, <3>1
      <4> QED BY <1>l, <2>6, <4>1
    <3> QED BY <1>0, <3>1, <3>2, <3>3, <3>4 DEF Runs
  <2>8. \A z \in R : z[2] <= y => z[2] <= x /\ z[1] < b + 1
    <3> TAKE z \in R
    <3> HAVE z[2] <= y
    <3>1. PICK c \in Nat, d \in Nat : c = z[1] /\ d = z[2] /\ c <= d
      BY <1>5
    <3> QED BY <1>0, <1>4, <2>3, <3>1
  <2>9. ASSUME NEW z \in R, z[2] <= x, ~(z[2] <= y) PROVE z = <<b + 1, e>>
    <3>1. PICK c \in 1 .. m, d \in 1 .. m : c = z[1] /\ d = z[2] /\ z = <<c, d>>
      BY <1>5
    <3>2. /\ c <= d /\ (\A j \in c .. d : t[j] # Space) /\ (c = 1 \/ t[c - 1] = Space)
          /\ (d = m \/ t[d + 1] = Space) /\ d <= e
      BY <1>5, <1>6, <2>9, <3>1
    <3>3. d = e
      <4> SUFFICES ASSUME d # e PROVE FALSE
        OBVIOUS
      <4>1. d < e /\ d # m /\ d + 1 <= e
        BY <1>2, <2>1, <3>1, <3>2
      <4>2. t[d + 1] = Space
        BY <3>2, <4>1
      <4>3. d + 1 # e
        BY <2>1, <4>2
      <4>4. d + 1 \in 1 .. e - 1
        BY <1>2, <3>1, <4>1, <4>3
      <4>5. d + 1 \in B
        BY <4>2, <4>4
      <4>6. d + 1 <= b
        BY <1>4, <4>5
      <4> QED BY <1>4, <2>2, <2>9, <3>1, <4>6
    <3>4. ~(c <= b)
      <4> SUFFICES ASSUME c <= b PROVE FALSE
        OBVIOUS
      <4>1. b \in c .. d /\ b # 0
        BY <1>4, <2>1, <3>1, <3>3
      <4>2. t[b] = Space
        BY <1>4, <4>1
      <4> QED BY <3>2, <4>1, <4>2
    <3>5. ~(b + 1 < c)
      <4> SUFFICES ASSUME b + 1 < c PROVE FALSE
        OBVIOUS
      <4>1. c # 1 /\ c - 1 \in 1 .. e - 1 /\ ~(c - 1 <= b)
        BY <1>2, <1>4, <3>1, <3>2, <3>3
      <4>2. t[c - 1] = Space
        BY <3>2, <4>1
      <4>3. c - 1 \in B
        BY <4>1, <4>2
      <4> QED BY <1>4, <4>1, <4>3
    <3>6. c = b + 1
      BY <1>4, <3>1, <3>4, <3>5
    <3> QED BY <3>1, <3>3, <3>6
  <2>10. Before(R, x) = Before(R, y) \cup {<<b + 1, e>>}
    <3>1. <<b + 1, e>>[2] <= x
      BY <1>0, <2>1
    <3> HIDE DEF R, E, B
    <3>2. \A z : z \in Before(R, x) => z \in Before(R, y) \cup {<<b + 1, e>>}
      BY <2>9 DEF Before
    <3>3. \A z : z \in Before(R, y) \cup {<<b + 1, e>>} => z \in Before(R, x)
      BY <2>7, <2>8, <3>1 DEF Before
    <3> QED BY <3>2, <3>3
  <2>11. \A z \in Before(R, y) : z[1] < b + 1
    BY <2>8 DEF Before
  <2> QED BY <1>4, <2>1, <2>2, <2>3, <2>4, <2>5, <2>10, <2>11
<1> QED BY <1>1, <1>3, <1>7, <1>8

\* reverseWords goes on before the word.
LEMMA WordPlaces ==
  ASSUME NEW t, NEW x \in Int, WordEnd(t, x) # 0
  PROVE  /\ WordEnd(t, x) \in 1 .. x /\ BlankBefore(t, x) \in Nat
         /\ BlankBefore(t, x) < WordEnd(t, x) /\ GoesOn(t, x) \in 0 .. x - 1
<1> DEFINE E == {j \in 1 .. x : t[j] # Space}
<1>1. PICK e : e = WordEnd(t, x)
  OBVIOUS
<1>2. e \in 1 .. x
  <2>1. E \in SUBSET (1 .. x) /\ e = LastOf(E)
    BY <1>1 DEF WordEnd
  <2>2. IsLast(E, e)
    <3> HIDE DEF E
    <3> QED BY <2>1, LastOfIs
  <2> QED BY <1>1, <2>1, <2>2 DEF IsLast
<1> DEFINE B == {j \in 1 .. e - 1 : t[j] = Space}
<1>3. PICK b : b = BlankBefore(t, x)
  OBVIOUS
<1>4. b \in Nat /\ (b # 0 => b \in 1 .. e - 1)
  <2>1. e - 1 \in Int /\ B \in SUBSET (1 .. e - 1) /\ b = LastOf(B)
    BY <1>1, <1>2, <1>3 DEF BlankBefore
  <2>2. IsLast(B, b)
    <3> HIDE DEF B
    <3> QED BY <2>1, LastOfIs
  <2> QED BY <2>1, <2>2 DEF IsLast
<1>5. GoesOn(t, x) = IF b = 0 THEN 0 ELSE b - 1
  BY <1>3 DEF GoesOn
<1> QED BY <1>1, <1>2, <1>3, <1>4, <1>5

CopyStep(t, x, it) ==
  IF WordEnd(t, x) = 0 THEN <<>>
  ELSE WordInFront(t, BlankBefore(t, x) + 1, WordEnd(t, x), it[GoesOn(t, x)])

IsCopy(t, it) == it = [x \in -1 .. Len(t) |-> CopyStep(t, x, it)]

\* What is copied are characters.
LEMMA CopyIn ==
  ASSUME NEW t \in Seq(Char), NEW x \in -1 .. Len(t), NEW it,
         WordEnd(t, x) # 0 => it[GoesOn(t, x)] \in Seq(Char)
  PROVE  CopyStep(t, x, it) \in Seq(Char)
<1>1. CASE WordEnd(t, x) = 0
  BY <1>1 DEF CopyStep
<1>2. CASE WordEnd(t, x) # 0
  <2>0. PICK m \in Nat : m = Len(t)
    BY ElementsAre
  <2>1. PICK v \in Seq(Char) : v = it[GoesOn(t, x)]
    BY <1>2
  <2>2. PICK b, e : b = BlankBefore(t, x) + 1 /\ e = WordEnd(t, x)
    OBVIOUS
  <2>3. b \in 1 .. Len(t) /\ e \in b .. Len(t)
    <3>1. x \in Int /\ x <= m
      BY <2>0
    <3>2. /\ WordEnd(t, x) \in 1 .. x /\ BlankBefore(t, x) \in Nat
          /\ BlankBefore(t, x) < WordEnd(t, x) /\ GoesOn(t, x) \in 0 .. x - 1
      BY <1>2, <3>1, WordPlaces
    <3> QED BY <2>0, <2>2, <3>1, <3>2
  <2>4. WordInFront(t, b, e, v) \in Seq(Char)
    BY <2>3, InFront DEF IsInFront
  <2> QED BY <1>2, <2>1, <2>2, <2>4 DEF CopyStep
<1> QED BY <1>1, <1>2

\* The function that reverseWords chooses exists.
LEMMA CopyExists ==
  ASSUME NEW t \in Seq(Char)
  PROVE  \E it : IsCopy(t, it)
<1> DEFINE D == -1 .. Len(t)
           B == Seq(Char)
           size == [x \in D |-> x + 1]
           F == [y \in D \X [D -> B] |-> CopyStep(t, y[1], y[2])]
<1>0. PICK m \in Nat : m = Len(t)
  BY ElementsAre
<1>1. \A x \in D : /\ x \in Int /\ x + 1 \in Nat
                   /\ WordEnd(t, x) # 0 => GoesOn(t, x) \in D /\ GoesOn(t, x) + 1 < x + 1
  <2> TAKE x \in D
  <2>1. x \in Int /\ x + 1 \in Nat /\ x <= m
    BY <1>0
  <2>2. ASSUME WordEnd(t, x) # 0 PROVE GoesOn(t, x) \in D /\ GoesOn(t, x) + 1 < x + 1
    <3>1. GoesOn(t, x) \in 0 .. x - 1
      BY <2>1, <2>2, WordPlaces
    <3> QED BY <1>0, <2>1, <3>1
  <2> QED BY <2>1, <2>2
<1>2. size \in [D -> Nat] /\ \A x \in D : size[x] = x + 1
  BY <1>1
<1>3. ASSUME NEW x \in D, NEW g \in [D -> B]
      PROVE  F[<<x, g>>] = CopyStep(t, x, g) /\ F[<<x, g>>] \in B
  <2>1. F[<<x, g>>] = CopyStep(t, x, g)
    OBVIOUS
  <2>2. WordEnd(t, x) # 0 => g[GoesOn(t, x)] \in B
    BY <1>1
  <2>3. CopyStep(t, x, g) \in B
    BY <2>2, CopyIn
  <2> QED BY <2>1, <2>3
<1>4. F \in [D \X [D -> B] -> B]
  <2>1. \A y \in D \X [D -> B] : F[y] \in B
    <3> HIDE DEF B, F, D
    <3> TAKE y \in D \X [D -> B]
    <3>1. PICK x \in D, g \in [D -> B] : y = <<x, g>>
      OBVIOUS
    <3>2. F[<<x, g>>] \in B
      BY <1>3
    <3> QED BY <3>1, <3>2
  <2>2. F = [y \in D \X [D -> B] |-> F[y]]
    OBVIOUS
  <2> HIDE DEF B, F, D
  <2> QED BY <2>1, <2>2
<1>5. B # {}
  <2>1. <<>> \in B
    OBVIOUS
  <2> QED BY <2>1
<1> HIDE DEF B, F, D, size
<1>6. Recursive(D, B, size, F)
  <2>1. ASSUME NEW x \in D, NEW g \in [D -> B], NEW h \in [D -> B],
               \A e \in D : size[e] < size[x] => g[e] = h[e]
        PROVE  F[<<x, g>>] = F[<<x, h>>]
    <3>1. WordEnd(t, x) # 0 => g[GoesOn(t, x)] = h[GoesOn(t, x)]
      BY <1>1, <1>2, <2>1
    <3>2. CopyStep(t, x, g) = CopyStep(t, x, h)
      BY <3>1 DEF CopyStep
    <3> QED BY <1>3, <3>2
  <2> QED BY <1>2, <1>4, <1>5, <2>1 DEF Recursive
<1>7. PICK f \in [D -> B] : \A x \in D : f[x] = F[<<x, f>>]
  BY <1>6, Recursion
<1>8. \A x \in D : f[x] = CopyStep(t, x, f)
  BY <1>3, <1>7
<1>9. IsCopy(t, f)
  BY <1>7, <1>8 DEF IsCopy, D
<1> QED BY <1>9

\* r has the words of t that end at x or before, in reverse order.
WordsReversed(t, x, r) ==
  /\ Neat(r)
  /\ \E u, q : /\ Lists(Before(Runs(t, Letters), x), u) /\ Lists(Runs(r, Letters), q)
               /\ Mirror(t, u, r, q)

\* Without words, nothing is copied.
LEMMA NoWords ==
  ASSUME NEW t, NEW x, Before(Runs(t, Letters), x) = {}
  PROVE  WordsReversed(t, x, <<>>)
<1>1. Neat(<<>>)
  BY DEF Neat
<1>2. Runs(<<>>, Letters) = {}
  BY DEF Runs
<1>3. Lists({}, <<>>)
  BY DEF Lists
<1>4. Mirror(t, <<>>, <<>>, <<>>)
  BY DEF Mirror
<1> QED BY <1>1, <1>2, <1>3, <1>4 DEF WordsReversed

\* One word more, copied in front of the others.
LEMMA OneMoreWord ==
  ASSUME NEW t \in Seq(Char), NEW x \in 0 .. Len(t), CleanWord(t, x), WordEnd(t, x) # 0,
         NEW v, WordsReversed(t, GoesOn(t, x), v)
  PROVE  WordsReversed(t, x, WordInFront(t, BlankBefore(t, x) + 1, WordEnd(t, x), v))
<1> DEFINE R == Runs(t, Letters)
<1>0. PICK m \in Nat : m = Len(t) /\ x <= m /\ x \in Nat
  BY ElementsAre
<1>1. PICK b, e, y : b = BlankBefore(t, x) /\ e = WordEnd(t, x) /\ y = GoesOn(t, x)
  OBVIOUS
<1>2. /\ b \in Nat /\ b < e /\ e \in 1 .. x /\ y \in 0 .. x - 1
      /\ \A j \in b + 1 .. e : t[j] \in Char \ {Space}
      /\ Before(R, x) = Before(R, y) \cup {<<b + 1, e>>}
      /\ \A z \in Before(R, y) : z[1] < b + 1
  BY <1>1, WordBefore
<1>3. PICK a \in Nat \ {0}, l \in Nat \ {0} : a = b + 1 /\ l = e - a + 1 /\ e = a + l - 1
  <2>1. b + 1 \in Nat \ {0} /\ e - (b + 1) + 1 \in Nat \ {0} /\ e = (b + 1) + (e - (b + 1) + 1) - 1
    BY <1>2
  <2> QED BY <2>1
<1>4. a \in 1 .. Len(t) /\ e \in a .. Len(t)
  BY <1>0, <1>2, <1>3
<1>5. PICK r : r = WordInFront(t, a, e, v)
  OBVIOUS
<1>6. v \in Seq(Char) /\ Neat(v)
  BY DEF WordsReversed, Neat
<1>7. IsInFront(t, a, l, v, r)
  BY <1>3, <1>4, <1>5, <1>6, InFront
<1>8. WordAt(t, a, l)
  <2>1. ASSUME NEW j \in 1 .. l PROVE t[a + j - 1] \in Char \ {Space}
    <3>1. a + j - 1 \in b + 1 .. e
      BY <1>2, <1>3
    <3> QED BY <1>2, <3>1
  <2> QED BY <2>1 DEF WordAt
<1>9. Neat(r)
  BY <1>6, <1>7, <1>8, NeatInFront
<1>10. PICK u, q : Lists(Before(R, y), u) /\ Lists(Runs(v, Letters), q) /\ Mirror(t, u, v, q)
  BY <1>1 DEF WordsReversed
<1>11. \A z \in Before(R, y) : z[1] < a
  BY <1>2, <1>3
<1>12. PICK w, h : /\ Lists(Before(R, y) \cup {<<a, a + l - 1>>}, w) /\ Lists(Runs(r, Letters), h)
                   /\ Mirror(t, w, r, h)
  <2> DEFINE S == Before(R, y)
  <2>1. Lists(S, u) /\ \A z \in S : z[1] < a
    BY <1>10, <1>11
  <2> HIDE DEF S
  <2>2. \E w, h : /\ Lists(S \cup {<<a, a + l - 1>>}, w) /\ Lists(Runs(r, Letters), h)
                   /\ Mirror(t, w, r, h)
    BY <1>6, <1>7, <1>8, <1>10, <2>1, MirrorMore
  <2> QED BY <2>2 DEF S
<1>13. Lists(Before(R, x), w)
  BY <1>2, <1>3, <1>12
<1>14. WordsReversed(t, x, r)
  BY <1>9, <1>12, <1>13 DEF WordsReversed
<1> QED BY <1>1, <1>3, <1>5, <1>14

\* All that is copied is reversed.
LEMMA CopiesReversed ==
  ASSUME NEW t \in Seq(Char), NEW it, IsCopy(t, it)
  PROVE  \A x \in 0 .. Len(t) : CleanWord(t, x) => WordsReversed(t, x, it[x])
<1>0. PICK m \in Nat : m = Len(t)
  BY ElementsAre
<1> DEFINE bad == {x \in 0 .. m : CleanWord(t, x) /\ ~WordsReversed(t, x, it[x])}
<1>1. bad = {}
  <2> SUFFICES ASSUME bad # {} PROVE FALSE
    OBVIOUS
  <2>1. bad \subseteq Nat
    OBVIOUS
  <2>2. PICK x \in bad : \A y \in bad : x <= y
    BY <2>1, Least
  <2>3. x \in 0 .. Len(t) /\ x \in Nat /\ CleanWord(t, x) /\ ~WordsReversed(t, x, it[x])
    BY <1>0, <2>2
  <2>4. it[x] = CopyStep(t, x, it)
    <3>1. x \in -1 .. Len(t)
      BY <1>0, <2>3
    <3> QED BY <3>1 DEF IsCopy
  <2>5. CASE WordEnd(t, x) = 0
    <3>1. Before(Runs(t, Letters), x) = {}
      BY <2>3, <2>5, WordBefore
    <3>2. WordsReversed(t, x, <<>>)
      BY <3>1, NoWords
    <3>3. it[x] = <<>>
      BY <2>4, <2>5 DEF CopyStep
    <3> QED BY <2>3, <3>2, <3>3
  <2>6. CASE WordEnd(t, x) # 0
    <3>1. PICK y : y = GoesOn(t, x)
      OBVIOUS
    <3>2. y \in 0 .. x - 1 /\ CleanWord(t, y)
      BY <2>3, <2>6, <3>1, WordBefore
    <3>3. y \in 0 .. m /\ ~(x <= y)
      BY <1>0, <2>3, <3>2
    <3>4. y \notin bad
      BY <2>2, <3>3
    <3>5. WordsReversed(t, y, it[y])
      BY <3>2, <3>3, <3>4
    <3>6. WordsReversed(t, x, WordInFront(t, BlankBefore(t, x) + 1, WordEnd(t, x), it[y]))
      BY <2>3, <2>6, <3>1, <3>5, OneMoreWord
    <3>7. it[x] = WordInFront(t, BlankBefore(t, x) + 1, WordEnd(t, x), it[y])
      BY <2>4, <2>6, <3>1 DEF CopyStep
    <3> QED BY <2>3, <3>6, <3>7
  <2> QED BY <2>5, <2>6
<1>2. \A x \in 0 .. m : x \notin bad => (CleanWord(t, x) => WordsReversed(t, x, it[x]))
  OBVIOUS
<1> HIDE DEF bad
<1> QED BY <1>0, <1>1, <1>2

\* The same word is the same string.
LEMMA SameString ==
  ASSUME NEW t \in Seq(Char), NEW r \in Seq(Char), NEW x \in Runs(t, Letters),
         NEW y \in Runs(r, Letters), SameWord(t, x, r, y)
  PROVE  SubSeq(t, x[1], x[2]) = SubSeq(r, y[1], y[2])
<1>1. PICK a \in 1 .. Len(t), b \in 1 .. Len(t) : a = x[1] /\ b = x[2] /\ a <= b
  BY DEF Runs
<1>2. PICK c \in 1 .. Len(r), d \in 1 .. Len(r) : c = y[1] /\ d = y[2] /\ c <= d
  BY DEF Runs
<1>3. Len(t) \in Nat /\ Len(r) \in Nat
  BY ElementsAre
<1>4. b - a = d - c /\ \A e \in 0 .. b - a : t[a + e] = r[c + e]
  BY <1>1, <1>2 DEF SameWord
<1>5. PICK u, w : u = SubSeq(t, a, b) /\ w = SubSeq(r, c, d)
  OBVIOUS
<1>6. u \in Seq(Char) /\ Len(u) = b - a + 1 /\ \A j \in 1 .. b - a + 1 : u[j] = t[a + j - 1]
  <2>1. a \in 1 .. Len(t) + 1 /\ b \in 0 .. Len(t)
    BY <1>3
  <2>2. /\ u \in Seq(Char) /\ Len(u) = (IF a <= b THEN b - a + 1 ELSE 0)
        /\ DOMAIN u = 1 .. Len(u) /\ \A j \in 1 .. Len(u) : u[j] = t[a + j - 1]
    BY <1>5, <2>1, WindowIs
  <2> QED BY <1>1, <2>2
<1>7. w \in Seq(Char) /\ Len(w) = d - c + 1 /\ \A j \in 1 .. d - c + 1 : w[j] = r[c + j - 1]
  <2>1. c \in 1 .. Len(r) + 1 /\ d \in 0 .. Len(r)
    BY <1>3
  <2>2. /\ w \in Seq(Char) /\ Len(w) = (IF c <= d THEN d - c + 1 ELSE 0)
        /\ DOMAIN w = 1 .. Len(w) /\ \A j \in 1 .. Len(w) : w[j] = r[c + j - 1]
    BY <1>5, <2>1, WindowIs
  <2> QED BY <1>2, <2>2
<1>8. PICK l \in Nat : l = b - a + 1 /\ l = d - c + 1
  BY <1>1, <1>4
<1>9. \A j \in 1 .. l : u[j] = w[j]
  <2> TAKE j \in 1 .. l
  <2>1. j - 1 \in 0 .. b - a /\ a + j - 1 = a + (j - 1) /\ c + j - 1 = c + (j - 1)
    BY <1>8
  <2> QED BY <1>4, <1>6, <1>7, <1>8, <2>1
<1>10. u = w
  <2>1. Len(u) = l /\ Len(w) = l
    BY <1>6, <1>7, <1>8
  <2>2. u = [j \in 1 .. l |-> u[j]]
    BY <1>6, <2>1
  <2>3. w = [j \in 1 .. l |-> w[j]]
    BY <1>7, <2>1
  <2>4. [j \in 1 .. l |-> u[j]] = [j \in 1 .. l |-> w[j]]
    BY <1>9
  <2> QED BY <2>2, <2>3, <2>4
<1> QED BY <1>1, <1>2, <1>5, <1>10

\* 151-reverse-words-in-a-string.c returns the words in reverse order.
THEOREM WordsAreReversed ==
  ASSUME NEW t \in Seq(Char)
  PROVE  IsReversed(t, reverseWords(t))
<1>0. PICK m \in Nat : m = Len(t)
  BY ElementsAre
<1> DEFINE R == Runs(t, Letters)
<1>1. PICK it : it = CHOOSE f : IsCopy(t, f)
  OBVIOUS
<1>2. IsCopy(t, it)
  BY <1>1, CopyExists
<1>3. reverseWords(t) = it[Len(t)]
  BY <1>1, Zenon DEF reverseWords, IsCopy, CopyStep, WordEnd, BlankBefore, GoesOn, WordInFront
<1>4. PICK r : r = it[Len(t)]
  OBVIOUS
<1>5. WordsReversed(t, Len(t), r)
  <2>1. Len(t) \in 0 .. Len(t) /\ CleanWord(t, Len(t))
    BY <1>0 DEF CleanWord
  <2> QED BY <1>2, <1>4, <2>1, CopiesReversed
<1>6. Before(R, Len(t)) = R
  <2>1. \A z \in R : z[2] <= Len(t)
    <3> TAKE z \in R
    <3>1. z[2] \in 1 .. Len(t)
      BY DEF Runs
    <3> QED BY <1>0, <3>1
  <2> QED BY <2>1 DEF Before
<1>7. PICK u, q : Lists(R, u) /\ Lists(Runs(r, Letters), q) /\ Mirror(t, u, r, q)
  BY <1>5, <1>6 DEF WordsReversed
<1>8. u \in InTextOrder(R) /\ q \in InTextOrder(Runs(r, Letters))
  BY <1>7, ListsInOrder
<1>9. /\ Len(q) \in Nat /\ Len(u) = Len(q) /\ DOMAIN u = 1 .. Len(q)
      /\ \A j \in 1 .. Len(q) : u[j] \in R /\ q[j] \in Runs(r, Letters)
      /\ \A j \in 1 .. Len(q) : SameWord(t, u[j], r, q[Len(q) + 1 - j])
  <2>1. /\ Len(q) \in Nat /\ DOMAIN q = 1 .. Len(q)
        /\ \A j \in 1 .. Len(q) : q[j] \in Runs(r, Letters) /\ q[j] \in Nat \X Nat
    BY <1>7, ListIs
  <2>2. /\ Len(u) \in Nat /\ DOMAIN u = 1 .. Len(u)
        /\ \A j \in 1 .. Len(u) : u[j] \in R /\ u[j] \in Nat \X Nat
    BY <1>7, ListIs
  <2>3. Len(u) = Len(q) /\ \A j \in 1 .. Len(q) : SameWord(t, u[j], r, q[Len(q) + 1 - j])
    BY <1>7 DEF Mirror
  <2> QED BY <2>1, <2>2, <2>3
<1>10. Neat(r) /\ r \in Seq(Char)
  BY <1>5 DEF WordsReversed, Neat
<1>11. \A j \in DOMAIN u : SubSeq(t, u[j][1], u[j][2])
                           = SubSeq(r, q[Len(q) + 1 - j][1], q[Len(q) + 1 - j][2])
  <2> TAKE j \in DOMAIN u
  <2>1. j \in 1 .. Len(q) /\ Len(q) + 1 - j \in 1 .. Len(q)
    BY <1>9
  <2>2. PICK x \in R, y \in Runs(r, Letters) :
           x = u[j] /\ y = q[Len(q) + 1 - j] /\ SameWord(t, x, r, y)
    BY <1>9, <2>1
  <2>3. SubSeq(t, x[1], x[2]) = SubSeq(r, y[1], y[2])
    BY <1>10, <2>2, SameString
  <2> QED BY <2>2, <2>3, Zenon
<1>12. r # <<>> => r[1] # Space /\ Last(r) # Space
  <2>1. r # <<>> => Len(r) # 0
    BY <1>10
  <2>2. Last(r) = r[Len(r)]
    BY DEF Last
  <2> QED BY <1>10, <2>1, <2>2 DEF Neat
<1>13. \A j \in 1 .. Len(r) - 1 : r[j] = Space => r[j + 1] # Space
  BY <1>10 DEF Neat
<1>14. IsReversed(t, r)
  BY <1>8, <1>9, <1>11, <1>12, <1>13, Zenon DEF IsReversed
<1> QED BY <1>3, <1>4, <1>14

-----------------------------------------------------------------------------
(* All exercises.                                                           *)

\* What a call may return, and whether that is right.
Answers(c) ==
  CASE c.f = "lengthOfLongestSubstring" -> {lengthOfLongestSubstring(c.s)}
    [] c.f = "longestPalindrome" -> {longestPalindrome(c.s)}
    [] c.f = "reverseWords" -> {reverseWords(c.s)}
    [] c.f = "frequencySort" -> frequencySort(c.s)
    [] c.f = "as" -> {ScanNumbers(c.s)}
    [] c.f = "sscanf" -> {ScanTokens(c.s)}
    [] c.f = "findMedianSortedArrays" -> {TwiceTheMedian(c.nums1, c.nums2)}
    [] c.f = "kSmallestPairs" -> kSmallestPairs(c.nums1, c.nums2, c.k)
    [] c.f = "clock_gettime" -> {TimePass(c.t1, c.t2)}

Right(c, r) ==
  CASE c.f = "lengthOfLongestSubstring" -> IsLongestWindow(c.s, r)
    [] c.f = "longestPalindrome" -> IsLongestPalindrome(c.s, r)
    [] c.f = "reverseWords" -> IsReversed(c.s, r)
    [] c.f = "frequencySort" -> IsByFrequency(c.s, r)
    [] c.f = "as" -> AreTheNumbers(c.s, r)
    [] c.f = "sscanf" -> AreTheTokens(c.s, r)
    [] c.f = "findMedianSortedArrays" -> IsTwiceTheMedian(c.nums1, c.nums2, r)
    [] c.f = "kSmallestPairs" -> AreTheSmallest(c.nums1, c.nums2, c.k, r)
    [] c.f = "clock_gettime" -> IsTheTimePassed(c.t1, c.t2, r)

\* The functions of strings.
LEMMA StringAnswers ==
  ASSUME NEW c, NEW r \in Answers(c), c.s \in Strings,
         c.f \in {"lengthOfLongestSubstring", "longestPalindrome", "reverseWords", "frequencySort"},
         c.f = "longestPalindrome" => Printable(c.s)
  PROVE  Right(c, r)
<1>1. PICK t \in Seq(Char) : t = c.s /\ t \in Strings
  BY ExercisesAssumption DEF StringsAssumption, Char
<1>2. CASE c.f = "lengthOfLongestSubstring"
  <2>1. Answers(c) = {lengthOfLongestSubstring(c.s)}
    BY <1>2 DEF Answers
  <2>2. Right(c, r) = IsLongestWindow(c.s, r)
    BY <1>2 DEF Right
  <2>3. IsLongestWindow(t, lengthOfLongestSubstring(t))
    BY LongestWindow
  <2> QED BY <1>1, <2>1, <2>2, <2>3
<1>3. CASE c.f = "longestPalindrome"
  <2>1. Answers(c) = {longestPalindrome(c.s)}
    BY <1>3 DEF Answers
  <2>2. Right(c, r) = IsLongestPalindrome(c.s, r)
    BY <1>3 DEF Right
  <2>3. IsLongestPalindrome(t, longestPalindrome(t))
    BY <1>1, <1>3, LongestPalindrome
  <2> QED BY <1>1, <2>1, <2>2, <2>3
<1>4. CASE c.f = "reverseWords"
  <2>1. Answers(c) = {reverseWords(c.s)}
    BY <1>4 DEF Answers
  <2>2. Right(c, r) = IsReversed(c.s, r)
    BY <1>4 DEF Right
  <2>3. IsReversed(t, reverseWords(t))
    BY WordsAreReversed
  <2> QED BY <1>1, <2>1, <2>2, <2>3
<1>5. CASE c.f = "frequencySort"
  <2>1. Answers(c) = frequencySort(c.s)
    BY <1>5 DEF Answers
  <2>2. Right(c, r) = IsByFrequency(c.s, r)
    BY <1>5 DEF Right
  <2>3. \A x \in frequencySort(t) : IsByFrequency(t, x)
    BY <1>1, SortedByFrequency
  <2> QED BY <1>1, <2>1, <2>2, <2>3
<1> QED BY <1>2, <1>3, <1>4, <1>5

\* The two scanners.
LEMMA TextAnswers ==
  ASSUME NEW c, NEW r \in Answers(c), c.s \in Texts, c.f \in {"as", "sscanf"}
  PROVE  Right(c, r)
<1>1. PICK t \in Seq({Space} \cup Digits \cup Operators) : t = c.s
  BY ExercisesAssumption DEF StringsAssumption
<1>2. CASE c.f = "as"
  <2>1. Answers(c) = {ScanNumbers(c.s)}
    BY <1>2 DEF Answers
  <2>2. Right(c, r) = AreTheNumbers(c.s, r)
    BY <1>2 DEF Right
  <2>3. AreTheNumbers(t, ScanNumbers(t))
    <3>1. {Space} \cup Digits \cup Operators \subseteq Int
      BY DEF Space, Digits, Operators, Signs
    <3>2. t \in Seq(Int)
      BY <3>1, ElementsAre
    <3> QED BY <3>2, NumbersAreFound
  <2> QED BY <1>1, <2>1, <2>2, <2>3
<1>3. CASE c.f = "sscanf"
  <2>1. Answers(c) = {ScanTokens(c.s)}
    BY <1>3 DEF Answers
  <2>2. Right(c, r) = AreTheTokens(c.s, r)
    BY <1>3 DEF Right
  <2>3. AreTheTokens(t, ScanTokens(t))
    BY TokensAreFound
  <2> QED BY <1>1, <2>1, <2>2, <2>3
<1> QED BY <1>2, <1>3

\* The functions of numbers.
LEMMA NumberAnswers ==
  ASSUME NEW c, NEW r \in Answers(c),
         \/ /\ c.f = "findMedianSortedArrays" /\ c.nums1 \in Arrays /\ c.nums2 \in Arrays
            /\ c.nums1 # <<>> \/ c.nums2 # <<>>
         \/ /\ c.f = "kSmallestPairs" /\ c.nums1 \in Arrays /\ c.nums2 \in Arrays /\ c.k \in Ks
         \/ /\ c.f = "clock_gettime" /\ c.t1 \in Readings(Seconds) /\ c.t2 \in Readings(Seconds)
  PROVE  Right(c, r)
<1>1. CASE /\ c.f = "findMedianSortedArrays" /\ c.nums1 \in Arrays /\ c.nums2 \in Arrays
           /\ c.nums1 # <<>> \/ c.nums2 # <<>>
  <2>1. Answers(c) = {TwiceTheMedian(c.nums1, c.nums2)}
    BY <1>1 DEF Answers
  <2>2. Right(c, r) = IsTwiceTheMedian(c.nums1, c.nums2, r)
    BY <1>1 DEF Right
  <2>3. IsTwiceTheMedian(c.nums1, c.nums2, TwiceTheMedian(c.nums1, c.nums2))
    BY <1>1, MedianIsFound
  <2> QED BY <2>1, <2>2, <2>3
<1>2. CASE /\ c.f = "kSmallestPairs" /\ c.nums1 \in Arrays /\ c.nums2 \in Arrays /\ c.k \in Ks
  <2>1. Answers(c) = kSmallestPairs(c.nums1, c.nums2, c.k)
    BY <1>2 DEF Answers
  <2>2. Right(c, r) = AreTheSmallest(c.nums1, c.nums2, c.k, r)
    BY <1>2 DEF Right
  <2>3. r \in kSmallestPairs(c.nums1, c.nums2, c.k)
    BY <2>1
  <2>4. AreTheSmallest(c.nums1, c.nums2, c.k, r)
    BY <1>2, <2>3, SmallestPairs
  <2> QED BY <2>2, <2>4
<1>3. CASE /\ c.f = "clock_gettime" /\ c.t1 \in Readings(Seconds) /\ c.t2 \in Readings(Seconds)
  <2>1. Answers(c) = {TimePass(c.t1, c.t2)}
    BY <1>3 DEF Answers
  <2>2. Right(c, r) = IsTheTimePassed(c.t1, c.t2, r)
    BY <1>3 DEF Right
  <2>3. IsTheTimePassed(c.t1, c.t2, TimePass(c.t1, c.t2))
    BY <1>3, TimeIsPassed
  <2> QED BY <2>1, <2>2, <2>3
<1> QED BY <1>1, <1>2, <1>3

\* All functions.
LEMMA CallAnswers ==
  ASSUME NEW c \in Calls, NEW r \in Answers(c)
  PROVE  Right(c, r)
<1>1. \/ /\ c.s \in Strings
         /\ c.f \in {"lengthOfLongestSubstring", "longestPalindrome",
                     "reverseWords", "frequencySort"}
         /\ c.f = "longestPalindrome" => Printable(c.s)
      \/ c.s \in Texts /\ c.f \in {"as", "sscanf"}
      \/ \/ /\ c.f = "findMedianSortedArrays" /\ c.nums1 \in Arrays /\ c.nums2 \in Arrays
            /\ c.nums1 # <<>> \/ c.nums2 # <<>>
         \/ /\ c.f = "kSmallestPairs" /\ c.nums1 \in Arrays /\ c.nums2 \in Arrays /\ c.k \in Ks
         \/ /\ c.f = "clock_gettime" /\ c.t1 \in Readings(Seconds) /\ c.t2 \in Readings(Seconds)
  BY DEF Calls
<1> QED BY <1>1, StringAnswers, TextAnswers, NumberAnswers

\* A call has not returned, or what it may return is its function's result.
Answering == call \in Calls /\ (returned = {} \/ returned = Answers(call))

\* Whatever the call, what it returns is what its task asks for: the longest window, the
\* longest palindrome of a string without a % and of at most 1000 characters, the words
\* reversed, the characters by frequency, the numbers and tokens of a text, the median,
\* the smallest pairs, and the time passed.
THEOREM AnswersTheorem == ExercisesSpec => []AnswersAreRight
<1>1. Called => Answering
  BY DEF Called, Answering
<1>2. Answering /\ [Returns]_calling => Answering'
  <2> SUFFICES ASSUME Answering, [Returns]_calling PROVE Answering'
    OBVIOUS
  <2>1. CASE Returns
    <3>1. returned' = Answers(call) /\ call' = call
      BY <2>1, Zenon DEF Returns, Answers
    <3>2. Answers(call') = Answers(call)
      BY <3>1
    <3> QED BY <3>1, <3>2 DEF Answering
  <2>2. CASE UNCHANGED calling
    <3>1. returned' = returned /\ call' = call
      BY <2>2 DEF calling
    <3> QED BY <3>1 DEF Answering
  <2> QED BY <2>1, <2>2
<1>3. Answering => AnswersAreRight
  <2> SUFFICES ASSUME Answering, NEW r \in returned PROVE Right(call, r)
    BY Zenon DEF AnswersAreRight, Right
  <2>1. call \in Calls /\ r \in Answers(call)
    BY DEF Answering
  <2> QED BY <2>1, CallAnswers
<1> QED BY <1>1, <1>2, <1>3, PTL DEF ExercisesSpec
================================================================================
