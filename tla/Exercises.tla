------------------------------- MODULE Exercises -------------------------------
(****************************************************************************)
(* The exercises of source/src/leetcode, and what clock_gettime.c prints,   *)
(* as calls: one is chosen with its input, and returns.  What each has to   *)
(* return is stated here without a loop, as the task that gives the file    *)
(* its name says it.                                                        *)
(****************************************************************************)
EXTENDS StringExercises, NumberExercises

CONSTANTS Strings,     \* for the string functions
          Texts,       \* for the two scanners
          Arrays,      \* for the two array functions
          Ks,
          Seconds      \* of the readings of the clock

\* The pool of frequencySort has no room for the last character, and the
\* scanners know digits, operators and blanks.
StringsAssumption ==
  /\ Strings \subseteq Seq(1 .. CHAR_MAX - 1)
  /\ Texts \subseteq Seq({Space} \cup Digits \cup Operators)

\* The arrays are sorted, and their numbers below a quarter of the range of an
\* int, so that cpmSum's difference of two sums is in it.
ArraysAssumption ==
  /\ Arrays \subseteq Seq(-(IntMax \div 4) .. IntMax \div 4)
  /\ \A a \in Arrays : \A i, j \in 1 .. Len(a) : i < j => a[i] <= a[j]
  /\ Ks \subseteq Nat /\ Seconds \subseteq Int

ASSUME ExercisesAssumption == NumberAssumption /\ StringsAssumption /\ ArraysAssumption

VARIABLES call,     \* the function and its arguments
          returned  \* the set of what it may return; {} until it returns
calling == <<call, returned>>

Calls ==
  [f : {"lengthOfLongestSubstring", "reverseWords", "frequencySort"}, s : Strings]
  \cup [f : {"longestPalindrome"}, s : {s \in Strings : Printable(s)}]
  \cup [f : {"as"}, s : Texts] \cup [f : {"sscanf"}, s : Texts]
  \cup {c \in [f : {"findMedianSortedArrays"}, nums1 : Arrays, nums2 : Arrays] :
          c.nums1 # <<>> \/ c.nums2 # <<>>}
  \cup [f : {"kSmallestPairs"}, nums1 : Arrays, nums2 : Arrays, k : Ks]
  \cup [f : {"clock_gettime"}, t1 : Readings(Seconds), t2 : Readings(Seconds)]

Called == call \in Calls /\ returned = {}

Returns ==
  /\ returned = {}
  /\ returned' =
       CASE call.f = "lengthOfLongestSubstring" -> {lengthOfLongestSubstring(call.s)}
         [] call.f = "longestPalindrome" -> {longestPalindrome(call.s)}
         [] call.f = "reverseWords" -> {reverseWords(call.s)}
         [] call.f = "frequencySort" -> frequencySort(call.s)
         [] call.f = "as" -> {ScanNumbers(call.s)}
         [] call.f = "sscanf" -> {ScanTokens(call.s)}
         [] call.f = "findMedianSortedArrays" ->
              {TwiceTheMedian(call.nums1, call.nums2)}
         [] call.f = "kSmallestPairs" -> kSmallestPairs(call.nums1, call.nums2, call.k)
         [] call.f = "clock_gettime" -> {TimePass(call.t1, call.t2)}
  /\ UNCHANGED call

ExercisesSpec == Called /\ [][Returns]_calling
-----------------------------------------------------------------------------
(* What the results have to be.                                             *)
Windows(s) == {SubSeq(s, i, j) : i \in 1 .. Len(s) + 1, j \in 0 .. Len(s)}

\* The places where a run of characters of C begins or ends.
Runs(s, C) ==
  {x \in (1 .. Len(s)) \X (1 .. Len(s)) :
     /\ x[1] <= x[2] /\ \A l \in x[1] .. x[2] : s[l] \in C
     /\ x[1] = 1 \/ s[x[1] - 1] \notin C
     /\ x[2] = Len(s) \/ s[x[2] + 1] \notin C}

\* The runs one behind the other, in the order of the text.
InTextOrder(R) ==
  {p \in SetToSeqs(R) : \A i, j \in DOMAIN p : i < j => p[i][1] < p[j][1]}

Decimal(d) == FoldLeft(LAMBDA v, c : v * 10 + c - 48, 0, d)

IsLongestWindow(s, r) ==
  r = Max({Len(w) : w \in {v \in Windows(s) : \A i, j \in DOMAIN v : v[i] = v[j] => i = j}})

IsLongestPalindrome(s, r) ==
  /\ r \in Windows(s) /\ r = Reverse(r)
  /\ \A w \in Windows(s) : w = Reverse(w) => Len(w) <= Len(r)

Letters == (1 .. CHAR_MAX) \ {Space}

\* The words in reverse order with one blank between them.
IsReversed(s, r) ==
  /\ \E p \in InTextOrder(Runs(s, Letters)), q \in InTextOrder(Runs(r, Letters)) :
       /\ Len(p) = Len(q)
       /\ \A j \in DOMAIN p :
            LET from == p[j]
                to == q[Len(q) + 1 - j]
            IN  SubSeq(s, from[1], from[2]) = SubSeq(r, to[1], to[2])
  /\ r # <<>> => r[1] # Space /\ Last(r) # Space
  /\ \A j \in 1 .. Len(r) - 1 : r[j] = Space => r[j + 1] # Space

\* The characters of s, equal ones together, those met more often first.
IsByFrequency(s, r) ==
  /\ \A e \in ToSet(s) \cup ToSet(r) : Frequency(r, e) = Frequency(s, e)
  /\ \A i \in DOMAIN r, j \in DOMAIN r : i < j =>
       /\ Frequency(s, r[i]) >= Frequency(s, r[j])
       /\ r[i] = r[j] => \A l \in i .. j : r[l] = r[i]

\* The numbers are the runs of digits, each with the sign in front of it.
AreTheNumbers(s, r) ==
  LET number(x) == LET v == Decimal(SubSeq(s, x[1], x[2]))
                   IN  IF x[1] > 1 /\ s[x[1] - 1] = 45 THEN -v ELSE v
  IN  \E p \in InTextOrder(Runs(s, Digits)) : r = [j \in DOMAIN p |-> number(p[j])]

\* The tokens are the runs of digits, without a sign, and the operators.
AreTheTokens(s, r) ==
  LET signs == {<<j, j>> : j \in {l \in DOMAIN s : s[l] \in Operators}}
      token(x) == IF s[x[1]] \in Operators THEN [op |-> s[x[1]]]
                  ELSE [num |-> Decimal(SubSeq(s, x[1], x[2]))]
  IN  \E p \in InTextOrder(Runs(s, Digits) \cup signs) : r = [j \in DOMAIN p |-> token(p[j])]

\* The value that has k - 1 others below or beside it.
KthOf(c, k) ==
  CHOOSE v \in ToSet(c) :
    /\ Cardinality({i \in DOMAIN c : c[i] < v}) < k
    /\ Cardinality({i \in DOMAIN c : c[i] <= v}) >= k

IsTwiceTheMedian(nums1, nums2, r) ==
  LET c == nums1 \o nums2
      s == Len(c)
  IN  r = KthOf(c, (s + 1) \div 2) + KthOf(c, s \div 2 + 1)

\* Pairs of places, each once, in the order of their sums, as many as asked for
\* or as there are, and none left out that has a smaller sum.
AreTheSmallest(nums1, nums2, k, r) ==
  LET places == (DOMAIN nums1) \X (DOMAIN nums2)
      sum(p) == nums1[p[1]] + nums2[p[2]]
      taken == {r[n].at : n \in DOMAIN r}
  IN  /\ Len(r) = Min({k, Cardinality(places)}) /\ Cardinality(taken) = Len(r)
      /\ \A n \in 1 .. Len(r) - 1 : sum(r[n].at) <= sum(r[n + 1].at)
      /\ \A p \in places \ taken, q \in taken : sum(q) <= sum(p)

\* What is printed is what the clock has moved, forwards or back, to less than
\* a millisecond, and a second is not printed as less.
IsTheTimePassed(t1, t2, r) ==
  LET moved == Nanoseconds(t2) - Nanoseconds(t1)
  IN  /\ -Milli < r * Milli - moved /\ r * Milli - moved < Milli
      /\ moved >= Second * Milli => r >= Second

(* Whatever qsort does with equal elements, each function returns what its  *)
(* task asks for; median-of-two-sorted-arrays.c, for arrays that are not    *)
(* both empty, and 5-longest-palindromic-substring.c, for strings without a *)
(* % and with at most 1000 characters: it prints the string as a format.    *)
AnswersAreRight ==
  \A r \in returned :
    CASE call.f = "lengthOfLongestSubstring" -> IsLongestWindow(call.s, r)
      [] call.f = "longestPalindrome" -> IsLongestPalindrome(call.s, r)
      [] call.f = "reverseWords" -> IsReversed(call.s, r)
      [] call.f = "frequencySort" -> IsByFrequency(call.s, r)
      [] call.f = "as" -> AreTheNumbers(call.s, r)
      [] call.f = "sscanf" -> AreTheTokens(call.s, r)
      [] call.f = "findMedianSortedArrays" -> IsTwiceTheMedian(call.nums1, call.nums2, r)
      [] call.f = "kSmallestPairs" -> AreTheSmallest(call.nums1, call.nums2, call.k, r)
      [] call.f = "clock_gettime" -> IsTheTimePassed(call.t1, call.t2, r)
=============================================================================
