---------------------------- MODULE NumberExercises ----------------------------
(****************************************************************************)
(* Functions of numbers: source/src/leetcode/kSmallestPairs.c and           *)
(* median-of-two-sorted-arrays.c, and the time that clock_gettime.c of      *)
(* source/src/rdtsc prints.  An int has the numbers from -IntMax - 1 to     *)
(* IntMax, and what is out of its range wraps around.                       *)
(****************************************************************************)
EXTENDS Integers, SequencesExt

CONSTANTS IntMax,
          Milli,     \* nanoseconds of a millisecond, a million
          Second     \* milliseconds of a second, a thousand

NumberAssumption == IntMax \in Nat /\ {Milli, Second} \subseteq Nat \ {0}

Wrap(x) == ((x + IntMax + 1) % (2 * IntMax + 2)) - IntMax - 1

\* cpmSum: the difference of two sums.
cpmSumFirst(a, b) == Wrap(a.u1 - b.u1)
cpmSum(a, b) == Wrap(a.sum - b.sum)

\* kSmallestPairs: all pairs, by their places in the arrays, as qsort may leave
\* them, and the first k of these.
kSmallestPairs(nums1, nums2, k) ==
  LET pair(at) == [at |-> at, u1 |-> nums1[at[1]], u2 |-> nums2[at[2]],
                   sum |-> Wrap(nums1[at[1]] + nums2[at[2]])]
      sa == {pair(at) : at \in (DOMAIN nums1) \X (DOMAIN nums2)}
      sorted == {p \in SetToSeqs(sa) : \A n \in 1 .. Len(p) - 1 : cpmSum(p[n], p[n + 1]) <= 0}
  IN  {SubSeq(p, 1, Min({k, Cardinality(sa)})) : p \in sorted}

\* findMedianSortedArrays: the arrays merged to c, and twice the value that is
\* in the middle, or the sum of the two that are.
Merged(nums1, nums2) ==
  LET merge[j \in (0 .. Len(nums1)) \X (0 .. Len(nums2))] ==
        LET left == SubSeq(nums1, j[1] + 1, Len(nums1))
            right == SubSeq(nums2, j[2] + 1, Len(nums2))
        IN  IF left = <<>> \/ right = <<>> THEN left \o right
            ELSE IF left[1] <= right[1] THEN <<left[1]>> \o merge[<<j[1] + 1, j[2]>>]
            ELSE <<right[1]>> \o merge[<<j[1], j[2] + 1>>]
  IN  merge[<<0, 0>>]

TwiceTheMedian(nums1, nums2) ==
  LET c == Merged(nums1, nums2)
      s == Len(c)
  IN  IF s % 2 = 0 THEN Wrap(c[s \div 2 + 1] + c[s \div 2]) ELSE 2 * c[s \div 2 + 1]

-----------------------------------------------------------------------------
(* clock_gettime.c: the milliseconds between two readings of a clock, which *)
(* have seconds and nanoseconds.  The differences are taken part by part,   *)
(* and C's division is towards zero.                                        *)
Readings(S) == [tv_sec : S, tv_nsec : 0 .. Second * Milli - 1]
Nanoseconds(t) == t.tv_sec * Second * Milli + t.tv_nsec

Quotient(n, d) == IF n < 0 THEN -((-n) \div d) ELSE n \div d

TimePass(t1, t2) ==
  (t2.tv_sec - t1.tv_sec) * Second + Quotient(t2.tv_nsec - t1.tv_nsec, Milli)
=============================================================================
