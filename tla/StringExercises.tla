---------------------------- MODULE StringExercises ----------------------------
(****************************************************************************)
(* The string functions of source/src/leetcode: 3-longest-substring-...,    *)
(* 5-longest-palindromic-substring, 151-reverse-words-in-a-string,          *)
(* 451-sort-frequency, and the scanners of sscanf.c and as.c.  A string is  *)
(* a sequence of character codes, without the 0 that ends it; the first     *)
(* character has the index 1.                                               *)
(****************************************************************************)
EXTENDS Integers, SequencesExt

Space == 32
Digits == 48 .. 57
Signs == {43, 45}                        \* + and -
Operators == Signs \cup {40, 41, 42, 47} \* is_legal_op: ( ) * / as well
CHAR_MAX == 127

-----------------------------------------------------------------------------
(* lengthOfLongestSubstring: map tells which characters have been met at    *)
(* all, and is not cleared when start moves on.                             *)
longestState == [start |-> 1, map |-> {}, maxlength |-> 0]

\* The place where the character at end is met again, from start on.
Again(s, start, end) == {i \in start .. end - 1 : s[i] = s[end]}

\* As if map were cleared, so that a character met is one of the window.
WindowStartTrusting(s, st, end) ==
  IF s[end] \in st.map THEN Min({i \in 1 .. end - 1 : s[i] = s[end]}) + 1 ELSE st.start

WindowStart(s, st, end) ==
  IF s[end] \in st.map /\ Again(s, st.start, end) # {}
  THEN Min(Again(s, st.start, end)) + 1
  ELSE st.start

lengthOfLongestSubstring(s) ==
  LET step(st, end) ==
        LET start == WindowStart(s, st, end)
        IN  [start |-> start, map |-> st.map \cup {s[end]},
             maxlength |-> Max({st.maxlength, end - start + 1})]
  IN  FoldLeft(step, longestState, [end \in 1 .. Len(s) |-> end]).maxlength

-----------------------------------------------------------------------------
(* longestPalindrome: around each character, and around each gap behind     *)
(* one, as far as the characters on both sides are equal.  A later place    *)
(* that reaches as far as the best one replaces it.  The string from the    *)
(* palindrome on is then given to snprintf() as the format, and what that   *)
(* makes of it is cut off behind the palindrome.                            *)
Percent == 37
PalindromeBuffer == 1001   \* bytes that the answer has, with the 0 that ends it

\* What snprintf(r, n, f) leaves in r.  f is printed to its end: of "%%" one % is
\* left, and any other directive lacks its argument, which is not defined.
Snprintf(n, f) ==
  LET printed[i \in 1 .. Len(f) + 1] ==
        IF i > Len(f) THEN <<>>
        ELSE CASE f[i] # Percent -> <<f[i]>> \o printed[i + 1]
               [] f[i] = Percent /\ i < Len(f) /\ f[i + 1] = Percent ->
                    <<Percent>> \o printed[i + 2]
  IN  SubSeq(printed[1], 1, Min({n - 1, Len(printed[1])}))

\* The strings that the function is defined for: no % is taken for a directive,
\* and the answer ends inside of its buffer.
Printable(s) == (\A i \in 1 .. Len(s) : s[i] # Percent) /\ Len(s) < PalindromeBuffer

Steps(s, i, gap) ==
  Max({m \in 0 .. Len(s) :
         \A d \in 0 .. m - 1 :
           1 <= i - d /\ i + d + gap <= Len(s) /\ s[i - d] = s[i + d + gap]})

Best(s, gap) ==
  LET better(b, i) == IF Steps(s, i, gap) >= Max({b.step, 1})
                      THEN [step |-> Steps(s, i, gap), index |-> i] ELSE b
  IN  FoldLeft(better, [step |-> 0, index |-> 1], [i \in 1 .. Len(s) |-> i])

\* What the code calls odd has an even number of characters.
longestPalindrome(s) ==
  LET odd == Best(s, 1)
      even == Best(s, 0)
      answer(n, start) == Snprintf(n, SubSeq(s, start, Len(s)))
  IN  CASE s = <<>> -> <<>>
        [] s # <<>> /\ odd.step >= even.step ->
             answer(odd.step * 2 + 1, odd.index - odd.step + 1)
        [] s # <<>> /\ odd.step < even.step ->
             answer(even.step * 2, even.index - even.step + 1)

-----------------------------------------------------------------------------
(* reverseWords: from the end, blanks are skipped, a word is copied behind  *)
(* what there is, and the blank in front of it is skipped.                  *)
LastOf(S) == IF S = {} THEN 0 ELSE Max(S)

reverseWords(s) ==
  LET copied[i \in -1 .. Len(s)] ==
        LET word_end == LastOf({j \in 1 .. i : s[j] # Space})
            blank == LastOf({j \in 1 .. word_end - 1 : s[j] = Space})
            rest == copied[IF blank = 0 THEN 0 ELSE blank - 1]
        IN  IF word_end = 0 THEN <<>>
            ELSE SubSeq(s, blank + 1, word_end)
                 \o (IF rest = <<>> THEN <<>> ELSE <<Space>> \o rest)
  IN  copied[Len(s)]

-----------------------------------------------------------------------------
(* frequencySort: the pool has CHAR_MAX elements, indexed by the character. *)
(* qsort leaves characters of equal frequency in any order; the elements of *)
(* no character are behind all others.                                      *)
Frequency(s, e) == Cardinality({i \in DOMAIN s : s[i] = e})

frequencySort(s) ==
  LET used == {e \in 1 .. CHAR_MAX - 1 : Frequency(s, e) > 0}
      sorted == {p \in SetToSeqs(used) :
                   \A j \in 1 .. Len(p) - 1 : Frequency(s, p[j]) >= Frequency(s, p[j + 1])}
  IN  {FlattenSeq([j \in DOMAIN p |-> [l \in 1 .. Frequency(s, p[j]) |-> p[j]]]) : p \in sorted}

-----------------------------------------------------------------------------
(* sscanf(.., "%d%n", ..) from the character at i on: the number, how many  *)
(* characters it and the blanks before it take, and what sscanf returns; -1 *)
(* at the end of the string.                                                *)
Value(s, from, to) ==
  LET value[j \in from - 1 .. to] == IF j < from THEN 0 ELSE value[j - 1] * 10 + s[j] - 48
  IN  value[to]

ScanInt(s, i) ==
  LET first == Min({j \in i .. Len(s) + 1 : j > Len(s) \/ s[j] # Space})
      sign == first <= Len(s) /\ s[first] \in Signs
      from == IF sign THEN first + 1 ELSE first
      to == Min({j \in from .. Len(s) + 1 : j > Len(s) \/ s[j] \notin Digits}) - 1
  IN  [k |-> IF first > Len(s) THEN -1 ELSE IF to < from THEN 0 ELSE 1,
       v |-> IF sign /\ s[first] = 45 THEN -Value(s, from, to) ELSE Value(s, from, to),
       n |-> to - i + 1]

\* as.c: the numbers found, one character skipped where there is none.
ScanNumbers(s) ==
  LET scan[i \in 1 .. Len(s) + 1] ==
        LET r == ScanInt(s, i)
        IN  CASE r.k = 1 -> <<r.v>> \o scan[i + r.n]
              [] r.k = 0 -> scan[i + 1]
              [] OTHER -> <<>>
  IN  scan[1]

\* sscanf.c: operators before blanks before numbers, so that no sign is a number's.
ScanTokens(s) ==
  LET scan[i \in 1 .. Len(s) + 1] ==
        IF i > Len(s) THEN <<>>
        ELSE CASE s[i] \in Operators -> <<[op |-> s[i]]>> \o scan[i + 1]
               [] s[i] = Space -> scan[i + 1]
               [] OTHER -> <<[num |-> ScanInt(s, i).v]>> \o scan[i + ScanInt(s, i).n]
  IN  scan[1]
=============================================================================
