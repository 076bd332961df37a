-------------------------------- MODULE Lists --------------------------------
(****************************************************************************)
(* What source/src/linux/list.h promises its callers: lists[h] is the       *)
(* sequence of entries from the head h, and each function is an edit of     *)
(* these sequences.  A position is a head, which stands before the first    *)
(* entry and after the last, or an entry.                                   *)
(****************************************************************************)
EXTENDS SequencesExt

CONSTANT Cells
VARIABLE lists

\* Of lists L: the head of c's list (c itself, if it is on none), and c's
\* place on it.
HeadOf(L, c) == IF \E h \in Cells : c \in ToSet(L[h])
                THEN CHOOSE h \in Cells : c \in ToSet(L[h]) ELSE c
Place(L, c) == CHOOSE i \in DOMAIN L[HeadOf(L, c)] : L[HeadOf(L, c)][i] = c

\* How many entries stand up to and with p, and how many before p.
UpTo(L, p)   == IF HeadOf(L, p) = p THEN 0 ELSE Place(L, p)
Before(L, p) == IF HeadOf(L, p) = p THEN Len(L[p]) ELSE Place(L, p) - 1

Take(s, n) == SubSeq(s, 1, n)
Drop(s, n) == SubSeq(s, n + 1, Len(s))

\* L with the sequence s behind, or in front of, the position p.
Behind(L, p, s) ==
  [L EXCEPT ![HeadOf(L, p)] = Take(@, UpTo(L, p)) \o s \o Drop(@, UpTo(L, p))]
InFront(L, p, s) ==
  [L EXCEPT ![HeadOf(L, p)] = Take(@, Before(L, p)) \o s \o Drop(@, Before(L, p))]

\* L without the entry c, if it is on a list.
Without(L, c) ==
  IF HeadOf(L, c) = c THEN L
  ELSE [L EXCEPT ![HeadOf(L, c)] = Take(@, Place(L, c) - 1) \o Drop(@, Place(L, c))]

Emptied(L, h) == [L EXCEPT ![h] = <<>>]

\* L with the entries renamed by f.
Renaming(L, f) == [h \in Cells |-> [i \in DOMAIN L[h] |-> f[L[h][i]]]]

Add(new, p)        == lists' = Behind(lists, p, <<new>>)
AddTail(new, p)    == lists' = InFront(lists, p, <<new>>)
Del(entry)         == lists' = Without(lists, entry)
Move(entry, p)     == lists' = Behind(Without(lists, entry), p, <<entry>>)
MoveTail(entry, p) == lists' = InFront(Without(lists, entry), p, <<entry>>)

Replace(old, new) ==
  lists' = IF HeadOf(lists, old) = old
           THEN [lists EXCEPT ![new] = lists[old], ![old] = <<>>]
           ELSE Renaming(lists, [c \in Cells |-> IF c = old THEN new ELSE c])

Swap(entry1, entry2) ==
  lists' = Renaming(lists, [c \in Cells |-> IF c = entry1 THEN entry2
                                            ELSE IF c = entry2 THEN entry1
                                            ELSE c])

BulkMoveTail(head, first, last) ==
  LET s == lists[head]
      i == Place(lists, first)
      j == Place(lists, last)
  IN  lists' = [lists EXCEPT ![head] =
                  Take(s, i - 1) \o Drop(s, j) \o SubSeq(s, i, j)]

RotateToFront(entry, head) ==
  LET n == Place(lists, entry) - 1
  IN  lists' = [lists EXCEPT ![head] = Drop(@, n) \o Take(@, n)]

RotateLeft(head) ==
  lists' = IF lists[head] = <<>> THEN lists
           ELSE [lists EXCEPT ![head] = Tail(@) \o <<@[1]>>]

\* An empty list has nothing to cut off, and list keeps what it had.
CutPosition(list, head, entry) ==
  LET n == UpTo(lists, entry)
  IN  lists' = IF lists[head] = <<>> THEN lists
               ELSE [lists EXCEPT ![list] = Take(lists[head], n),
                                  ![head] = Drop(lists[head], n)]

CutBefore(list, head, entry) ==
  LET n == Before(lists, entry)
  IN  lists' = [lists EXCEPT ![list] = Take(lists[head], n),
                             ![head] = Drop(lists[head], n)]

Splice(list, p)     == lists' = Emptied(Behind(lists, p, lists[list]), list)
SpliceTail(list, p) == lists' = Emptied(InFront(lists, p, lists[list]), list)
=============================================================================
