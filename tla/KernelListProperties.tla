------------------------- MODULE KernelListProperties -------------------------
(****************************************************************************)
(* What the functions of source/src/linux/list.h have to get right.         *)
(****************************************************************************)
EXTENDS KernelList, Sequences, FiniteSetsExt

\* A loop that does not end is told from one that meets some entries.
ASSUME EndlessAssumption == NoList \notin Seq(Entries)

\* The cells met from head h until h comes again, along next or prev: the
\* loop of list_for_each and list_for_each_prev.  NoList if h never comes.
Ring(ptr, h) ==
  LET walk[k \in 0 .. Cardinality(Cells)] ==
        LET c == IF k = 0 THEN h ELSE walk[k - 1]
        IN  IF c \in Cells THEN ptr[c] ELSE c
      home == {k \in DOMAIN walk : walk[k] = h}
  IN  IF home = {} THEN NoList ELSE [i \in 1 .. Min(home) |-> walk[i - 1]]

\* The entries of every list there is.
Contents == [h \in Cells |-> IF on[h] = h THEN Ring(heap.next, h) ELSE <<>>]

Abstract == INSTANCE Lists WITH lists <- Contents

\* Both loops over a list end, meet the same entries in opposite orders, and
\* those are the entries that were put on the list: none is lost on the way,
\* none belongs to two lists.
LoopsMeetTheList ==
  \A h \in Cells : on[h] = h =>
    LET ahead == Ring(heap.next, h)
        back  == Ring(heap.prev, h)
    IN  /\ ahead # NoList /\ back # NoList
        /\ Abstract!Reverse(ahead) = back
        /\ Abstract!ToSet(ahead) = {c \in Cells : on[c] = h} \ {h}

\* list_empty, list_empty_careful, list_is_singular, list_is_first and
\* list_is_last answer what the loops would find.
TestsAreRight ==
  \A h \in Heads : on[h] = h =>
    LET s == Ring(heap.next, h)
    IN  /\ list_empty(heap, h) <=> s = <<>>
        /\ list_empty_careful(heap, h) <=> s = <<>>
        /\ list_is_singular(heap, h) <=> Len(s) = 1
        /\ \A e \in Entries : on[e] = h =>
             /\ list_is_first(heap, e, h) <=> e = s[1]
             /\ list_is_last(heap, e, h) <=> e = s[Len(s)]

\* Whoever asks a list, by a loop in either direction or by a test, is told the
\* same, and the truth.
ReadersAgree == LoopsMeetTheList /\ TestsAreRight

\* Each function that moves one entry does to the lists what it says: the
\* entry ends at its new place, and all others keep theirs.
EntriesGoWhereTold ==
  [][\A e \in Entries :
       /\ InitListHead(e) => UNCHANGED Contents
       /\ ListDel(e) \/ ListDelInit(e) \/ ListDelClearprev(e) => Abstract!Del(e)
       /\ \A p \in Cells : /\ ListAdd(e, p)      => Abstract!Add(e, p)
                           /\ ListAddTail(e, p)  => Abstract!AddTail(e, p)
                           /\ ListMove(e, p)     => Abstract!Move(e, p)
                           /\ ListMoveTail(e, p) => Abstract!MoveTail(e, p)]_vars

\* list_swap, list_replace and list_replace_init put one cell in the place of
\* the other, and a head that replaces a head gets its entries.
PlacesAreKept ==
  [][\A S \in {Entries, Heads} : \A c, d \in S :
       /\ ListReplace(c, d) \/ ListReplaceInit(c, d) => Abstract!Replace(c, d)
       /\ S = Entries /\ ListSwap(c, d) => Abstract!Swap(c, d)]_vars

\* The functions that move many entries at once keep each run of entries in
\* its order and lose none, but for those of a list that is cut onto.
RunsGoWhereTold ==
  [][\A h \in Heads :
       /\ ListRotateLeft(h) => Abstract!RotateLeft(h)
       /\ \A c \in Cells :
            /\ (ListSplice(h, c) \/ ListSpliceInit(h, c)) => Abstract!Splice(h, c)
            /\ (ListSpliceTail(h, c) \/ ListSpliceTailInit(h, c))
                 => Abstract!SpliceTail(h, c)
            /\ \A g \in Heads :
                 /\ ListCutPosition(g, h, c) => Abstract!CutPosition(g, h, c)
                 /\ ListCutBefore(g, h, c) => Abstract!CutBefore(g, h, c)
       /\ \A e \in Entries :
            /\ ListRotateToFront(e, h) => Abstract!RotateToFront(e, h)
            /\ \A f \in Entries :
                 ListBulkMoveTail(h, e, f) => Abstract!BulkMoveTail(h, e, f)]_vars

\* Every function does to the lists what the abstract specification says.
FunctionsKeepTheirWord == EntriesGoWhereTold /\ PlacesAreKept /\ RunsGoWhereTold
=============================================================================
