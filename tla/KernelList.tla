------------------------------ MODULE KernelList ------------------------------
(****************************************************************************)
(* The circular doubly linked lists of source/src/linux/list.h in use: one  *)
(* action per function, called with every argument its comment allows.  A   *)
(* list_head is a list's head or is embedded in an entry.                   *)
(*                                                                          *)
(* heap is the memory.  on is what the callers know and the code does not   *)
(* store: the list each cell was last put on.  on[c] = c says that c is     *)
(* initialised and the head of a list (an entry by itself after             *)
(* list_del_init is one), and NoList that its pointers mean nothing: it was *)
(* never initialised, is poisoned, or was given up by an operation that     *)
(* does not reinitialise it.                                                *)
(****************************************************************************)
EXTENDS ListHeap, FiniteSets

CONSTANTS Entries, Heads, NULL, POISON1, POISON2, NoList

ASSUME ListAssumption ==
  /\ Entries \cap Heads = {}
  /\ {NULL, POISON1, POISON2, NoList} \cap (Entries \cup Heads) = {}
  /\ IsFiniteSet(Entries \cup Heads)

VARIABLES heap, on
vars == <<heap, on>>

Cells == Entries \cup Heads
Pointers == Cells \cup {NULL, POISON1, POISON2}

Init ==
  /\ heap = [next |-> [c \in Cells |-> NULL], prev |-> [c \in Cells |-> NULL]]
  /\ on = [c \in Cells |-> NoList]

-----------------------------------------------------------------------------
(* What a caller may assume.                                                *)

\* c may be overwritten without losing an entry.
Free(c) == on[c] = NoList \/ (on[c] = c /\ list_empty(heap, c))

\* Somewhere on a list, where another cell can be put next to it.
Position(c) == on[c] \in Heads

Linked(c) == on[c] # NoList

\* The cells of a list from first to last, in the direction of next.
Segment(seg, first, last) ==
  /\ first \in seg /\ last \in seg
  /\ heap.prev[first] \notin seg /\ heap.next[last] \notin seg
  /\ \A c \in seg :
       /\ on[c] = on[first]
       /\ c # last => heap.next[c] \in seg
       /\ c # first => heap.prev[c] \in seg

\* The members of S are on list h from now on.
Put(S, h) == [c \in Cells |-> IF c \in S THEN h ELSE on[c]]

-----------------------------------------------------------------------------
(* The functions.                                                           *)

InitListHead(c) ==
  /\ Free(c)
  /\ heap' = INIT_LIST_HEAD(heap, c)
  /\ on' = Put({c}, c)

ListAdd(new, head) ==
  /\ Free(new) /\ Position(head)
  /\ heap' = list_add(heap, new, head)
  /\ on' = Put({new}, on[head])

ListAddTail(new, head) ==
  /\ Free(new) /\ Position(head)
  /\ heap' = list_add_tail(heap, new, head)
  /\ on' = Put({new}, on[head])

ListDel(entry) ==
  /\ Linked(entry)
  /\ heap' = list_del(heap, entry, POISON1, POISON2)
  /\ on' = Put({entry}, NoList)

\* A list_del_init that forgets the INIT_LIST_HEAD.
ListDelInitPoison(entry) ==
  /\ Linked(entry)
  /\ heap' = list_del(heap, entry, POISON1, POISON2)
  /\ on' = Put({entry}, entry)

ListDelInit(entry) ==
  /\ Linked(entry)
  /\ heap' = list_del_init(heap, entry)
  /\ on' = Put({entry}, entry)

ListDelClearprev(entry) ==
  /\ Linked(entry)
  /\ heap' = list_del_clearprev(heap, entry, NULL)
  /\ on' = Put({entry}, NoList)

\* A replaced head takes its list's entries with it.
Renamed(old, new, left) ==
  LET h == IF on[old] = old THEN new ELSE on[old]
  IN  [c \in Cells |-> IF c = old THEN left
                       ELSE IF c = new \/ on[c] = on[old] THEN h ELSE on[c]]

ListReplace(old, new) ==
  /\ old # new /\ Linked(old) /\ Free(new)
  /\ heap' = list_replace(heap, old, new)
  /\ on' = Renamed(old, new, NoList)

ListReplaceInit(old, new) ==
  /\ old # new /\ Linked(old) /\ Free(new)
  /\ heap' = INIT_LIST_HEAD(list_replace(heap, old, new), old)
  /\ on' = Renamed(old, new, old)

\* An entry on a list is not alone: pos is another cell.
ListSwap(entry1, entry2) ==
  /\ entry1 # entry2 /\ Position(entry1) /\ Position(entry2)
  /\ ~list_empty(heap, entry2)
  /\ heap' = list_swap(heap, entry1, entry2, POISON1, POISON2)
  /\ on' = [on EXCEPT ![entry1] = on[entry2], ![entry2] = on[entry1]]

ListMove(list, head) ==
  /\ list # head /\ Linked(list) /\ Position(head)
  /\ heap' = list_move(heap, list, head)
  /\ on' = Put({list}, on[head])

ListMoveTail(list, head) ==
  /\ list # head /\ Linked(list) /\ Position(head)
  /\ heap' = list_move_tail(heap, list, head)
  /\ on' = Put({list}, on[head])

ListBulkMoveTail(head, first, last) ==
  /\ Position(head) /\ on[first] = on[head]
  /\ \E seg \in SUBSET (Cells \ {head}) : Segment(seg, first, last)
  /\ heap' = list_bulk_move_tail(heap, head, first, last)
  /\ UNCHANGED on

ListRotateLeft(head) ==
  /\ on[head] = head
  /\ heap' = list_rotate_left(heap, head)
  /\ UNCHANGED on

ListRotateToFront(list, head) ==
  /\ list # head /\ on[head] = head /\ on[list] = head
  /\ heap' = list_rotate_to_front(heap, list, head)
  /\ UNCHANGED on

\* What was on list is lost, and it holds the cells of seg instead.
Cutting(list, seg) ==
  [c \in Cells |-> IF c = list \/ c \in seg THEN list
                   ELSE IF on[c] = list THEN NoList ELSE on[c]]

ListCutPosition(list, head, entry) ==
  /\ list # head /\ on[list] \in {list, NoList}
  /\ on[head] = head /\ on[entry] = head
  /\ heap' = list_cut_position(heap, list, head, entry)
  /\ \/ CutsNothing(heap, head, entry) /\ UNCHANGED on
     \/ /\ ~CutsNothing(heap, head, entry)
        /\ entry = head
        /\ on' = Cutting(list, {})
     \/ /\ ~CutsNothing(heap, head, entry)
        /\ entry # head
        /\ \E seg \in SUBSET (Cells \ {head}) :
             /\ Segment(seg, heap.next[head], entry)
             /\ on' = Cutting(list, seg)

ListCutBefore(list, head, entry) ==
  /\ list # head /\ on[list] \in {list, NoList}
  /\ on[head] = head /\ on[entry] = head
  /\ heap' = list_cut_before(heap, list, head, entry)
  /\ \/ heap.next[head] = entry /\ on' = Cutting(list, {})
     \/ /\ heap.next[head] # entry
        /\ \E seg \in SUBSET (Cells \ {head}) :
             /\ Segment(seg, heap.next[head], heap.prev[entry])
             /\ on' = Cutting(list, seg)

\* The entries of list go to head's; list itself is left as it says.
Spliced(list, head, left) ==
  [c \in Cells |-> IF c = list THEN left
                   ELSE IF on[c] = list THEN on[head] ELSE on[c]]

ListSplice(list, head) ==
  /\ on[list] = list /\ Position(head) /\ on[head] # list
  /\ heap' = list_splice(heap, list, head)
  /\ on' = Spliced(list, head, IF list_empty(heap, list) THEN list ELSE NoList)

ListSpliceTail(list, head) ==
  /\ on[list] = list /\ Position(head) /\ on[head] # list
  /\ heap' = list_splice_tail(heap, list, head)
  /\ on' = Spliced(list, head, IF list_empty(heap, list) THEN list ELSE NoList)

ListSpliceInit(list, head) ==
  /\ on[list] = list /\ Position(head) /\ on[head] # list
  /\ heap' = list_splice_init(heap, list, head)
  /\ on' = Spliced(list, head, list)

ListSpliceTailInit(list, head) ==
  /\ on[list] = list /\ Position(head) /\ on[head] # list
  /\ heap' = list_splice_tail_init(heap, list, head)
  /\ on' = Spliced(list, head, list)

\* One entry, and where it goes.
EntryStep(e) ==
  \/ ListDel(e) \/ ListDelInit(e) \/ ListDelClearprev(e)
  \/ \E p \in Cells : ListAdd(e, p) \/ ListAddTail(e, p)
                      \/ ListMove(e, p) \/ ListMoveTail(e, p)
  \/ \E f \in Entries : ListSwap(e, f) \/ ListReplace(e, f)
                        \/ ListReplaceInit(e, f)

\* One head, and its list.
HeadStep(h) ==
  \/ ListRotateLeft(h)
  \/ \E e \in Entries : ListRotateToFront(e, h)
  \/ \E first, last \in Entries : ListBulkMoveTail(h, first, last)
  \/ \E new \in Heads : ListReplace(h, new) \/ ListReplaceInit(h, new)

\* A list and another one.
ListStep(list) ==
  \/ \E head \in Heads, entry \in Cells :
       ListCutPosition(list, head, entry) \/ ListCutBefore(list, head, entry)
  \/ \E p \in Cells : \/ ListSplice(list, p) \/ ListSpliceTail(list, p)
                      \/ ListSpliceInit(list, p) \/ ListSpliceTailInit(list, p)

Next ==
  \/ \E c \in Cells : InitListHead(c)
  \/ \E e \in Entries : EntryStep(e)
  \/ \E h \in Heads : HeadStep(h) \/ ListStep(h)

Spec == Init /\ [][Next]_vars

-----------------------------------------------------------------------------
\* Whatever the calls, the two pointers of a cell that is on a list point to
\* cells of the same list: no list reaches a cell that was deleted, replaced,
\* spliced away or poisoned.
TypeOK ==
  /\ heap \in [next : [Cells -> Pointers], prev : [Cells -> Pointers]]
  /\ on \in [Cells -> Cells \cup {NoList}]
  /\ \A c \in Cells : Linked(c) =>
       /\ heap.next[c] \in Cells /\ on[heap.next[c]] = on[c]
       /\ heap.prev[c] \in Cells /\ on[heap.prev[c]] = on[c]

\* next and prev of linked cells stay each other's inverse, also when the
\* cells a function is given are neighbours, or the same one.
WellLinked ==
  \A c \in Cells : Linked(c) => /\ heap.prev[heap.next[c]] = c
                                /\ heap.next[heap.prev[c]] = c
=============================================================================
