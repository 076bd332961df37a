------------------------------- MODULE ListHeap -------------------------------
(****************************************************************************)
(* The pointer operations of source/src/linux/list.h as functions of the    *)
(* heap; those of the older source/linux_root/include/linux/list.h assign   *)
(* in the same order.  A heap H holds the two pointers of every cell, a     *)
(* list head or the list_head embedded in an entry; each operator performs  *)
(* the assignments of its C function in their order, for the arguments may  *)
(* be the same cell or neighbours of each other.                            *)
(****************************************************************************)

SetNext(H, c, ptr) == [H EXCEPT !.next = [@ EXCEPT ![c] = ptr]]
SetPrev(H, c, ptr) == [H EXCEPT !.prev = [@ EXCEPT ![c] = ptr]]

INIT_LIST_HEAD(H, list) == SetPrev(SetNext(H, list, list), list, list)

\* __list_add
Link(H, new, prev, next) ==
  SetNext(SetPrev(SetNext(SetPrev(H, next, new), new, next), new, prev), prev, new)

list_add(H, new, head)      == Link(H, new, head, H.next[head])
list_add_tail(H, new, head) == Link(H, new, H.prev[head], head)

\* __list_del
Unlink(H, prev, next) == SetNext(SetPrev(H, next, prev), prev, next)

\* Only the forward pointer is redirected.
UnlinkForward(H, entry) == SetNext(H, H.prev[entry], H.next[entry])

\* __list_del_entry
UnlinkEntry(H, entry) == Unlink(H, H.prev[entry], H.next[entry])

list_del(H, entry, poison1, poison2) ==
  SetPrev(SetNext(UnlinkEntry(H, entry), entry, poison1), entry, poison2)

list_del_init(H, entry) == INIT_LIST_HEAD(UnlinkEntry(H, entry), entry)

\* __list_del_clearprev
list_del_clearprev(H, entry, null) == SetPrev(UnlinkEntry(H, entry), entry, null)

\* Takes both neighbours from the old cell before it changes either.
list_replaceEager(H, old, new) ==
  Link(H, new, H.prev[old], H.next[old])

list_replace(H, old, new) ==
  LET H1 == SetNext(H, new, H.next[old])
      H2 == SetPrev(H1, H1.next[new], new)
      H3 == SetPrev(H2, new, H2.prev[old])
  IN  SetNext(H3, H3.prev[new], new)

\* entry1 goes to where entry2's predecessor is, even if that is entry1.
list_swapAdjacent(H, entry1, entry2, poison1, poison2) ==
  LET pos == H.prev[entry2]
      H1  == list_del(H, entry2, poison1, poison2)
      H2  == list_replace(H1, entry1, entry2)
  IN  list_add(H2, entry1, pos)

list_swap(H, entry1, entry2, poison1, poison2) ==
  LET pos == H.prev[entry2]
      H1  == list_del(H, entry2, poison1, poison2)
      H2  == list_replace(H1, entry1, entry2)
  IN  list_add(H2, entry1, IF pos = entry1 THEN entry2 ELSE pos)

list_move(H, list, head)      == list_add(UnlinkEntry(H, list), list, head)
list_move_tail(H, list, head) == list_add_tail(UnlinkEntry(H, list), list, head)

list_bulk_move_tail(H, head, first, last) ==
  LET H1 == SetNext(H, H.prev[first], H.next[last])
      H2 == SetPrev(H1, H1.next[last], H1.prev[first])
      H3 == SetNext(H2, H2.prev[head], first)
      H4 == SetPrev(H3, first, H3.prev[head])
  IN  SetPrev(SetNext(H4, last, head), head, last)

\* The tests.
list_is_first(H, list, head) == H.prev[list] = head
list_is_last(H, list, head)  == H.next[list] = head
list_empty(H, head)          == H.next[head] = head
list_empty_careful(H, head)  == H.next[head] = head /\ H.next[head] = H.prev[head]

\* Both pointers of an empty head are equal too.
list_is_singularBare(H, head) == H.next[head] = H.prev[head]

list_is_singular(H, head)    == ~list_empty(H, head) /\ H.next[head] = H.prev[head]

list_rotate_left(H, head) ==
  IF list_empty(H, head) THEN H ELSE list_move_tail(H, H.next[head], head)

list_rotate_to_front(H, list, head) == list_move_tail(H, head, list)

\* __list_cut_position
Cut(H, list, head, entry) ==
  LET new_first == H.next[entry]
      H1 == SetNext(H, list, H.next[head])
      H2 == SetPrev(H1, H1.next[list], list)
      H3 == SetNext(SetPrev(H2, list, entry), entry, list)
  IN  SetPrev(SetNext(H3, head, new_first), new_first, head)

\* The two returns that change nothing.
CutsNothing(H, head, entry) ==
  \/ list_empty(H, head)
  \/ list_is_singular(H, head) /\ H.next[head] # entry /\ head # entry

list_cut_position(H, list, head, entry) ==
  IF CutsNothing(H, head, entry) THEN H
  ELSE IF entry = head THEN INIT_LIST_HEAD(H, list)
  ELSE Cut(H, list, head, entry)

list_cut_before(H, list, head, entry) ==
  IF H.next[head] = entry THEN INIT_LIST_HEAD(H, list)
  ELSE LET H1 == SetNext(H, list, H.next[head])
           H2 == SetPrev(H1, H1.next[list], list)
           H3 == SetPrev(H2, list, H2.prev[entry])
           H4 == SetNext(H3, H3.prev[list], list)
       IN  SetPrev(SetNext(H4, head, entry), entry, head)

\* __list_splice
Join(H, list, prev, next) ==
  LET first == H.next[list]
      last  == H.prev[list]
  IN  SetPrev(SetNext(SetNext(SetPrev(H, first, prev), prev, first), last, next),
              next, last)

list_splice(H, list, head) ==
  IF list_empty(H, list) THEN H ELSE Join(H, list, head, H.next[head])

list_splice_tail(H, list, head) ==
  IF list_empty(H, list) THEN H ELSE Join(H, list, H.prev[head], head)

list_splice_init(H, list, head) ==
  IF list_empty(H, list) THEN H ELSE INIT_LIST_HEAD(list_splice(H, list, head), list)

list_splice_tail_init(H, list, head) ==
  IF list_empty(H, list) THEN H
  ELSE INIT_LIST_HEAD(list_splice_tail(H, list, head), list)
=============================================================================
