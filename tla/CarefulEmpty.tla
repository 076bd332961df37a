----------------------------- MODULE CarefulEmpty -----------------------------
(****************************************************************************)
(* list_empty_careful() of source/src/linux/list.h without synchronisation: *)
(* one CPU, the owner, takes entries off a list with list_del_init(), and   *)
(* another, the poller, asks of one entry after the other whether it is     *)
(* off, and from a "yes" on uses it as its own.                             *)
(*                                                                          *)
(* The accesses race, so their order is whatever a build for a weakly       *)
(* ordered machine may produce: the owner's stores reach memory in any      *)
(* order, but for stores to one pointer, and the poller's two loads happen  *)
(* in either order.                                                         *)
(****************************************************************************)
EXTENDS Sequences, Integers

CONSTANTS Order,          \* the entries, in the order they are on the list
          head, Nothing

Entries == {Order[j] : j \in DOMAIN Order}

CarefulEmptyAssumption ==
  /\ Order \in Seq(Entries)
  /\ \A j, l \in DOMAIN Order : Order[j] = Order[l] => j = l
  /\ head \notin Entries /\ Nothing \notin Entries \cup {head}

Cells == Entries \cup {head}
Fields == {"next", "prev"}

VARIABLES mem,     \* what every CPU can see: [Fields -> [Cells -> Cells]]
          stores,  \* the owner's stores that have not reached it, oldest first
          off,     \* the entries the owner has deleted
          asked,   \* the entry the poller asks about, or Nothing
          loaded,  \* what it has loaded of its pointers, Nothing if not yet
          mine     \* the entries it was told are off
vars == <<mem, stores, off, asked, loaded, mine>>

\* The list as list_add_tail() leaves it.
Init ==
  /\ LET cell(j) == IF j \in DOMAIN Order THEN Order[j] ELSE head
         place(c) == IF c = head THEN 0 ELSE CHOOSE j \in DOMAIN Order : Order[j] = c
     IN  mem = [next |-> [c \in Cells |-> cell(place(c) + 1)],
                prev |-> [c \in Cells |-> IF c = head THEN cell(Len(Order))
                                         ELSE cell(place(c) - 1)]]
  /\ stores = <<>> /\ off = {}
  /\ asked = Nothing /\ loaded = [f \in Fields |-> Nothing] /\ mine = {}

Store(c, f, v) == [cell |-> c, field |-> f, value |-> v]

\* The owner reads its own latest store.
Own(c, f) ==
  LET own == {j \in DOMAIN stores : stores[j].cell = c /\ stores[j].field = f}
  IN  IF own = {} THEN mem[f][c]
      ELSE stores[CHOOSE j \in own : \A l \in own : l <= j].value

\* The entry's prev is left pointing into the list.
list_del_initHalf(entry) ==
  /\ entry \notin off
  /\ stores' = stores \o <<Store(Own(entry, "next"), "prev", Own(entry, "prev")),
                           Store(Own(entry, "prev"), "next", Own(entry, "next")),
                           Store(entry, "next", entry)>>
  /\ off' = off \cup {entry}
  /\ UNCHANGED <<mem, asked, loaded, mine>>

\* __list_del_entry, then INIT_LIST_HEAD.
list_del_init(entry) ==
  /\ entry \notin off
  /\ stores' = stores \o <<Store(Own(entry, "next"), "prev", Own(entry, "prev")),
                           Store(Own(entry, "prev"), "next", Own(entry, "next")),
                           Store(entry, "next", entry),
                           Store(entry, "prev", entry)>>
  /\ off' = off \cup {entry}
  /\ UNCHANGED <<mem, asked, loaded, mine>>

\* A store that no older store to the same pointer waits for reaches memory.
Arrive(j) ==
  /\ \A l \in 1 .. j - 1 : <<stores[l].cell, stores[l].field>>
                             # <<stores[j].cell, stores[j].field>>
  /\ mem' = [mem EXCEPT ![stores[j].field][stores[j].cell] = stores[j].value]
  /\ stores' = SubSeq(stores, 1, j - 1) \o SubSeq(stores, j + 1, Len(stores))
  /\ UNCHANGED <<off, asked, loaded, mine>>

Ask(entry) ==
  /\ asked = Nothing /\ entry \notin mine
  /\ asked' = entry /\ loaded' = [f \in Fields |-> Nothing]
  /\ UNCHANGED <<mem, stores, off, mine>>

Load(f) ==
  /\ asked # Nothing /\ loaded[f] = Nothing
  /\ loaded' = [loaded EXCEPT ![f] = mem[f][asked]]
  /\ UNCHANGED <<mem, stores, off, asked, mine>>

\* list_empty(), and a test that the two pointers agree.
emptyByNext  == loaded.next = asked
emptyByEqual == loaded.next = loaded.prev

empty == loaded.next = asked /\ loaded.next = loaded.prev

list_empty_careful ==
  /\ asked # Nothing /\ \A f \in Fields : loaded[f] # Nothing
  /\ mine' = IF empty THEN mine \cup {asked} ELSE mine
  /\ asked' = Nothing /\ loaded' = [f \in Fields |-> Nothing]
  /\ UNCHANGED <<mem, stores, off>>

Poll == (\E e \in Entries : Ask(e)) \/ (\E f \in Fields : Load(f)) \/ list_empty_careful

Next ==
  \/ \E e \in Entries : list_del_init(e)
  \/ \E j \in DOMAIN stores : Arrive(j)
  \/ Poll

\* A store does not wait for ever, and the poller goes on.
Fairness ==
  /\ WF_vars(\E j \in DOMAIN stores : Arrive(j))
  /\ WF_vars(Poll)
Spec == Init /\ [][Next]_vars /\ Fairness

-----------------------------------------------------------------------------
\* A yes is right and final.  Only an entry that the owner has taken off is
\* ever called empty, also one that is alone on the list; and from then on
\* nothing writes its pointers: the owner's stores to it, and those it makes
\* for the entry's old neighbours, are all over.
YesIsFinal ==
  [][/\ mine' \subseteq off'
     /\ \A e \in mine, f \in Fields : mem'[f][e] = mem[f][e]]_vars

\* An entry that was taken off is found to be, if it is asked about again and
\* again.
DeletionIsSeen == \A e \in Entries : []<>(asked = e) => (e \in off ~> e \in mine)
=============================================================================
