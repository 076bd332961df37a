------------------------------ MODULE KernelHlist ------------------------------
(****************************************************************************)
(* The hash lists of source/src/linux/list.h in use, one action per         *)
(* function.  A head has one pointer, first; a node has next, and pprev,    *)
(* the address of the pointer that leads to it.  That pointer is a head's   *)
(* first or another node's next, so its address is named by the cell it is  *)
(* in, and next stands for first in a head.                                 *)
(*                                                                          *)
(* on is what the callers know: the head a node was last put under, the     *)
(* node itself when it was made a fake list, Unhashed when it is            *)
(* initialised and on no list, and NoList when its pointers mean nothing.   *)
(****************************************************************************)
EXTENDS FiniteSets

CONSTANTS Nodes, Heads, NULL, POISON1, POISON2, Unhashed, NoList

ASSUME HlistAssumption ==
  /\ IsFiniteSet(Nodes \cup Heads)
  /\ Nodes \cap Heads = {} /\ Unhashed # NoList
  /\ {NULL, POISON1, POISON2, Unhashed, NoList} \cap (Nodes \cup Heads) = {}
  /\ NULL \notin {POISON1, POISON2}

Cells == Nodes \cup Heads

VARIABLES next, pprev, on
vars == <<next, pprev, on>>

\* Nodes come from the allocator with whatever was in the memory.
Init ==
  /\ next = [c \in Cells |-> IF c \in Heads THEN NULL ELSE POISON1]
  /\ pprev = [n \in Nodes |-> POISON2]
  /\ on = [n \in Nodes |-> NoList]

Free(n)   == on[n] \in {Unhashed, NoList}
Hashed(n) == on[n] \in Heads
Fake(n)   == on[n] = n

hlist_unhashed(n) == pprev[n] = NULL
hlist_empty(h)    == next[h] = NULL
hlist_fake(n)     == pprev[n] = n

\* The only node has no successor: so has the last of many.
hlist_is_singular_nodeLast(n, h) == next[n] = NULL

hlist_is_singular_node(n, h) == next[n] = NULL /\ pprev[n] = h

\* pprev of c, if c is a node at all.
Pprev(c, p) == [n \in Nodes |-> IF n = c THEN p ELSE pprev[n]]

InitHlistNode(n) ==
  /\ Free(n)
  /\ next' = [next EXCEPT ![n] = NULL]
  /\ pprev' = Pprev(n, NULL)
  /\ on' = [on EXCEPT ![n] = Unhashed]

\* The old first node goes on pointing back to the head.
HlistAddHeadStale(n, h) ==
  /\ Free(n)
  /\ next' = [next EXCEPT ![n] = next[h], ![h] = n]
  /\ pprev' = Pprev(n, h)
  /\ on' = [on EXCEPT ![n] = h]

HlistAddHead(n, h) ==
  /\ Free(n)
  /\ next' = [next EXCEPT ![n] = next[h], ![h] = n]
  /\ pprev' = [Pprev(next[h], n) EXCEPT ![n] = h]
  /\ on' = [on EXCEPT ![n] = h]

\* next here is the node to go before; it is known by its pprev alone.
HlistAddBefore(n, before) ==
  /\ Free(n) /\ Hashed(before)
  /\ next' = [next EXCEPT ![n] = before, ![pprev[before]] = n]
  /\ pprev' = [pprev EXCEPT ![n] = pprev[before], ![before] = n]
  /\ on' = [on EXCEPT ![n] = on[before]]

\* Links the new node in front of prev's list instead of behind prev.
HlistAddBehindFront(n, prev) ==
  /\ Free(n) /\ Hashed(prev)
  /\ next' = [next EXCEPT ![n] = prev, ![pprev[prev]] = n]
  /\ pprev' = [pprev EXCEPT ![n] = pprev[prev], ![prev] = n]
  /\ on' = [on EXCEPT ![n] = on[prev]]

HlistAddBehind(n, prev) ==
  /\ Free(n) /\ Hashed(prev)
  /\ next' = [next EXCEPT ![n] = next[prev], ![prev] = n]
  /\ pprev' = [Pprev(next[prev], n) EXCEPT ![n] = prev]
  /\ on' = [on EXCEPT ![n] = on[prev]]

\* A list of its own.  next stays as it is, so it must be a fresh node's.
HlistAddFake(n) ==
  /\ on[n] = Unhashed
  /\ pprev' = Pprev(n, n)
  /\ on' = [on EXCEPT ![n] = n]
  /\ UNCHANGED next

\* __hlist_del, then the node's own pointers.
Unlink(n, nextAfter, pprevAfter) ==
  /\ next' = [next EXCEPT ![pprev[n]] = next[n], ![n] = nextAfter]
  /\ pprev' = [Pprev(next[n], pprev[n]) EXCEPT ![n] = pprevAfter]

HlistDel(n) ==
  /\ Hashed(n) \/ Fake(n)
  /\ Unlink(n, POISON1, POISON2)
  /\ on' = [on EXCEPT ![n] = NoList]

HlistDelInit(n) ==
  /\ on[n] # NoList
  /\ IF hlist_unhashed(n) THEN UNCHANGED <<next, pprev>> ELSE Unlink(n, NULL, NULL)
  /\ on' = [on EXCEPT ![n] = Unhashed]

\* The first node keeps pointing back to the old head.
HlistMoveListStale(old, new) ==
  /\ old # new /\ hlist_empty(new)
  /\ next' = [next EXCEPT ![new] = next[old], ![old] = NULL]
  /\ on' = [n \in Nodes |-> IF on[n] = old THEN new ELSE on[n]]
  /\ UNCHANGED pprev

HlistMoveList(old, new) ==
  /\ old # new /\ hlist_empty(new)
  /\ next' = [next EXCEPT ![new] = next[old], ![old] = NULL]
  /\ pprev' = Pprev(next[old], new)
  /\ on' = [n \in Nodes |-> IF on[n] = old THEN new ELSE on[n]]

Next ==
  \/ \E n \in Nodes :
       \/ InitHlistNode(n) \/ HlistDel(n) \/ HlistDelInit(n) \/ HlistAddFake(n)
       \/ \E h \in Heads : HlistAddHead(n, h)
       \/ \E m \in Nodes : HlistAddBefore(n, m) \/ HlistAddBehind(n, m)
  \/ \E old, new \in Heads : HlistMoveList(old, new)

Spec == Init /\ [][Next]_vars

-----------------------------------------------------------------------------
\* The pointers of a node that is on a list stay on that list, whatever else
\* is deleted, poisoned or moved to another head.
TypeOK ==
  /\ next \in [Cells -> Nodes \cup {NULL, POISON1}]
  /\ pprev \in [Nodes -> Cells \cup {NULL, POISON2}]
  /\ on \in [Nodes -> Cells \cup {Unhashed, NoList}]
  /\ \A n \in Nodes : on[n] \in Heads \cup {n, Unhashed, NoList}
  /\ \A h \in Heads : next[h] \in Nodes \cup {NULL}
  /\ \A n \in Nodes : Hashed(n) =>
       /\ next[n] = NULL \/ (next[n] \in Nodes /\ on[next[n]] = on[n])
       /\ pprev[n] = on[n] \/ (pprev[n] \in Nodes /\ on[pprev[n]] = on[n])

\* pprev is the address of the pointer that leads to the node, on a list and
\* in a fake one: through it __hlist_del() and hlist_add_before() change what
\* the loops follow.
PprevLeadsHere ==
  /\ \A n \in Nodes : Hashed(n) => next[pprev[n]] = n
  /\ \A h \in Heads : next[h] # NULL => on[next[h]] = h /\ pprev[next[h]] = h
  /\ \A n \in Nodes : Hashed(n) /\ next[n] # NULL => pprev[next[n]] = n
  /\ \A n \in Nodes : Fake(n) => pprev[n] = n /\ next[n] = NULL
=============================================================================
