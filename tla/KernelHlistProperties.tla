------------------------ MODULE KernelHlistProperties ------------------------
(****************************************************************************)
(* What the hlist functions of source/src/linux/list.h have to get right.   *)
(****************************************************************************)
EXTENDS KernelHlist, Sequences, FiniteSetsExt

\* The nodes that hlist_for_each meets from head h on, up to the NULL; NoList
\* if no NULL comes.
Chain(h) ==
  LET walk[k \in 0 .. Cardinality(Cells)] ==
        LET c == IF k = 0 THEN h ELSE walk[k - 1]
        IN  IF c \in Cells THEN next[c] ELSE c
      end == {k \in DOMAIN walk : walk[k] = NULL}
  IN  IF end = {} THEN NoList ELSE [i \in 1 .. Min(end) |-> walk[i - 1]]

Contents == [c \in Cells |-> IF c \in Heads THEN Chain(c) ELSE <<>>]

Abstract == INSTANCE Lists WITH lists <- Contents

\* The tests answer what the caller did with the node, also for the states
\* that del_init, add_fake and move_list leave.
TestsAreRight ==
  /\ \A n \in Nodes : on[n] # NoList =>
       /\ hlist_unhashed(n) <=> on[n] = Unhashed
       /\ hlist_fake(n) <=> on[n] = n
       /\ \A h \in Heads : hlist_is_singular_node(n, h) <=> Chain(h) = <<n>>
  /\ \A h \in Heads : hlist_empty(h) <=> \A n \in Nodes : on[n] # h

\* A function does to the sequences of nodes under the heads what it says, and
\* to no other list anything.
NodesGoWhereTold ==
  [][/\ \A n \in Nodes :
          /\ InitHlistNode(n) \/ HlistAddFake(n) => UNCHANGED Contents
          /\ HlistDel(n) \/ HlistDelInit(n) => Abstract!Del(n)
          /\ \A h \in Heads : HlistAddHead(n, h) => Abstract!Add(n, h)
          /\ \A m \in Nodes : /\ HlistAddBefore(n, m) => Abstract!AddTail(n, m)
                              /\ HlistAddBehind(n, m) => Abstract!Add(n, m)
     /\ \A old, new \in Heads :
          HlistMoveList(old, new) => Abstract!Splice(old, new)]_vars
=============================================================================
