---------------------------- MODULE ReverseKGroup ----------------------------
(****************************************************************************)
(* leetcode/25-reverse-nodes-in-k-group.c: main() builds lists with         *)
(* create_list() and reverses them, k nodes at a time, in place.  A node is *)
(* its val; the prefix_head that reverseKGroup() allocates is node 0.       *)
(****************************************************************************)
EXTENDS Integers, Sequences, FiniteSets

CONSTANTS MaxNodes,   \* the longest list built
          NULL        \* the null pointer

ASSUME ReverseKGroupAssumption == MaxNodes \in Nat /\ NULL \notin 0 .. MaxNodes

PrefixHead == 0
Nodes == 0 .. MaxNodes

VARIABLES pc,     \* "main", "get_size", or the loop of "reverseKGroup" or
                  \* of "do_revert"
          next,   \* the nodes' next pointers
          n, k,   \* the arguments of create_list() and reverseKGroup()
          s, i,   \* reverseKGroup()'s size of the list and loop counter
          head, tail, pre, p   \* do_revert()'s arguments and variables
vars == <<pc, next, n, k, s, i, head, tail, pre, p>>

Init ==
  /\ pc = "main" /\ next = [c \in Nodes |-> NULL]
  /\ n = 0 /\ k = 1 /\ s = 0 /\ i = 0
  /\ head = NULL /\ tail = NULL /\ pre = NULL /\ p = NULL

\* The nodes from c on: the walk of get_size() and walk_a_list().  It stops
\* after as many nodes as there are, where they would not stop on a cycle.
Walk(c) ==
  LET at[j \in 0 .. MaxNodes + 1] ==
        IF j = 0 THEN c ELSE IF at[j - 1] = NULL THEN NULL ELSE next[at[j - 1]]
      met == {j \in 0 .. MaxNodes + 1 : at[j] # NULL}
  IN  [j \in 1 .. Cardinality(met) |-> at[j - 1]]

get_size(c) == Len(Walk(c))

get_node_by_index(index) ==
  LET at[j \in 0 .. index] == IF j = 0 THEN PrefixHead ELSE next[at[j - 1]]
  IN  at[index]

\* create_list(size), and the call of reverseKGroup(new_head->next, group).
Call(size, group) ==
  /\ pc = "main"
  /\ pc' = "get_size"
  /\ next' = [c \in Nodes |-> IF c < size THEN c + 1 ELSE NULL]
  /\ n' = size /\ k' = group /\ i' = 0
  /\ UNCHANGED <<s, head, tail, pre, p>>

Size ==
  /\ pc = "get_size"
  /\ pc' = "reverseKGroup"
  /\ s' = get_size(next[PrefixHead])
  /\ UNCHANGED <<next, n, k, i, head, tail, pre, p>>

\* Forgets the last group.
GroupsLeftShort == i + 1 < s \div k

GroupsLeft == i < s \div k

DoRevert ==
  /\ pc = "reverseKGroup" /\ GroupsLeft
  /\ pc' = "do_revert"
  /\ head' = get_node_by_index(i * k)
  /\ tail' = next[get_node_by_index((i + 1) * k)]
  /\ pre' = next[head']
  /\ p' = next[pre']
  /\ UNCHANGED <<next, n, k, s, i>>

removenode(nx, before, middle) ==
  IF nx[before] = middle
  THEN [nx EXCEPT ![before] = nx[middle], ![middle] = NULL]
  ELSE nx

insert(nx, before, middle) ==
  [nx EXCEPT ![middle] = nx[before], ![before] = middle]

\* The node goes back behind pre.
MoveToPlace ==
  /\ pc = "do_revert" /\ p # tail
  /\ next' = insert(removenode(next, pre, p), pre, p)
  /\ p' = next[p]
  /\ UNCHANGED <<pc, n, k, s, i, head, tail, pre>>

\* Reads the next node from the one that has moved.
MoveToFrontStale ==
  /\ pc = "do_revert" /\ p # tail
  /\ next' = insert(removenode(next, pre, p), head, p)
  /\ p' = next'[p]
  /\ UNCHANGED <<pc, n, k, s, i, head, tail, pre>>

\* The node behind pre goes to the front of the group.
MoveToFront ==
  /\ pc = "do_revert" /\ p # tail
  /\ next' = insert(removenode(next, pre, p), head, p)
  /\ p' = next[p]
  /\ UNCHANGED <<pc, n, k, s, i, head, tail, pre>>

Reverted ==
  /\ pc = "do_revert" /\ p = tail
  /\ pc' = "reverseKGroup" /\ i' = i + 1
  /\ UNCHANGED <<next, n, k, s, head, tail, pre, p>>

\* The list is prefix_head's, from its next on.
Return ==
  /\ pc = "reverseKGroup" /\ ~GroupsLeft
  /\ pc' = "main"
  /\ UNCHANGED <<next, n, k, s, i, head, tail, pre, p>>

Next ==
  \/ \E size \in 0 .. MaxNodes, group \in 1 .. MaxNodes : Call(size, group)
  \/ Size \/ DoRevert \/ MoveToFront \/ Reverted \/ Return

\* main() runs to its end.
Fairness == WF_vars(Size \/ DoRevert \/ MoveToFront \/ Reverted \/ Return)
Spec == Init /\ [][Next]_vars /\ Fairness

-----------------------------------------------------------------------------
\* The values that reverseKGroup() promises: full groups reversed, the nodes
\* left over as they were.
Reversed ==
  [j \in 1 .. n |-> LET g == (j - 1) \div k
                    IN  IF (g + 1) * k <= n THEN (2 * g + 1) * k + 1 - j ELSE j]

\* While do_revert() works on a group, the groups before it are reversed, the
\* nodes from the group's start to pre are, and the rest waits in order.
GroupsInOrder ==
  pc = "do_revert" =>
    LET start == i * k
        end   == IF p = NULL THEN n ELSE p - 1
    IN  Walk(next[PrefixHead]) =
          [j \in 1 .. n |-> IF j <= start THEN Reversed[j]
                            ELSE IF j <= end THEN start + end + 1 - j ELSE j]

\* reverseKGroup() answers with the list its caller asked for.
AnswersReversed == [][Return => Walk(next[PrefixHead]) = Reversed]_vars

\* Each call of reverseKGroup() comes to its end.
Terminates == pc # "main" ~> pc = "main"
=============================================================================
