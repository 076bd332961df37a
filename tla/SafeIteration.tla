---------------------------- MODULE SafeIteration ----------------------------
(****************************************************************************)
(* The loops of list.h over a list that changes while they run: the plain   *)
(* ones, list_for_each and list_for_each_entry, and the safe ones, which go *)
(* on when their body removes the entry it is at; forwards and backwards,   *)
(* from the head, after an entry (_continue) or at one (_from).  A loop may *)
(* also give up the lock that protects the list for a while, with its entry *)
(* pinned, and a safe one then calls list_safe_reset_next() when it has     *)
(* taken it again; meanwhile others remove any other entry and add new ones.*)
(****************************************************************************)
EXTENDS ListHeap, Sequences, Integers

CONSTANTS Order,     \* the entries; a list holds the first few, in this order
          head, NULL, POISON1, POISON2

Entries == {Order[j] : j \in DOMAIN Order}
Cells == Entries \cup {head}

ASSUME SafeIterationAssumption ==
  /\ Order \in Seq(Entries)
  /\ \A j, l \in DOMAIN Order : Order[j] = Order[l] => j = l
  /\ head \notin Entries
  /\ {NULL, POISON1, POISON2} \cap Cells = {}

VARIABLES heap,
          linked,    \* the entries on the list now
          stayed,    \* those the loop began in front of and that no other
                     \* thread has removed
          fresh,     \* those that were not put on the list yet
          dir,       \* the pointer the loop follows, "next" or "prev"
          safe,      \* whether it is a _safe one, which keeps n
          pc, pos, n,
          visited    \* the entries the body has run for
vars == <<heap, linked, stayed, fresh, dir, safe, pc, pos, n, visited>>

Place(c) == IF c = head THEN 0 ELSE CHOOSE j \in DOMAIN Order : Order[j] = c

\* The list of the first m entries, as list_add_tail() leaves it.
Listed(m) ==
  LET cell(j) == IF j \in 1 .. m THEN Order[j] ELSE head
      on(c) == Place(c) <= m
  IN  [next |-> [c \in Cells |-> IF on(c) THEN cell(Place(c) + 1) ELSE NULL],
       prev |-> [c \in Cells |-> IF c = head THEN cell(m)
                                 ELSE IF on(c) THEN cell(Place(c) - 1) ELSE NULL]]

Init ==
  /\ \E m \in 0 .. Len(Order) :
       /\ heap = Listed(m)
       /\ linked = {Order[j] : j \in 1 .. m}
  /\ stayed = {} /\ fresh = Entries \ linked
  /\ dir \in {"next", "prev"} /\ safe \in BOOLEAN
  /\ pc = "begin" /\ pos = head /\ n = head /\ visited = <<>>

\* The loop's test, with pos set to at and, in a safe loop, n to the cell after
\* it.  To follow a pointer that is no cell's is a fault.
Test(at) ==
  /\ Len(visited) <= Len(Order)   \* bound: a loop that goes round stops here
  /\ pos' = IF at \in Cells THEN at ELSE pos
  /\ n' = IF at \in Cells /\ safe THEN heap[dir][at] ELSE n
  /\ pc' = IF at \notin Cells THEN "fault" ELSE IF at = head THEN "done" ELSE "body"
  /\ visited' = IF at \in Entries THEN Append(visited, at) ELSE visited
  /\ UNCHANGED <<heap, linked, fresh, dir, safe>>

\* Does the loop come to e before f, as the list was when it began?
InFront(e, f) == IF dir = "next" THEN Place(e) < Place(f) ELSE Place(f) < Place(e)

\* The entries on the list that a loop which starts at this cell has before it.
Before(at) == IF at = head THEN {} ELSE {e \in linked : e = at \/ InFront(at, e)}

Begin(at) == pc = "begin" /\ Test(at) /\ stayed' = Before(at)

\* From the head: list_for_each, list_for_each_entry and their other forms.
ForEach == Begin(heap[dir][head])

\* After an entry, or after the head if list_prepare_entry() was given NULL.
\* There is no safe form of this one, nor of the next, that goes backwards.
ForEachContinue(e) ==
  e \in linked /\ (safe => dir = "next") /\ Begin(heap[dir][e])

ForEachFrom(e) == e \in linked /\ (safe => dir = "next") /\ Begin(e)

\* The plain loop's step: it asks the entry that may be gone.
AdvanceBare == pc = "advance" /\ Test(heap[dir][pos]) /\ UNCHANGED stayed

\* One entry too far.
AdvanceOver == pc = "advance" /\ Test(heap[dir][n]) /\ UNCHANGED stayed

Advance ==
  /\ pc = "advance"
  /\ Test(IF safe THEN n ELSE heap[dir][pos])
  /\ UNCHANGED stayed

-----------------------------------------------------------------------------
(* The body.                                                                *)

Keep ==
  /\ pc \in {"body", "locked"}
  /\ pc' = "advance"
  /\ UNCHANGED <<heap, linked, stayed, fresh, dir, safe, pos, n, visited>>

\* Only in a safe loop.
Remove ==
  /\ safe /\ pc \in {"body", "locked"}
  /\ pc' = "advance"
  /\ heap' \in {list_del(heap, pos, POISON1, POISON2), list_del_init(heap, pos)}
  /\ linked' = linked \ {pos}
  /\ UNCHANGED <<stayed, fresh, dir, safe, pos, n, visited>>

Unlock ==
  /\ pc = "body" /\ (safe => dir = "next")
  /\ pc' = "unlocked"
  /\ UNCHANGED <<heap, linked, stayed, fresh, dir, safe, pos, n, visited>>

\* Takes the lock and goes on with the n from before.
RelockStale ==
  /\ pc = "unlocked"
  /\ pc' = "locked"
  /\ UNCHANGED <<heap, linked, stayed, fresh, dir, safe, pos, n, visited>>

\* list_safe_reset_next, with the lock held; a plain loop has nothing to reset.
Relock ==
  /\ pc = "unlocked"
  /\ pc' = "locked" /\ n' = IF safe THEN heap.next[pos] ELSE n
  /\ UNCHANGED <<heap, linked, stayed, fresh, dir, safe, pos, visited>>

-----------------------------------------------------------------------------
(* The other threads.                                                       *)

OtherRemove(e) ==
  /\ pc = "unlocked" /\ e \in linked \ {pos}
  /\ heap' \in {list_del(heap, e, POISON1, POISON2), list_del_init(heap, e)}
  /\ linked' = linked \ {e} /\ stayed' = stayed \ {e}
  /\ UNCHANGED <<fresh, dir, safe, pc, pos, n, visited>>

OtherAdd(new, at) ==
  /\ pc = "unlocked" /\ new \in fresh /\ at \in linked \cup {head}
  /\ heap' = list_add(heap, new, at)
  /\ linked' = linked \cup {new} /\ fresh' = fresh \ {new}
  /\ UNCHANGED <<stayed, dir, safe, pc, pos, n, visited>>

Loop ==
  \/ ForEach \/ (\E e \in Entries : ForEachContinue(e) \/ ForEachFrom(e))
  \/ Advance \/ Keep \/ Remove \/ Relock

Other == \/ \E e \in Entries : OtherRemove(e)
         \/ \E e \in Entries, at \in Cells : OtherAdd(e, at)

Stopped ==
  /\ pc \in {"done", "fault"} \/ Len(visited) > Len(Order)
  /\ UNCHANGED vars

Next == Loop \/ Unlock \/ Other \/ Stopped

\* The thread in the loop runs, and gets the lock back.
Fairness == WF_vars(Loop)
Spec == Init /\ [][Next]_vars /\ Fairness

-----------------------------------------------------------------------------
\* The body never runs for an entry that is off the list, nor twice for one.
BodyRunsOnceEach ==
  /\ pc = "body" => pos \in linked
  /\ \A j, l \in DOMAIN visited : visited[j] = visited[l] => j = l

\* The body has run for every entry that was in front of the loop when it began
\* and stayed on the list, in the order of the list, whatever was removed or
\* added around them.
NoneSkipped ==
  pc = "done" =>
    /\ stayed \subseteq {visited[j] : j \in DOMAIN visited}
    /\ \A j, l \in DOMAIN visited :
         j < l /\ {visited[j], visited[l]} \subseteq stayed => InFront(visited[j], visited[l])

\* The loop comes to its end, and not by a fault or by going round, although
\* entries are removed and added while it runs.
LoopEnds == <>(pc = "done")
=============================================================================
