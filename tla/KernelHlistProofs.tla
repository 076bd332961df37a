--------------------------- MODULE KernelHlistProofs ---------------------------
(****************************************************************************)
(* Proofs about the hash lists of source/src/linux/list.h, for any nodes    *)
(* and heads and every sequence of calls: that a node's two pointers are    *)
(* right, and that each function edits the sequences of nodes that          *)
(* hlist_for_each meets as it says.                                         *)
(****************************************************************************)
EXTENDS KernelHlistProperties, SequenceTheorems, FiniteSetTheorems,
        WellFoundedInduction, TLAPS

-----------------------------------------------------------------------------
(* The pointers.                                                            *)

\* An unhashed node's pointers are both NULL: hlist_unhashed() tells it from
\* the others, and hlist_add_fake() may keep its next.
UnhashedIsClear ==
  \A n \in Nodes : on[n] = Unhashed => next[n] = NULL /\ pprev[n] = NULL

IInv == TypeOK /\ PprevLeadsHere /\ UnhashedIsClear

\* Initially no node is on a list.
LEMMA InitOK == Init => IInv
  BY HlistAssumption DEF Init, IInv, TypeOK, PprevLeadsHere, UnhashedIsClear, Cells,
     Hashed, Fake

\* No pointer of a list leads to a free node.
LEMMA FreeIsAlone ==
  ASSUME IInv, NEW n \in Nodes, Free(n)
  PROVE  /\ ~Hashed(n) /\ ~Fake(n) /\ n \notin Heads
         /\ \A m \in Nodes : Hashed(m) => m # n /\ next[m] # n /\ pprev[m] # n
         /\ \A m \in Nodes : Fake(m) => m # n
         /\ \A h \in Heads : next[h] # n
  BY HlistAssumption DEF IInv, TypeOK, PprevLeadsHere, Free, Hashed, Fake, Cells

\* INIT_HLIST_NODE touches only a node that no list leads to.
LEMMA InitHlistNodeKeeps ==
  ASSUME IInv, NEW n \in Nodes, InitHlistNode(n) PROVE IInv'
<1> USE HlistAssumption DEF IInv, TypeOK, PprevLeadsHere, Hashed, Fake, Cells
<1>n. \A c \in Cells : next'[c] = IF c = n THEN NULL ELSE next[c]
  BY DEF InitHlistNode
<1>p. \A m \in Nodes : pprev'[m] = IF m = n THEN NULL ELSE pprev[m]
  BY DEF InitHlistNode, Pprev
<1>o. \A m \in Nodes : on'[m] = IF m = n THEN Unhashed ELSE on[m]
  BY DEF InitHlistNode
<1>f. /\ ~Hashed(n) /\ ~Fake(n)
      /\ \A m \in Nodes : Hashed(m) => m # n /\ next[m] # n /\ pprev[m] # n
      /\ \A h \in Heads : next[h] # n
  BY FreeIsAlone DEF InitHlistNode
<1>1. TypeOK'
  BY <1>n, <1>p, <1>o, <1>f DEF InitHlistNode, Pprev
<1>2. PprevLeadsHere'
  BY <1>n, <1>p, <1>o, <1>f
<1>3. UnhashedIsClear'
  BY <1>n, <1>p, <1>o DEF UnhashedIsClear
<1> QED BY <1>1, <1>2, <1>3

\* hlist_add_head
LEMMA HlistAddHeadKeeps ==
  ASSUME IInv, NEW n \in Nodes, NEW h \in Heads, HlistAddHead(n, h) PROVE IInv'
<1> USE HlistAssumption DEF IInv, TypeOK, PprevLeadsHere, Hashed, Fake, Cells
<1>n. \A c \in Cells : next'[c] = IF c = h THEN n ELSE IF c = n THEN next[h] ELSE next[c]
  BY DEF HlistAddHead
<1>p. \A m \in Nodes : pprev'[m] = IF m = n THEN h ELSE IF m = next[h] THEN n ELSE pprev[m]
  BY DEF HlistAddHead, Pprev
<1>o. \A m \in Nodes : on'[m] = IF m = n THEN h ELSE on[m]
  BY DEF HlistAddHead
<1>f. /\ ~Hashed(n) /\ ~Fake(n) /\ n \notin Heads
      /\ \A m \in Nodes : Hashed(m) => m # n /\ next[m] # n /\ pprev[m] # n
      /\ \A m \in Nodes : Fake(m) => m # n
      /\ \A g \in Heads : next[g] # n
  BY FreeIsAlone DEF HlistAddHead
<1>h. next[h] = NULL \/ next[h] \in Nodes
  OBVIOUS
<1>1. TypeOK'
  <2>1. /\ next' \in [Cells -> Nodes \cup {NULL, POISON1}]
        /\ pprev' \in [Nodes -> Cells \cup {NULL, POISON2}]
        /\ on' \in [Nodes -> Cells \cup {Unhashed, NoList}]
    BY <1>h, <1>f DEF HlistAddHead, Pprev
  <2>2. /\ \A m \in Nodes : on'[m] \in Heads \cup {m, Unhashed, NoList}
        /\ \A g \in Heads : next'[g] \in Nodes \cup {NULL}
    BY <1>n, <1>o, <1>h, <1>f
  <2>3. ASSUME NEW m \in Nodes, on'[m] \in Heads
        PROVE  next'[m] = NULL \/ (next'[m] \in Nodes /\ on'[next'[m]] = on'[m])
    BY <2>3, <1>n, <1>o, <1>f, <1>h
  <2>4. ASSUME NEW m \in Nodes, on'[m] \in Heads
        PROVE  pprev'[m] = on'[m] \/ (pprev'[m] \in Nodes /\ on'[pprev'[m]] = on'[m])
    BY <2>4, <1>p, <1>o, <1>f, <1>h
  <2> QED BY <2>1, <2>2, <2>3, <2>4
<1>2. PprevLeadsHere'
  <2>1. ASSUME NEW m \in Nodes, on'[m] \in Heads PROVE next'[pprev'[m]] = m
    BY <2>1, <1>n, <1>p, <1>o, <1>f, <1>h
  <2>2. ASSUME NEW g \in Heads, next'[g] # NULL
        PROVE  on'[next'[g]] = g /\ pprev'[next'[g]] = g
    BY <2>2, <1>n, <1>p, <1>o, <1>f, <1>h
  <2>3. ASSUME NEW m \in Nodes, on'[m] \in Heads, next'[m] # NULL
        PROVE  pprev'[next'[m]] = m
    BY <2>3, <1>n, <1>p, <1>o, <1>f, <1>h
  <2>4. ASSUME NEW m \in Nodes, on'[m] = m PROVE pprev'[m] = m /\ next'[m] = NULL
    BY <2>4, <1>n, <1>p, <1>o, <1>f, <1>h
  <2> QED BY <2>1, <2>2, <2>3, <2>4
<1>3. UnhashedIsClear'
  BY <1>n, <1>p, <1>o, <1>f, <1>h DEF UnhashedIsClear
<1> QED BY <1>1, <1>2, <1>3

\* hlist_add_before
LEMMA HlistAddBeforeKeeps ==
  ASSUME IInv, NEW n \in Nodes, NEW b \in Nodes, HlistAddBefore(n, b) PROVE IInv'
<1> USE HlistAssumption DEF IInv, TypeOK, PprevLeadsHere, Hashed, Fake, Cells
<1>n. \A c \in Cells : next'[c] = IF c = pprev[b] THEN n ELSE IF c = n THEN b ELSE next[c]
  BY DEF HlistAddBefore
<1>p. \A m \in Nodes : pprev'[m] = IF m = b THEN n ELSE IF m = n THEN pprev[b] ELSE pprev[m]
  BY DEF HlistAddBefore, Pprev
<1>o. \A m \in Nodes : on'[m] = IF m = n THEN on[b] ELSE on[m]
  BY DEF HlistAddBefore
<1>f. /\ ~Hashed(n) /\ ~Fake(n) /\ n \notin Heads
      /\ \A m \in Nodes : Hashed(m) => m # n /\ next[m] # n /\ pprev[m] # n
      /\ \A m \in Nodes : Fake(m) => m # n
      /\ \A g \in Heads : next[g] # n
  BY FreeIsAlone DEF HlistAddBefore
<1>h. /\ on[b] \in Heads /\ b # n /\ pprev[b] \in Cells /\ pprev[b] # n /\ next[pprev[b]] = b
      /\ pprev[b] \in Heads => pprev[b] = on[b]
  BY <1>f DEF HlistAddBefore
<1>1. TypeOK'
  <2>1. /\ next' \in [Cells -> Nodes \cup {NULL, POISON1}]
        /\ pprev' \in [Nodes -> Cells \cup {NULL, POISON2}]
        /\ on' \in [Nodes -> Cells \cup {Unhashed, NoList}]
    BY <1>h, <1>f DEF HlistAddBefore, Pprev
  <2>2. /\ \A m \in Nodes : on'[m] \in Heads \cup {m, Unhashed, NoList}
        /\ \A g \in Heads : next'[g] \in Nodes \cup {NULL}
    BY <1>n, <1>o, <1>h, <1>f
  <2>3. ASSUME NEW m \in Nodes, on'[m] \in Heads
        PROVE  next'[m] = NULL \/ (next'[m] \in Nodes /\ on'[next'[m]] = on'[m])
    BY <2>3, <1>n, <1>o, <1>f, <1>h
  <2>4. ASSUME NEW m \in Nodes, on'[m] \in Heads
        PROVE  pprev'[m] = on'[m] \/ (pprev'[m] \in Nodes /\ on'[pprev'[m]] = on'[m])
    BY <2>4, <1>p, <1>o, <1>f, <1>h
  <2> QED BY <2>1, <2>2, <2>3, <2>4
<1>2. PprevLeadsHere'
  <2>1. ASSUME NEW m \in Nodes, on'[m] \in Heads PROVE next'[pprev'[m]] = m
    BY <2>1, <1>n, <1>p, <1>o, <1>f, <1>h
  <2>2. ASSUME NEW g \in Heads, next'[g] # NULL
        PROVE  on'[next'[g]] = g /\ pprev'[next'[g]] = g
    BY <2>2, <1>n, <1>p, <1>o, <1>f, <1>h
  <2>3. ASSUME NEW m \in Nodes, on'[m] \in Heads, next'[m] # NULL
        PROVE  pprev'[next'[m]] = m
    BY <2>3, <1>n, <1>p, <1>o, <1>f, <1>h
  <2>4. ASSUME NEW m \in Nodes, on'[m] = m PROVE pprev'[m] = m /\ next'[m] = NULL
    BY <2>4, <1>n, <1>p, <1>o, <1>f, <1>h
  <2> QED BY <2>1, <2>2, <2>3, <2>4
<1>3. UnhashedIsClear'
  BY <1>n, <1>p, <1>o, <1>f, <1>h DEF UnhashedIsClear
<1> QED BY <1>1, <1>2, <1>3

\* hlist_add_behind
LEMMA HlistAddBehindKeeps ==
  ASSUME IInv, NEW n \in Nodes, NEW b \in Nodes, HlistAddBehind(n, b) PROVE IInv'
<1> USE HlistAssumption DEF IInv, TypeOK, PprevLeadsHere, Hashed, Fake, Cells
<1>n. \A c \in Cells : next'[c] = IF c = b THEN n ELSE IF c = n THEN next[b] ELSE next[c]
  BY DEF HlistAddBehind
<1>p. \A m \in Nodes : pprev'[m] = IF m = n THEN b ELSE IF m = next[b] THEN n ELSE pprev[m]
  BY DEF HlistAddBehind, Pprev
<1>o. \A m \in Nodes : on'[m] = IF m = n THEN on[b] ELSE on[m]
  BY DEF HlistAddBehind
<1>f. /\ ~Hashed(n) /\ ~Fake(n) /\ n \notin Heads
      /\ \A m \in Nodes : Hashed(m) => m # n /\ next[m] # n /\ pprev[m] # n
      /\ \A m \in Nodes : Fake(m) => m # n
      /\ \A g \in Heads : next[g] # n
  BY FreeIsAlone DEF HlistAddBehind
<1>h. on[b] \in Heads /\ b # n /\ (next[b] = NULL \/ (next[b] \in Nodes /\ on[next[b]] = on[b]))
  BY <1>f DEF HlistAddBehind
<1>1. TypeOK'
  <2>1. /\ next' \in [Cells -> Nodes \cup {NULL, POISON1}]
        /\ pprev' \in [Nodes -> Cells \cup {NULL, POISON2}]
        /\ on' \in [Nodes -> Cells \cup {Unhashed, NoList}]
    BY <1>h, <1>f DEF HlistAddBehind, Pprev
  <2>2. /\ \A m \in Nodes : on'[m] \in Heads \cup {m, Unhashed, NoList}
        /\ \A g \in Heads : next'[g] \in Nodes \cup {NULL}
    BY <1>n, <1>o, <1>h, <1>f
  <2>3. ASSUME NEW m \in Nodes, on'[m] \in Heads
        PROVE  next'[m] = NULL \/ (next'[m] \in Nodes /\ on'[next'[m]] = on'[m])
    BY <2>3, <1>n, <1>o, <1>f, <1>h
  <2>4. ASSUME NEW m \in Nodes, on'[m] \in Heads
        PROVE  pprev'[m] = on'[m] \/ (pprev'[m] \in Nodes /\ on'[pprev'[m]] = on'[m])
    BY <2>4, <1>p, <1>o, <1>f, <1>h
  <2> QED BY <2>1, <2>2, <2>3, <2>4
<1>2. PprevLeadsHere'
  <2>1. ASSUME NEW m \in Nodes, on'[m] \in Heads PROVE next'[pprev'[m]] = m
    BY <2>1, <1>n, <1>p, <1>o, <1>f, <1>h
  <2>2. ASSUME NEW g \in Heads, next'[g] # NULL
        PROVE  on'[next'[g]] = g /\ pprev'[next'[g]] = g
    BY <2>2, <1>n, <1>p, <1>o, <1>f, <1>h
  <2>3. ASSUME NEW m \in Nodes, on'[m] \in Heads, next'[m] # NULL
        PROVE  pprev'[next'[m]] = m
    BY <2>3, <1>n, <1>p, <1>o, <1>f, <1>h
  <2>4. ASSUME NEW m \in Nodes, on'[m] = m PROVE pprev'[m] = m /\ next'[m] = NULL
    BY <2>4, <1>n, <1>p, <1>o, <1>f, <1>h
  <2> QED BY <2>1, <2>2, <2>3, <2>4
<1>3. UnhashedIsClear'
  BY <1>n, <1>p, <1>o, <1>f, <1>h DEF UnhashedIsClear
<1> QED BY <1>1, <1>2, <1>3

\* hlist_add_fake
LEMMA HlistAddFakeKeeps ==
  ASSUME IInv, NEW n \in Nodes, HlistAddFake(n) PROVE IInv'
<1>1. TypeOK'
  BY HlistAssumption, SMTT(30) DEF IInv, TypeOK, HlistAddFake, Pprev, Cells, Hashed
<1>2. PprevLeadsHere'
  BY HlistAssumption, SMTT(30)
     DEF IInv, TypeOK, PprevLeadsHere, UnhashedIsClear, HlistAddFake, Pprev, Cells, Hashed, Fake
<1>3. UnhashedIsClear'
  BY HlistAssumption, SMTT(30)
     DEF IInv, TypeOK, UnhashedIsClear, HlistAddFake, Pprev, Cells
<1> QED BY <1>1, <1>2, <1>3 DEF IInv

\* __hlist_del takes a node off its list, or a fake one off itself.
LEMMA UnlinkKeeps ==
  ASSUME IInv, NEW n \in Nodes, Hashed(n) \/ Fake(n),
         NEW nx \in {NULL, POISON1}, NEW pp \in {NULL, POISON2},
         NEW left \in {Unhashed, NoList}, left = Unhashed => nx = NULL /\ pp = NULL,
         Unlink(n, nx, pp), on' = [on EXCEPT ![n] = left]
  PROVE  IInv'
<1> USE HlistAssumption DEF IInv, TypeOK, PprevLeadsHere, Hashed, Fake, Cells
<1>h. /\ (pprev[n] \in Cells /\ next[pprev[n]] = n) \/ pprev[n] = n
      /\ next[n] \in Nodes \cup {NULL}
      /\ \A m \in Nodes : on[m] \in Heads =>
           /\ next[m] = n => pprev[n] = m
           /\ pprev[m] = n => next[n] = m
  OBVIOUS
<1>n. \A c \in Cells : next'[c] = IF c = n THEN nx
                                  ELSE IF c = pprev[n] THEN next[n] ELSE next[c]
  BY <1>h DEF Unlink
<1>p. \A m \in Nodes : pprev'[m] = IF m = n THEN pp
                                   ELSE IF m = next[n] THEN pprev[n] ELSE pprev[m]
  BY DEF Unlink, Pprev
<1>o. \A m \in Nodes : on'[m] = IF m = n THEN left ELSE on[m]
  OBVIOUS
<1>1. TypeOK'
  BY <1>n, <1>p, <1>o, <1>h, SMTT(30) DEF Unlink, Pprev
<1>2. PprevLeadsHere'
  BY <1>n, <1>p, <1>o, <1>h, SMTT(30)
<1>3. UnhashedIsClear'
  BY <1>n, <1>p, <1>o, <1>h DEF UnhashedIsClear
<1> QED BY <1>1, <1>2, <1>3

\* hlist_del
LEMMA HlistDelKeeps ==
  ASSUME IInv, NEW n \in Nodes, HlistDel(n) PROVE IInv'
  BY HlistAssumption, UnlinkKeeps DEF HlistDel

\* hlist_del_init, which does nothing to an unhashed node.
LEMMA HlistDelInitKeeps ==
  ASSUME IInv, NEW n \in Nodes, HlistDelInit(n) PROVE IInv'
<1>1. CASE on[n] = Unhashed
  <2>1. UNCHANGED vars
    BY <1>1, HlistAssumption
       DEF IInv, TypeOK, UnhashedIsClear, HlistDelInit, hlist_unhashed, vars
  <2> QED BY <2>1 DEF IInv, TypeOK, PprevLeadsHere, UnhashedIsClear, Hashed, Fake, vars
<1>2. CASE on[n] # Unhashed
  <2>1. Hashed(n) \/ Fake(n)
    BY <1>2 DEF IInv, TypeOK, HlistDelInit, Hashed, Fake
  <2>2. ~hlist_unhashed(n)
    BY <2>1, HlistAssumption
       DEF IInv, TypeOK, PprevLeadsHere, hlist_unhashed, Hashed, Fake, Cells
  <2>3. Unlink(n, NULL, NULL) /\ on' = [on EXCEPT ![n] = Unhashed]
    BY <2>2 DEF HlistDelInit
  <2> QED BY <2>1, <2>3, UnlinkKeeps
<1> QED BY <1>1, <1>2

\* hlist_move_list
LEMMA HlistMoveListKeeps ==
  ASSUME IInv, NEW old \in Heads, NEW new \in Heads, HlistMoveList(old, new)
  PROVE  IInv'
<1>1. TypeOK'
  BY HlistAssumption, SMTT(30)
     DEF IInv, TypeOK, PprevLeadsHere, HlistMoveList, hlist_empty, Pprev, Cells, Hashed
<1>2. PprevLeadsHere'
  BY HlistAssumption, SMTT(30)
     DEF IInv, TypeOK, PprevLeadsHere, HlistMoveList, hlist_empty, Pprev, Cells, Hashed, Fake
<1>3. UnhashedIsClear'
  BY HlistAssumption, SMTT(30)
     DEF IInv, TypeOK, PprevLeadsHere, UnhashedIsClear, HlistMoveList, Pprev, Cells, Hashed
<1> QED BY <1>1, <1>2, <1>3 DEF IInv

\* No call breaks the invariant.
LEMMA NextKeeps == IInv /\ [Next]_vars => IInv'
<1> SUFFICES ASSUME IInv, [Next]_vars PROVE IInv'
  OBVIOUS
<1>1. CASE UNCHANGED vars
  BY <1>1 DEF IInv, TypeOK, PprevLeadsHere, UnhashedIsClear, Hashed, Fake, vars
<1>2. CASE \E n \in Nodes : \/ InitHlistNode(n) \/ HlistDel(n) \/ HlistDelInit(n)
                            \/ HlistAddFake(n)
  BY <1>2, InitHlistNodeKeeps, HlistDelKeeps, HlistDelInitKeeps, HlistAddFakeKeeps
<1>3. CASE \E n \in Nodes, h \in Heads : HlistAddHead(n, h)
  BY <1>3, HlistAddHeadKeeps
<1>4. CASE \E n, m \in Nodes : HlistAddBefore(n, m) \/ HlistAddBehind(n, m)
  BY <1>4, HlistAddBeforeKeeps, HlistAddBehindKeeps
<1>5. CASE \E old, new \in Heads : HlistMoveList(old, new)
  BY <1>5, HlistMoveListKeeps
<1> QED BY <1>1, <1>2, <1>3, <1>4, <1>5 DEF Next

\* The inductive invariant of all the hlist functions.
THEOREM Integrity == Spec => []IInv
  BY InitOK, NextKeeps, PTL DEF Spec

\* For any nodes and heads, the pointers of a node on a list stay on its list.
THEOREM TypeCorrect == Spec => []TypeOK
<1>1. IInv => TypeOK
  BY DEF IInv
<1> QED BY <1>1, Integrity, PTL

\* For any nodes and heads, pprev is the address of the pointer that leads to
\* the node, whatever the calls.
THEOREM PprevAddressesTheLink == Spec => []PprevLeadsHere
<1>1. IInv => PprevLeadsHere
  BY DEF IInv
<1> QED BY <1>1, Integrity, PTL

-----------------------------------------------------------------------------
(* Walks over a list.                                                       *)

\* The stops of a walk over the sequence s from head h to the NULL.
Route(h, s) ==
  [i \in 0 .. Len(s) + 1 |-> IF i = 0 THEN h ELSE IF i > Len(s) THEN NULL ELSE s[i]]

\* The pointer in x leads to y, which points back.
Leads(x, y) == next[x] = y /\ (y # NULL => pprev[y] = x)

\* s are the nodes under h, as the pointers have them.
ListIs(h, s) ==
  /\ s \in Seq(Nodes)
  /\ \A i \in 1 .. Len(s) : on[s[i]] = h
  /\ \A i, j \in 1 .. Len(s) : s[i] = s[j] => i = j
  /\ \A i \in 0 .. Len(s) : Leads(Route(h, s)[i], Route(h, s)[i + 1])

ListsAre(L) ==
  /\ L \in [Cells -> Seq(Nodes)]
  /\ \A n \in Nodes : L[n] = <<>>
  /\ \A h \in Heads : ListIs(h, L[h])
  /\ \A n \in Nodes : Hashed(n) => \E i \in 1 .. Len(L[on[n]]) : L[on[n]][i] = n

LessThan == {ss \in Nat \X Nat : ss[1] < ss[2]}

\* A nonempty set of numbers has a least one.
LEMMA Least ==
  ASSUME NEW S, S \subseteq Nat, S # {}
  PROVE  \E m \in S : \A k \in S : m <= k
<1>1. IsWellFoundedOn(OpToRel(<, Nat), Nat)
  BY NatLessThanWellFounded
<1>2. OpToRel(<, Nat) = LessThan
  BY Zenon DEF OpToRel, LessThan
<1>3. IsWellFoundedOn(LessThan, Nat)
  BY <1>1, <1>2, Zenon
<1>4. PICK m \in S : \A k \in S : ~(<<k, m>> \in LessThan)
  BY <1>3, WFMin
<1>5. \A a, b \in Nat : a < b => <<a, b>> \in LessThan
  BY DEF LessThan
<1>6. \A k \in S : m <= k
  <2> TAKE k \in S
  <2>1. ~(k < m) /\ k \in Nat /\ m \in Nat
    BY <1>4, <1>5
  <2> QED BY <2>1
<1> QED BY <1>6

\* A list is not longer than there are cells.
LEMMA Short ==
  ASSUME NEW h \in Heads, NEW s, ListIs(h, s)
  PROVE  Len(s) \in Nat /\ Cardinality(Cells) \in Nat /\ Len(s) < Cardinality(Cells)
<1>1. s \in Seq(Nodes) /\ \A i, j \in 1 .. Len(s) : s[i] = s[j] => i = j
  BY DEF ListIs
<1>2. IsFiniteSet(Cells) /\ IsFiniteSet(Nodes)
  <2>1. IsFiniteSet(Cells)
    BY HlistAssumption DEF Cells
  <2> QED BY <2>1, FS_Subset DEF Cells
<1>3. /\ Cardinality(Nodes) \in Nat /\ Cardinality(Cells) \in Nat
      /\ Cardinality(Nodes) < Cardinality(Cells)
  <2>1. Nodes \subseteq Cells /\ Nodes # Cells
    BY HlistAssumption DEF Cells
  <2> QED BY <1>2, <2>1, FS_Subset, FS_CardinalityType
<1>4. Len(s) \in Nat /\ IsFiniteSet(1 .. Len(s)) /\ Cardinality(1 .. Len(s)) = Len(s)
  BY <1>1, FS_Interval
<1>5. ASSUME Len(s) > Cardinality(Nodes) PROVE FALSE
  <2>1. s \in [1 .. Len(s) -> Nodes]
    BY <1>1
  <2>2. PICK i, j \in 1 .. Len(s) : i # j /\ s[i] = s[j]
    BY <2>1, <1>5, <1>4, <1>2, FS_PigeonHole
  <2> QED BY <2>2, <1>1
<1> QED BY <1>3, <1>4, <1>5

\* a is that walk.
IsRoute(a, h, s) ==
  /\ Len(s) \in Nat /\ a[0] = h /\ a[Len(s) + 1] = NULL
  /\ \A i \in 1 .. Len(s) : a[i] = s[i]
  /\ \A i \in 0 .. Len(s) : a[i] \in Cells /\ a[i] # NULL
  /\ \A i \in 1 .. Len(s) : a[i] \in Nodes /\ a[i] # h

\* What a route stops at: its head, the entries of its sequence, and NULL.
LEMMA RouteIs ==
  ASSUME NEW h \in Heads, NEW s \in Seq(Nodes)
  PROVE  IsRoute(Route(h, s), h, s)
<1>0. PICK a : a = Route(h, s)
  OBVIOUS
<1>1. Len(s) \in Nat
  OBVIOUS
<1>2. a[0] = h /\ a[Len(s) + 1] = NULL /\ \A i \in 1 .. Len(s) : a[i] = s[i]
  BY <1>0, <1>1 DEF Route
<1>3. \A i \in 1 .. Len(s) : a[i] \in Nodes /\ a[i] # h
  BY <1>2, HlistAssumption
<1>4. h \in Cells /\ NULL \notin Cells /\ Nodes \subseteq Cells
  BY HlistAssumption DEF Cells
<1>5. \A i \in 0 .. Len(s) : i = 0 \/ i \in 1 .. Len(s)
  BY <1>1
<1>6. \A i \in 0 .. Len(s) : a[i] \in Cells /\ a[i] # NULL
  BY <1>2, <1>3, <1>4, <1>5
<1> QED BY <1>0, <1>1, <1>2, <1>3, <1>6 DEF IsRoute

\* A walk over s that the pointers of list h give.
Walks(a, h, s) ==
  /\ s \in Seq(Nodes) /\ IsRoute(a, h, s)
  /\ \A i \in 1 .. Len(s) : on[a[i]] = h
  /\ \A i, j \in 0 .. Len(s) : a[i] = a[j] => i = j
  /\ \A i \in 0 .. Len(s) : Leads(a[i], a[i + 1])

\* A list that reads as s under h is a walk over the route of s.
LEMMA ListWalks ==
  ASSUME NEW h \in Heads, NEW s, ListIs(h, s)
  PROVE  Walks(Route(h, s), h, s)
<1>0. PICK a : a = Route(h, s)
  OBVIOUS
<1>1. s \in Seq(Nodes) /\ \A i, j \in 1 .. Len(s) : s[i] = s[j] => i = j
  BY DEF ListIs
<1>2. IsRoute(a, h, s)
  BY <1>0, <1>1, RouteIs
<1>3. \A i, j \in 0 .. Len(s) : a[i] = a[j] => i = j
  BY <1>1, <1>2 DEF IsRoute
<1>4. \A i \in 1 .. Len(s) : on[a[i]] = h
  BY <1>2 DEF ListIs, IsRoute
<1>5. \A i \in 0 .. Len(s) : Leads(a[i], a[i + 1])
  BY <1>0 DEF ListIs
<1> QED BY <1>0, <1>1, <1>2, <1>3, <1>4, <1>5 DEF Walks

\* Conversely, a walk over the route of s, linked both ways, reads as s under h.
LEMMA WalkIsList ==
  ASSUME NEW h \in Heads, NEW s, Walks(Route(h, s), h, s)
  PROVE  ListIs(h, s)
<1>0. PICK a : a = Route(h, s)
  OBVIOUS
<1>1. Walks(a, h, s) /\ IsRoute(a, h, s) /\ s \in Seq(Nodes)
  BY <1>0 DEF Walks
<1>2. \A i \in 1 .. Len(s) : on[s[i]] = h
  BY <1>1 DEF Walks, IsRoute
<1>3. ASSUME NEW i \in 1 .. Len(s), NEW j \in 1 .. Len(s), s[i] = s[j] PROVE i = j
  <2>1. i \in 0 .. Len(s) /\ j \in 0 .. Len(s) /\ a[i] = a[j]
    BY <1>1, <1>3 DEF IsRoute
  <2> QED BY <2>1, <1>1 DEF Walks
<1>4. \A i \in 0 .. Len(s) : Leads(a[i], a[i + 1])
  BY <1>1 DEF Walks
<1> QED BY <1>0, <1>1, <1>2, <1>3, <1>4 DEF ListIs

\* The community modules' Min of a set of numbers with a least element.
LEMMA MinIs ==
  ASSUME NEW S, S \subseteq Nat, NEW m \in S, \A k \in S : m <= k PROVE Min(S) = m
<1>1. \A x \in S : (\A y \in S : x <= y) => x = m
  <2> TAKE x \in S
  <2> SUFFICES ASSUME \A y \in S : x <= y PROVE x = m
    OBVIOUS
  <2>1. x <= m /\ m <= x /\ x \in Nat /\ m \in Nat
    OBVIOUS
  <2> QED BY <2>1
<1> QED BY <1>1 DEF Min

\* hlist_for_each meets the nodes in order.
LEMMA ChainIs ==
  ASSUME NEW h \in Heads, NEW s, ListIs(h, s)
  PROVE  Chain(h) = s
<1> DEFINE N == Cardinality(Cells)
           Step(f) == [k \in 0 .. N |-> LET c == IF k = 0 THEN h ELSE f[k - 1]
                                        IN  IF c \in Cells THEN next[c] ELSE c]
           f0 == [k \in 0 .. N |-> IF k < Len(s) THEN s[k + 1] ELSE NULL]
           w == CHOOSE f : f = Step(f)
<1>1. Len(s) \in Nat /\ N \in Nat /\ Len(s) < N
  BY Short
<1>a. PICK a : a = Route(h, s)
  OBVIOUS
<1>s. s \in Seq(Nodes)
  BY DEF ListIs
<1>2. /\ a[0] = h /\ a[Len(s) + 1] = NULL /\ NULL \notin Cells
      /\ \A i \in 1 .. Len(s) : a[i] = s[i]
      /\ \A i \in 0 .. Len(s) : a[i] \in Cells /\ a[i] # NULL
      /\ \A i \in 0 .. Len(s) : next[a[i]] = a[i + 1]
  <2>1. Walks(a, h, s) /\ IsRoute(a, h, s)
    BY <1>a, ListWalks DEF Walks
  <2>2. NULL \notin Cells
    BY HlistAssumption DEF Cells
  <2> QED BY <2>1, <2>2 DEF Walks, IsRoute, Leads
<1>3. f0 = Step(f0)
  <2>1. \A k \in 0 .. N : f0[k] = Step(f0)[k]
    <3> TAKE k \in 0 .. N
    <3>1. k \in Nat /\ (k # 0 => k - 1 \in 0 .. N)
      BY <1>1
    <3>2. \A j \in 0 .. N : f0[j] = IF j < Len(s) THEN a[j + 1] ELSE NULL
      BY <1>1, <1>2
    <3>3. CASE k <= Len(s)
      <4>1. f0[k] = a[k + 1]
        <5>1. k < Len(s) \/ k = Len(s)
          BY <3>1, <3>3, <1>1
        <5> QED BY <5>1, <3>2, <1>2, <1>1
      <4>2. k \in 0 .. Len(s) /\ a[k] \in Cells /\ next[a[k]] = a[k + 1]
        BY <3>1, <3>3, <1>1, <1>2
      <4>3. k # 0 => f0[k - 1] = a[k]
        BY <3>1, <3>2, <3>3, <1>1
      <4>4. a[k] = IF k = 0 THEN h ELSE f0[k - 1]
        BY <4>3, <1>2
      <4>5. Step(f0)[k] = next[a[k]]
        BY <4>2, <4>4
      <4> QED BY <4>1, <4>2, <4>5
    <3>4. CASE k > Len(s)
      <4>1. f0[k] = NULL /\ f0[k - 1] = NULL /\ k # 0
        BY <3>1, <3>2, <3>4, <1>1
      <4> QED BY <4>1, <1>2
    <3> QED BY <3>1, <3>3, <3>4, <1>1
  <2> HIDE DEF N
  <2> QED BY <2>1
<1>4. \A f : f = Step(f) => f = f0
  <2> SUFFICES ASSUME NEW f, f = Step(f) PROVE f = f0
    OBVIOUS
  <2>1. \A k \in 0 .. N : f[k] = LET c == IF k = 0 THEN h ELSE f[k - 1]
                                 IN  IF c \in Cells THEN next[c] ELSE c
    OBVIOUS
  <2>2. \A k \in 0 .. N : f0[k] = LET c == IF k = 0 THEN h ELSE f0[k - 1]
                                  IN  IF c \in Cells THEN next[c] ELSE c
    BY <1>3
  <2> DEFINE Bad == {k \in 0 .. N : f[k] # f0[k]}
  <2>3. ASSUME Bad # {} PROVE FALSE
    <3>1. PICK k \in Bad : \A j \in Bad : k <= j
      <4>1. Bad \subseteq Nat
        BY <1>1
      <4> HIDE DEF Bad
      <4> QED BY <2>3, <4>1, Least
    <3>2. k \in 0 .. N /\ f[k] # f0[k] /\ k \in Nat /\ N \in Nat
      BY <1>1
    <3>3. k = 0 \/ (k - 1 \in 0 .. N /\ ~(k <= k - 1))
      BY <3>2
    <3>4. k = 0 \/ f[k - 1] = f0[k - 1]
      BY <3>1, <3>3
    <3> HIDE DEF f0, Bad, N
    <3> QED BY <3>2, <3>4, <2>1, <2>2
  <2>4. \A k \in 0 .. N : f[k] = f0[k]
    BY <2>3
  <2>5. f = [k \in 0 .. N |-> f[k]] /\ f0 = [k \in 0 .. N |-> f0[k]]
    OBVIOUS
  <2> HIDE DEF f0, N
  <2> QED BY <2>4, <2>5
<1>5. w = f0
  <2> HIDE DEF f0
  <2> QED BY <1>3, <1>4
<1> DEFINE ends == {k \in DOMAIN w : w[k] = NULL}
<1>6. ends = Len(s) .. N
  <2> HIDE DEF w
  <2>1. ends = {k \in 0 .. N : f0[k] = NULL}
    BY <1>5
  <2>2. \A k \in 0 .. N : f0[k] = NULL <=> k >= Len(s)
    <3>1. \A i \in 1 .. Len(s) : s[i] # NULL
      BY <1>s, HlistAssumption
    <3> QED BY <1>1, <3>1
  <2> HIDE DEF f0, ends, N
  <2> QED BY <2>1, <2>2, <1>1
<1>7. ends # {} /\ Min(ends) = Len(s)
  <2> HIDE DEF ends, N
  <2>1. ends \subseteq Nat /\ Len(s) \in ends /\ \A k \in ends : Len(s) <= k
    BY <1>6, <1>1
  <2> QED BY <2>1, MinIs
<1>8. Chain(h) = [i \in 1 .. Min(ends) |-> w[i - 1]]
  <2>1. Chain(h) = IF ends = {} THEN NoList ELSE [i \in 1 .. Min(ends) |-> w[i - 1]]
    BY DEF Chain
  <2> HIDE DEF ends, w
  <2> QED BY <2>1, <1>7
<1>9. Chain(h) = [i \in 1 .. Len(s) |-> f0[i - 1]]
  <2> HIDE DEF ends, w, f0
  <2> QED BY <1>8, <1>7, <1>5
<1>10. \A i \in 1 .. Len(s) : f0[i - 1] = s[i]
  BY <1>1
<1>11. s = [i \in 1 .. Len(s) |-> s[i]]
  BY DEF ListIs
<1> HIDE DEF f0
<1> QED BY <1>9, <1>10, <1>11

-----------------------------------------------------------------------------
(* Lists as sequences.                                                      *)

\* The lists are what the loop finds.
LEMMA ContentsAre == ASSUME NEW L, ListsAre(L) PROVE Contents = L
<1>1. \A c \in Cells : L[c] = IF c \in Heads THEN Chain(c) ELSE <<>>
  BY ChainIs DEF ListsAre, Cells
<1>2. L = [c \in Cells |-> L[c]]
  BY DEF ListsAre
<1> QED BY <1>1, <1>2 DEF Contents

\* HeadOf answers the one head whose list holds the node, or the node itself.
LEMMA HeadIs ==
  ASSUME NEW L, ListsAre(L), NEW c \in Cells, c \notin Nodes \/ ~Hashed(c)
  PROVE  Abstract!HeadOf(L, c) = c
<1>1. ASSUME NEW h \in Cells, c \in Abstract!ToSet(L[h]) PROVE FALSE
  <2>1. PICK i \in DOMAIN L[h] : L[h][i] = c
    BY <1>1 DEF Abstract!ToSet
  <2>2. CASE h \in Heads
    <3>1. L[h] \in Seq(Nodes) /\ i \in 1 .. Len(L[h])
      BY <2>1, <2>2 DEF ListsAre, ListIs
    <3>2. on[c] = h /\ c \in Nodes
      BY <2>1, <2>2, <3>1 DEF ListsAre, ListIs
    <3> QED BY <3>2, <2>2 DEF Hashed
  <2>3. CASE h \in Nodes
    BY <2>1, <2>3 DEF ListsAre
  <2> QED BY <2>2, <2>3 DEF Cells
<1> QED BY <1>1 DEF Abstract!HeadOf

\* Place answers where in its sequence a node stands.
LEMMA PlaceIs ==
  ASSUME NEW L, ListsAre(L), NEW h \in Heads, NEW i \in 1 .. Len(L[h])
  PROVE  /\ L[h][i] \in Nodes /\ Hashed(L[h][i]) /\ on[L[h][i]] = h
         /\ Abstract!HeadOf(L, L[h][i]) = h
         /\ Abstract!Place(L, L[h][i]) = i
<1> DEFINE n == L[h][i]
<1>1. /\ L[h] \in Seq(Nodes) /\ n \in Nodes /\ on[n] = h
      /\ \A j \in 1 .. Len(L[h]) : L[h][j] = n => j = i
  BY DEF ListsAre, ListIs
<1>2. h \in Cells /\ n \in Abstract!ToSet(L[h])
  BY <1>1 DEF Cells, Abstract!ToSet
<1>3. ASSUME NEW g \in Cells, n \in Abstract!ToSet(L[g]) PROVE g = h
  <2>1. PICK j \in DOMAIN L[g] : L[g][j] = n
    BY <1>3 DEF Abstract!ToSet
  <2>2. CASE g \in Heads
    BY <2>1, <2>2, <1>1 DEF ListsAre, ListIs
  <2>3. CASE g \in Nodes
    BY <2>1, <2>3 DEF ListsAre
  <2> QED BY <2>2, <2>3 DEF Cells
<1>4. Abstract!HeadOf(L, n) = h
  <2> HIDE DEF n
  <2> QED BY <1>2, <1>3 DEF Abstract!HeadOf
<1>5. Abstract!Place(L, n) = i
  <2>1. Abstract!Place(L, n) = CHOOSE j \in DOMAIN L[h] : L[h][j] = n
    BY <1>4 DEF Abstract!Place
  <2> QED BY <2>1, <1>1
<1> QED BY <1>1, <1>4, <1>5 DEF Hashed

\* c is a and then b.
Joined(c, a, b) ==
  /\ Len(c) = Len(a) + Len(b)
  /\ \A i \in 1 .. Len(c) : c[i] = IF i <= Len(a) THEN a[i] ELSE b[i - Len(a)]

\* What the concatenation of two sequences holds at each place.
LEMMA JoinIs ==
  ASSUME NEW S, NEW a \in Seq(S), NEW b \in Seq(S)
  PROVE  a \o b \in Seq(S) /\ Joined(a \o b, a, b)
  BY ConcatProperties DEF Joined

\* t is s with r put behind the first k.
Pieces(t, s, r, k) ==
  /\ Len(t) = Len(s) + Len(r)
  /\ \A i \in 1 .. Len(t) :
       t[i] = IF i <= k THEN s[i] ELSE IF i <= k + Len(r) THEN r[i - k] ELSE s[i - Len(r)]

\* What Take and Drop leave of a sequence, at each place.
LEMMA PiecesAre ==
  ASSUME NEW S, NEW s \in Seq(S), NEW k \in 0 .. Len(s), NEW r \in Seq(S),
         NEW t, t = Abstract!Take(s, k) \o r \o Abstract!Drop(s, k)
  PROVE  t \in Seq(S) /\ Pieces(t, s, r, k)
<1>1. PICK a : a = SubSeq(s, 1, k)
  OBVIOUS
<1>2. PICK b : b = SubSeq(s, k + 1, Len(s))
  OBVIOUS
<1>3. PICK ar : ar = a \o r
  OBVIOUS
<1>4. t = ar \o b
  BY <1>1, <1>2, <1>3 DEF Abstract!Take, Abstract!Drop
<1>5. /\ a \in Seq(S) /\ Len(a) = k /\ \A i \in 1 .. k : a[i] = s[i]
      /\ b \in Seq(S) /\ Len(b) = Len(s) - k
      /\ \A i \in 1 .. Len(s) - k : b[i] = s[k + i]
  BY <1>1, <1>2, SubSeqProperties
<1>6. /\ ar \in Seq(S) /\ Len(ar) = k + Len(r)
      /\ \A i \in 1 .. Len(ar) : ar[i] = IF i <= k THEN a[i] ELSE r[i - k]
  <2>1. a \in Seq(S) /\ Len(a) = k
    BY <1>5
  <2>2. ar \in Seq(S) /\ Joined(ar, a, r)
    BY <1>3, <2>1, JoinIs
  <2> QED BY <2>1, <2>2 DEF Joined
<1>7. /\ t \in Seq(S) /\ Len(t) = Len(ar) + Len(b)
      /\ \A i \in 1 .. Len(t) : t[i] = IF i <= Len(ar) THEN ar[i] ELSE b[i - Len(ar)]
  <2>1. ar \in Seq(S) /\ b \in Seq(S)
    BY <1>5, <1>6
  <2>2. t \in Seq(S) /\ Joined(t, ar, b)
    BY <1>4, <2>1, JoinIs
  <2> QED BY <2>2 DEF Joined
<1>8. Len(s) \in Nat /\ Len(r) \in Nat
  OBVIOUS
<1>9. Len(t) = Len(s) + Len(r)
  BY <1>5, <1>6, <1>7, <1>8
<1>10. ASSUME NEW i \in 1 .. Len(t)
       PROVE  t[i] = IF i <= k THEN s[i]
                     ELSE IF i <= k + Len(r) THEN r[i - k] ELSE s[i - Len(r)]
  <2>1. CASE i <= k + Len(r)
    <3>1. t[i] = ar[i] /\ i \in 1 .. Len(ar)
      BY <1>6, <1>7, <1>8, <2>1
    <3>2. ar[i] = IF i <= k THEN s[i] ELSE r[i - k]
      BY <1>5, <1>6, <1>8, <3>1
    <3> QED BY <3>1, <3>2, <2>1, <1>8
  <2>2. CASE ~(i <= k + Len(r))
    <3>1. i - (k + Len(r)) \in 1 .. Len(s) - k /\ k + (i - (k + Len(r))) = i - Len(r)
      BY <2>2, <1>8, <1>9
    <3>2. t[i] = b[i - (k + Len(r))]
      BY <1>6, <1>7, <1>8, <2>2
    <3>3. b[i - (k + Len(r))] = s[i - Len(r)]
      BY <3>1, <1>5
    <3> QED BY <3>2, <3>3, <2>2, <1>8
  <2> QED BY <2>1, <2>2
<1> QED BY <1>7, <1>9, <1>10 DEF Pieces

-----------------------------------------------------------------------------
(* A node is added.                                                         *)

\* WalkIsList, said of the pointers after a step.
LEMMA WalkIsListNext ==
  \A h \in Heads : \A s : Walks(Route(h, s), h, s)' => ListIs(h, s)'
<1>1. \A h \in Heads : \A s : Walks(Route(h, s), h, s) => ListIs(h, s)
  BY WalkIsList
<1>2. (\A h \in Heads : \A s : Walks(Route(h, s), h, s) => ListIs(h, s))'
  BY <1>1, PTL
<1> QED BY <1>2

\* A list none of whose pointers is changed stays as it is.
LEMMA OtherKeeps ==
  ASSUME NEW g \in Heads, NEW r, ListIs(g, r), next'[g] = next[g],
         \A m \in Nodes : on[m] = g => on'[m] = g /\ next'[m] = next[m] /\ pprev'[m] = pprev[m]
  PROVE  ListIs(g, r)'
<1>1. PICK a : a = Route(g, r)
  OBVIOUS
<1>2. Walks(a, g, r) /\ IsRoute(a, g, r)
  BY <1>1, ListWalks DEF Walks
<1>3. ASSUME NEW i \in 0 .. Len(r) PROVE Leads(a[i], a[i + 1])'
  <2>1. i = 0 \/ i \in 1 .. Len(r)
    BY <1>2 DEF IsRoute
  <2>2. i = Len(r) \/ i + 1 \in 1 .. Len(r)
    BY <1>2 DEF IsRoute
  <2>3. next'[a[i]] = next[a[i]]
    BY <1>2, <2>1 DEF Walks, IsRoute
  <2>4. a[i + 1] = NULL \/ pprev'[a[i + 1]] = pprev[a[i + 1]]
    BY <1>2, <2>2 DEF Walks, IsRoute
  <2>5. Leads(a[i], a[i + 1])
    BY <1>2 DEF Walks
  <2> QED BY <2>3, <2>4, <2>5 DEF Leads
<1>4. \A i \in 1 .. Len(r) : on'[a[i]] = g
  BY <1>2 DEF Walks, IsRoute
<1>5. Walks(a, g, r)'
  BY <1>2, <1>3, <1>4 DEF Walks, IsRoute
<1>6. Walks(Route(g, r), g, r)'
  BY <1>1, <1>5
<1> QED BY <1>6, WalkIsListNext

\* One list's sequence is replaced.
LEMMA OneListChanges ==
  ASSUME NEW L, ListsAre(L), NEW h \in Heads, NEW s, ListIs(h, s)',
         \A m \in Nodes : on'[m] = h => \E i \in 1 .. Len(s) : s[i] = m,
         \A g \in Heads \ {h} : next'[g] = next[g],
         \A m \in Nodes : on'[m] \in Heads \ {h} => on'[m] = on[m],
         \A g \in Heads \ {h} : \A m \in Nodes :
           on[m] = g => on'[m] = g /\ next'[m] = next[m] /\ pprev'[m] = pprev[m]
  PROVE  ListsAre([L EXCEPT ![h] = s])'
<1> DEFINE M == [L EXCEPT ![h] = s]
<1>1. L \in [Cells -> Seq(Nodes)] /\ h \in Cells /\ h \notin Nodes
  BY HlistAssumption DEF ListsAre, Cells
<1>2. M \in [Cells -> Seq(Nodes)] /\ M[h] = s /\ \A c \in Cells \ {h} : M[c] = L[c]
  BY <1>1 DEF ListIs
<1> HIDE DEF M
<1>3. \A n \in Nodes : M[n] = <<>>
  BY <1>1, <1>2 DEF ListsAre, Cells
<1>4. ASSUME NEW g \in Heads PROVE ListIs(g, M[g])'
  <2>1. CASE g = h
    BY <2>1, <1>2
  <2>2. CASE g # h
    <3>1. M[g] = L[g] /\ ListIs(g, L[g])
      BY <2>2, <1>2 DEF ListsAre, Cells
    <3>2. ListIs(g, L[g])'
      BY <2>2, <3>1, OtherKeeps
    <3> QED BY <3>1, <3>2
  <2> QED BY <2>1, <2>2
<1>5. ASSUME NEW m \in Nodes, Hashed(m)' PROVE \E i \in 1 .. Len(M[on'[m]]) : M[on'[m]][i] = m
  <2>1. CASE on'[m] = h
    BY <2>1, <1>2
  <2>2. CASE on'[m] # h
    <3>1. on'[m] \in Heads \ {h} /\ on'[m] = on[m] /\ M[on[m]] = L[on[m]]
      BY <1>5, <2>2, <1>2 DEF Hashed, Cells
    <3> QED BY <3>1 DEF ListsAre, Hashed
  <2> QED BY <2>1, <2>2
<1> QED BY <1>2, <1>3, <1>4, <1>5 DEF ListsAre, M

\* The walk b is the walk a, of m nodes, with n behind the stop k.
WalkWith(a, b, m, k, n) ==
  /\ \A i \in 0 .. k : b[i] = a[i]
  /\ b[k + 1] = n
  /\ \A i \in k + 1 .. m + 1 : b[i + 1] = a[i]

\* An added node is on the list, between the two stops that it is told.
LEMMA InsertedIs ==
  ASSUME NEW h \in Heads, NEW r \in Seq(Nodes), NEW k \in 0 .. Len(r), NEW n \in Nodes,
         NEW s, s = Abstract!Take(r, k) \o <<n>> \o Abstract!Drop(r, k)
  PROVE  /\ s \in Seq(Nodes) /\ Len(s) = Len(r) + 1
         /\ WalkWith(Route(h, r), Route(h, s), Len(r), k, n)
<1>1. PICK a : a = Route(h, r)
  OBVIOUS
<1>2. PICK b : b = Route(h, s)
  OBVIOUS
<1>3. PICK w : w = <<n>>
  OBVIOUS
<1>4. w \in Seq(Nodes) /\ Len(w) = 1 /\ w[1] = n
  BY <1>3
<1>5. Pieces(s, r, w, k) /\ s \in Seq(Nodes)
  BY <1>3, <1>4, PiecesAre
<1>6. IsRoute(a, h, r) /\ IsRoute(b, h, s)
  BY <1>1, <1>2, <1>5, RouteIs
<1>7. /\ Len(s) = Len(r) + 1 /\ Len(r) \in Nat
      /\ \A i \in 1 .. Len(s) : s[i] = IF i <= k THEN r[i]
                                      ELSE IF i <= k + 1 THEN w[i - k] ELSE r[i - 1]
  BY <1>4, <1>5 DEF Pieces
<1>8. ASSUME NEW i \in 0 .. k PROVE b[i] = a[i]
  <2>1. i = 0 \/ (i \in 1 .. Len(r) /\ i \in 1 .. Len(s) /\ i <= k)
    BY <1>7
  <2> QED BY <2>1, <1>6, <1>7 DEF IsRoute
<1>9. b[k + 1] = n
  <2>1. k + 1 \in 1 .. Len(s) /\ ~(k + 1 <= k) /\ (k + 1) - k = 1
    BY <1>7
  <2>2. s[k + 1] = w[1]
    BY <2>1, <1>7
  <2> QED BY <2>1, <2>2, <1>4, <1>6 DEF IsRoute
<1>10. ASSUME NEW i \in k + 1 .. Len(r) + 1 PROVE b[i + 1] = a[i]
  <2>1. CASE i = Len(r) + 1
    BY <2>1, <1>6, <1>7 DEF IsRoute
  <2>2. CASE i # Len(r) + 1
    <3>1. /\ i + 1 \in 1 .. Len(s) /\ i \in 1 .. Len(r) /\ (i + 1) - 1 = i
          /\ ~(i + 1 <= k) /\ ~(i + 1 <= k + 1)
      BY <2>2, <1>7
    <3>2. s[i + 1] = r[(i + 1) - 1]
      BY <3>1, <1>7
    <3> QED BY <3>1, <3>2, <1>6 DEF IsRoute
  <2> QED BY <2>1, <2>2
<1>11. WalkWith(a, b, Len(r), k, n)
  BY <1>8, <1>9, <1>10 DEF WalkWith
<1> QED BY <1>1, <1>2, <1>5, <1>7, <1>11

\* n is linked between x and y, and is on list h.
LinksIn(x, n, y, h) ==
  /\ \A c \in Cells : next'[c] = IF c = x THEN n ELSE IF c = n THEN y ELSE next[c]
  /\ \A m \in Nodes : pprev'[m] = IF m = n THEN x ELSE IF m = y THEN n ELSE pprev[m]
  /\ \A m \in Nodes : on'[m] = IF m = n THEN h ELSE on[m]

\* A walk comes by the new node, and else goes as before.
LEMMA WalkInserted ==
  ASSUME NEW h \in Heads, NEW r, NEW s \in Seq(Nodes), NEW a, NEW b, Walks(a, h, r),
         IsRoute(b, h, s), Len(s) = Len(r) + 1, NEW k \in 0 .. Len(r),
         NEW n \in Nodes, on[n] # h, WalkWith(a, b, Len(r), k, n),
         LinksIn(a[k], n, a[k + 1], h)
  PROVE  Walks(b, h, s)'
<1>1. PICK m : m = Len(r)
  OBVIOUS
<1>2. PICK x : x = a[k]
  OBVIOUS
<1>3. PICK y : y = a[k + 1]
  OBVIOUS
<1>4. /\ m \in Nat /\ k \in 0 .. m /\ Len(s) = m + 1 /\ a[0] = h /\ a[m + 1] = NULL
      /\ \A i \in 0 .. m : a[i] \in Cells /\ a[i] # NULL
      /\ \A i \in 1 .. m : a[i] \in Nodes /\ a[i] # h /\ on[a[i]] = h
      /\ \A i, j \in 0 .. m : a[i] = a[j] => i = j
      /\ \A i \in 0 .. m : Leads(a[i], a[i + 1])
  BY <1>1 DEF Walks, IsRoute
<1>5. /\ \A i \in 0 .. k : b[i] = a[i]
      /\ b[k + 1] = n
      /\ \A i \in k + 1 .. m + 1 : b[i + 1] = a[i]
  BY <1>1 DEF WalkWith
<1>6. /\ \A c \in Cells : next'[c] = IF c = x THEN n ELSE IF c = n THEN y ELSE next[c]
      /\ \A c \in Nodes : pprev'[c] = IF c = n THEN x ELSE IF c = y THEN n ELSE pprev[c]
      /\ \A c \in Nodes : on'[c] = IF c = n THEN h ELSE on[c]
  BY <1>2, <1>3 DEF LinksIn
<1>7. h \in Cells /\ n \in Cells /\ h # n /\ NULL \notin Cells /\ Nodes \subseteq Cells
  BY HlistAssumption DEF Cells
<1>8. \A i \in 0 .. m : a[i] # n
  <2>1. \A i \in 0 .. m : i = 0 \/ i \in 1 .. m
    BY <1>4
  <2> QED BY <2>1, <1>4, <1>7
<1>9. ASSUME NEW i \in 0 .. m, i # k PROVE Leads(a[i], a[i + 1])'
  <2>1. next'[a[i]] = a[i + 1]
    BY <1>2, <1>4, <1>6, <1>8, <1>9 DEF Leads
  <2>2. CASE i = m
    BY <2>1, <2>2, <1>4 DEF Leads
  <2>3. CASE i # m
    <3>1. i + 1 \in 1 .. m /\ i + 1 \in 0 .. m /\ i + 1 # k + 1
      BY <2>3, <1>4, <1>9
    <3>2. a[i + 1] \in Nodes /\ a[i + 1] # n /\ a[i + 1] # NULL
      BY <3>1, <1>4, <1>8
    <3>3. a[i + 1] # y
      <4>1. k = m \/ k + 1 \in 0 .. m
        BY <1>4
      <4> QED BY <4>1, <3>1, <3>2, <1>3, <1>4
    <3>4. pprev'[a[i + 1]] = a[i]
      BY <3>2, <3>3, <1>4, <1>6 DEF Leads
    <3> QED BY <2>1, <3>4 DEF Leads
  <2> QED BY <2>2, <2>3
<1>10. Leads(x, n)' /\ Leads(n, y)'
  <2>1. x \in Cells /\ x # n
    BY <1>2, <1>4, <1>8
  <2>2. y = NULL \/ (y \in Nodes /\ y # n)
    <3>1. k = m \/ (k + 1 \in 1 .. m /\ k + 1 \in 0 .. m)
      BY <1>4
    <3> QED BY <3>1, <1>3, <1>4, <1>8
  <2> QED BY <2>1, <2>2, <1>6, <1>7 DEF Leads
<1>11. ASSUME NEW i \in 0 .. m + 1 PROVE Leads(b[i], b[i + 1])'
  <2>1. CASE i < k
    <3>1. i \in 0 .. k /\ i + 1 \in 0 .. k /\ i \in 0 .. m /\ i # k
      BY <2>1, <1>4
    <3> QED BY <3>1, <1>5, <1>9
  <2>2. CASE i = k
    <3>1. b[i] = x /\ b[i + 1] = n
      BY <2>2, <1>2, <1>4, <1>5
    <3> QED BY <3>1, <1>10
  <2>3. CASE i = k + 1
    <3>1. k + 1 \in k + 1 .. m + 1
      BY <1>4
    <3>2. b[i] = n /\ b[i + 1] = y
      BY <2>3, <3>1, <1>3, <1>5
    <3> QED BY <3>2, <1>10
  <2>4. CASE i > k + 1
    <3>1. PICK j : j = i - 1
      OBVIOUS
    <3>2. j \in k + 1 .. m + 1 /\ j + 1 \in k + 1 .. m + 1 /\ j \in 0 .. m /\ j # k /\ i = j + 1
      BY <2>4, <3>1, <1>4
    <3>3. b[i] = a[j] /\ b[i + 1] = a[j + 1]
      BY <3>2, <1>5
    <3> QED BY <3>2, <3>3, <1>9
  <2> QED BY <2>1, <2>2, <2>3, <2>4, <1>4
<1>12. ASSUME NEW i \in 0 .. m + 1
       PROVE  \/ i \in 0 .. k /\ b[i] = a[i]
              \/ i = k + 1 /\ b[i] = n
              \/ \E j \in k + 1 .. m : i = j + 1 /\ b[i] = a[j]
  <2>1. CASE i <= k
    BY <2>1, <1>4, <1>5
  <2>2. CASE i = k + 1
    BY <2>2, <1>5
  <2>3. CASE i > k + 1
    <3>1. PICK j : j = i - 1
      OBVIOUS
    <3>2. j \in k + 1 .. m /\ i = j + 1 /\ j \in k + 1 .. m + 1
      BY <2>3, <3>1, <1>4
    <3> QED BY <3>2, <1>5
  <2> QED BY <2>1, <2>2, <2>3, <1>4
<1>13. ASSUME NEW i \in 0 .. m + 1, NEW j \in 0 .. m + 1, b[i] = b[j] PROVE i = j
  <2>1. \A l \in 0 .. k : l \in 0 .. m
    BY <1>4
  <2>2. \A l \in k + 1 .. m : l \in 0 .. m /\ ~(l \in 0 .. k)
    BY <1>4
  <2>3. CASE i = k + 1 \/ j = k + 1
    BY <2>1, <2>2, <2>3, <1>5, <1>8, <1>12, <1>13
  <2>4. CASE i # k + 1 /\ j # k + 1
    <3>1. PICK i0 \in 0 .. m : b[i] = a[i0] /\ (IF i0 <= k THEN i = i0 ELSE i = i0 + 1)
      BY <2>1, <2>2, <2>4, <1>4, <1>12
    <3>2. PICK j0 \in 0 .. m : b[j] = a[j0] /\ (IF j0 <= k THEN j = j0 ELSE j = j0 + 1)
      BY <2>1, <2>2, <2>4, <1>4, <1>12
    <3>3. i0 = j0
      BY <3>1, <3>2, <1>4, <1>13
    <3> QED BY <3>1, <3>2, <3>3
  <2> QED BY <2>3, <2>4
<1>14. ASSUME NEW i \in 1 .. m + 1 PROVE on'[b[i]] = h
  <2>1. i \in 0 .. m + 1 /\ i # 0
    BY <1>4
  <2>2. CASE i = k + 1
    BY <2>2, <1>5, <1>6
  <2>3. CASE i # k + 1
    <3>1. PICK i0 \in 1 .. m : b[i] = a[i0]
      <4>1. \A l \in 0 .. k : l # 0 => l \in 1 .. m
        BY <1>4
      <4>2. \A l \in k + 1 .. m : l \in 1 .. m
        BY <1>4
      <4> QED BY <4>1, <4>2, <2>1, <2>3, <1>12
    <3>2. a[i0] \in Nodes /\ on[a[i0]] = h
      BY <3>1, <1>4
    <3>3. on'[a[i0]] = h
      BY <3>2, <1>6
    <3> QED BY <3>1, <3>3
  <2> QED BY <2>2, <2>3
<1>15. /\ \A i \in 1 .. Len(s) : on'[b[i]] = h
       /\ \A i, j \in 0 .. Len(s) : b[i] = b[j] => i = j
       /\ \A i \in 0 .. Len(s) : Leads(b[i], b[i + 1])'
  BY <1>4, <1>11, <1>13, <1>14
<1> QED BY <1>15 DEF Walks, IsRoute

-----------------------------------------------------------------------------
(* A node is removed.                                                       *)

\* Without a node, the walk is the one that comes by it but for it.
LEMMA RemovedIs ==
  ASSUME NEW h \in Heads, NEW r \in Seq(Nodes), NEW k \in 1 .. Len(r),
         NEW s, s = Abstract!Take(r, k - 1) \o Abstract!Drop(r, k)
  PROVE  /\ s \in Seq(Nodes) /\ Len(r) = Len(s) + 1 /\ k - 1 \in 0 .. Len(s)
         /\ WalkWith(Route(h, s), Route(h, r), Len(s), k - 1, r[k])
<1>1. PICK a : a = Route(h, s)
  OBVIOUS
<1>2. PICK b : b = Route(h, r)
  OBVIOUS
<1>3. PICK u : u = SubSeq(r, 1, k - 1)
  OBVIOUS
<1>4. PICK v : v = SubSeq(r, k + 1, Len(r))
  OBVIOUS
<1>5. /\ u \in Seq(Nodes) /\ Len(u) = k - 1 /\ \A i \in 1 .. k - 1 : u[i] = r[i]
      /\ v \in Seq(Nodes) /\ Len(v) = Len(r) - k
      /\ \A i \in 1 .. Len(r) - k : v[i] = r[k + i]
  BY <1>3, <1>4, SubSeqProperties
<1>6. s = u \o v
  BY <1>3, <1>4 DEF Abstract!Take, Abstract!Drop
<1>7. s \in Seq(Nodes) /\ Joined(s, u, v)
  BY <1>5, <1>6, JoinIs
<1>8. /\ Len(r) \in Nat /\ Len(s) \in Nat /\ Len(r) = Len(s) + 1 /\ k - 1 \in 0 .. Len(s)
      /\ \A i \in 1 .. Len(s) : s[i] = IF i <= k - 1 THEN u[i] ELSE v[i - (k - 1)]
  <2>1. Len(s) = Len(u) + Len(v)
    BY <1>7 DEF Joined
  <2>2. Len(r) \in Nat /\ Len(s) = (k - 1) + (Len(r) - k)
    BY <2>1, <1>5
  <2>3. Len(s) \in Nat /\ Len(r) = Len(s) + 1 /\ k - 1 \in 0 .. Len(s)
    BY <2>2
  <2>4. \A i \in 1 .. Len(s) : s[i] = IF i <= Len(u) THEN u[i] ELSE v[i - Len(u)]
    BY <1>7 DEF Joined
  <2> QED BY <2>2, <2>3, <2>4, <1>5
<1>9. IsRoute(a, h, s) /\ IsRoute(b, h, r)
  BY <1>1, <1>2, <1>7, RouteIs
<1>10. ASSUME NEW i \in 0 .. k - 1 PROVE b[i] = a[i]
  <2>1. CASE i = 0
    BY <2>1, <1>9 DEF IsRoute
  <2>2. CASE i # 0
    <3>1. i \in 1 .. k - 1 /\ i \in 1 .. Len(s) /\ i \in 1 .. Len(r) /\ i <= k - 1
      BY <2>2, <1>8
    <3>2. s[i] = r[i]
      BY <3>1, <1>5, <1>8
    <3> QED BY <3>1, <3>2, <1>9 DEF IsRoute
  <2> QED BY <2>1, <2>2
<1>11. b[(k - 1) + 1] = r[k]
  BY <1>9 DEF IsRoute
<1>12. ASSUME NEW i \in (k - 1) + 1 .. Len(s) + 1 PROVE b[i + 1] = a[i]
  <2>1. CASE i = Len(s) + 1
    BY <2>1, <1>8, <1>9 DEF IsRoute
  <2>2. CASE i # Len(s) + 1
    <3>1. PICK j : j = i - (k - 1)
      OBVIOUS
    <3>2. /\ i \in 1 .. Len(s) /\ i + 1 \in 1 .. Len(r) /\ ~(i <= k - 1)
          /\ j \in 1 .. Len(r) - k /\ k + j = i + 1
      BY <2>2, <3>1, <1>8
    <3>3. s[i] = r[i + 1]
      BY <3>1, <3>2, <1>5, <1>8
    <3> QED BY <3>2, <3>3, <1>9 DEF IsRoute
  <2> QED BY <2>1, <2>2
<1>13. WalkWith(a, b, Len(s), k - 1, r[k])
  BY <1>10, <1>11, <1>12 DEF WalkWith
<1> QED BY <1>1, <1>2, <1>7, <1>8, <1>13

\* n is unlinked from between x and y, and only the links around it change.
LinksOut(x, n, y) ==
  /\ \A c \in Cells : c # n => next'[c] = IF c = x THEN y ELSE next[c]
  /\ \A c \in Nodes : c # n => pprev'[c] = IF c = y THEN x ELSE pprev[c]
  /\ \A c \in Nodes : c # n => on'[c] = on[c]

\* A walk passes by a node that was unlinked.
LEMMA WalkRemoved ==
  ASSUME NEW h \in Heads, NEW r, NEW s \in Seq(Nodes), NEW a, NEW b, Walks(a, h, r),
         IsRoute(b, h, s), Len(r) = Len(s) + 1, NEW k \in 0 .. Len(s), NEW n,
         WalkWith(b, a, Len(s), k, n), LinksOut(b[k], n, b[k + 1])
  PROVE  Walks(b, h, s)'
<1>1. PICK m : m = Len(s)
  OBVIOUS
<1>2. PICK x : x = b[k]
  OBVIOUS
<1>3. PICK y : y = b[k + 1]
  OBVIOUS
<1>4. /\ m \in Nat /\ k \in 0 .. m /\ Len(r) = m + 1
      /\ \A i, j \in 0 .. m + 1 : a[i] = a[j] => i = j
      /\ \A i \in 1 .. m + 1 : on[a[i]] = h
      /\ \A i \in 0 .. m + 1 : Leads(a[i], a[i + 1])
  BY <1>1 DEF Walks, IsRoute
<1>5. /\ \A i \in 0 .. k : a[i] = b[i]
      /\ a[k + 1] = n
      /\ \A i \in k + 1 .. m + 1 : a[i + 1] = b[i]
  BY <1>1 DEF WalkWith
<1>6. /\ \A c \in Cells : c # n => next'[c] = IF c = x THEN y ELSE next[c]
      /\ \A c \in Nodes : c # n => pprev'[c] = IF c = y THEN x ELSE pprev[c]
      /\ \A c \in Nodes : c # n => on'[c] = on[c]
  BY <1>2, <1>3 DEF LinksOut
<1>7. /\ b[0] = h /\ b[m + 1] = NULL
      /\ \A i \in 0 .. m : b[i] \in Cells /\ b[i] # NULL
      /\ \A i \in 1 .. m : b[i] \in Nodes
  BY <1>1 DEF IsRoute
<1>8. ASSUME NEW i \in 0 .. m
      PROVE  \/ i \in 0 .. k /\ i \in 0 .. m + 1 /\ i # k + 1 /\ b[i] = a[i]
             \/ i > k /\ i + 1 \in 0 .. m + 1 /\ i + 1 # k + 1 /\ b[i] = a[i + 1]
  <2>1. CASE i <= k
    <3>1. i \in 0 .. k /\ i \in 0 .. m + 1 /\ i # k + 1
      BY <2>1, <1>4
    <3> QED BY <3>1, <1>5
  <2>2. CASE i > k
    <3>1. i \in k + 1 .. m + 1 /\ i + 1 \in 0 .. m + 1 /\ i + 1 # k + 1
      BY <2>2, <1>4
    <3> QED BY <3>1, <2>2, <1>5
  <2> QED BY <2>1, <2>2, <1>4
<1>9. k + 1 \in 0 .. m + 1
  BY <1>4
<1>10. \A i \in 0 .. m : b[i] # n
  BY <1>4, <1>5, <1>8, <1>9
<1>11. ASSUME NEW i \in 0 .. m, NEW j \in 0 .. m, b[i] = b[j] PROVE i = j
  <2>1. PICK i0 \in 0 .. m + 1 : b[i] = a[i0] /\ (IF i <= k THEN i0 = i ELSE i0 = i + 1)
    BY <1>4, <1>8
  <2>2. PICK j0 \in 0 .. m + 1 : b[j] = a[j0] /\ (IF j <= k THEN j0 = j ELSE j0 = j + 1)
    BY <1>4, <1>8
  <2>3. i0 = j0
    BY <2>1, <2>2, <1>4, <1>11
  <2> QED BY <2>1, <2>2, <2>3
<1>12. ASSUME NEW i \in 1 .. m PROVE on'[b[i]] = h
  <2>1. i \in 0 .. m /\ i \in 1 .. m + 1 /\ i + 1 \in 1 .. m + 1
    BY <1>4
  <2>2. on[b[i]] = h
    BY <2>1, <1>4, <1>8
  <2> QED BY <2>1, <2>2, <1>6, <1>7, <1>10
<1>13. ASSUME NEW i \in 0 .. m PROVE Leads(b[i], b[i + 1])'
  <2>1. CASE i = k
    <3>1. x \in Cells /\ x # n /\ b[i] = x /\ b[i + 1] = y
      BY <2>1, <1>2, <1>3, <1>7, <1>10
    <3>2. k = m \/ (k + 1 \in 1 .. m /\ k + 1 \in 0 .. m)
      BY <1>4
    <3>3. y = NULL \/ (y \in Nodes /\ y # n)
      BY <3>2, <1>3, <1>7, <1>10
    <3> QED BY <3>1, <3>3, <1>6 DEF Leads
  <2>2. CASE i # k
    <3>1. Leads(b[i], b[i + 1])
      <4>1. CASE i < k
        <5>1. i \in 0 .. k /\ i + 1 \in 0 .. k /\ i \in 0 .. m + 1
          BY <4>1, <1>4
        <5> QED BY <5>1, <1>4, <1>5
      <4>2. CASE i > k
        <5>1. i \in k + 1 .. m + 1 /\ i + 1 \in k + 1 .. m + 1 /\ i + 1 \in 0 .. m + 1
          BY <4>2, <1>4
        <5> QED BY <5>1, <1>4, <1>5
      <4> QED BY <4>1, <4>2, <2>2, <1>4
    <3>2. next'[b[i]] = b[i + 1]
      <4>1. b[i] \in Cells /\ b[i] # n /\ b[i] # x
        <5>1. i \in 0 .. m /\ k \in 0 .. m
          BY <1>4
        <5>2. b[i] # b[k]
          BY <5>1, <2>2, <1>11
        <5> QED BY <5>1, <5>2, <1>2, <1>7, <1>10
      <4> QED BY <4>1, <3>1, <1>6 DEF Leads
    <3>3. CASE i = m
      BY <3>2, <3>3, <1>7 DEF Leads
    <3>4. CASE i # m
      <4>1. i + 1 \in 1 .. m /\ i + 1 \in 0 .. m /\ i + 1 # k + 1
        BY <2>2, <3>4, <1>4
      <4>2. b[i + 1] \in Nodes /\ b[i + 1] # n /\ b[i + 1] # NULL
        BY <4>1, <1>7, <1>10
      <4>3. b[i + 1] # y
        <5>1. k = m \/ k + 1 \in 0 .. m
          BY <1>4
        <5> QED BY <5>1, <4>1, <4>2, <1>3, <1>7, <1>11
      <4>4. pprev'[b[i + 1]] = b[i]
        BY <4>2, <4>3, <3>1, <1>6 DEF Leads
      <4> QED BY <3>2, <4>4 DEF Leads
    <3> QED BY <3>3, <3>4
  <2> QED BY <2>1, <2>2
<1>14. /\ \A i \in 1 .. Len(s) : on'[b[i]] = h
       /\ \A i, j \in 0 .. Len(s) : b[i] = b[j] => i = j
       /\ \A i \in 0 .. Len(s) : Leads(b[i], b[i + 1])'
  BY <1>1, <1>11, <1>12, <1>13
<1> QED BY <1>14 DEF Walks, IsRoute

-----------------------------------------------------------------------------
(* The lists, when one of them changes.                                     *)

\* A node added to one list is added to the sequence, and nothing else changes.
LEMMA InsertKeeps ==
  ASSUME NEW L, ListsAre(L), NEW h \in Heads, NEW k \in 0 .. Len(L[h]),
         NEW n \in Nodes, ~Hashed(n), LinksIn(Route(h, L[h])[k], n, Route(h, L[h])[k + 1], h),
         NEW s, s = Abstract!Take(L[h], k) \o <<n>> \o Abstract!Drop(L[h], k)
  PROVE  ListsAre([L EXCEPT ![h] = s])'
<1>1. PICK r : r = L[h]
  OBVIOUS
<1>2. PICK a : a = Route(h, r)
  OBVIOUS
<1>3. PICK b : b = Route(h, s)
  OBVIOUS
<1>4. Walks(a, h, r) /\ r \in Seq(Nodes) /\ IsRoute(a, h, r) /\ k \in 0 .. Len(r)
  BY <1>1, <1>2, ListWalks DEF ListsAre, Walks
<1>5. /\ s \in Seq(Nodes) /\ Len(s) = Len(r) + 1
      /\ WalkWith(a, b, Len(r), k, n)
  BY <1>1, <1>2, <1>3, <1>4, InsertedIs
<1>6. IsRoute(b, h, s)
  BY <1>3, <1>5, RouteIs
<1>7. on[n] # h /\ LinksIn(a[k], n, a[k + 1], h)
  BY <1>1, <1>2 DEF Hashed
<1>8. Walks(b, h, s)'
  BY <1>4, <1>5, <1>6, <1>7, WalkInserted
<1>9. ListIs(h, s)'
  BY <1>3, <1>8, WalkIsListNext
<1>10. PICK x : x = a[k]
  OBVIOUS
<1>11. PICK y : y = a[k + 1]
  OBVIOUS
<1>12. /\ \A c \in Cells : next'[c] = IF c = x THEN n ELSE IF c = n THEN y ELSE next[c]
       /\ \A m \in Nodes : pprev'[m] = IF m = n THEN x ELSE IF m = y THEN n ELSE pprev[m]
       /\ \A m \in Nodes : on'[m] = IF m = n THEN h ELSE on[m]
  BY <1>7, <1>10, <1>11 DEF LinksIn
<1>13. ASSUME NEW m \in Nodes, on'[m] = h PROVE \E i \in 1 .. Len(s) : s[i] = m
  <2>1. CASE m = n
    <3>1. k + 1 \in 1 .. Len(s)
      BY <1>4, <1>5 DEF IsRoute
    <3> QED BY <2>1, <3>1, <1>5, <1>6 DEF WalkWith, IsRoute
  <2>2. CASE m # n
    <3>1. PICK i \in 1 .. Len(r) : r[i] = m
      BY <2>2, <1>1, <1>12, <1>13 DEF ListsAre, Hashed
    <3>2. a[i] = m /\ Len(r) \in Nat
      BY <3>1, <1>4 DEF IsRoute
    <3>3. CASE i <= k
      <4>1. i \in 0 .. k /\ i \in 1 .. Len(s)
        BY <3>2, <3>3, <1>5
      <4> QED BY <3>2, <4>1, <1>5, <1>6 DEF WalkWith, IsRoute
    <3>4. CASE i > k
      <4>1. i \in k + 1 .. Len(r) + 1 /\ i + 1 \in 1 .. Len(s)
        BY <3>2, <3>4, <1>5
      <4>2. b[i + 1] = a[i] /\ b[i + 1] = s[i + 1]
        BY <4>1, <1>5, <1>6 DEF WalkWith, IsRoute
      <4> QED BY <3>2, <4>1, <4>2
    <3> QED BY <3>3, <3>4
  <2> QED BY <2>1, <2>2
<1>14. x = h \/ (x \in Nodes /\ on[x] = h)
  <2>1. k = 0 \/ k \in 1 .. Len(r)
    BY <1>4 DEF IsRoute
  <2> QED BY <2>1, <1>4, <1>10 DEF Walks, IsRoute
<1>15. y = NULL \/ (y \in Nodes /\ on[y] = h)
  <2>1. k = Len(r) \/ k + 1 \in 1 .. Len(r)
    BY <1>4 DEF IsRoute
  <2> QED BY <2>1, <1>4, <1>11 DEF Walks, IsRoute
<1>16. n \notin Heads /\ \A g \in Heads : g \in Cells /\ g \notin Nodes
  BY HlistAssumption DEF Cells
<1>17. \A g \in Heads \ {h} : next'[g] = next[g]
  BY <1>12, <1>14, <1>16
<1>18. \A m \in Nodes : on'[m] \in Heads \ {h} => on'[m] = on[m]
  BY <1>12
<1>19. NULL \notin Cells /\ Nodes \subseteq Cells
  BY HlistAssumption DEF Cells
<1>20. \A g \in Heads \ {h} : \A m \in Nodes :
         on[m] = g => on'[m] = g /\ next'[m] = next[m] /\ pprev'[m] = pprev[m]
  BY <1>12, <1>14, <1>15, <1>16, <1>19 DEF Hashed
<1> QED BY <1>9, <1>13, <1>17, <1>18, <1>20, OneListChanges

\* A node removed from a list is removed from the sequence.
LEMMA RemoveKeeps ==
  ASSUME NEW L, ListsAre(L), NEW h \in Heads, NEW k \in 1 .. Len(L[h]), NEW n, n = L[h][k],
         LinksOut(Route(h, L[h])[k - 1], n, Route(h, L[h])[k + 1]), on'[n] \notin Heads,
         NEW s, s = Abstract!Take(L[h], k - 1) \o Abstract!Drop(L[h], k)
  PROVE  ListsAre([L EXCEPT ![h] = s])'
<1>1. PICK r : r = L[h]
  OBVIOUS
<1>2. PICK a : a = Route(h, r)
  OBVIOUS
<1>3. PICK b : b = Route(h, s)
  OBVIOUS
<1>4. /\ Walks(a, h, r) /\ r \in Seq(Nodes) /\ IsRoute(a, h, r) /\ k \in 1 .. Len(r)
      /\ n = r[k] /\ n \in Nodes
  <2>1. Walks(a, h, r) /\ k \in 1 .. Len(r) /\ n = r[k]
    BY <1>1, <1>2, ListWalks DEF ListsAre
  <2>2. r \in Seq(Nodes) /\ IsRoute(a, h, r)
    BY <2>1 DEF Walks
  <2> QED BY <2>1, <2>2 DEF IsRoute
<1>5. /\ s \in Seq(Nodes) /\ Len(r) = Len(s) + 1 /\ k - 1 \in 0 .. Len(s)
      /\ WalkWith(b, a, Len(s), k - 1, n)
  <2>1. r \in Seq(Nodes) /\ k \in 1 .. Len(r) /\ n = r[k]
    BY <1>4
  <2>2. s = Abstract!Take(r, k - 1) \o Abstract!Drop(r, k)
    BY <1>1
  <2>3. /\ s \in Seq(Nodes) /\ Len(r) = Len(s) + 1 /\ k - 1 \in 0 .. Len(s)
        /\ WalkWith(Route(h, s), Route(h, r), Len(s), k - 1, r[k])
    BY <2>1, <2>2, RemovedIs
  <2> QED BY <2>1, <2>3, <1>2, <1>3
<1>6. IsRoute(b, h, s)
  BY <1>3, <1>5, RouteIs
<1>7. a[k - 1] = b[k - 1] /\ a[k + 1] = b[(k - 1) + 1] /\ a[k] = n
  <2>1. k - 1 \in 0 .. k - 1 /\ k \in (k - 1) + 1 .. Len(s) + 1 /\ (k - 1) + 1 = k
    BY <1>4, <1>5
  <2> QED BY <2>1, <1>5 DEF WalkWith
<1>8. LinksOut(b[k - 1], n, b[(k - 1) + 1])
  BY <1>1, <1>2, <1>7
<1>9. Walks(b, h, s)'
  BY <1>4, <1>5, <1>6, <1>8, WalkRemoved
<1>10. ListIs(h, s)'
  BY <1>3, <1>9, WalkIsListNext
<1>11. PICK x : x = a[k - 1]
  OBVIOUS
<1>12. PICK y : y = a[k + 1]
  OBVIOUS
<1>13. /\ \A c \in Cells : c # n => next'[c] = IF c = x THEN y ELSE next[c]
       /\ \A c \in Nodes : c # n => pprev'[c] = IF c = y THEN x ELSE pprev[c]
       /\ \A c \in Nodes : c # n => on'[c] = on[c]
  BY <1>1, <1>2, <1>11, <1>12 DEF LinksOut
<1>14. ASSUME NEW m \in Nodes, on'[m] = h PROVE \E i \in 1 .. Len(s) : s[i] = m
  <2>1. m # n
    BY <1>14
  <2>2. PICK i \in 1 .. Len(r) : r[i] = m
    BY <2>1, <1>1, <1>13, <1>14 DEF ListsAre, Hashed
  <2>3. a[i] = m /\ Len(r) \in Nat /\ Len(s) \in Nat /\ i # k
    BY <2>1, <2>2, <1>4, <1>6 DEF IsRoute
  <2>4. CASE i < k
    <3>1. i \in 0 .. k - 1 /\ i \in 1 .. Len(s)
      BY <2>3, <2>4, <1>5
    <3>2. a[i] = b[i] /\ b[i] = s[i]
      BY <3>1, <1>5, <1>6 DEF WalkWith, IsRoute
    <3> QED BY <2>3, <3>1, <3>2
  <2>5. CASE i > k
    <3>1. PICK j : j = i - 1
      OBVIOUS
    <3>2. j \in (k - 1) + 1 .. Len(s) + 1 /\ j \in 1 .. Len(s) /\ j + 1 = i
      BY <2>3, <2>5, <3>1, <1>5
    <3>3. a[j + 1] = b[j] /\ b[j] = s[j]
      BY <3>2, <1>5, <1>6 DEF WalkWith, IsRoute
    <3> QED BY <2>3, <3>2, <3>3
  <2> QED BY <2>3, <2>4, <2>5
<1>15. x = h \/ (x \in Nodes /\ on[x] = h)
  <2>1. k - 1 = 0 \/ k - 1 \in 1 .. Len(r)
    BY <1>4 DEF IsRoute
  <2> QED BY <2>1, <1>4, <1>11 DEF Walks, IsRoute
<1>16. y = NULL \/ (y \in Nodes /\ on[y] = h)
  <2>1. k = Len(r) \/ k + 1 \in 1 .. Len(r)
    BY <1>4 DEF IsRoute
  <2> QED BY <2>1, <1>4, <1>12 DEF Walks, IsRoute
<1>17. n \notin Heads /\ on[n] = h /\ \A g \in Heads : g \in Cells /\ g \notin Nodes
  BY <1>4, <1>7, HlistAssumption DEF Cells, Walks
<1>18. \A g \in Heads \ {h} : next'[g] = next[g]
  BY <1>13, <1>15, <1>17
<1>19. \A m \in Nodes : on'[m] \in Heads \ {h} => on'[m] = on[m]
  BY <1>13
<1>20. NULL \notin Cells /\ Nodes \subseteq Cells
  BY HlistAssumption DEF Cells
<1>21. \A g \in Heads \ {h} : \A m \in Nodes :
         on[m] = g => on'[m] = g /\ next'[m] = next[m] /\ pprev'[m] = pprev[m]
  BY <1>13, <1>15, <1>16, <1>17, <1>20
<1> QED BY <1>10, <1>14, <1>18, <1>19, <1>21, OneListChanges

\* Who touches no node on a list, and no head, changes no list.
LEMMA UntouchedKeeps ==
  ASSUME NEW L, ListsAre(L), \A g \in Heads : next'[g] = next[g],
         \A m \in Nodes : Hashed(m) =>
           on'[m] = on[m] /\ next'[m] = next[m] /\ pprev'[m] = pprev[m],
         \A m \in Nodes : on'[m] \in Heads => Hashed(m)
  PROVE  ListsAre(L)'
<1>1. ASSUME NEW g \in Heads PROVE ListIs(g, L[g])'
  <2>1. \A m \in Nodes : on[m] = g => on'[m] = g /\ next'[m] = next[m] /\ pprev'[m] = pprev[m]
    BY DEF Hashed
  <2> QED BY <2>1, OtherKeeps DEF ListsAre
<1>2. ASSUME NEW m \in Nodes, Hashed(m)' PROVE \E i \in 1 .. Len(L[on'[m]]) : L[on'[m]][i] = m
  BY <1>2 DEF Hashed, ListsAre
<1> QED BY <1>1, <1>2 DEF ListsAre

-----------------------------------------------------------------------------
(* The functions that add.                                                  *)

\* ContentsAre, said of the pointers after a step.
LEMMA ContentsAreNext == \A L : ListsAre(L)' => Contents' = L
<1>1. \A L : ListsAre(L) => Contents = L
  BY ContentsAre
<1>2. (\A L : ListsAre(L) => Contents = L)'
  BY <1>1, PTL
<1> QED BY <1>2

\* hlist_add_head
LEMMA AddHeadAdds ==
  ASSUME IInv, NEW L, ListsAre(L), NEW n \in Nodes, NEW h \in Heads, HlistAddHead(n, h)
  PROVE  \E M : M = Abstract!Behind(L, h, <<n>>) /\ ListsAre(M)'
<1>1. PICK a : a = Route(h, L[h])
  OBVIOUS
<1>2. Walks(a, h, L[h]) /\ IsRoute(a, h, L[h])
  BY <1>1, ListWalks DEF ListsAre, Walks
<1>3. h \in Cells /\ h \notin Nodes /\ n \in Cells /\ ~Hashed(n)
  BY HlistAssumption DEF Cells, HlistAddHead, Free, Hashed
<1>4. Abstract!HeadOf(L, h) = h
  BY <1>3, HeadIs
<1>5. PICK s : s = Abstract!Take(L[h], 0) \o <<n>> \o Abstract!Drop(L[h], 0)
  OBVIOUS
<1>6. Abstract!Behind(L, h, <<n>>) = [L EXCEPT ![h] = s]
  BY <1>4, <1>5 DEF Abstract!Behind, Abstract!UpTo
<1>7. 0 \in 0 .. Len(L[h]) /\ a[0] = h /\ a[0 + 1] = next[h]
  BY <1>2 DEF IsRoute, Walks, Leads
<1>8. LinksIn(h, n, next[h], h)
  <2>1. \A c \in Cells : next'[c] = IF c = h THEN n ELSE IF c = n THEN next[h] ELSE next[c]
    BY <1>3 DEF HlistAddHead, IInv, TypeOK
  <2>2. \A m \in Nodes : pprev'[m] = IF m = n THEN h ELSE IF m = next[h] THEN n ELSE pprev[m]
    BY DEF HlistAddHead, Pprev
  <2>3. \A m \in Nodes : on'[m] = IF m = n THEN h ELSE on[m]
    BY DEF HlistAddHead, IInv, TypeOK
  <2> QED BY <2>1, <2>2, <2>3 DEF LinksIn
<1>9. LinksIn(Route(h, L[h])[0], n, Route(h, L[h])[0 + 1], h)
  BY <1>1, <1>7, <1>8
<1>10. ListsAre([L EXCEPT ![h] = s])'
  BY <1>3, <1>5, <1>7, <1>9, InsertKeeps
<1> QED BY <1>6, <1>10

\* Where a node of a list is, and what its pointers are.
LEMMA NodeIs ==
  ASSUME NEW L, ListsAre(L), NEW m \in Nodes, Hashed(m)
  PROVE  \E k \in 1 .. Len(L[on[m]]) :
           /\ L[on[m]][k] = m /\ on[m] \in Heads
           /\ Abstract!HeadOf(L, m) = on[m] /\ on[m] # m
           /\ Abstract!Place(L, m) = k
           /\ Route(on[m], L[on[m]])[k] = m
           /\ Route(on[m], L[on[m]])[k - 1] = pprev[m]
           /\ Route(on[m], L[on[m]])[k + 1] = next[m]
           /\ next[m] # m /\ pprev[m] # m
<1>1. PICK h : h = on[m] /\ h \in Heads
  BY DEF Hashed
<1>2. PICK k \in 1 .. Len(L[h]) : L[h][k] = m
  BY <1>1 DEF ListsAre
<1>3. PICK a : a = Route(h, L[h])
  OBVIOUS
<1>4. Walks(a, h, L[h]) /\ IsRoute(a, h, L[h])
  BY <1>1, <1>3, ListWalks DEF ListsAre, Walks
<1>5. /\ Len(L[h]) \in Nat /\ k \in 0 .. Len(L[h]) /\ k - 1 \in 0 .. Len(L[h]) /\ (k - 1) + 1 = k
      /\ k = Len(L[h]) \/ k + 1 \in 0 .. Len(L[h])
  BY <1>4 DEF IsRoute
<1>6. a[k] = m
  BY <1>2, <1>4 DEF IsRoute
<1>7. a[k + 1] = next[m]
  BY <1>4, <1>5, <1>6 DEF Walks, Leads
<1>8. a[k - 1] = pprev[m] /\ m # NULL
  <2>1. Leads(a[k - 1], a[k]) /\ a[k] # NULL
    <3>1. Leads(a[k - 1], a[(k - 1) + 1])
      BY <1>4, <1>5 DEF Walks
    <3>2. a[k] # NULL
      BY <1>4, <1>5 DEF IsRoute
    <3> QED BY <1>5, <3>1, <3>2
  <2> QED BY <2>1, <1>6 DEF Leads
<1>9. next[m] # m /\ pprev[m] # m
  <2>1. a[k - 1] # a[k]
    BY <1>4, <1>5 DEF Walks
  <2>2. a[k + 1] # a[k]
    <3>1. CASE k = Len(L[h])
      BY <3>1, <1>4, <1>6, <1>8 DEF IsRoute
    <3>2. CASE k # Len(L[h])
      <4>1. k + 1 \in 0 .. Len(L[h]) /\ k + 1 # k
        BY <3>2, <1>5
      <4> QED BY <4>1, <1>4, <1>5 DEF Walks
    <3> QED BY <3>1, <3>2
  <2> QED BY <2>1, <2>2, <1>6, <1>7, <1>8
<1>10. Abstract!HeadOf(L, m) = h /\ Abstract!Place(L, m) = k
  BY <1>1, <1>2, PlaceIs
<1>11. h # m
  BY <1>1, HlistAssumption
<1> QED BY <1>1, <1>2, <1>3, <1>6, <1>7, <1>8, <1>9, <1>10, <1>11

\* hlist_add_behind
LEMMA AddBehindAdds ==
  ASSUME IInv, NEW L, ListsAre(L), NEW n \in Nodes, NEW m \in Nodes, HlistAddBehind(n, m)
  PROVE  \E M : M = Abstract!Behind(L, m, <<n>>) /\ ListsAre(M)'
<1>1. Hashed(m) /\ ~Hashed(n)
  BY HlistAssumption DEF HlistAddBehind, Free, Hashed
<1>2. PICK h : h = on[m] /\ h \in Heads
  BY <1>1 DEF Hashed
<1>3. PICK k \in 1 .. Len(L[h]) :
        /\ Abstract!HeadOf(L, m) = h /\ h # m /\ Abstract!Place(L, m) = k
        /\ Route(h, L[h])[k] = m /\ Route(h, L[h])[k + 1] = next[m]
  BY <1>1, <1>2, NodeIs
<1>4. PICK s : s = Abstract!Take(L[h], k) \o <<n>> \o Abstract!Drop(L[h], k)
  OBVIOUS
<1>5. Abstract!Behind(L, m, <<n>>) = [L EXCEPT ![h] = s]
  BY <1>3, <1>4 DEF Abstract!Behind, Abstract!UpTo
<1>6. LinksIn(m, n, next[m], h)
  <2>1. \A c \in Cells : next'[c] = IF c = m THEN n ELSE IF c = n THEN next[m] ELSE next[c]
    BY DEF HlistAddBehind, IInv, TypeOK, Cells
  <2>2. \A c \in Nodes : pprev'[c] = IF c = n THEN m ELSE IF c = next[m] THEN n ELSE pprev[c]
    BY DEF HlistAddBehind, Pprev
  <2>3. \A c \in Nodes : on'[c] = IF c = n THEN h ELSE on[c]
    BY <1>2 DEF HlistAddBehind, IInv, TypeOK
  <2> QED BY <2>1, <2>2, <2>3 DEF LinksIn
<1>7. LinksIn(Route(h, L[h])[k], n, Route(h, L[h])[k + 1], h)
  BY <1>3, <1>6
<1>8. k \in 0 .. Len(L[h])
  OBVIOUS
<1>9. ListsAre([L EXCEPT ![h] = s])'
  BY <1>1, <1>2, <1>4, <1>7, <1>8, InsertKeeps
<1> QED BY <1>5, <1>9

\* hlist_add_before
LEMMA AddBeforeAdds ==
  ASSUME IInv, NEW L, ListsAre(L), NEW n \in Nodes, NEW m \in Nodes, HlistAddBefore(n, m)
  PROVE  \E M : M = Abstract!InFront(L, m, <<n>>) /\ ListsAre(M)'
<1>1. Hashed(m) /\ ~Hashed(n)
  BY HlistAssumption DEF HlistAddBefore, Free, Hashed
<1>2. PICK h : h = on[m] /\ h \in Heads
  BY <1>1 DEF Hashed
<1>3. PICK k \in 1 .. Len(L[h]) :
        /\ Abstract!HeadOf(L, m) = h /\ h # m /\ Abstract!Place(L, m) = k
        /\ Route(h, L[h])[k] = m /\ Route(h, L[h])[k - 1] = pprev[m]
  BY <1>1, <1>2, NodeIs
<1>4. PICK s : s = Abstract!Take(L[h], k - 1) \o <<n>> \o Abstract!Drop(L[h], k - 1)
  OBVIOUS
<1>5. Abstract!InFront(L, m, <<n>>) = [L EXCEPT ![h] = s]
  BY <1>3, <1>4 DEF Abstract!InFront, Abstract!Before
<1>6. LinksIn(pprev[m], n, m, h)
  <2>1. n # m /\ pprev[m] # n
    BY <1>1, FreeIsAlone DEF HlistAddBefore
  <2>2. \A c \in Cells : next'[c] = IF c = pprev[m] THEN n ELSE IF c = n THEN m ELSE next[c]
    BY <2>1 DEF HlistAddBefore, IInv, TypeOK, Cells
  <2>3. \A c \in Nodes : pprev'[c] = IF c = n THEN pprev[m] ELSE IF c = m THEN n ELSE pprev[c]
    BY <2>1 DEF HlistAddBefore, IInv, TypeOK
  <2>4. \A c \in Nodes : on'[c] = IF c = n THEN h ELSE on[c]
    BY <1>2 DEF HlistAddBefore, IInv, TypeOK
  <2> QED BY <2>2, <2>3, <2>4 DEF LinksIn
<1>7. k - 1 \in 0 .. Len(L[h]) /\ (k - 1) + 1 = k
  <2>1. Len(L[h]) \in Nat
    BY <1>2 DEF ListsAre, Cells
  <2> QED BY <2>1
<1>8. LinksIn(Route(h, L[h])[k - 1], n, Route(h, L[h])[(k - 1) + 1], h)
  BY <1>3, <1>6, <1>7
<1>9. ListsAre([L EXCEPT ![h] = s])'
  BY <1>1, <1>2, <1>4, <1>7, <1>8, InsertKeeps
<1> QED BY <1>5, <1>9

-----------------------------------------------------------------------------
(* The functions that remove and move.                                      *)

\* __hlist_del of a node on a list
LEMMA UnlinkRemoves ==
  ASSUME IInv, NEW L, ListsAre(L), NEW n \in Nodes, Hashed(n), NEW nx, NEW pp,
         Unlink(n, nx, pp), NEW left \in {Unhashed, NoList}, on' = [on EXCEPT ![n] = left]
  PROVE  \E M : M = Abstract!Without(L, n) /\ ListsAre(M)'
<1>1. PICK h : h = on[n] /\ h \in Heads
  BY DEF Hashed
<1>2. PICK k \in 1 .. Len(L[h]) :
        /\ L[h][k] = n
        /\ Abstract!HeadOf(L, n) = h /\ h # n /\ Abstract!Place(L, n) = k
        /\ Route(h, L[h])[k - 1] = pprev[n] /\ Route(h, L[h])[k + 1] = next[n]
        /\ next[n] # n /\ pprev[n] # n
  BY <1>1, NodeIs
<1>3. PICK s : s = Abstract!Take(L[h], k - 1) \o Abstract!Drop(L[h], k)
  OBVIOUS
<1>4. Abstract!Without(L, n) = [L EXCEPT ![h] = s]
  BY <1>2, <1>3 DEF Abstract!Without
<1>5. LinksOut(pprev[n], n, next[n])
  <2>1. \A c \in Cells : c # n => next'[c] = IF c = pprev[n] THEN next[n] ELSE next[c]
    BY DEF Unlink, IInv, TypeOK
  <2>2. \A c \in Nodes : c # n => pprev'[c] = IF c = next[n] THEN pprev[n] ELSE pprev[c]
    BY DEF Unlink, Pprev
  <2>3. \A c \in Nodes : c # n => on'[c] = on[c]
    BY DEF IInv, TypeOK
  <2> QED BY <2>1, <2>2, <2>3 DEF LinksOut
<1>6. on'[n] \notin Heads
  <2>1. on'[n] = left
    BY DEF IInv, TypeOK
  <2> QED BY <2>1, HlistAssumption
<1>7. LinksOut(Route(h, L[h])[k - 1], n, Route(h, L[h])[k + 1])
  BY <1>2, <1>5
<1>8. n = L[h][k]
  BY <1>2
<1>9. ListsAre([L EXCEPT ![h] = s])'
  BY <1>1, <1>3, <1>6, <1>7, <1>8, RemoveKeeps
<1> QED BY <1>4, <1>9

\* A fake node is on no list, and unlinking it touches none.
LEMMA UnlinkFakeKeeps ==
  ASSUME IInv, NEW L, ListsAre(L), NEW n \in Nodes, Fake(n), NEW nx, NEW pp,
         Unlink(n, nx, pp), NEW left \in {Unhashed, NoList}, on' = [on EXCEPT ![n] = left]
  PROVE  \E M : M = Abstract!Without(L, n) /\ ListsAre(M)'
<1>1. ~Hashed(n) /\ pprev[n] = n /\ next[n] = NULL /\ n \in Cells /\ n \notin Heads
  BY HlistAssumption DEF IInv, PprevLeadsHere, Fake, Hashed, Cells
<1>2. Abstract!Without(L, n) = L
  BY <1>1, HeadIs DEF Abstract!Without
<1>3. \A g \in Heads : next'[g] = next[g]
  BY <1>1 DEF Unlink, IInv, TypeOK, Cells
<1>4. \A m \in Nodes : Hashed(m) =>
        on'[m] = on[m] /\ next'[m] = next[m] /\ pprev'[m] = pprev[m]
  <2>1. NULL \notin Nodes
    BY HlistAssumption
  <2> QED BY <1>1, <2>1 DEF Unlink, Pprev, IInv, TypeOK, Cells
<1>5. \A m \in Nodes : on'[m] \in Heads => Hashed(m)
  BY HlistAssumption DEF IInv, TypeOK, Hashed
<1>6. ListsAre(L)'
  BY <1>3, <1>4, <1>5, UntouchedKeeps
<1> QED BY <1>2, <1>6

\* hlist_del and hlist_del_init
LEMMA DelRemoves ==
  ASSUME IInv, NEW L, ListsAre(L), NEW n \in Nodes, HlistDel(n) \/ HlistDelInit(n)
  PROVE  \E M : M = Abstract!Without(L, n) /\ ListsAre(M)'
<1>1. CASE on[n] = Unhashed
  <2>1. ~Hashed(n) /\ ~Fake(n) /\ n \in Cells
    BY <1>1, HlistAssumption DEF Hashed, Fake, Cells
  <2>2. Abstract!Without(L, n) = L
    BY <2>1, HeadIs DEF Abstract!Without
  <2>3. UNCHANGED vars
    BY <1>1, <2>1, HlistAssumption
       DEF IInv, TypeOK, UnhashedIsClear, HlistDel, HlistDelInit, hlist_unhashed, vars
  <2>4. ListsAre(L)'
    BY <2>3, UntouchedKeeps DEF vars, Hashed
  <2> QED BY <2>2, <2>4
<1>2. CASE on[n] # Unhashed
  <2>1. Hashed(n) \/ Fake(n)
    BY <1>2 DEF IInv, TypeOK, HlistDel, HlistDelInit, Hashed, Fake
  <2>2. ~hlist_unhashed(n)
    BY <2>1, HlistAssumption
       DEF IInv, TypeOK, PprevLeadsHere, hlist_unhashed, Hashed, Fake, Cells
  <2>3. \/ Unlink(n, POISON1, POISON2) /\ on' = [on EXCEPT ![n] = NoList]
        \/ Unlink(n, NULL, NULL) /\ on' = [on EXCEPT ![n] = Unhashed]
    BY <2>2 DEF HlistDel, HlistDelInit
  <2> QED BY <2>1, <2>3, UnlinkRemoves, UnlinkFakeKeeps
<1> QED BY <1>1, <1>2

\* INIT_HLIST_NODE and hlist_add_fake
LEMMA LonelyKeeps ==
  ASSUME IInv, NEW L, ListsAre(L), NEW n \in Nodes, InitHlistNode(n) \/ HlistAddFake(n)
  PROVE  ListsAre(L)'
<1>1. ~Hashed(n) /\ n \notin Heads /\ on'[n] \notin Heads
  BY HlistAssumption DEF Hashed, InitHlistNode, HlistAddFake, Free, IInv, TypeOK
<1>2. \A g \in Heads : next'[g] = next[g]
  BY <1>1 DEF InitHlistNode, HlistAddFake, IInv, TypeOK, Cells
<1>3. \A m \in Nodes : m # n => on'[m] = on[m] /\ next'[m] = next[m] /\ pprev'[m] = pprev[m]
  BY DEF InitHlistNode, HlistAddFake, IInv, TypeOK, Cells, Pprev
<1> QED BY <1>1, <1>2, <1>3, UntouchedKeeps DEF Hashed

\* hlist_move_list
LEMMA MoveListMoves ==
  ASSUME IInv, NEW L, ListsAre(L), NEW old \in Heads, NEW new \in Heads,
         HlistMoveList(old, new)
  PROVE  \E M : /\ M = Abstract!Emptied(Abstract!Behind(L, new, L[old]), old)
                /\ ListsAre(M)'
<1>1. old # new /\ next[new] = NULL /\ old \in Cells /\ new \in Cells
      /\ old \notin Nodes /\ new \notin Nodes /\ NULL \notin Cells
  BY HlistAssumption DEF HlistMoveList, hlist_empty, Cells
<1>2. PICK r : r = L[old]
  OBVIOUS
<1>3. PICK a : a = Route(old, r)
  OBVIOUS
<1>4. PICK b : b = Route(new, r)
  OBVIOUS
<1>5. Walks(a, old, r) /\ IsRoute(a, old, r) /\ r \in Seq(Nodes)
  BY <1>2, <1>3, ListWalks DEF ListsAre, Walks
<1>6. IsRoute(b, new, r)
  BY <1>4, <1>5, RouteIs
<1>7. L \in [Cells -> Seq(Nodes)] /\ L[new] = <<>>
  <2>1. PICK c : c = Route(new, L[new])
    OBVIOUS
  <2>2. Walks(c, new, L[new]) /\ IsRoute(c, new, L[new])
    BY <2>1, ListWalks DEF ListsAre, Walks
  <2>3. next[new] = c[0 + 1] /\ Len(L[new]) \in Nat
    BY <2>2 DEF Walks, IsRoute, Leads
  <2>4. ASSUME Len(L[new]) # 0 PROVE FALSE
    <3>1. 1 \in 0 .. Len(L[new])
      BY <2>3, <2>4
    <3>2. c[1] # NULL
      BY <3>1, <2>2 DEF IsRoute
    <3>3. c[1] = next[new]
      BY <2>3
    <3> QED BY <3>2, <3>3, <1>1
  <2> QED BY <2>4, <1>1 DEF ListsAre
<1>8. PICK M : M = [c \in Cells |-> IF c = old THEN <<>> ELSE IF c = new THEN r ELSE L[c]]
  OBVIOUS
<1>9. M = Abstract!Emptied(Abstract!Behind(L, new, L[old]), old)
  <2>1. Abstract!HeadOf(L, new) = new
    BY <1>1, HeadIs
  <2>2. Abstract!Take(<<>>, 0) \o r \o Abstract!Drop(<<>>, 0) = r
    BY <1>5 DEF Abstract!Take, Abstract!Drop
  <2>3. Abstract!Behind(L, new, L[old]) = [L EXCEPT ![new] = r]
    BY <2>1, <2>2, <1>2, <1>7 DEF Abstract!Behind, Abstract!UpTo
  <2> QED BY <2>3, <1>7, <1>8, <1>1 DEF Abstract!Emptied
<1>10. /\ \A c \in Cells :
            next'[c] = IF c = old THEN NULL ELSE IF c = new THEN next[old] ELSE next[c]
       /\ \A m \in Nodes : pprev'[m] = IF m = next[old] THEN new ELSE pprev[m]
       /\ \A m \in Nodes : on'[m] = IF on[m] = old THEN new ELSE on[m]
  BY <1>1 DEF HlistMoveList, Pprev, IInv, TypeOK
<1>11. \A i \in 1 .. Len(r) + 1 : b[i] = a[i]
  BY <1>5, <1>6 DEF IsRoute
<1>12. next[old] = a[1]
  <2>1. Leads(a[0], a[0 + 1])
    BY <1>5 DEF Walks, IsRoute
  <2> QED BY <2>1, <1>5 DEF IsRoute, Leads
<1>13. \A i \in 0 .. Len(r) : Leads(b[i], b[i + 1])'
  <2> TAKE i \in 0 .. Len(r)
  <2>1. Len(r) \in Nat /\ i \in Nat /\ i + 1 \in 1 .. Len(r) + 1
    BY <1>5 DEF IsRoute
  <2>2. b[i + 1] = a[i + 1]
    BY <2>1, <1>11
  <2>3. a[i + 1] = NULL \/ (a[i + 1] \in Nodes /\ a[i + 1] # NULL)
    <3>1. i = Len(r) \/ i + 1 \in 1 .. Len(r)
      BY <2>1
    <3> QED BY <3>1, <1>5, <1>1 DEF IsRoute, Cells
  <2>4. CASE i = 0
    <3>1. next'[new] = a[1] /\ b[0] = new
      BY <1>1, <1>6, <1>10, <1>12 DEF IsRoute
    <3>2. a[1] # NULL => pprev'[a[1]] = new
      BY <2>3, <2>4, <1>10, <1>12
    <3> QED BY <2>2, <2>4, <3>1, <3>2 DEF Leads
  <2>5. CASE i # 0
    <3>1. i \in 1 .. Len(r) /\ i \in 1 .. Len(r) + 1 /\ Leads(a[i], a[i + 1])
      BY <2>1, <2>5, <1>5 DEF Walks
    <3>2. b[i] = a[i] /\ a[i] \in Nodes /\ a[i] # old /\ a[i] # new
      BY <3>1, <1>1, <1>5, <1>11 DEF IsRoute
    <3>3. next'[a[i]] = a[i + 1]
      BY <3>1, <3>2, <1>10 DEF Leads, Cells
    <3>4. a[i + 1] # NULL => a[i + 1] # a[1]
      <4>1. CASE i = Len(r)
        BY <4>1, <1>5 DEF IsRoute
      <4>2. CASE i # Len(r)
        <5>1. i + 1 \in 0 .. Len(r) /\ 1 \in 0 .. Len(r) /\ i + 1 # 1
          BY <2>1, <2>5, <4>2
        <5> QED BY <5>1, <1>5 DEF Walks
      <4> QED BY <4>1, <4>2
    <3>5. a[i + 1] # NULL => pprev'[a[i + 1]] = a[i]
      BY <2>3, <3>1, <3>4, <1>10, <1>12 DEF Leads
    <3> QED BY <2>2, <3>2, <3>3, <3>5 DEF Leads
  <2> QED BY <2>4, <2>5
<1>14. \A i \in 1 .. Len(r) : on'[b[i]] = new
  <2> TAKE i \in 1 .. Len(r)
  <2>1. a[i] \in Nodes /\ on[a[i]] = old
    BY <1>5 DEF Walks, IsRoute
  <2>2. b[i] = a[i]
    BY <1>5, <1>6 DEF IsRoute
  <2> QED BY <2>1, <2>2, <1>10
<1>15. ASSUME NEW i \in 0 .. Len(r), NEW j \in 0 .. Len(r), b[i] = b[j] PROVE i = j
  <2>1. CASE i = 0 \/ j = 0
    BY <2>1, <1>15, <1>6, <1>1 DEF IsRoute
  <2>2. CASE i # 0 /\ j # 0
    <3>1. i \in 1 .. Len(r) + 1 /\ j \in 1 .. Len(r) + 1
      BY <2>2, <1>5 DEF IsRoute
    <3> QED BY <3>1, <1>5, <1>11, <1>15 DEF Walks
  <2> QED BY <2>1, <2>2
<1>16. Walks(b, new, r)'
  BY <1>5, <1>6, <1>13, <1>14, <1>15 DEF Walks, IsRoute
<1>17. ListIs(new, r)'
  BY <1>4, <1>16, WalkIsListNext
<1>18. ListIs(old, <<>>)'
  <2>1. next'[old] = NULL
    BY <1>1, <1>10
  <2> QED BY <2>1 DEF ListIs, Leads, Route
<1>19. ASSUME NEW g \in Heads PROVE ListIs(g, M[g])'
  <2>1. g \in Cells
    BY DEF Cells
  <2>2. CASE g = old
    BY <2>1, <2>2, <1>8, <1>18
  <2>3. CASE g = new
    BY <2>1, <2>3, <1>1, <1>8, <1>17
  <2>4. CASE g # old /\ g # new
    <3>1. M[g] = L[g] /\ ListIs(g, L[g])
      BY <2>1, <2>4, <1>8 DEF ListsAre
    <3>2. \A m \in Nodes : on[m] = g =>
             on'[m] = g /\ next'[m] = next[m] /\ pprev'[m] = pprev[m]
      <4>1. next[old] = NULL \/ (next[old] \in Nodes /\ on[next[old]] = old)
        BY DEF IInv, TypeOK, PprevLeadsHere
      <4>2. \A m \in Nodes : m \in Cells /\ m # old /\ m # new /\ m # NULL
        BY <1>1 DEF Cells
      <4> QED BY <4>1, <4>2, <2>4, <1>10
    <3>3. next'[g] = next[g]
      BY <2>1, <2>4, <1>10
    <3>4. ListIs(g, L[g])'
      BY <3>1, <3>2, <3>3, OtherKeeps
    <3> QED BY <3>1, <3>4
  <2> QED BY <2>2, <2>3, <2>4
<1>20. M \in [Cells -> Seq(Nodes)] /\ \A n \in Nodes : M[n] = <<>>
  <2>1. \A c \in Cells : M[c] \in Seq(Nodes)
    BY <1>5, <1>7, <1>8
  <2>2. \A n \in Nodes : M[n] = <<>>
    BY <1>1, <1>8 DEF ListsAre, Cells
  <2> QED BY <2>1, <2>2, <1>8
<1>21. ASSUME NEW m \in Nodes, Hashed(m)' PROVE \E i \in 1 .. Len(M[on'[m]]) : M[on'[m]][i] = m
  <2>1. CASE on[m] = old
    <3>1. on'[m] = new /\ M[new] = L[on[m]] /\ Hashed(m)
      BY <2>1, <1>1, <1>2, <1>8, <1>10 DEF Hashed
    <3> QED BY <3>1 DEF ListsAre
  <2>2. CASE on[m] # old
    <3>1. on'[m] = on[m] /\ Hashed(m) /\ on[m] \in Cells
      BY <2>2, <1>10, <1>21 DEF Hashed, Cells
    <3>2. PICK i \in 1 .. Len(L[on[m]]) : L[on[m]][i] = m
      BY <3>1 DEF ListsAre
    <3>3. on[m] # new
      BY <3>2, <1>7
    <3>4. M[on[m]] = L[on[m]]
      BY <2>2, <3>1, <3>3, <1>8
    <3> QED BY <3>1, <3>2, <3>4
  <2> QED BY <2>1, <2>2
<1>22. ListsAre(M)'
  BY <1>19, <1>20, <1>21 DEF ListsAre
<1> QED BY <1>9, <1>22

-----------------------------------------------------------------------------
(* The lists are what their callers made them.                              *)

\* Where the pointers lead is what the loop finds, on every list.
LoopsFollow == ListsAre(Contents)

HlistInv == IInv /\ LoopsFollow

\* All lists are empty at first.
LEMMA InitLists == Init => LoopsFollow
<1> SUFFICES ASSUME Init PROVE ListsAre(Contents)
  BY DEF LoopsFollow
<1>1. PICK L : L = [c \in Cells |-> <<>>]
  OBVIOUS
<1>2. ListsAre(L)
  <2>1. \A h \in Heads : ListIs(h, <<>>)
    <3> TAKE h \in Heads
    <3>1. next[h] = NULL
      BY DEF Init, Cells
    <3> QED BY <3>1 DEF ListIs, Leads, Route
  <2>2. \A n \in Nodes : ~Hashed(n)
    BY HlistAssumption DEF Init, Hashed
  <2> QED BY <1>1, <2>1, <2>2 DEF ListsAre, Cells
<1>3. Contents = L
  BY <1>2, ContentsAre
<1> QED BY <1>2, <1>3

\* What a call does to the lists L.
Does(L, M) ==
  /\ \A n \in Nodes :
       /\ InitHlistNode(n) \/ HlistAddFake(n) => M = L
       /\ HlistDel(n) \/ HlistDelInit(n) => M = Abstract!Without(L, n)
       /\ \A h \in Heads : HlistAddHead(n, h) => M = Abstract!Behind(L, h, <<n>>)
       /\ \A m \in Nodes :
            /\ HlistAddBefore(n, m) => M = Abstract!InFront(L, m, <<n>>)
            /\ HlistAddBehind(n, m) => M = Abstract!Behind(L, m, <<n>>)
  /\ \A old, new \in Heads : HlistMoveList(old, new) =>
       M = Abstract!Emptied(Abstract!Behind(L, new, L[old]), old)

\* Every call keeps the lists, and does to each what it says.
LEMMA CallKeeps ==
  ASSUME IInv, NEW L, ListsAre(L), Next
  PROVE  \E M : ListsAre(M)'
<1>1. CASE \E n \in Nodes : InitHlistNode(n) \/ HlistAddFake(n)
  BY <1>1, LonelyKeeps
<1>2. CASE \E n \in Nodes : HlistDel(n) \/ HlistDelInit(n)
  BY <1>2, DelRemoves
<1>3. CASE \E n \in Nodes, h \in Heads : HlistAddHead(n, h)
  BY <1>3, AddHeadAdds
<1>4. CASE \E n, m \in Nodes : HlistAddBefore(n, m)
  BY <1>4, AddBeforeAdds
<1>5. CASE \E n, m \in Nodes : HlistAddBehind(n, m)
  BY <1>5, AddBehindAdds
<1>6. CASE \E old, new \in Heads : HlistMoveList(old, new)
  BY <1>6, MoveListMoves
<1> QED BY <1>1, <1>2, <1>3, <1>4, <1>5, <1>6 DEF Next

\* A call edits the sequences under the heads as the operation of Lists does.
LEMMA CallDoes ==
  ASSUME IInv, NEW L, ListsAre(L), NEW M, ListsAre(M)' PROVE Does(L, M)
<1>1. \A N1, N2 : ListsAre(N1)' /\ ListsAre(N2)' => N1 = N2
  BY ContentsAreNext
<1>2. ASSUME NEW n \in Nodes, InitHlistNode(n) \/ HlistAddFake(n) PROVE M = L
  BY <1>1, <1>2, LonelyKeeps
<1>3. ASSUME NEW n \in Nodes, HlistDel(n) \/ HlistDelInit(n) PROVE M = Abstract!Without(L, n)
  BY <1>1, <1>3, DelRemoves
<1>4. ASSUME NEW n \in Nodes, NEW h \in Heads, HlistAddHead(n, h)
      PROVE  M = Abstract!Behind(L, h, <<n>>)
  BY <1>1, <1>4, AddHeadAdds
<1>5. ASSUME NEW n \in Nodes, NEW m \in Nodes, HlistAddBefore(n, m)
      PROVE  M = Abstract!InFront(L, m, <<n>>)
  BY <1>1, <1>5, AddBeforeAdds
<1>6. ASSUME NEW n \in Nodes, NEW m \in Nodes, HlistAddBehind(n, m)
      PROVE  M = Abstract!Behind(L, m, <<n>>)
  BY <1>1, <1>6, AddBehindAdds
<1>7. ASSUME NEW old \in Heads, NEW new \in Heads, HlistMoveList(old, new)
      PROVE  M = Abstract!Emptied(Abstract!Behind(L, new, L[old]), old)
  BY <1>1, <1>7, MoveListMoves
<1> QED BY <1>2, <1>3, <1>4, <1>5, <1>6, <1>7 DEF Does

\* A step keeps every list an intact walk, and edits the sequences as Lists says.
LEMMA LoopsKeep == HlistInv /\ [Next]_vars => LoopsFollow' /\ (Next => Does(Contents, Contents'))
<1> SUFFICES ASSUME HlistInv, [Next]_vars
             PROVE  LoopsFollow' /\ (Next => Does(Contents, Contents'))
  OBVIOUS
<1>1. PICK L : L = Contents
  OBVIOUS
<1>2. IInv /\ ListsAre(L)
  BY <1>1 DEF HlistInv, LoopsFollow
<1>3. PICK M : ListsAre(M)'
  <2>1. CASE UNCHANGED vars
    BY <2>1, <1>2, UntouchedKeeps DEF vars, Hashed
  <2>2. CASE Next
    BY <2>2, <1>2, CallKeeps
  <2> QED BY <2>1, <2>2
<1>4. Contents' = M
  BY <1>3, ContentsAreNext
<1>5. LoopsFollow'
  BY <1>3, <1>4 DEF LoopsFollow
<1>6. Does(L, M)
  BY <1>2, <1>3, CallDoes
<1> QED BY <1>1, <1>4, <1>5, <1>6

\* The tests see what the loop would.
LEMMA TestsAgree == HlistInv => TestsAreRight
<1> SUFFICES ASSUME HlistInv PROVE TestsAreRight
  OBVIOUS
<1>1. PICK L : L = Contents
  OBVIOUS
<1>2. IInv /\ ListsAre(L)
  BY <1>1 DEF HlistInv, LoopsFollow
<1>3. ASSUME NEW h \in Heads
      PROVE  Chain(h) = L[h] /\ Walks(Route(h, L[h]), h, L[h])
  BY <1>2, ChainIs, ListWalks DEF ListsAre
<1>4. ASSUME NEW n \in Nodes, on[n] # NoList
      PROVE  /\ hlist_unhashed(n) <=> on[n] = Unhashed
             /\ hlist_fake(n) <=> on[n] = n
  <2>1. CASE on[n] = Unhashed
    BY <2>1, <1>2, HlistAssumption
       DEF IInv, UnhashedIsClear, hlist_unhashed, hlist_fake, Cells
  <2>2. CASE Fake(n)
    BY <2>2, <1>2, HlistAssumption
       DEF IInv, PprevLeadsHere, Fake, hlist_unhashed, hlist_fake
  <2>3. CASE Hashed(n)
    <3>1. pprev[n] \in Cells /\ pprev[n] # n
      BY <2>3, <1>2, NodeIs DEF IInv, TypeOK, Hashed, Cells
    <3> QED BY <3>1, <2>3, HlistAssumption DEF hlist_unhashed, hlist_fake, Hashed, Cells
  <2> QED BY <2>1, <2>2, <2>3, <1>2, <1>4 DEF IInv, TypeOK, Fake, Hashed
<1>5. ASSUME NEW n \in Nodes, on[n] # NoList, NEW h \in Heads
      PROVE  hlist_is_singular_node(n, h) <=> Chain(h) = <<n>>
  <2>1. PICK a : a = Route(h, L[h])
    OBVIOUS
  <2>2. /\ Walks(a, h, L[h]) /\ IsRoute(a, h, L[h]) /\ L[h] \in Seq(Nodes)
        /\ Len(L[h]) \in Nat
    <3>1. Walks(a, h, L[h])
      BY <2>1, <1>3
    <3> QED BY <3>1 DEF Walks, IsRoute
  <2>3. ASSUME hlist_is_singular_node(n, h) PROVE Chain(h) = <<n>>
    <3>1. next[n] = NULL /\ pprev[n] = h
      BY <2>3 DEF hlist_is_singular_node
    <3>2. Hashed(n)
      BY <3>1, <1>2, <1>4, <1>5, HlistAssumption
         DEF IInv, TypeOK, hlist_unhashed, hlist_fake, Hashed, Cells
    <3>3. PICK k \in 1 .. Len(L[on[n]]) :
            /\ L[on[n]][k] = n /\ on[n] \in Heads
            /\ Route(on[n], L[on[n]])[k - 1] = h
            /\ Route(on[n], L[on[n]])[k + 1] = NULL
      BY <3>1, <3>2, <1>2, NodeIs
    <3>4. PICK g : g = on[n] /\ g \in Heads
      BY <3>3
    <3>5. PICK c : c = Route(g, L[g])
      OBVIOUS
    <3>6. IsRoute(c, g, L[g]) /\ L[g] \in Seq(Nodes)
      BY <3>4, <3>5, <1>3 DEF Walks
    <3>7. c[k - 1] = h /\ c[k + 1] = NULL /\ k \in 1 .. Len(L[g]) /\ L[g][k] = n
      BY <3>3, <3>4, <3>5
    <3>8. k = 1
      <4>1. k - 1 = 0 \/ k - 1 \in 1 .. Len(L[g])
        BY <3>6, <3>7 DEF IsRoute
      <4> QED BY <4>1, <3>6, <3>7, HlistAssumption DEF IsRoute
    <3>9. g = h
      BY <3>6, <3>7, <3>8 DEF IsRoute
    <3>10. k = Len(L[g])
      <4>1. k = Len(L[g]) \/ k + 1 \in 0 .. Len(L[g])
        BY <3>6, <3>7 DEF IsRoute
      <4> QED BY <4>1, <3>6, <3>7 DEF IsRoute
    <3>11. L[h] = <<n>>
      BY <3>6, <3>7, <3>8, <3>9, <3>10
    <3> QED BY <3>11, <1>3
  <2>4. ASSUME Chain(h) = <<n>> PROVE hlist_is_singular_node(n, h)
    <3>1. L[h] = <<n>> /\ Len(L[h]) = 1 /\ L[h][1] = n
      BY <2>4, <1>3
    <3>2. a[0] = h /\ a[1] = n /\ a[2] = NULL /\ n # NULL
      BY <2>2, <3>1, HlistAssumption DEF IsRoute, Cells
    <3>3. Leads(a[0], a[0 + 1]) /\ Leads(a[1], a[1 + 1])
      BY <2>2, <3>1 DEF Walks
    <3> QED BY <3>2, <3>3 DEF Leads, hlist_is_singular_node
  <2> QED BY <2>3, <2>4
<1>6. ASSUME NEW h \in Heads PROVE hlist_empty(h) <=> \A n \in Nodes : on[n] # h
  <2>1. PICK a : a = Route(h, L[h])
    OBVIOUS
  <2>2. Walks(a, h, L[h]) /\ IsRoute(a, h, L[h])
    BY <2>1, <1>3 DEF Walks
  <2>3. Len(L[h]) \in Nat /\ a[0] = h /\ next[h] = a[1]
    <3>1. Leads(a[0], a[0 + 1]) /\ Len(L[h]) \in Nat /\ a[0] = h
      BY <2>2 DEF Walks, IsRoute
    <3> QED BY <3>1 DEF Leads
  <2>4. CASE Len(L[h]) = 0
    <3>1. next[h] = NULL
      BY <2>2, <2>3, <2>4 DEF IsRoute
    <3>2. \A n \in Nodes : on[n] # h
      BY <2>4, <1>2 DEF ListsAre, Hashed
    <3> QED BY <3>1, <3>2 DEF hlist_empty
  <2>5. CASE Len(L[h]) # 0
    <3>1. 1 \in 0 .. Len(L[h]) /\ 1 \in 1 .. Len(L[h])
      BY <2>3, <2>5
    <3>2. a[1] # NULL /\ a[1] \in Nodes /\ on[a[1]] = h
      BY <3>1, <2>2 DEF Walks, IsRoute
    <3> QED BY <3>2, <2>3 DEF hlist_empty
  <2> QED BY <2>4, <2>5
<1> QED BY <1>4, <1>5, <1>6 DEF TestsAreRight

\* The invariant with the lists in it.
THEOREM ListsIntact == Spec => []HlistInv
<1>1. Init => HlistInv
  BY InitOK, InitLists DEF HlistInv
<1>2. HlistInv /\ [Next]_vars => HlistInv'
  BY NextKeeps, LoopsKeep DEF HlistInv
<1> QED BY <1>1, <1>2, PTL DEF Spec

\* For any nodes and heads, the tests of a node and of a head answer what the
\* callers did with it and what the loop would find.
THEOREM TestsAnswer == Spec => []TestsAreRight
  BY ListsIntact, TestsAgree, PTL

\* For any nodes and heads, each function does to the lists what it says.
THEOREM FunctionsObey == Spec => NodesGoWhereTold
<1>1. HlistInv /\ [Next]_vars =>
        [/\ \A n \in Nodes :
              /\ InitHlistNode(n) \/ HlistAddFake(n) => UNCHANGED Contents
              /\ HlistDel(n) \/ HlistDelInit(n) => Abstract!Del(n)
              /\ \A h \in Heads : HlistAddHead(n, h) => Abstract!Add(n, h)
              /\ \A m \in Nodes : /\ HlistAddBefore(n, m) => Abstract!AddTail(n, m)
                                  /\ HlistAddBehind(n, m) => Abstract!Add(n, m)
         /\ \A old, new \in Heads :
              HlistMoveList(old, new) => Abstract!Splice(old, new)]_vars
  <2> SUFFICES ASSUME HlistInv, Next
               PROVE  /\ \A n \in Nodes :
                           /\ InitHlistNode(n) \/ HlistAddFake(n) => UNCHANGED Contents
                           /\ HlistDel(n) \/ HlistDelInit(n) => Abstract!Del(n)
                           /\ \A h \in Heads : HlistAddHead(n, h) => Abstract!Add(n, h)
                           /\ \A m \in Nodes :
                                /\ HlistAddBefore(n, m) => Abstract!AddTail(n, m)
                                /\ HlistAddBehind(n, m) => Abstract!Add(n, m)
                      /\ \A old, new \in Heads :
                           HlistMoveList(old, new) => Abstract!Splice(old, new)
    OBVIOUS
  <2>1. Does(Contents, Contents')
    BY LoopsKeep
  <2> QED BY <2>1 DEF Does, Abstract!Del, Abstract!Add, Abstract!AddTail, Abstract!Splice
<1> QED BY <1>1, ListsIntact, PTL DEF Spec, NodesGoWhereTold
=============================================================================
