--------------------------- MODULE KernelListProofs ---------------------------
(****************************************************************************)
(* Proofs about the functions of source/src/linux/list.h, for any number of *)
(* entries and heads: every list stays well linked, loops in both           *)
(* directions and the tests agree on what is on it, and every function does *)
(* to the sequences of entries what the abstract lists say.                 *)
(*                                                                          *)
(* Holds(heap, on, L) is the invariant: the heap is well linked, and from   *)
(* each head the pointers lead over the sequence L of entries back to it.   *)
(* The head, the entries and the head again are the stops of a loop; what   *)
(* a function does is first said of the next pointers (the Laid lemmas),    *)
(* then of its call.                                                        *)
(****************************************************************************)
EXTENDS KernelListProperties, SequenceTheorems, FiniteSetTheorems, WellFoundedInduction, TLAPS

\* The heap whose next pointers are n and whose prev pointers are p.
Mem(n, p) == [next |-> n, prev |-> p]

PointerMap == [Cells -> Pointers]
ListMap == [Cells -> Cells \cup {NoList}]

\* The invariant of next pointers n, prev pointers p and lists o: at a cell,
\* and everywhere.
SoundAt(n, p, o, c) ==
  o[c] # NoList => /\ n[c] \in Cells /\ o[n[c]] = o[c]
                   /\ p[c] \in Cells /\ o[p[c]] = o[c]
                   /\ p[n[c]] = c
                   /\ n[p[c]] = c

Sound(n, p, o) ==
  /\ n \in PointerMap /\ p \in PointerMap /\ o \in ListMap
  /\ \A c \in Cells : SoundAt(n, p, o, c)

\* No other cell is linked to c.
Isolated(n, o, c) == o[c] = NoList \/ n[c] = c

\* NoList is no cell, and no cell is an entry and a head.
LEMMA Sentinels == NoList \notin Cells /\ Entries \cap Heads = {}
BY ListAssumption DEF Cells

-----------------------------------------------------------------------------
(* Assignments to the heap are assignments to its two maps.                 *)

\* An assignment to a next pointer.
LEMMA MemNext ==
  ASSUME NEW n, NEW p, NEW c, NEW ptr
  PROVE  SetNext(Mem(n, p), c, ptr) = Mem([n EXCEPT ![c] = ptr], p)
BY DEF Mem, SetNext

\* An assignment to a prev pointer.
LEMMA MemPrev ==
  ASSUME NEW n, NEW p, NEW c, NEW ptr
  PROVE  SetPrev(Mem(n, p), c, ptr) = Mem(n, [p EXCEPT ![c] = ptr])
BY DEF Mem, SetPrev

\* The two maps of a heap.
LEMMA MemParts == ASSUME NEW n, NEW p PROVE Mem(n, p).next = n /\ Mem(n, p).prev = p
BY DEF Mem

\* The invariant, of a heap.
Ok(H, o) == H = Mem(H.next, H.prev) /\ Sound(H.next, H.prev, o)

\* The invariant of the two maps is the invariant of their heap.
LEMMA OkMem == ASSUME NEW n, NEW p, NEW o, Sound(n, p, o) PROVE Ok(Mem(n, p), o)
BY MemParts DEF Ok

\* INIT_LIST_HEAD, as assignments to the two maps.
LEMMA InitIs ==
  ASSUME NEW n, NEW p, NEW c
  PROVE  INIT_LIST_HEAD(Mem(n, p), c) = Mem([n EXCEPT ![c] = c], [p EXCEPT ![c] = c])
<1> DEFINE n1 == [n EXCEPT ![c] = c]
<1>1. SetNext(Mem(n, p), c, c) = Mem(n1, p)
  BY MemNext
<1> HIDE DEF n1
<1>2. SetPrev(Mem(n1, p), c, c) = Mem(n1, [p EXCEPT ![c] = c])
  BY MemPrev
<1>3. INIT_LIST_HEAD(Mem(n, p), c) = Mem(n1, [p EXCEPT ![c] = c])
  BY <1>1, <1>2 DEF INIT_LIST_HEAD
<1> QED
  BY <1>3 DEF n1

\* __list_add.
LEMMA LinkIs ==
  ASSUME NEW n, NEW p, NEW new, NEW prev, NEW next
  PROVE  Link(Mem(n, p), new, prev, next) =
           Mem([n EXCEPT ![new] = next, ![prev] = new],
               [p EXCEPT ![next] = new, ![new] = prev])
<1> DEFINE p1 == [p EXCEPT ![next] = new]
           n1 == [n EXCEPT ![new] = next]
<1>1. SetPrev(Mem(n, p), next, new) = Mem(n, p1)
  BY MemPrev
<1>2. SetNext(Mem(n, p1), new, next) = Mem(n1, p1)
  BY MemNext
<1> HIDE DEF p1, n1
<1> DEFINE p2 == [p1 EXCEPT ![new] = prev]
           n2 == [n1 EXCEPT ![prev] = new]
<1>3. SetPrev(Mem(n1, p1), new, prev) = Mem(n1, p2)
  BY MemPrev
<1> HIDE DEF p2
<1>4. SetNext(Mem(n1, p2), prev, new) = Mem(n2, p2)
  BY MemNext
<1> HIDE DEF n2
<1>5. Link(Mem(n, p), new, prev, next) = Mem(n2, p2)
  BY <1>1, <1>2, <1>3, <1>4 DEF Link
<1> QED
  BY <1>5, Zenon DEF n2, p2, n1, p1

\* __list_del_entry.
LEMMA UnlinkIs ==
  ASSUME NEW n, NEW p, NEW entry
  PROVE  UnlinkEntry(Mem(n, p), entry) =
           Mem([n EXCEPT ![p[entry]] = n[entry]], [p EXCEPT ![n[entry]] = p[entry]])
<1> DEFINE p1 == [p EXCEPT ![n[entry]] = p[entry]]
           n1 == [n EXCEPT ![p[entry]] = n[entry]]
<1>1. SetPrev(Mem(n, p), n[entry], p[entry]) = Mem(n, p1)
  BY MemPrev
<1> HIDE DEF p1
<1>2. SetNext(Mem(n, p1), p[entry], n[entry]) = Mem(n1, p1)
  BY MemNext
<1> HIDE DEF n1
<1>3. UnlinkEntry(Mem(n, p), entry) = Mem(n1, p1)
  BY <1>1, <1>2, MemParts DEF UnlinkEntry, Unlink
<1> QED
  BY <1>3 DEF n1, p1

\* list_replace reads the pointers of new and old after it has changed some.
Replaced(n, p, old, new) ==
  LET n1 == [n EXCEPT ![new] = n[old]]
      p1 == [p EXCEPT ![n1[new]] = new]
      p2 == [p1 EXCEPT ![new] = p1[old]]
      n2 == [n1 EXCEPT ![p2[new]] = new]
  IN  Mem(n2, p2)

\* list_replace.
LEMMA ReplaceIs ==
  ASSUME NEW n, NEW p, NEW old, NEW new
  PROVE  list_replace(Mem(n, p), old, new) = Replaced(n, p, old, new)
<1> DEFINE n1 == [n EXCEPT ![new] = n[old]]
           p1 == [p EXCEPT ![n1[new]] = new]
           p2 == [p1 EXCEPT ![new] = p1[old]]
           n2 == [n1 EXCEPT ![p2[new]] = new]
<1>1. SetNext(Mem(n, p), new, n[old]) = Mem(n1, p)
  BY MemNext
<1> HIDE DEF n1
<1>2. SetPrev(Mem(n1, p), n1[new], new) = Mem(n1, p1)
  BY MemPrev
<1> HIDE DEF p1
<1>3. SetPrev(Mem(n1, p1), new, p1[old]) = Mem(n1, p2)
  BY MemPrev
<1> HIDE DEF p2
<1>4. SetNext(Mem(n1, p2), p2[new], new) = Mem(n2, p2)
  BY MemNext
<1> HIDE DEF n2
<1>5. list_replace(Mem(n, p), old, new) = Mem(n2, p2)
  <2>1. PICK H1 : H1 = SetNext(Mem(n, p), new, Mem(n, p).next[old])
    OBVIOUS
  <2>2. PICK H2 : H2 = SetPrev(H1, H1.next[new], new)
    OBVIOUS
  <2>3. PICK H3 : H3 = SetPrev(H2, new, H2.prev[old])
    OBVIOUS
  <2>4. list_replace(Mem(n, p), old, new) = SetNext(H3, H3.prev[new], new)
    BY <2>1, <2>2, <2>3 DEF list_replace
  <2>5. H1 = Mem(n1, p)
    BY <2>1, <1>1, MemParts
  <2>6. H2 = Mem(n1, p1)
    BY <2>2, <2>5, <1>2, MemParts
  <2>7. H3 = Mem(n1, p2)
    BY <2>3, <2>6, <1>3, MemParts
  <2> QED
    BY <2>4, <2>7, <1>4, MemParts
<1> QED
  BY <1>5 DEF n2, p2, p1, n1, Replaced

BulkMoved(n, p, head, first, last) ==
  LET n1 == [n EXCEPT ![p[first]] = n[last]]
      p1 == [p EXCEPT ![n1[last]] = p[first]]
      n2 == [n1 EXCEPT ![p1[head]] = first]
      p2 == [p1 EXCEPT ![first] = p1[head]]
      n3 == [n2 EXCEPT ![last] = head]
      p3 == [p2 EXCEPT ![head] = last]
  IN  Mem(n3, p3)

\* list_bulk_move_tail.
LEMMA BulkMoveIs ==
  ASSUME NEW n, NEW p, NEW head, NEW first, NEW last
  PROVE  list_bulk_move_tail(Mem(n, p), head, first, last) = BulkMoved(n, p, head, first, last)
<1> DEFINE n1 == [n EXCEPT ![p[first]] = n[last]]
           p1 == [p EXCEPT ![n1[last]] = p[first]]
           n2 == [n1 EXCEPT ![p1[head]] = first]
           p2 == [p1 EXCEPT ![first] = p1[head]]
           n3 == [n2 EXCEPT ![last] = head]
           p3 == [p2 EXCEPT ![head] = last]
<1>1. SetNext(Mem(n, p), p[first], n[last]) = Mem(n1, p)
  BY MemNext
<1> HIDE DEF n1
<1>2. SetPrev(Mem(n1, p), n1[last], p[first]) = Mem(n1, p1)
  BY MemPrev
<1> HIDE DEF p1
<1>3. SetNext(Mem(n1, p1), p1[head], first) = Mem(n2, p1)
  BY MemNext
<1> HIDE DEF n2
<1>4. SetPrev(Mem(n2, p1), first, p1[head]) = Mem(n2, p2)
  BY MemPrev
<1> HIDE DEF p2
<1>5. SetNext(Mem(n2, p2), last, head) = Mem(n3, p2)
  BY MemNext
<1> HIDE DEF n3
<1>6. SetPrev(Mem(n3, p2), head, last) = Mem(n3, p3)
  BY MemPrev
<1> HIDE DEF p3
<1>7. /\ Mem(n, p).next = n /\ Mem(n, p).prev = p
      /\ Mem(n1, p).next = n1 /\ Mem(n1, p).prev = p
      /\ Mem(n1, p1).prev = p1 /\ Mem(n2, p1).prev = p1
  BY MemParts
<1>8. list_bulk_move_tail(Mem(n, p), head, first, last) = Mem(n3, p3)
  BY <1>1, <1>2, <1>3, <1>4, <1>5, <1>6, <1>7, Zenon DEF list_bulk_move_tail
<1> QED
  BY <1>8 DEF p3, n3, p2, n2, p1, n1, BulkMoved

CutOff(n, p, list, head, entry) ==
  LET n1 == [n EXCEPT ![list] = n[head]]
      p1 == [p EXCEPT ![n1[list]] = list]
      p2 == [p1 EXCEPT ![list] = entry]
      n2 == [n1 EXCEPT ![entry] = list]
      n3 == [n2 EXCEPT ![head] = n[entry]]
      p3 == [p2 EXCEPT ![n[entry]] = head]
  IN  Mem(n3, p3)

\* __list_cut_position.
LEMMA CutIs ==
  ASSUME NEW n, NEW p, NEW list, NEW head, NEW entry
  PROVE  Cut(Mem(n, p), list, head, entry) = CutOff(n, p, list, head, entry)
<1> DEFINE n1 == [n EXCEPT ![list] = n[head]]
           p1 == [p EXCEPT ![n1[list]] = list]
           p2 == [p1 EXCEPT ![list] = entry]
           n2 == [n1 EXCEPT ![entry] = list]
           n3 == [n2 EXCEPT ![head] = n[entry]]
           p3 == [p2 EXCEPT ![n[entry]] = head]
<1>1. SetNext(Mem(n, p), list, n[head]) = Mem(n1, p)
  BY MemNext
<1> HIDE DEF n1
<1>2. SetPrev(Mem(n1, p), n1[list], list) = Mem(n1, p1)
  BY MemPrev
<1> HIDE DEF p1
<1>3. SetPrev(Mem(n1, p1), list, entry) = Mem(n1, p2)
  BY MemPrev
<1> HIDE DEF p2
<1>4. SetNext(Mem(n1, p2), entry, list) = Mem(n2, p2)
  BY MemNext
<1> HIDE DEF n2
<1>5. SetNext(Mem(n2, p2), head, n[entry]) = Mem(n3, p2)
  BY MemNext
<1> HIDE DEF n3
<1>6. SetPrev(Mem(n3, p2), n[entry], head) = Mem(n3, p3)
  BY MemPrev
<1> HIDE DEF p3
<1>7. Cut(Mem(n, p), list, head, entry) = Mem(n3, p3)
  BY <1>1, <1>2, <1>3, <1>4, <1>5, <1>6, MemParts DEF Cut
<1> QED
  BY <1>7 DEF p3, n3, n2, p2, p1, n1, CutOff

CutOffBefore(n, p, list, head, entry) ==
  LET n1 == [n EXCEPT ![list] = n[head]]
      p1 == [p EXCEPT ![n1[list]] = list]
      p2 == [p1 EXCEPT ![list] = p1[entry]]
      n2 == [n1 EXCEPT ![p2[list]] = list]
      n3 == [n2 EXCEPT ![head] = entry]
      p3 == [p2 EXCEPT ![entry] = head]
  IN  Mem(n3, p3)

\* list_cut_before, of an entry that is not the first.
LEMMA CutBeforeIs ==
  ASSUME NEW n, NEW p, NEW list, NEW head, NEW entry, n[head] # entry
  PROVE  list_cut_before(Mem(n, p), list, head, entry) = CutOffBefore(n, p, list, head, entry)
<1> DEFINE n1 == [n EXCEPT ![list] = n[head]]
           p1 == [p EXCEPT ![n1[list]] = list]
           p2 == [p1 EXCEPT ![list] = p1[entry]]
           n2 == [n1 EXCEPT ![p2[list]] = list]
           n3 == [n2 EXCEPT ![head] = entry]
           p3 == [p2 EXCEPT ![entry] = head]
<1>1. SetNext(Mem(n, p), list, n[head]) = Mem(n1, p)
  BY MemNext
<1> HIDE DEF n1
<1>2. SetPrev(Mem(n1, p), n1[list], list) = Mem(n1, p1)
  BY MemPrev
<1> HIDE DEF p1
<1>3. SetPrev(Mem(n1, p1), list, p1[entry]) = Mem(n1, p2)
  BY MemPrev
<1> HIDE DEF p2
<1>4. SetNext(Mem(n1, p2), p2[list], list) = Mem(n2, p2)
  BY MemNext
<1> HIDE DEF n2
<1>5. SetNext(Mem(n2, p2), head, entry) = Mem(n3, p2)
  BY MemNext
<1> HIDE DEF n3
<1>6. SetPrev(Mem(n3, p2), entry, head) = Mem(n3, p3)
  BY MemPrev
<1> HIDE DEF p3
<1>7. list_cut_before(Mem(n, p), list, head, entry) = Mem(n3, p3)
  <2>1. PICK H1 : H1 = SetNext(Mem(n, p), list, Mem(n, p).next[head])
    OBVIOUS
  <2>2. PICK H2 : H2 = SetPrev(H1, H1.next[list], list)
    OBVIOUS
  <2>3. PICK H3 : H3 = SetPrev(H2, list, H2.prev[entry])
    OBVIOUS
  <2>4. PICK H4 : H4 = SetNext(H3, H3.prev[list], list)
    OBVIOUS
  <2>5. Mem(n, p).next[head] # entry
    BY MemParts
  <2>6. list_cut_before(Mem(n, p), list, head, entry) =
          SetPrev(SetNext(H4, head, entry), entry, head)
    BY <2>1, <2>2, <2>3, <2>4, <2>5, Zenon DEF list_cut_before
  <2>7. H1 = Mem(n1, p)
    BY <2>1, <1>1, MemParts
  <2>8. H2 = Mem(n1, p1)
    BY <2>2, <2>7, <1>2, MemParts
  <2>9. H3 = Mem(n1, p2)
    BY <2>3, <2>8, <1>3, MemParts
  <2>10. H4 = Mem(n2, p2)
    BY <2>4, <2>9, <1>4, MemParts
  <2> QED
    BY <2>6, <2>10, <1>5, <1>6
<1> QED
  BY <1>7 DEF p3, n3, n2, p2, p1, n1, CutOffBefore

Joined(n, p, list, prev, next) ==
  LET p1 == [p EXCEPT ![n[list]] = prev]
      n1 == [n EXCEPT ![prev] = n[list]]
      n2 == [n1 EXCEPT ![p[list]] = next]
      p2 == [p1 EXCEPT ![next] = p[list]]
  IN  Mem(n2, p2)

\* __list_splice.
LEMMA JoinIs ==
  ASSUME NEW n, NEW p, NEW list, NEW prev, NEW next
  PROVE  Join(Mem(n, p), list, prev, next) = Joined(n, p, list, prev, next)
<1> DEFINE p1 == [p EXCEPT ![n[list]] = prev]
           n1 == [n EXCEPT ![prev] = n[list]]
           n2 == [n1 EXCEPT ![p[list]] = next]
           p2 == [p1 EXCEPT ![next] = p[list]]
<1>1. SetPrev(Mem(n, p), n[list], prev) = Mem(n, p1)
  BY MemPrev
<1> HIDE DEF p1
<1>2. SetNext(Mem(n, p1), prev, n[list]) = Mem(n1, p1)
  BY MemNext
<1> HIDE DEF n1
<1>3. SetNext(Mem(n1, p1), p[list], next) = Mem(n2, p1)
  BY MemNext
<1> HIDE DEF n2
<1>4. SetPrev(Mem(n2, p1), next, p[list]) = Mem(n2, p2)
  BY MemPrev
<1> HIDE DEF p2
<1>5. Join(Mem(n, p), list, prev, next) = Mem(n2, p2)
  BY <1>1, <1>2, <1>3, <1>4, MemParts DEF Join
<1> QED
  BY <1>5 DEF p2, n2, n1, p1, Joined

-----------------------------------------------------------------------------
(* What each group of assignments does to the invariant.                    *)

\* Lists may be renamed, merged in name or given up as wholes.
LEMMA RelabelSound ==
  ASSUME NEW n, NEW p, NEW o, NEW r, Sound(n, p, o), r \in ListMap,
         \A c \in Cells : r[c] # NoList => o[c] # NoList,
         \A c, d \in Cells : o[c] = o[d] => r[c] = r[d]
  PROVE  Sound(n, p, r)
BY DEF Sound, SoundAt

\* A cell nothing is linked to may be overwritten.
LEMMA OverwriteSound ==
  ASSUME NEW n, NEW p, NEW o, Sound(n, p, o), NEW c \in Cells, Isolated(n, o, c),
         NEW a \in Pointers, NEW b \in Pointers
  PROVE  Sound([n EXCEPT ![c] = a], [p EXCEPT ![c] = b], [o EXCEPT ![c] = NoList])
<1> DEFINE m == [n EXCEPT ![c] = a]
           q == [p EXCEPT ![c] = b]
           r == [o EXCEPT ![c] = NoList]
<1>1. m \in PointerMap /\ q \in PointerMap /\ r \in ListMap
  BY DEF Sound, PointerMap, ListMap
<1>2. ASSUME NEW d \in Cells PROVE SoundAt(m, q, r, d)
  BY DEF Sound, SoundAt, Isolated, PointerMap, ListMap
<1> QED
  BY <1>1, <1>2 DEF Sound

\* A cell nothing is linked to may be initialised.
LEMMA InitSound ==
  ASSUME NEW n, NEW p, NEW o, Sound(n, p, o), NEW c \in Cells, Isolated(n, o, c),
         NEW h \in Cells \cup {NoList}
  PROVE  Sound([n EXCEPT ![c] = c], [p EXCEPT ![c] = c], [o EXCEPT ![c] = h])
<1> DEFINE m == [n EXCEPT ![c] = c]
           q == [p EXCEPT ![c] = c]
           r == [o EXCEPT ![c] = h]
<1>1. m \in PointerMap /\ q \in PointerMap /\ r \in ListMap
  BY DEF Sound, PointerMap, ListMap, Pointers
<1>2. ASSUME NEW d \in Cells PROVE SoundAt(m, q, r, d)
  BY DEF Sound, SoundAt, Isolated, PointerMap, ListMap
<1> QED
  BY <1>1, <1>2 DEF Sound

\* A cell nothing is linked to may be linked in behind one that is on a list.
LEMMA LinkSound ==
  ASSUME NEW n, NEW p, NEW o, Sound(n, p, o),
         NEW new \in Cells, NEW prev \in Cells,
         Isolated(n, o, new), o[prev] # NoList, new # prev
  PROVE  Sound([n EXCEPT ![new] = n[prev], ![prev] = new],
               [p EXCEPT ![n[prev]] = new, ![new] = prev],
               [o EXCEPT ![new] = o[prev]])
<1> DEFINE m == [n EXCEPT ![new] = n[prev], ![prev] = new]
           q == [p EXCEPT ![n[prev]] = new, ![new] = prev]
           r == [o EXCEPT ![new] = o[prev]]
<1>1. m \in PointerMap /\ q \in PointerMap /\ r \in ListMap
  BY DEF Sound, SoundAt, PointerMap, ListMap, Pointers
<1>2. ASSUME NEW c \in Cells PROVE SoundAt(m, q, r, c)
  BY DEF Sound, SoundAt, Isolated, PointerMap, ListMap, Pointers
<1> QED
  BY <1>1, <1>2 DEF Sound

\* A cell may be taken out, and its neighbours linked to each other.
LEMMA UnlinkSound ==
  ASSUME NEW n, NEW p, NEW o, Sound(n, p, o), NEW entry \in Cells, o[entry] # NoList
  PROVE  Sound([n EXCEPT ![p[entry]] = n[entry]], [p EXCEPT ![n[entry]] = p[entry]],
               [o EXCEPT ![entry] = NoList])
<1> DEFINE m == [n EXCEPT ![p[entry]] = n[entry]]
           q == [p EXCEPT ![n[entry]] = p[entry]]
           r == [o EXCEPT ![entry] = NoList]
<1>1. m \in PointerMap /\ q \in PointerMap /\ r \in ListMap
  BY DEF Sound, SoundAt, PointerMap, ListMap, Pointers
<1>2. ASSUME NEW c \in Cells PROVE SoundAt(m, q, r, c)
  BY DEF Sound, SoundAt, PointerMap, ListMap, Pointers
<1> QED
  BY <1>1, <1>2 DEF Sound

\* A cell may take the place of another, also where that is alone.
LEMMA ReplaceSound ==
  ASSUME NEW n, NEW p, NEW o, Sound(n, p, o), NEW old \in Cells, NEW new \in Cells,
         old # new, o[old] # NoList, Isolated(n, o, new)
  PROVE  Ok(Replaced(n, p, old, new), [o EXCEPT ![new] = o[old], ![old] = NoList])
<1> DEFINE n1 == [n EXCEPT ![new] = n[old]]
           p1 == [p EXCEPT ![n1[new]] = new]
           p2 == [p1 EXCEPT ![new] = p1[old]]
           n2 == [n1 EXCEPT ![p2[new]] = new]
           r  == [o EXCEPT ![new] = o[old], ![old] = NoList]
<1>1. /\ n \in PointerMap /\ p \in PointerMap /\ o \in ListMap
      /\ n[old] \in Cells /\ p[old] \in Cells /\ n[old] # new /\ p[old] # new
  BY DEF Sound, SoundAt, Isolated
<1>2. n1[new] = n[old] /\ n1 \in PointerMap
  BY <1>1 DEF PointerMap, Pointers
<1>3. /\ p1 = [p EXCEPT ![n[old]] = new] /\ p1 \in PointerMap
      /\ p1[old] = IF n[old] = old THEN new ELSE p[old]
  BY <1>1, <1>2 DEF PointerMap, Pointers
<1>4. p1[old] \in Cells /\ p2[new] = p1[old] /\ p2 \in PointerMap
  BY <1>1, <1>3 DEF PointerMap, Pointers
<1>5. n2 = [n1 EXCEPT ![p1[old]] = new] /\ n2 \in PointerMap
  BY <1>1, <1>2, <1>4 DEF PointerMap, Pointers
<1>6. r \in ListMap
  BY <1>1 DEF ListMap
<1>7. ASSUME NEW c \in Cells PROVE SoundAt(n2, p2, r, c)
  <2>1. CASE n[old] = old
    BY <1>1, <1>2, <1>3, <1>4, <1>5, <2>1
       DEF Sound, SoundAt, Isolated, PointerMap, ListMap
  <2>2. CASE n[old] # old
    <3>1. p1[old] = p[old] /\ p[old] # old
      BY <1>3, <2>2 DEF Sound, SoundAt
    <3> QED
      BY <1>1, <1>2, <1>3, <1>4, <1>5, <2>2, <3>1
         DEF Sound, SoundAt, Isolated, PointerMap, ListMap
  <2> QED
    BY <2>1, <2>2
<1>8. Replaced(n, p, old, new) = Mem(n2, p2)
  BY Zenon DEF Replaced
<1>9. Sound(n2, p2, r)
  BY <1>4, <1>5, <1>6, <1>7 DEF Sound
<1> HIDE DEF n2, p2
<1> QED
  BY <1>8, <1>9, OkMem

\* Segment, of any pointers and lists.
SegmentOf(n, p, o, seg, first, last) ==
  /\ first \in seg /\ last \in seg
  /\ p[first] \notin seg /\ n[last] \notin seg
  /\ \A c \in seg : /\ o[c] = o[first]
                    /\ c # last => n[c] \in seg
                    /\ c # first => p[c] \in seg

\* A segment may be moved in front of its head, also if it stands there.
LEMMA BulkMoveSound ==
  ASSUME NEW n, NEW p, NEW o, Sound(n, p, o),
         NEW head \in Cells, NEW first \in Cells, NEW last \in Cells,
         o[head] # NoList, o[first] = o[head],
         NEW seg \in SUBSET (Cells \ {head}), SegmentOf(n, p, o, seg, first, last)
  PROVE  Ok(BulkMoved(n, p, head, first, last), o)
<1> DEFINE n1 == [n EXCEPT ![p[first]] = n[last]]
           p1 == [p EXCEPT ![n1[last]] = p[first]]
           n2 == [n1 EXCEPT ![p1[head]] = first]
           p2 == [p1 EXCEPT ![first] = p1[head]]
           n3 == [n2 EXCEPT ![last] = head]
           p3 == [p2 EXCEPT ![head] = last]
<1>1. /\ n \in PointerMap /\ p \in PointerMap /\ o \in ListMap
      /\ p[first] \in Cells \ seg /\ n[last] \in Cells \ seg
      /\ o[last] = o[head] /\ o[p[first]] = o[head] /\ o[n[last]] = o[head]
  BY DEF Sound, SoundAt, SegmentOf
<1>2. n1[last] = n[last] /\ n1 \in PointerMap
  BY <1>1 DEF PointerMap, Pointers, SegmentOf
<1>3. /\ p1 = [p EXCEPT ![n[last]] = p[first]] /\ p1 \in PointerMap
      /\ p1[head] = IF head = n[last] THEN p[first] ELSE p[head]
  BY <1>1, <1>2 DEF PointerMap, Pointers
<1>4. p1[head] \in Cells \ seg /\ o[p1[head]] = o[head]
  BY <1>1, <1>3 DEF Sound, SoundAt, SegmentOf
<1>5. n2 \in PointerMap /\ p2 \in PointerMap /\ n3 \in PointerMap /\ p3 \in PointerMap
  BY <1>1, <1>2, <1>3, <1>4 DEF PointerMap, Pointers
<1>6. ASSUME NEW c \in Cells PROVE SoundAt(n3, p3, o, c)
  <2>1. CASE head = n[last]
    BY <1>1, <1>2, <1>3, <1>4, <1>5, <2>1 DEF Sound, SoundAt, SegmentOf, PointerMap, ListMap
  <2>2. CASE head # n[last]
    BY <1>1, <1>2, <1>3, <1>4, <1>5, <2>2 DEF Sound, SoundAt, SegmentOf, PointerMap, ListMap
  <2> QED
    BY <2>1, <2>2
<1>8. BulkMoved(n, p, head, first, last) = Mem(n3, p3)
  BY Zenon DEF BulkMoved
<1>9. Sound(n3, p3, o)
  BY <1>1, <1>5, <1>6 DEF Sound
<1> HIDE DEF n3, p3
<1> QED
  BY <1>8, <1>9, OkMem

\* The lists after the cells of seg have been cut off to list.
CutTo(o, list, seg) ==
  [c \in Cells |-> IF c = list \/ c \in seg THEN list
                   ELSE IF o[c] = list THEN NoList ELSE o[c]]

\* The segment from the first entry to entry may become the list of list.
LEMMA CutSound ==
  ASSUME NEW n, NEW p, NEW o, Sound(n, p, o),
         NEW list \in Cells, NEW head \in Cells, NEW entry \in Cells,
         list # head, o[head] = head, entry # head,
         o[list] \in {list, NoList},
         NEW seg \in SUBSET (Cells \ {head}), SegmentOf(n, p, o, seg, n[head], entry)
  PROVE  Ok(CutOff(n, p, list, head, entry), CutTo(o, list, seg))
<1> DEFINE n1 == [n EXCEPT ![list] = n[head]]
           p1 == [p EXCEPT ![n1[list]] = list]
           p2 == [p1 EXCEPT ![list] = entry]
           n2 == [n1 EXCEPT ![entry] = list]
           n3 == [n2 EXCEPT ![head] = n[entry]]
           p3 == [p2 EXCEPT ![n[entry]] = head]
           r  == CutTo(o, list, seg)
<1>1. /\ n \in PointerMap /\ p \in PointerMap /\ o \in ListMap
      /\ head # NoList /\ n[head] \in Cells /\ o[n[head]] = head /\ p[n[head]] = head
      /\ o[entry] = head /\ n[entry] \in Cells \ seg /\ o[n[entry]] = head
  BY Sentinels DEF Sound, SoundAt, SegmentOf
<1>2. n1[list] = n[head] /\ n1 \in PointerMap
  BY <1>1 DEF PointerMap, Pointers
<1>3. /\ p1 \in PointerMap /\ p2 \in PointerMap /\ p3 \in PointerMap
      /\ n2 \in PointerMap /\ n3 \in PointerMap
  BY <1>1, <1>2 DEF PointerMap, Pointers
<1>4. r \in ListMap /\ \A c \in Cells :
        r[c] = IF c = list \/ c \in seg THEN list
               ELSE IF o[c] = list THEN NoList ELSE o[c]
  BY <1>1 DEF ListMap, CutTo
<1>5. list \notin seg /\ \A c \in seg : o[c] = head /\ c # head
  BY <1>1, Sentinels DEF SegmentOf
<1> HIDE DEF r
<1>6. ASSUME NEW c \in Cells PROVE SoundAt(n3, p3, r, c)
  BY <1>1, <1>2, <1>3, <1>4, <1>5 DEF Sound, SoundAt, SegmentOf, Isolated, PointerMap, ListMap
<1>8. CutOff(n, p, list, head, entry) = Mem(n3, p3)
  BY Zenon DEF CutOff
<1>9. Sound(n3, p3, r)
  BY <1>3, <1>4, <1>6 DEF Sound
<1> HIDE DEF n3, p3
<1> QED
  BY <1>8, <1>9, OkMem DEF r

\* So may the segment from the first entry to the one before entry.
LEMMA CutBeforeSound ==
  ASSUME NEW n, NEW p, NEW o, Sound(n, p, o),
         NEW list \in Cells, NEW head \in Cells, NEW entry \in Cells,
         list # head, o[head] = head, o[entry] = head, n[head] # entry,
         o[list] \in {list, NoList},
         NEW seg \in SUBSET (Cells \ {head}), SegmentOf(n, p, o, seg, n[head], p[entry])
  PROVE  Ok(CutOffBefore(n, p, list, head, entry), CutTo(o, list, seg))
<1> DEFINE n1 == [n EXCEPT ![list] = n[head]]
           p1 == [p EXCEPT ![n1[list]] = list]
           p2 == [p1 EXCEPT ![list] = p1[entry]]
           n2 == [n1 EXCEPT ![p2[list]] = list]
           n3 == [n2 EXCEPT ![head] = entry]
           p3 == [p2 EXCEPT ![entry] = head]
           r  == CutTo(o, list, seg)
<1>1. /\ n \in PointerMap /\ p \in PointerMap /\ o \in ListMap
      /\ head # NoList /\ n[head] \in Cells /\ o[n[head]] = head /\ p[n[head]] = head
      /\ p[entry] \in Cells /\ o[p[entry]] = head /\ n[p[entry]] = entry
      /\ entry \notin seg
  BY Sentinels DEF Sound, SoundAt, SegmentOf
<1>2. n1[list] = n[head] /\ n1 \in PointerMap
  BY <1>1 DEF PointerMap, Pointers
<1>3. p1[entry] = p[entry] /\ p1 \in PointerMap /\ p2 \in PointerMap /\ p3 \in PointerMap
  BY <1>1, <1>2 DEF PointerMap, Pointers
<1>4. p2[list] = p[entry] /\ n2 \in PointerMap /\ n3 \in PointerMap
  BY <1>1, <1>2, <1>3 DEF PointerMap, Pointers
<1>5. r \in ListMap /\ \A c \in Cells :
        r[c] = IF c = list \/ c \in seg THEN list
               ELSE IF o[c] = list THEN NoList ELSE o[c]
  BY <1>1 DEF ListMap, CutTo
<1>6. list \notin seg /\ \A c \in seg : o[c] = head /\ c # head
  BY <1>1, Sentinels DEF SegmentOf
<1> HIDE DEF r
<1>7. ASSUME NEW c \in Cells PROVE SoundAt(n3, p3, r, c)
  BY <1>1, <1>2, <1>3, <1>4, <1>5, <1>6 DEF Sound, SoundAt, SegmentOf, PointerMap, ListMap
<1>8. CutOffBefore(n, p, list, head, entry) = Mem(n3, p3)
  BY Zenon DEF CutOffBefore
<1>9. Sound(n3, p3, r)
  BY <1>3, <1>4, <1>5, <1>7 DEF Sound
<1> HIDE DEF n3, p3
<1> QED
  BY <1>8, <1>9, OkMem DEF r

\* list's cells but list itself come to stand between prev and the cell that
\* follows it.
LEMMA JoinSound ==
  ASSUME NEW n, NEW p, NEW o, Sound(n, p, o),
         NEW list \in Cells, NEW prev \in Cells,
         o[list] = list, o[prev] # NoList, o[prev] # list, n[list] # list
  PROVE  Ok(Joined(n, p, list, prev, n[prev]),
            [c \in Cells |-> IF c = list THEN NoList
                          ELSE IF o[c] = list THEN o[prev] ELSE o[c]])
<1> DEFINE p1 == [p EXCEPT ![n[list]] = prev]
           n1 == [n EXCEPT ![prev] = n[list]]
           n2 == [n1 EXCEPT ![p[list]] = n[prev]]
           p2 == [p1 EXCEPT ![n[prev]] = p[list]]
           r  == [c \in Cells |-> IF c = list THEN NoList
                                  ELSE IF o[c] = list THEN o[prev] ELSE o[c]]
<1>1. /\ n \in PointerMap /\ p \in PointerMap /\ o \in ListMap /\ list # NoList
      /\ n[list] \in Cells /\ o[n[list]] = list /\ p[n[list]] = list
      /\ p[list] \in Cells /\ o[p[list]] = list /\ n[p[list]] = list
      /\ n[prev] \in Cells /\ o[n[prev]] = o[prev] /\ p[n[prev]] = prev
  BY Sentinels DEF Sound, SoundAt
<1>2. /\ p1 \in PointerMap /\ p2 \in PointerMap /\ n1 \in PointerMap /\ n2 \in PointerMap
  BY <1>1 DEF PointerMap, Pointers
<1>3. r \in ListMap
  BY <1>1 DEF ListMap
<1>4. ASSUME NEW c \in Cells PROVE SoundAt(n2, p2, r, c)
  BY <1>1, <1>2, <1>3 DEF Sound, SoundAt, PointerMap, ListMap
<1>8. Joined(n, p, list, prev, n[prev]) = Mem(n2, p2)
  BY Zenon DEF Joined
<1>9. Sound(n2, p2, r)
  BY <1>2, <1>3, <1>4 DEF Sound
<1> HIDE DEF n2, p2
<1> QED
  BY <1>8, <1>9, OkMem

-----------------------------------------------------------------------------
(* The functions, on a heap.                                                *)

\* INIT_LIST_HEAD keeps the invariant.
LEMMA OkInit ==
  ASSUME NEW H, NEW o, Ok(H, o), NEW c \in Cells, Isolated(H.next, o, c),
         NEW h \in Cells \cup {NoList}
  PROVE  Ok(INIT_LIST_HEAD(H, c), [o EXCEPT ![c] = h])
<1> DEFINE n == H.next
           p == H.prev
<1>1. H = Mem(n, p) /\ Sound(n, p, o) /\ Isolated(n, o, c)
  BY DEF Ok
<1> HIDE DEF n, p
<1>2. INIT_LIST_HEAD(H, c) = Mem([n EXCEPT ![c] = c], [p EXCEPT ![c] = c])
  BY <1>1, InitIs
<1>3. Sound([n EXCEPT ![c] = c], [p EXCEPT ![c] = c], [o EXCEPT ![c] = h])
  BY <1>1, InitSound
<1> QED
  BY <1>2, <1>3, OkMem

\* __list_add keeps it.
LEMMA OkLink ==
  ASSUME NEW n, NEW p, NEW o, Sound(n, p, o),
         NEW new \in Cells, NEW prev \in Cells,
         Isolated(n, o, new), o[prev] # NoList, new # prev
  PROVE  Ok(Link(Mem(n, p), new, prev, n[prev]), [o EXCEPT ![new] = o[prev]])
<1> DEFINE m == [n EXCEPT ![new] = n[prev], ![prev] = new]
           q == [p EXCEPT ![n[prev]] = new, ![new] = prev]
<1>1. Link(Mem(n, p), new, prev, n[prev]) = Mem(m, q)
  BY LinkIs
<1>2. Sound(m, q, [o EXCEPT ![new] = o[prev]])
  BY LinkSound
<1> HIDE DEF m, q
<1> QED
  BY <1>1, <1>2, OkMem

\* list_add and list_add_tail keep it.
LEMMA OkAdd ==
  ASSUME NEW H, NEW o, Ok(H, o), NEW new \in Cells, NEW head \in Cells,
         Isolated(H.next, o, new), o[head] # NoList, new # head
  PROVE  /\ Ok(list_add(H, new, head), [o EXCEPT ![new] = o[head]])
         /\ Ok(list_add_tail(H, new, head), [o EXCEPT ![new] = o[head]])
<1> DEFINE n == H.next
           p == H.prev
<1>1. H = Mem(n, p) /\ Sound(n, p, o) /\ Isolated(n, o, new)
  BY DEF Ok
<1>2. list_add(H, new, head) = Link(H, new, head, n[head])
      /\ list_add_tail(H, new, head) = Link(H, new, p[head], head)
  BY DEF list_add, list_add_tail
<1> HIDE DEF n, p
<1>3. /\ p[head] \in Cells /\ o[p[head]] = o[head] /\ n[p[head]] = head
      /\ p[head] # new
  BY <1>1 DEF Sound, SoundAt, Isolated
<1>4. Ok(Link(Mem(n, p), new, head, n[head]), [o EXCEPT ![new] = o[head]])
  BY <1>1, OkLink
<1>5. Ok(Link(Mem(n, p), new, p[head], n[p[head]]), [o EXCEPT ![new] = o[p[head]]])
  BY <1>1, <1>3, OkLink
<1> QED
  BY <1>1, <1>2, <1>3, <1>4, <1>5

\* __list_del_entry keeps it.
LEMMA OkUnlink ==
  ASSUME NEW H, NEW o, Ok(H, o), NEW entry \in Cells, o[entry] # NoList
  PROVE  Ok(UnlinkEntry(H, entry), [o EXCEPT ![entry] = NoList])
<1> DEFINE n == H.next
           p == H.prev
<1>1. H = Mem(n, p) /\ Sound(n, p, o)
  BY DEF Ok
<1> HIDE DEF n, p
<1> DEFINE m == [n EXCEPT ![p[entry]] = n[entry]]
           q == [p EXCEPT ![n[entry]] = p[entry]]
<1>2. UnlinkEntry(Mem(n, p), entry) = Mem(m, q)
  BY UnlinkIs
<1>3. Sound(m, q, [o EXCEPT ![entry] = NoList])
  BY <1>1, UnlinkSound
<1> HIDE DEF m, q
<1> QED
  BY <1>1, <1>2, <1>3, OkMem

\* Any pointers may be left in a cell that is on no list.
LEMMA OkOverwrite ==
  ASSUME NEW H, NEW o, Ok(H, o), NEW c \in Cells, o[c] = NoList,
         NEW a \in Pointers, NEW b \in Pointers
  PROVE  /\ Ok(SetPrev(SetNext(H, c, a), c, b), o)
         /\ Ok(SetPrev(H, c, b), o)
<1> DEFINE n  == H.next
           p  == H.prev
           n1 == [n EXCEPT ![c] = a]
           p1 == [p EXCEPT ![c] = b]
<1>1. H = Mem(n, p) /\ Sound(n, p, o)
  BY DEF Ok
<1> HIDE DEF n, p
<1>2. n \in PointerMap /\ p \in PointerMap /\ o \in ListMap
  BY <1>1 DEF Sound
<1>3. [o EXCEPT ![c] = NoList] = o /\ [n EXCEPT ![c] = n[c]] = n /\ n[c] \in Pointers
  BY <1>2 DEF ListMap, PointerMap
<1>4. Sound(n1, p1, o) /\ Sound(n, p1, o)
  BY <1>1, <1>3, OverwriteSound DEF Isolated
<1>5. SetNext(H, c, a) = Mem(n1, p) /\ SetPrev(H, c, b) = Mem(n, p1)
  BY <1>1, MemNext, MemPrev
<1> HIDE DEF n1
<1>6. SetPrev(Mem(n1, p), c, b) = Mem(n1, p1)
  BY MemPrev
<1> HIDE DEF p1
<1> QED
  BY <1>4, <1>5, <1>6, OkMem

\* list_replace keeps it.
LEMMA OkReplace ==
  ASSUME NEW H, NEW o, Ok(H, o), NEW old \in Cells, NEW new \in Cells,
         old # new, o[old] # NoList, Isolated(H.next, o, new)
  PROVE  Ok(list_replace(H, old, new), [o EXCEPT ![new] = o[old], ![old] = NoList])
<1> DEFINE n == H.next
           p == H.prev
<1>1. H = Mem(n, p) /\ Sound(n, p, o) /\ Isolated(n, o, new)
  BY DEF Ok
<1> HIDE DEF n, p
<1> QED
  BY <1>1, ReplaceIs, ReplaceSound

\* list_move and list_move_tail keep it.
LEMMA OkMove ==
  ASSUME NEW H, NEW o, Ok(H, o), NEW list \in Cells, NEW head \in Cells,
         o[list] # NoList, o[head] # NoList, list # head
  PROVE  /\ Ok(list_move(H, list, head), [o EXCEPT ![list] = o[head]])
         /\ Ok(list_move_tail(H, list, head), [o EXCEPT ![list] = o[head]])
<1> DEFINE G == UnlinkEntry(H, list)
           r == [o EXCEPT ![list] = NoList]
<1>1. Ok(G, r)
  BY OkUnlink
<1>2. o \in ListMap
  BY DEF Ok, Sound
<1>3. r[list] = NoList /\ r[head] = o[head]
      /\ [r EXCEPT ![list] = r[head]] = [o EXCEPT ![list] = o[head]]
  BY <1>2 DEF ListMap
<1>4. list_move(H, list, head) = list_add(G, list, head)
      /\ list_move_tail(H, list, head) = list_add_tail(G, list, head)
  BY DEF list_move, list_move_tail
<1> HIDE DEF G, r
<1>5. Isolated(G.next, r, list)
  BY <1>3 DEF Isolated
<1> QED
  BY <1>1, <1>3, <1>4, <1>5, OkAdd

-----------------------------------------------------------------------------
(* The calls that move several entries keep the invariant.                  *)

\* The invariant of the heap is the two invariants of the specification.
LEMMA OkIsInvariant == Ok(heap, on) <=> TypeOK /\ WellLinked
BY DEF Ok, Mem, Sound, SoundAt, TypeOK, WellLinked, Linked, PointerMap, ListMap

\* Putting one cell on a list.
LEMMA PutIs ==
  ASSUME on \in ListMap, NEW c \in Cells, NEW h \in Cells \cup {NoList}
  PROVE  Put({c}, h) = [on EXCEPT ![c] = h] /\ Put({c}, h) \in ListMap
BY DEF Put, ListMap

\* list_swap keeps the heap well linked.
LEMMA SwapKeeps ==
  ASSUME Ok(heap, on), NEW entry1 \in Entries, NEW entry2 \in Entries,
         ListSwap(entry1, entry2)
  PROVE  Ok(heap', on')
<1> DEFINE pos == heap.prev[entry2]
           new == IF pos = entry1 THEN entry2 ELSE pos
           H1  == list_del(heap, entry2, POISON1, POISON2)
           o1  == [on EXCEPT ![entry2] = NoList]
           H2  == list_replace(H1, entry1, entry2)
           o2  == [o1 EXCEPT ![entry2] = o1[entry1], ![entry1] = NoList]
<1>1. /\ entry1 \in Cells /\ entry2 \in Cells /\ entry1 # entry2 /\ on \in ListMap
      /\ on[entry1] # NoList /\ on[entry2] # NoList
  BY Sentinels DEF ListSwap, Position, Cells, Ok, Sound
<1>2. pos \in Cells /\ on[pos] = on[entry2] /\ pos # entry2
  BY <1>1 DEF ListSwap, list_empty, Ok, Sound, SoundAt
<1>3. {POISON1, POISON2} \subseteq Pointers
  BY DEF Pointers
<1>4. o1 \in ListMap /\ o1[entry2] = NoList /\ o1[entry1] = on[entry1]
  BY <1>1 DEF ListMap
<1>5. Ok(H1, o1)
  BY <1>1, <1>3, <1>4, OkUnlink, OkOverwrite DEF list_del
<1>6. /\ new \in Cells /\ new # entry1 /\ o2[new] = on[entry2] /\ o2[entry1] = NoList
      /\ [o2 EXCEPT ![entry1] = o2[new]]
           = [on EXCEPT ![entry1] = on[entry2], ![entry2] = on[entry1]]
  BY <1>1, <1>2, <1>4 DEF ListMap
<1>7. /\ heap' = list_add(H2, entry1, new)
      /\ on' = [on EXCEPT ![entry1] = on[entry2], ![entry2] = on[entry1]]
  BY DEF ListSwap, list_swap
<1> HIDE DEF H1, o1, pos
<1>8. Ok(H2, o2)
  BY <1>1, <1>4, <1>5, OkReplace DEF Isolated
<1> HIDE DEF H2, o2, new
<1>9. Ok(list_add(H2, entry1, new), [o2 EXCEPT ![entry1] = o2[new]])
  BY <1>1, <1>6, <1>8, OkAdd DEF Isolated
<1> QED
  BY <1>6, <1>7, <1>9

\* So do the two rotations,
LEMMA RotateKeeps ==
  ASSUME Ok(heap, on), NEW head \in Heads,
         ListRotateLeft(head) \/ \E e \in Entries : ListRotateToFront(e, head)
  PROVE  Ok(heap', on')
<1>1. head \in Cells /\ head # NoList /\ on \in ListMap
  BY Sentinels DEF Cells, Ok, Sound
<1>2. ASSUME NEW a \in Cells, NEW b \in Cells, a # b, on[a] = head, on[b] = head
      PROVE  Ok(list_move_tail(heap, a, b), on)
  <2>1. [on EXCEPT ![a] = on[b]] = on
    BY <1>1, <1>2 DEF ListMap
  <2>2. Ok(list_move_tail(heap, a, b), [on EXCEPT ![a] = on[b]])
    BY <1>1, <1>2, OkMove
  <2> QED
    BY <2>1, <2>2
<1>3. CASE ListRotateLeft(head)
  <2>1. on[head] = head /\ heap' = list_rotate_left(heap, head) /\ on' = on
    BY <1>3 DEF ListRotateLeft
  <2>2. CASE list_empty(heap, head)
    BY <2>1, <2>2 DEF list_rotate_left
  <2>3. CASE ~list_empty(heap, head)
    <3>1. heap.next[head] \in Cells /\ on[heap.next[head]] = head
      BY <1>1, <2>1 DEF Ok, Sound, SoundAt
    <3> QED
      BY <1>1, <1>2, <2>1, <2>3, <3>1 DEF list_rotate_left, list_empty
  <2> QED
    BY <2>2, <2>3
<1>4. ASSUME NEW e \in Entries, ListRotateToFront(e, head) PROVE Ok(heap', on')
  <2>1. /\ e \in Cells /\ e # head /\ on[e] = head /\ on' = on
        /\ heap' = list_move_tail(heap, head, e)
    BY <1>4 DEF ListRotateToFront, list_rotate_to_front, Cells
  <2>2. on[head] = head
    BY <1>4 DEF ListRotateToFront
  <2>3. Ok(list_move_tail(heap, head, e), on)
    BY <1>1, <1>2, <2>1, <2>2
  <2> QED
    BY <2>1, <2>3
<1> QED
  BY <1>3, <1>4

\* list_bulk_move_tail,
LEMMA BulkMoveKeeps ==
  ASSUME Ok(heap, on), NEW head \in Heads, NEW first \in Entries, NEW last \in Entries,
         ListBulkMoveTail(head, first, last)
  PROVE  Ok(heap', on')
<1> DEFINE n == heap.next
           p == heap.prev
<1>1. PICK seg \in SUBSET (Cells \ {head}) : Segment(seg, first, last)
  BY DEF ListBulkMoveTail
<1>2. /\ head \in Cells /\ first \in Cells /\ last \in Cells
      /\ on[head] # NoList /\ on[first] = on[head]
      /\ heap' = list_bulk_move_tail(heap, head, first, last) /\ on' = on
  BY Sentinels DEF ListBulkMoveTail, Position, Cells
<1>3. heap = Mem(n, p) /\ Sound(n, p, on) /\ SegmentOf(n, p, on, seg, first, last)
  BY <1>1 DEF Ok, Segment, SegmentOf
<1> HIDE DEF n, p
<1>4. Ok(BulkMoved(n, p, head, first, last), on)
  BY <1>2, <1>3, BulkMoveSound
<1> QED
  BY <1>2, <1>3, <1>4, BulkMoveIs

\* What list had is given up, and it becomes a list of its own.
LEMMA CutNothingOff ==
  ASSUME Ok(heap, on), NEW list \in Cells, on[list] \in {list, NoList}
  PROVE  Ok(INIT_LIST_HEAD(heap, list), Cutting(list, {}))
<1> DEFINE n == heap.next
           p == heap.prev
           r == [c \in Cells |-> IF c = list \/ on[c] = list THEN NoList ELSE on[c]]
<1>1. heap = Mem(n, p) /\ Sound(n, p, on) /\ on \in ListMap
  BY DEF Ok, Sound
<1>2. r \in ListMap /\ r[list] = NoList
  BY <1>1 DEF ListMap
<1>3. /\ \A c \in Cells : r[c] # NoList => on[c] # NoList
      /\ \A c, d \in Cells : on[c] = on[d] => r[c] = r[d]
  BY <1>1, Sentinels DEF ListMap
<1>4. Cutting(list, {}) = [r EXCEPT ![list] = list]
  BY <1>1 DEF ListMap, Cutting
<1> HIDE DEF n, p, r
<1>5. Sound(n, p, r)
  BY <1>1, <1>2, <1>3, RelabelSound
<1>6. Ok(heap, r)
  BY <1>1, <1>5, OkMem
<1>7. Ok(INIT_LIST_HEAD(heap, list), [r EXCEPT ![list] = list])
  BY <1>2, <1>6, OkInit DEF Isolated
<1> QED
  BY <1>4, <1>7

\* and the two cuts.
LEMMA CutKeeps ==
  ASSUME Ok(heap, on), NEW list \in Heads, NEW head \in Heads, NEW entry \in Cells,
         ListCutPosition(list, head, entry) \/ ListCutBefore(list, head, entry)
  PROVE  Ok(heap', on')
<1> DEFINE n == heap.next
           p == heap.prev
<1>1. /\ list \in Cells /\ head \in Cells /\ list # head
      /\ on[list] \in {list, NoList} /\ on[head] = head /\ on[entry] = head
  BY DEF Cells, ListCutPosition, ListCutBefore
<1>2. heap = Mem(n, p) /\ Sound(n, p, on)
  BY DEF Ok
<1>3. Ok(INIT_LIST_HEAD(heap, list), Cutting(list, {}))
  BY <1>1, CutNothingOff
<1>4. \A seg : Cutting(list, seg) = CutTo(on, list, seg)
  BY DEF Cutting, CutTo
<1>5. CASE ListCutPosition(list, head, entry)
  <2>1. CASE CutsNothing(heap, head, entry)
    BY <1>5, <2>1 DEF ListCutPosition, list_cut_position
  <2>2. CASE ~CutsNothing(heap, head, entry) /\ entry = head
    BY <1>3, <1>5, <2>2 DEF ListCutPosition, list_cut_position
  <2>3. CASE ~CutsNothing(heap, head, entry) /\ entry # head
    <3>1. PICK seg \in SUBSET (Cells \ {head}) :
            Segment(seg, n[head], entry) /\ on' = Cutting(list, seg)
      BY <1>5, <2>3 DEF ListCutPosition
    <3>2. heap' = Cut(heap, list, head, entry)
      BY <1>5, <2>3 DEF ListCutPosition, list_cut_position
    <3>3. SegmentOf(n, p, on, seg, n[head], entry)
      BY <3>1 DEF Segment, SegmentOf
    <3> HIDE DEF n, p
    <3>4. Ok(CutOff(n, p, list, head, entry), CutTo(on, list, seg))
      BY <1>1, <1>2, <2>3, <3>3, CutSound
    <3> QED
      BY <1>2, <1>4, <3>1, <3>2, <3>4, CutIs
  <2> QED
    BY <2>1, <2>2, <2>3
<1>6. CASE ListCutBefore(list, head, entry)
  <2>1. CASE heap.next[head] = entry
    BY <1>3, <1>6, <2>1 DEF ListCutBefore, list_cut_before
  <2>2. CASE heap.next[head] # entry
    <3>1. PICK seg \in SUBSET (Cells \ {head}) :
            Segment(seg, n[head], p[entry]) /\ on' = Cutting(list, seg)
      BY <1>6, <2>2 DEF ListCutBefore
    <3>2. heap' = list_cut_before(heap, list, head, entry) /\ n[head] # entry
      BY <1>6, <2>2 DEF ListCutBefore
    <3>3. SegmentOf(n, p, on, seg, n[head], p[entry])
      BY <3>1 DEF Segment, SegmentOf
    <3> HIDE DEF n, p
    <3>4. Ok(CutOffBefore(n, p, list, head, entry), CutTo(on, list, seg))
      BY <1>1, <1>2, <3>2, <3>3, CutBeforeSound
    <3> QED
      BY <1>2, <1>4, <3>1, <3>2, <3>4, CutBeforeIs
  <2> QED
    BY <2>1, <2>2
<1> QED
  BY <1>5, <1>6

\* list_splice and list_splice_tail of a list that is not empty.
LEMMA JoinKeeps ==
  ASSUME Ok(heap, on), NEW list \in Heads, NEW head \in Cells,
         on[list] = list, Position(head), on[head] # list, ~list_empty(heap, list)
  PROVE  /\ Ok(list_splice(heap, list, head), Spliced(list, head, NoList))
         /\ Ok(list_splice_tail(heap, list, head), Spliced(list, head, NoList))
<1> DEFINE n == heap.next
           p == heap.prev
           r == [c \in Cells |-> IF c = list THEN NoList
                                 ELSE IF on[c] = list THEN on[head] ELSE on[c]]
<1>1. /\ heap = Mem(n, p) /\ Sound(n, p, on) /\ n[list] # list
      /\ list \in Cells /\ on[head] # NoList
  BY Sentinels DEF Ok, list_empty, Position, Cells
<1>2. Spliced(list, head, NoList) = r
  BY DEF Spliced
<1>3. /\ list_splice(heap, list, head) = Join(heap, list, head, n[head])
      /\ list_splice_tail(heap, list, head) = Join(heap, list, p[head], head)
  BY DEF list_splice, list_splice_tail
<1> HIDE DEF n, p
<1>4. p[head] \in Cells /\ on[p[head]] = on[head] /\ n[p[head]] = head
  BY <1>1 DEF Sound, SoundAt
<1>5. Ok(Joined(n, p, list, head, n[head]), r)
  BY <1>1, JoinSound
<1>6. Ok(Joined(n, p, list, p[head], n[p[head]]), r)
  <2>1. Ok(Joined(n, p, list, p[head], n[p[head]]),
           [c \in Cells |-> IF c = list THEN NoList
                            ELSE IF on[c] = list THEN on[p[head]] ELSE on[c]])
    BY <1>1, <1>4, JoinSound
  <2> QED
    BY <1>4, <2>1
<1> HIDE DEF r
<1>7. Ok(Join(heap, list, head, n[head]), r)
  BY <1>1, <1>5, JoinIs
<1>8. Ok(Join(heap, list, p[head], head), r)
  BY <1>1, <1>4, <1>6, JoinIs
<1> QED
  BY <1>2, <1>3, <1>7, <1>8

-----------------------------------------------------------------------------
(* The entries of the lists.                                                *)

\* The stops of a loop over the sequence s from head h until h comes again.
Stops(h, s) == [i \in 0 .. Len(s) + 1 |-> IF i \in 1 .. Len(s) THEN s[i] ELSE h]

\* The pointers n lead from h over s to h.
Round(n, h, s) == \A i \in 0 .. Len(s) : n[Stops(h, s)[i]] = Stops(h, s)[i + 1]

\* L are the entries of each list, as the pointers n lead to them and the
\* callers know of them.
Laid(n, o, L) ==
  /\ L \in [Cells -> Seq(Entries)]
  /\ \A h \in Heads : o[h] = h \/ (o[h] = NoList /\ L[h] = <<>>)
  /\ \A e \in Entries : o[e] \in Heads \cup {e, NoList} /\ L[e] = <<>>
  /\ \A c \in Cells : o[c] = c => Round(n, c, L[c])
  /\ \A c \in Cells : o[c] \notin {c, NoList} => \E i \in 1 .. Len(L[o[c]]) : L[o[c]][i] = c

LessThan == {ss \in Nat \X Nat : ss[1] < ss[2]}

\* A nonempty set of numbers has a least one.
LEMMA Least ==
  ASSUME NEW S, S \subseteq Nat, S # {}
  PROVE  \E m \in S : \A k \in S : m <= k
<1>1. IsWellFoundedOn(OpToRel(<, Nat), Nat)
  BY NatLessThanWellFounded
<1>2. OpToRel(<, Nat) = LessThan
  BY Zenon DEF OpToRel, LessThan
<1>3. IsWellFoundedOn(LessThan, Nat)
  BY <1>1, <1>2, Zenon
<1>4. PICK m \in S : \A k \in S : ~(<<k, m>> \in LessThan)
  BY <1>3, WFMin
<1>5. \A a, b \in Nat : a < b => <<a, b>> \in LessThan
  BY DEF LessThan
<1>6. \A k \in S : m <= k
  <2> TAKE k \in S
  <2>1. ~(k < m) /\ k \in Nat /\ m \in Nat
    BY <1>4, <1>5
  <2> QED BY <2>1
<1> QED BY <1>6

\* a are the stops of h and s.
AreStops(a, h, s) ==
  /\ Len(s) \in Nat /\ a[0] = h /\ a[Len(s) + 1] = h
  /\ \A i \in 1 .. Len(s) : a[i] = s[i] /\ a[i] \in Entries

\* The stops of a loop are the head, the entries and the head.
LEMMA StopsAre ==
  ASSUME NEW h, NEW s \in Seq(Entries)
  PROVE  AreStops(Stops(h, s), h, s)
<1>1. PICK a : a = Stops(h, s)
  OBVIOUS
<1>2. Len(s) \in Nat
  OBVIOUS
<1>3. ~(0 \in 1 .. Len(s)) /\ ~(Len(s) + 1 \in 1 .. Len(s))
  BY <1>2
<1>4. a[0] = h /\ a[Len(s) + 1] = h
  BY <1>1, <1>2, <1>3 DEF Stops
<1>5. \A i \in 1 .. Len(s) : a[i] = s[i] /\ a[i] \in Entries
  BY <1>1, <1>2 DEF Stops
<1> QED BY <1>1, <1>2, <1>4, <1>5 DEF AreStops

\* a is the ring of list h, linked both ways over s, each cell once.
Ringed(n, p, o, a, h, s) ==
  /\ AreStops(a, h, s) /\ s \in Seq(Entries) /\ o[h] = h /\ h \in Cells
  /\ \A i \in 0 .. Len(s) + 1 : a[i] \in Cells /\ o[a[i]] = h
  /\ \A i \in 0 .. Len(s) : n[a[i]] = a[i + 1] /\ p[a[i + 1]] = a[i]
  /\ \A i \in 1 .. Len(s) : a[i] # h
  /\ \A i, j \in 0 .. Len(s) : a[i] = a[j] => i = j

\* The pointers to the next cells decide the ring.
LEMMA RoundRings ==
  ASSUME NEW n, NEW p, NEW o, Sound(n, p, o), NEW h \in Cells, o[h] = h, NEW s \in Seq(Entries),
         Round(n, h, s), h \in Heads \/ s = <<>>
  PROVE  Ringed(n, p, o, Stops(h, s), h, s)
<1>1. PICK a : a = Stops(h, s)
  OBVIOUS
<1>2. PICK m : m = Len(s)
  OBVIOUS
<1>3. /\ m \in Nat /\ a[0] = h /\ a[m + 1] = h /\ AreStops(a, h, s)
      /\ \A i \in 1 .. m : a[i] = s[i] /\ a[i] \in Entries
  BY <1>1, <1>2, StopsAre DEF AreStops
<1>4. \A i \in 0 .. m : n[a[i]] = a[i + 1]
  BY <1>1, <1>2 DEF Round
<1>5. \A i \in 1 .. m : a[i] # h
  <2>1. s = <<>> => m = 0
    BY <1>2
  <2> QED BY <2>1, <1>3, Sentinels
<1>6. \A i \in 0 .. m + 1 : a[i] \in Cells
  <2>1. \A i \in 0 .. m + 1 : i = 0 \/ i = m + 1 \/ i \in 1 .. m
    BY <1>3
  <2> QED BY <2>1, <1>3 DEF Cells
<1>7. h # NoList /\ \A c \in Cells : SoundAt(n, p, o, c)
  BY Sentinels DEF Sound
<1>8. \A i \in 0 .. m + 1 : o[a[i]] = h
  <2> DEFINE Bad == {i \in 0 .. m + 1 : o[a[i]] # h}
  <2>1. ASSUME Bad # {} PROVE FALSE
    <3>1. PICK k \in Bad : \A j \in Bad : k <= j
      <4>1. Bad \subseteq Nat
        BY <1>3
      <4> HIDE DEF Bad
      <4> QED BY <2>1, <4>1, Least
    <3>2. k \in 0 .. m + 1 /\ o[a[k]] # h /\ k # 0
      BY <1>3
    <3>3. PICK j : j = k - 1
      OBVIOUS
    <3>4. j \in 0 .. m /\ j \in 0 .. m + 1 /\ k = j + 1 /\ ~(k <= j)
      BY <3>2, <3>3, <1>3
    <3>5. o[a[j]] = h
      BY <3>1, <3>4
    <3>6. a[j] \in Cells /\ n[a[j]] = a[k]
      BY <3>4, <1>4, <1>6
    <3> QED BY <3>2, <3>5, <3>6, <1>7 DEF SoundAt
  <2> QED BY <2>1
<1>9. \A i \in 0 .. m : p[a[i + 1]] = a[i]
  <2> TAKE i \in 0 .. m
  <2>1. i \in 0 .. m + 1 /\ a[i] \in Cells /\ o[a[i]] = h /\ n[a[i]] = a[i + 1]
    BY <1>3, <1>4, <1>6, <1>8
  <2> QED BY <2>1, <1>7 DEF SoundAt
<1>10. \A i, j \in 0 .. m : i < j => a[i] # a[j]
  <2> DEFINE Bad == {i \in 0 .. m : \E j \in 0 .. m : i < j /\ a[i] = a[j]}
  <2>1. ASSUME Bad # {} PROVE FALSE
    <3>1. PICK k \in Bad : \A j \in Bad : k <= j
      <4>1. Bad \subseteq Nat
        BY <1>3
      <4> HIDE DEF Bad
      <4> QED BY <2>1, <4>1, Least
    <3>2. PICK l \in 0 .. m : k < l /\ a[k] = a[l]
      OBVIOUS
    <3>3. k \in 0 .. m /\ k # 0
      <4>1. l \in 1 .. m
        BY <3>2, <1>3
      <4> QED BY <4>1, <3>2, <1>3, <1>5
    <3>4. PICK i : i = k - 1
      OBVIOUS
    <3>5. PICK j : j = l - 1
      OBVIOUS
    <3>6. /\ i \in 0 .. m /\ j \in 0 .. m /\ i < j /\ k = i + 1 /\ l = j + 1 /\ ~(k <= i)
      BY <3>2, <3>3, <3>4, <3>5, <1>3
    <3>7. a[i] = a[j]
      BY <3>2, <3>6, <1>9
    <3> QED BY <3>1, <3>6, <3>7
  <2> QED BY <2>1
<1>11. ASSUME NEW i \in 0 .. m, NEW j \in 0 .. m, a[i] = a[j] PROVE i = j
  <2>1. i < j \/ j < i \/ i = j
    BY <1>3
  <2> QED BY <2>1, <1>10, <1>11
<1>12. Ringed(n, p, o, a, h, s)
  BY <1>2, <1>3, <1>4, <1>5, <1>6, <1>8, <1>9, <1>11 DEF Ringed
<1> QED BY <1>1, <1>12

\* Each list of L is a ring.
LEMMA LaidRings ==
  ASSUME NEW n, NEW p, NEW o, Sound(n, p, o), NEW L, Laid(n, o, L), NEW h \in Cells, o[h] = h
  PROVE  Ringed(n, p, o, Stops(h, L[h]), h, L[h])
<1>1. Round(n, h, L[h]) /\ L[h] \in Seq(Entries) /\ (h \in Heads \/ L[h] = <<>>)
  BY DEF Laid, Cells
<1> QED BY <1>1, RoundRings

\* The community modules' Min of a set of numbers with a least element.
LEMMA MinIs ==
  ASSUME NEW S, S \subseteq Nat, NEW m \in S, \A k \in S : m <= k PROVE Min(S) = m
<1>1. \A x \in S : (\A y \in S : x <= y) => x = m
  <2> TAKE x \in S
  <2> SUFFICES ASSUME \A y \in S : x <= y PROVE x = m
    OBVIOUS
  <2>1. x <= m /\ m <= x /\ x \in Nat /\ m \in Nat
    OBVIOUS
  <2> QED BY <2>1
<1> QED BY <1>1 DEF Min

\* A loop may be followed for as many steps as one likes.
WalkOf(ptr, h, N, f) ==
  f = [k \in 0 .. N |-> LET c == IF k = 0 THEN h ELSE f[k - 1]
                        IN  IF c \in Cells THEN ptr[c] ELSE c]

\* There is such a walk of every length.
LEMMA WalkGoesOn == ASSUME NEW ptr, NEW h PROVE \A N \in Nat : \E f : WalkOf(ptr, h, N, f)
<1> DEFINE Bad == {N \in Nat : ~ \E f : WalkOf(ptr, h, N, f)}
           Follow(c) == IF c \in Cells THEN ptr[c] ELSE c
<1>1. ASSUME Bad # {} PROVE FALSE
  <2>1. PICK N \in Bad : \A j \in Bad : N <= j
    <3>1. Bad \subseteq Nat
      OBVIOUS
    <3> HIDE DEF Bad
    <3> QED BY <1>1, <3>1, Least
  <2>2. N \in Nat /\ ~ \E f : WalkOf(ptr, h, N, f)
    OBVIOUS
  <2>3. CASE N = 0
    <3> DEFINE f == [k \in 0 .. 0 |-> Follow(h)]
    <3>1. \A k \in 0 .. 0 : k = 0
      OBVIOUS
    <3>2. f = [k \in 0 .. 0 |-> LET c == IF k = 0 THEN h ELSE f[k - 1]
                                IN  IF c \in Cells THEN ptr[c] ELSE c]
      BY <3>1
    <3>3. WalkOf(ptr, h, 0, f)
      <4> HIDE DEF f
      <4> QED BY <3>2 DEF WalkOf
    <3> QED BY <2>2, <2>3, <3>3
  <2>4. CASE N # 0
    <3>1. N - 1 \in Nat /\ ~(N <= N - 1)
      BY <2>2, <2>4
    <3>2. N - 1 \notin Bad
      BY <2>1, <3>1
    <3>3. PICK g : WalkOf(ptr, h, N - 1, g)
      BY <3>1, <3>2
    <3>4. \A k \in 0 .. N - 1 : g[k] = Follow(IF k = 0 THEN h ELSE g[k - 1])
      BY <3>3 DEF WalkOf
    <3> DEFINE f == [k \in 0 .. N |-> IF k = N THEN Follow(g[N - 1]) ELSE g[k]]
    <3>5. ASSUME NEW k \in 0 .. N PROVE f[k] = Follow(IF k = 0 THEN h ELSE f[k - 1])
      <4>1. CASE k = N
        <5>1. f[k - 1] = g[N - 1] /\ k # 0
          BY <4>1, <2>2, <2>4
        <5> HIDE DEF Follow
        <5> QED BY <4>1, <5>1, <2>4
      <4>2. CASE k # N
        <5>1. k \in 0 .. N - 1 /\ (k # 0 => k - 1 \in 0 .. N /\ k - 1 # N)
          BY <4>2, <2>2
        <5>2. k # 0 => f[k - 1] = g[k - 1]
          BY <5>1
        <5>3. f[k] = g[k]
          BY <4>2
        <5> HIDE DEF f, Follow
        <5> QED BY <5>1, <5>2, <5>3, <3>4
      <4> QED BY <4>1, <4>2
    <3>6. f = [k \in 0 .. N |-> f[k]]
      OBVIOUS
    <3> HIDE DEF f
    <3>7. WalkOf(ptr, h, N, f)
      BY <3>5, <3>6 DEF WalkOf
    <3> QED BY <3>7, <2>2
  <2> QED BY <2>3, <2>4
<1> QED BY <1>1

\* A loop from the head meets the entries of the ring in order, and ends.
LEMMA RingIs ==
  ASSUME NEW ptr, NEW h, NEW s \in Seq(Entries), NEW a, AreStops(a, h, s),
         \A i \in 0 .. Len(s) : a[i] \in Cells /\ ptr[a[i]] = a[i + 1],
         \A i \in 1 .. Len(s) : a[i] # h,
         \A i, j \in 0 .. Len(s) : a[i] = a[j] => i = j
  PROVE  Ring(ptr, h) = s
<1> DEFINE N == Cardinality(Cells)
           w == CHOOSE f : f = [k \in 0 .. N |-> LET c == IF k = 0 THEN h ELSE f[k - 1]
                                                 IN  IF c \in Cells THEN ptr[c] ELSE c]
           home == {k \in DOMAIN w : w[k] = h}
<1>1. PICK m : m = Len(s)
  OBVIOUS
<1>2. m \in Nat /\ a[0] = h /\ a[m + 1] = h /\ \A i \in 1 .. m : a[i] = s[i]
  BY <1>1 DEF AreStops
<1>3. N \in Nat /\ m <= N
  <2>1. IsFiniteSet(Cells)
    BY ListAssumption DEF Cells
  <2>2. N \in Nat
    BY <2>1, FS_CardinalityType
  <2>3. PICK S : S = 1 .. m + 1
    OBVIOUS
  <2>4. IsFiniteSet(S) /\ Cardinality(S) = m + 1
    BY <1>2, <2>3, FS_Interval
  <2>5. ASSUME m + 1 > N PROVE FALSE
    <3>1. \A i \in S : i - 1 \in 0 .. m
      BY <1>2, <2>3
    <3>2. PICK f : f = [i \in S |-> a[i - 1]]
      OBVIOUS
    <3>3. f \in [S -> Cells] /\ \A i \in S : f[i] = a[i - 1]
      BY <3>1, <3>2, <1>1
    <3>4. Cardinality(Cells) < Cardinality(S)
      BY <2>2, <2>4, <2>5, <1>2
    <3>5. PICK i, j \in S : i # j /\ f[i] = f[j]
      BY <2>1, <2>4, <3>3, <3>4, FS_PigeonHole
    <3>6. i - 1 = j - 1
      BY <3>1, <3>3, <3>5, <1>1
    <3> QED BY <3>5, <3>6, <2>3
  <2> HIDE DEF N
  <2> QED BY <2>2, <2>5, <1>2
<1>4. WalkOf(ptr, h, N, w)
  <2>1. \E f : WalkOf(ptr, h, N, f)
    BY <1>3, WalkGoesOn
  <2> HIDE DEF N
  <2>2. w = CHOOSE f : WalkOf(ptr, h, N, f)
    BY DEF WalkOf
  <2> HIDE DEF w
  <2> QED BY <2>1, <2>2
<1> HIDE DEF N
<1>5. /\ DOMAIN w = 0 .. N
      /\ \A k \in 0 .. N : w[k] = LET c == IF k = 0 THEN h ELSE w[k - 1]
                                  IN  IF c \in Cells THEN ptr[c] ELSE c
  <2> HIDE DEF w
  <2> QED BY <1>4 DEF WalkOf
<1>6. Ring(ptr, h) = IF home = {} THEN NoList ELSE [i \in 1 .. Min(home) |-> w[i - 1]]
  BY DEF Ring, N
<1> HIDE DEF w
<1>7. \A k \in 0 .. m : w[k] = a[k + 1]
  <2> DEFINE Bad == {k \in 0 .. m : w[k] # a[k + 1]}
  <2>1. ASSUME Bad # {} PROVE FALSE
    <3>1. PICK k \in Bad : \A j \in Bad : k <= j
      <4>1. Bad \subseteq Nat
        BY <1>2
      <4> HIDE DEF Bad
      <4> QED BY <2>1, <4>1, Least
    <3>2. k \in 0 .. m /\ k \in 0 .. N /\ w[k] # a[k + 1]
      BY <1>2, <1>3
    <3>3. a[k] = IF k = 0 THEN h ELSE w[k - 1]
      <4>1. CASE k # 0
        <5>1. k - 1 \in 0 .. m /\ ~(k <= k - 1) /\ (k - 1) + 1 = k
          BY <3>2, <4>1, <1>2
        <5> QED BY <5>1, <3>1, <4>1
      <4> QED BY <4>1, <1>2
    <3>4. a[k] \in Cells /\ ptr[a[k]] = a[k + 1]
      BY <3>2, <1>1
    <3> QED BY <3>2, <3>3, <3>4, <1>5
  <2> QED BY <2>1
<1>8. m \in home /\ home \subseteq Nat /\ \A k \in home : m <= k
  <2>1. m \in 0 .. N /\ w[m] = h
    BY <1>2, <1>3, <1>7
  <2>2. ASSUME NEW k \in 0 .. N, k < m PROVE w[k] # h
    <3>1. k \in 0 .. m /\ k + 1 \in 1 .. m
      BY <2>2, <1>2, <1>3
    <3> QED BY <3>1, <1>1, <1>7
  <2>3. \A k \in 0 .. N : k \in Nat /\ (k < m \/ m <= k)
    BY <1>2, <1>3
  <2> QED BY <2>1, <2>2, <2>3, <1>5
<1> HIDE DEF home
<1>9. home # {} /\ Min(home) = m
  BY <1>8, MinIs
<1>10. \A i \in 1 .. m : w[i - 1] = s[i]
  <2> TAKE i \in 1 .. m
  <2>1. i - 1 \in 0 .. m /\ (i - 1) + 1 = i
    BY <1>2
  <2> QED BY <2>1, <1>2, <1>7
<1>11. s = [i \in 1 .. m |-> s[i]]
  BY <1>1
<1> QED BY <1>6, <1>9, <1>10, <1>11

\* A heap that is well linked, and whose lists are L.
Holds(H, o, L) == Ok(H, o) /\ Laid(H.next, o, L)

\* The ring seen from prev is the reverse.
LEMMA BackIs ==
  ASSUME NEW n, NEW p, NEW o, NEW a, NEW h, NEW s, Ringed(n, p, o, a, h, s)
  PROVE  Ring(p, h) = Abstract!Reverse(s)
<1>1. PICK r : r = Abstract!Reverse(s)
  OBVIOUS
<1>2. PICK m : m = Len(s)
  OBVIOUS
<1>3. m \in Nat /\ s \in Seq(Entries) /\ AreStops(a, h, s)
  BY <1>2 DEF Ringed
<1>4. r = [i \in 1 .. m |-> s[(m - i) + 1]]
  BY <1>1, <1>2 DEF Abstract!Reverse
<1>5. \A i \in 1 .. m : (m - i) + 1 \in 1 .. m
  BY <1>3
<1>6. r \in Seq(Entries) /\ Len(r) = m
  BY <1>2, <1>3, <1>4, <1>5
<1>7. PICK b : b = Stops(h, r)
  OBVIOUS
<1>8. AreStops(b, h, r)
  BY <1>6, <1>7, StopsAre
<1>9. \A i \in 0 .. m + 1 : b[i] = a[(m + 1) - i]
  <2> TAKE i \in 0 .. m + 1
  <2>1. CASE i = 0 \/ i = m + 1
    BY <2>1, <1>2, <1>3, <1>6, <1>8 DEF AreStops
  <2>2. CASE i \in 1 .. m
    <3>1. b[i] = s[(m - i) + 1] /\ (m - i) + 1 = (m + 1) - i
      BY <2>2, <1>3, <1>4, <1>6, <1>8 DEF AreStops
    <3>2. (m + 1) - i \in 1 .. m
      BY <2>2, <1>3
    <3> QED BY <3>1, <3>2, <1>2, <1>3 DEF AreStops
  <2> QED BY <2>1, <2>2, <1>3
<1>10. ASSUME NEW i \in 0 .. m PROVE b[i] \in Cells /\ p[b[i]] = b[i + 1]
  <2>1. PICK j : j = m - i
    OBVIOUS
  <2>2. j \in 0 .. m /\ j + 1 = (m + 1) - i /\ j = (m + 1) - (i + 1) /\ j + 1 \in 0 .. m + 1
        /\ i \in 0 .. m + 1 /\ i + 1 \in 0 .. m + 1
    BY <2>1, <1>3
  <2>3. b[i] = a[j + 1] /\ b[i + 1] = a[j]
    BY <2>2, <1>9
  <2> QED BY <2>2, <2>3, <1>2 DEF Ringed
<1>11. \A i \in 1 .. m : b[i] # h
  <2> TAKE i \in 1 .. m
  <2>1. (m + 1) - i \in 1 .. m /\ i \in 0 .. m + 1
    BY <1>3
  <2> QED BY <2>1, <1>2, <1>9 DEF Ringed
<1>12. ASSUME NEW i \in 0 .. m, NEW j \in 0 .. m, b[i] = b[j] PROVE i = j
  <2>1. CASE i = 0 \/ j = 0
    <3>1. i = 0 \/ i \in 1 .. m
      BY <1>3
    <3>2. j = 0 \/ j \in 1 .. m
      BY <1>3
    <3>3. b[0] = h
      BY <1>8 DEF AreStops
    <3> QED BY <2>1, <3>1, <3>2, <3>3, <1>11, <1>12
  <2>2. CASE i # 0 /\ j # 0
    <3>1. PICK k : k = (m + 1) - i
      OBVIOUS
    <3>2. PICK l : l = (m + 1) - j
      OBVIOUS
    <3>3. k \in 0 .. m /\ l \in 0 .. m /\ i \in 0 .. m + 1 /\ j \in 0 .. m + 1
      BY <2>2, <3>1, <3>2, <1>3
    <3>4. a[k] = a[l]
      BY <3>1, <3>2, <3>3, <1>9, <1>12
    <3>5. k = l
      BY <3>3, <3>4, <1>2 DEF Ringed
    <3> QED BY <3>1, <3>2, <3>5, <1>3
  <2> QED BY <2>1, <2>2
<1>13. Ring(p, h) = r
  BY <1>6, <1>8, <1>10, <1>11, <1>12, RingIs
<1> QED BY <1>1, <1>13

\* The ring seen from next is the sequence.
LEMMA AheadIs ==
  ASSUME NEW n, NEW p, NEW o, NEW a, NEW h, NEW s, Ringed(n, p, o, a, h, s)
  PROVE  Ring(n, h) = s
<1>1. s \in Seq(Entries) /\ AreStops(a, h, s)
      /\ \A i \in 0 .. Len(s) : i \in 0 .. Len(s) + 1
  BY DEF Ringed
<1>2. \A i \in 0 .. Len(s) : a[i] \in Cells /\ n[a[i]] = a[i + 1]
  BY <1>1 DEF Ringed
<1> QED BY <1>1, <1>2, RingIs DEF Ringed

\* The lists are what the loops find.
LEMMA ReadIs ==
  ASSUME NEW n, NEW p, NEW o, Sound(n, p, o), NEW L, Laid(n, o, L)
  PROVE  [h \in Cells |-> IF o[h] = h THEN Ring(n, h) ELSE <<>>] = L
<1>1. ASSUME NEW h \in Cells PROVE L[h] = IF o[h] = h THEN Ring(n, h) ELSE <<>>
  <2>1. CASE o[h] = h
    BY <2>1, LaidRings, AheadIs
  <2>2. CASE o[h] # h
    BY <2>2 DEF Laid, Cells
  <2> QED BY <2>1, <2>2
<1>2. L = [h \in Cells |-> L[h]]
  BY DEF Laid
<1> QED BY <1>1, <1>2

\* What the loops find is what the heap holds, before a step and after it.
LEMMA ContentsAre ==
  /\ \A L : Holds(heap, on, L) => Contents = L
  /\ \A L : Holds(heap', on', L) => Contents' = L
<1>1. \A L : Holds(heap, on, L) => Contents = L
  BY ReadIs DEF Holds, Ok, Contents
<1>2. \A L : Holds(heap', on', L) => Contents' = L
  BY ReadIs DEF Holds, Ok, Contents
<1> QED BY <1>1, <1>2

\* Loops in both directions and the tests agree.
LEMMA ReadersAreTold ==
  ASSUME NEW L, Holds(heap, on, L)
  PROVE  ReadersAgree
<1>1. PICK n : n = heap.next
  OBVIOUS
<1>2. PICK p : p = heap.prev
  OBVIOUS
<1>3. Sound(n, p, on) /\ Laid(n, on, L)
  BY <1>1, <1>2 DEF Holds, Ok
<1>4. ASSUME NEW h \in Cells, on[h] = h
      PROVE  \E a : /\ Ringed(n, p, on, a, h, L[h]) /\ Ring(n, h) = L[h]
                    /\ Ring(p, h) = Abstract!Reverse(L[h])
  BY <1>3, <1>4, LaidRings, AheadIs, BackIs
<1>5. LoopsMeetTheList
  <2> SUFFICES ASSUME NEW h \in Cells, on[h] = h
               PROVE  /\ Ring(n, h) # NoList /\ Ring(p, h) # NoList
                      /\ Abstract!Reverse(Ring(n, h)) = Ring(p, h)
                      /\ Abstract!ToSet(Ring(n, h)) = {c \in Cells : on[c] = h} \ {h}
    BY <1>1, <1>2 DEF LoopsMeetTheList
  <2>1. PICK s : s = L[h]
    OBVIOUS
  <2>2. PICK a : /\ Ringed(n, p, on, a, h, s) /\ Ring(n, h) = s
                 /\ Ring(p, h) = Abstract!Reverse(s)
    BY <1>4, <2>1
  <2>3. s \in Seq(Entries) /\ Abstract!Reverse(s) \in Seq(Entries)
    <3>1. s \in Seq(Entries) /\ Len(s) \in Nat
      BY <2>2 DEF Ringed
    <3>2. \A i \in 1 .. Len(s) : (Len(s) - i) + 1 \in 1 .. Len(s)
      BY <3>1
    <3> QED BY <3>1, <3>2 DEF Abstract!Reverse
  <2>4. ASSUME NEW c \in Abstract!ToSet(s) PROVE c \in Cells /\ on[c] = h /\ c # h
    <3>1. PICK i \in DOMAIN s : s[i] = c
      BY <2>4 DEF Abstract!ToSet
    <3>2. i \in 1 .. Len(s) /\ i \in 0 .. Len(s) + 1
      BY <2>3, <3>1
    <3> QED BY <3>1, <3>2, <2>2 DEF Ringed, AreStops
  <2>5. ASSUME NEW c \in Cells, on[c] = h, c # h PROVE c \in Abstract!ToSet(s)
    <3>1. on[c] \notin {c, NoList}
      BY <2>5, Sentinels
    <3>2. PICK i \in 1 .. Len(s) : s[i] = c
      BY <3>1, <2>1, <2>5, <1>3 DEF Laid
    <3> QED BY <3>2, <2>3 DEF Abstract!ToSet
  <2>6. Abstract!ToSet(s) = {c \in Cells : on[c] = h} \ {h}
    BY <2>4, <2>5
  <2> QED BY <2>2, <2>3, <2>6, EndlessAssumption
<1>6. TestsAreRight
  <2> SUFFICES ASSUME NEW h \in Heads, on[h] = h, NEW s, s = Ring(n, h)
               PROVE  /\ list_empty(heap, h) <=> s = <<>>
                      /\ list_empty_careful(heap, h) <=> s = <<>>
                      /\ list_is_singular(heap, h) <=> Len(s) = 1
                      /\ \A e \in Entries : on[e] = h =>
                           /\ list_is_first(heap, e, h) <=> e = s[1]
                           /\ list_is_last(heap, e, h) <=> e = s[Len(s)]
    BY <1>1 DEF TestsAreRight
  <2>1. h \in Cells
    BY DEF Cells
  <2>2. PICK m : m = Len(s)
    OBVIOUS
  <2>3. PICK a : Ringed(n, p, on, a, h, s)
    BY <2>1, <1>4
  <2>4. /\ m \in Nat /\ a[0] = h /\ a[m + 1] = h /\ s \in Seq(Entries)
        /\ \A i \in 1 .. m : a[i] = s[i] /\ a[i] # h
        /\ \A i \in 0 .. m : n[a[i]] = a[i + 1] /\ p[a[i + 1]] = a[i]
        /\ \A i, j \in 0 .. m : a[i] = a[j] => i = j
        /\ \A i \in 0 .. m + 1 : a[i] \in Cells /\ on[a[i]] = h
    BY <2>2, <2>3 DEF Ringed, AreStops
  <2>5. n[h] = a[1] /\ p[h] = a[m]
    <3>1. 0 \in 0 .. m /\ m \in 0 .. m /\ 0 + 1 = 1
      BY <2>4
    <3>2. n[a[0]] = a[0 + 1] /\ p[a[m + 1]] = a[m]
      BY <2>4, <3>1
    <3> QED BY <3>2, <2>4
  <2>6. n[h] = h <=> m = 0
    <3>1. m # 0 => 1 \in 1 .. m
      BY <2>4
    <3> QED BY <3>1, <2>4, <2>5
  <2>7. p[h] = n[h] <=> m = 0 \/ m = 1
    <3>1. m # 0 => 1 \in 0 .. m /\ m \in 0 .. m
      BY <2>4
    <3> QED BY <3>1, <2>4, <2>5
  <2>8. s = <<>> <=> m = 0
    BY <2>2, <2>4
  <2>9. list_empty(heap, h) <=> m = 0
    BY <2>6, <1>1 DEF list_empty
  <2>10. list_empty_careful(heap, h) <=> m = 0
    BY <2>6, <2>7, <1>1, <1>2 DEF list_empty_careful
  <2>11. list_is_singular(heap, h) <=> m = 1
    BY <2>4, <2>7, <2>9, <1>1, <1>2 DEF list_is_singular
  <2>12. ASSUME NEW e \in Entries, on[e] = h
         PROVE  /\ list_is_first(heap, e, h) <=> e = s[1]
                /\ list_is_last(heap, e, h) <=> e = s[m]
    <3>1. on[e] \notin {e, NoList} /\ e \in Cells
      BY <2>1, <2>12, Sentinels DEF Cells
    <3>2. Ring(n, h) = L[h]
      BY <1>4, <2>1
    <3>3. PICK i \in 1 .. m : s[i] = e
      BY <3>1, <3>2, <2>2, <2>12, <1>3 DEF Laid
    <3>4. PICK j : j = i - 1
      OBVIOUS
    <3>5. /\ i \in 0 .. m /\ j \in 0 .. m /\ i = j + 1 /\ 1 \in 0 .. m /\ m \in 0 .. m
          /\ 1 \in 1 .. m /\ m \in 1 .. m
      BY <2>4, <3>4
    <3>6. e = a[i] /\ p[e] = a[j] /\ n[e] = a[i + 1]
      BY <3>3, <3>5, <2>4
    <3>7. p[e] = h <=> i = 1
      BY <3>4, <3>5, <3>6, <2>4
    <3>8. n[e] = h <=> i = m
      <4>1. i = m \/ i + 1 \in 1 .. m
        BY <2>4
      <4> QED BY <4>1, <3>6, <2>4
    <3>9. (e = s[1] <=> i = 1) /\ (e = s[m] <=> i = m)
      BY <3>5, <3>6, <2>4
    <3> QED BY <3>7, <3>8, <3>9, <1>1, <1>2 DEF list_is_first, list_is_last
  <2> QED BY <2>2, <2>8, <2>9, <2>10, <2>11, <2>12
<1> QED BY <1>5, <1>6 DEF ReadersAgree

-----------------------------------------------------------------------------
(* Lists as sequences.                                                      *)

\* Where the cell c is.
LEMMA HeadIs ==
  ASSUME NEW n, NEW p, NEW o, Sound(n, p, o), NEW L, Laid(n, o, L), NEW c \in Cells
  PROVE  Abstract!HeadOf(L, c) = IF o[c] \in Heads THEN o[c] ELSE c
<1>1. ASSUME NEW h \in Cells, c \in Abstract!ToSet(L[h]) PROVE h \in Heads /\ o[c] = h /\ c # h
  <2>1. PICK i \in DOMAIN L[h] : L[h][i] = c
    BY <1>1 DEF Abstract!ToSet
  <2>2. L[h] \in Seq(Entries) /\ L[h] # <<>>
    BY <2>1 DEF Laid
  <2>3. h \in Heads /\ o[h] = h
    BY <2>2 DEF Laid, Cells
  <2>4. i \in 1 .. Len(L[h]) /\ Ringed(n, p, o, Stops(h, L[h]), h, L[h])
    BY <2>1, <2>2, <2>3, LaidRings
  <2> QED BY <2>1, <2>3, <2>4 DEF Ringed, AreStops
<1>2. CASE o[c] \in Heads /\ o[c] # c
  <2>1. o[c] \in Cells /\ o[c] # NoList
    BY <1>2, Sentinels DEF Cells
  <2>2. c \in Abstract!ToSet(L[o[c]])
    BY <1>2, <2>1 DEF Laid, Abstract!ToSet
  <2>3. \E h \in Cells : c \in Abstract!ToSet(L[h])
    BY <2>1, <2>2
  <2> QED BY <2>1, <2>3, <1>1, <1>2 DEF Abstract!HeadOf
<1>3. CASE o[c] \notin Heads \/ o[c] = c
  <2>1. ~ \E h \in Cells : c \in Abstract!ToSet(L[h])
    BY <1>1, <1>3
  <2> QED BY <2>1, <1>3 DEF Abstract!HeadOf
<1> QED BY <1>2, <1>3

\* Where on its list a cell is.
LEMMA PlaceIs ==
  ASSUME NEW n, NEW p, NEW o, Sound(n, p, o), NEW L, Laid(n, o, L),
         NEW h \in Heads, o[h] = h, NEW i \in 1 .. Len(L[h])
  PROVE  Abstract!Place(L, L[h][i]) = i
<1>1. PICK c : c = L[h][i]
  OBVIOUS
<1>2. PICK a : Ringed(n, p, o, a, h, L[h])
  BY LaidRings DEF Cells
<1>3. c \in Cells /\ o[c] = h /\ \A j \in 1 .. Len(L[h]) : L[h][j] = c => j = i
  <2>1. \A j \in 1 .. Len(L[h]) : a[j] = L[h][j] /\ j \in 0 .. Len(L[h]) + 1 /\ j \in 0 .. Len(L[h])
    BY <1>2 DEF Ringed, AreStops
  <2> QED BY <2>1, <1>1, <1>2 DEF Ringed
<1>4. Abstract!HeadOf(L, c) = h
  BY <1>3, HeadIs
<1>5. Abstract!Place(L, c) = CHOOSE j \in DOMAIN L[h] : L[h][j] = c
  BY <1>4 DEF Abstract!Place
<1>6. L[h] \in Seq(Entries)
  BY <1>2 DEF Ringed
<1> QED BY <1>1, <1>3, <1>5, <1>6

\* The stop of c on the ring of its list is stop k.
Stands(L, o, c, k) ==
  /\ k \in 0 .. Len(L[o[c]]) /\ Stops(o[c], L[o[c]])[k] = c
  /\ Abstract!HeadOf(L, c) = o[c]
  /\ Abstract!UpTo(L, c) = k
  /\ Abstract!Before(L, c) = IF k = 0 THEN Len(L[o[c]]) ELSE k - 1
  /\ k # 0 => Abstract!Place(L, c) = k
  /\ k = 0 <=> c = o[c]

\* Every cell that is on a list stands somewhere on it.
LEMMA StandsSomewhere ==
  ASSUME NEW n, NEW p, NEW o, Sound(n, p, o), NEW L, Laid(n, o, L),
         NEW c \in Cells, o[c] \in Heads
  PROVE  \E k : Stands(L, o, c, k)
<1>1. PICK h : h = o[c]
  OBVIOUS
<1>2. h \in Heads /\ h \in Cells /\ h # NoList /\ Abstract!HeadOf(L, c) = h
  BY <1>1, HeadIs, Sentinels DEF Cells
<1>3. CASE c = h
  <2>1. Ringed(n, p, o, Stops(h, L[h]), h, L[h])
    BY <1>1, <1>2, <1>3, LaidRings
  <2>2. Stops(h, L[h])[0] = h /\ 0 \in 0 .. Len(L[h])
    BY <2>1 DEF Ringed, AreStops
  <2>3. Abstract!UpTo(L, c) = 0 /\ Abstract!Before(L, c) = Len(L[h])
    BY <1>2, <1>3 DEF Abstract!UpTo, Abstract!Before
  <2> QED BY <2>2, <2>3, <1>1, <1>2, <1>3 DEF Stands
<1>4. CASE c # h
  <2>1. PICK i \in 1 .. Len(L[h]) : L[h][i] = c
    BY <1>1, <1>2, <1>4 DEF Laid
  <2>2. o[h] = h
    <3>1. L[h] # <<>>
      BY <2>1
    <3> QED BY <3>1, <1>2 DEF Laid
  <2>3. Ringed(n, p, o, Stops(h, L[h]), h, L[h])
    BY <1>2, <2>2, LaidRings
  <2>4. Stops(h, L[h])[i] = c /\ i \in 0 .. Len(L[h]) /\ i # 0
    BY <2>1, <2>3 DEF Ringed, AreStops
  <2>5. Abstract!Place(L, c) = i
    BY <1>2, <2>1, <2>2, PlaceIs
  <2>6. Abstract!UpTo(L, c) = i /\ Abstract!Before(L, c) = i - 1
    BY <1>2, <1>4, <2>5 DEF Abstract!UpTo, Abstract!Before
  <2> QED BY <2>4, <2>5, <2>6, <1>1, <1>2, <1>4 DEF Stands
<1> QED BY <1>3, <1>4

\* c is a and then b.
Glued(c, a, b) ==
  /\ Len(c) = Len(a) + Len(b)
  /\ \A i \in 1 .. Len(c) : c[i] = IF i <= Len(a) THEN a[i] ELSE b[i - Len(a)]

\* What the concatenation of two sequences holds at each place.
LEMMA GlueIs ==
  ASSUME NEW S, NEW a \in Seq(S), NEW b \in Seq(S)
  PROVE  a \o b \in Seq(S) /\ Glued(a \o b, a, b)
  BY ConcatProperties DEF Glued

\* t is s with r put behind the first k.
Pieces(t, s, r, k) ==
  /\ Len(t) = Len(s) + Len(r)
  /\ \A i \in 1 .. Len(t) :
       t[i] = IF i <= k THEN s[i] ELSE IF i <= k + Len(r) THEN r[i - k] ELSE s[i - Len(r)]

\* What Take and Drop leave of a sequence, at each place.
LEMMA PiecesAre ==
  ASSUME NEW S, NEW s \in Seq(S), NEW k \in 0 .. Len(s), NEW r \in Seq(S),
         NEW t, t = Abstract!Take(s, k) \o r \o Abstract!Drop(s, k)
  PROVE  t \in Seq(S) /\ Pieces(t, s, r, k)
<1>1. PICK a : a = SubSeq(s, 1, k)
  OBVIOUS
<1>2. PICK b : b = SubSeq(s, k + 1, Len(s))
  OBVIOUS
<1>3. PICK ar : ar = a \o r
  OBVIOUS
<1>4. t = ar \o b
  BY <1>1, <1>2, <1>3 DEF Abstract!Take, Abstract!Drop
<1>5. /\ a \in Seq(S) /\ Len(a) = k /\ \A i \in 1 .. k : a[i] = s[i]
      /\ b \in Seq(S) /\ Len(b) = Len(s) - k
      /\ \A i \in 1 .. Len(s) - k : b[i] = s[k + i]
  <2>1. /\ a \in Seq(S) /\ Len(a) = k /\ \A i \in 1 .. k : a[i] = s[i]
    BY <1>1, SubSeqProperties
  <2>2. /\ b \in Seq(S) /\ Len(b) = Len(s) - k
        /\ \A i \in 1 .. Len(s) - k : b[i] = s[k + i]
    BY <1>2, SubSeqProperties
  <2> QED BY <2>1, <2>2
<1>6. /\ ar \in Seq(S) /\ Len(ar) = k + Len(r)
      /\ \A i \in 1 .. Len(ar) : ar[i] = IF i <= k THEN a[i] ELSE r[i - k]
  <2>1. a \in Seq(S) /\ Len(a) = k
    BY <1>5
  <2>2. ar \in Seq(S) /\ Glued(ar, a, r)
    BY <1>3, <2>1, GlueIs
  <2> QED BY <2>1, <2>2 DEF Glued
<1>7. /\ t \in Seq(S) /\ Len(t) = Len(ar) + Len(b)
      /\ \A i \in 1 .. Len(t) : t[i] = IF i <= Len(ar) THEN ar[i] ELSE b[i - Len(ar)]
  <2>1. ar \in Seq(S) /\ b \in Seq(S)
    BY <1>5, <1>6
  <2>2. t \in Seq(S) /\ Glued(t, ar, b)
    BY <1>4, <2>1, GlueIs
  <2> QED BY <2>2 DEF Glued
<1>8. Len(s) \in Nat /\ Len(r) \in Nat
  OBVIOUS
<1>9. Len(t) = Len(s) + Len(r)
  BY <1>5, <1>6, <1>7, <1>8
<1>10. ASSUME NEW i \in 1 .. Len(t)
       PROVE  t[i] = IF i <= k THEN s[i]
                     ELSE IF i <= k + Len(r) THEN r[i - k] ELSE s[i - Len(r)]
  <2>1. CASE i <= k + Len(r)
    <3>1. t[i] = ar[i] /\ i \in 1 .. Len(ar)
      BY <1>6, <1>7, <1>8, <2>1
    <3>2. ar[i] = IF i <= k THEN s[i] ELSE r[i - k]
      BY <1>5, <1>6, <1>8, <3>1
    <3> QED BY <3>1, <3>2, <2>1, <1>8
  <2>2. CASE ~(i <= k + Len(r))
    <3>1. i - (k + Len(r)) \in 1 .. Len(s) - k /\ k + (i - (k + Len(r))) = i - Len(r)
      BY <2>2, <1>8, <1>9
    <3>2. t[i] = b[i - (k + Len(r))]
      BY <1>6, <1>7, <1>8, <2>2
    <3>3. b[i - (k + Len(r))] = s[i - Len(r)]
      BY <3>1, <1>5
    <3> QED BY <3>2, <3>3, <2>2, <1>8
  <2> QED BY <2>1, <2>2
<1> QED BY <1>7, <1>9, <1>10 DEF Pieces

-----------------------------------------------------------------------------
(* One list changes.                                                        *)

\* One list's sequence is replaced: its own ring is that of s, and nothing
\* happens to the cells of the other lists.
OneChanges(n, o, m, q, h, s) ==
  /\ s \in Seq(Entries) /\ q[h] = h /\ Round(m, h, s)
  /\ \A c \in Cells : q[c] = h /\ c # h => \E i \in 1 .. Len(s) : s[i] = c
  /\ \A g \in Heads \ {h} : q[g] = o[g]
  /\ \A e \in Entries : q[e] \in {h, e, NoList, o[e]}
  /\ \A e \in Entries : q[e] = e => m[e] = e
  /\ \A c \in Cells : o[c] \in Heads \ {h} => q[c] = o[c] /\ m[c] = n[c]

\* Where one list changes, the lists are as before but for that one.
LEMMA OneLaid ==
  ASSUME NEW n, NEW p, NEW o, Sound(n, p, o), NEW L, Laid(n, o, L),
         NEW m, NEW q, NEW h \in Heads, NEW s, OneChanges(n, o, m, q, h, s)
  PROVE  Laid(m, q, [L EXCEPT ![h] = s])
<1>0. /\ s \in Seq(Entries) /\ q[h] = h /\ Round(m, h, s)
      /\ \A c \in Cells : q[c] = h /\ c # h => \E i \in 1 .. Len(s) : s[i] = c
      /\ \A g \in Heads \ {h} : q[g] = o[g]
      /\ \A e \in Entries : q[e] \in {h, e, NoList, o[e]}
      /\ \A e \in Entries : q[e] = e => m[e] = e
      /\ \A c \in Cells : o[c] \in Heads \ {h} => q[c] = o[c] /\ m[c] = n[c]
  BY DEF OneChanges
<1>1. PICK M : M = [L EXCEPT ![h] = s]
  OBVIOUS
<1>2. h \in Cells /\ h \notin Entries /\ L \in [Cells -> Seq(Entries)]
  BY Sentinels DEF Laid, Cells
<1>3. M \in [Cells -> Seq(Entries)] /\ M[h] = s /\ \A c \in Cells \ {h} : M[c] = L[c]
  BY <1>0, <1>1, <1>2
<1>4. \A g \in Heads : q[g] = g \/ (q[g] = NoList /\ M[g] = <<>>)
  BY <1>0, <1>2, <1>3 DEF Laid, Cells
<1>5. \A e \in Entries : q[e] \in Heads \cup {e, NoList} /\ M[e] = <<>>
  BY <1>0, <1>2, <1>3 DEF Laid, Cells
<1>6. ASSUME NEW c \in Cells, q[c] = c PROVE Round(m, c, M[c])
  <2>1. CASE c = h
    BY <2>1, <1>0, <1>3
  <2>2. CASE c \in Entries
    <3>1. m[c] = c /\ M[c] = <<>>
      BY <1>0, <1>5, <1>6, <2>2
    <3>2. AreStops(Stops(c, <<>>), c, <<>>)
      <4>1. <<>> \in Seq(Entries)
        OBVIOUS
      <4> QED BY <4>1, StopsAre
    <3>3. \A i \in 0 .. 0 : i = 0 /\ i + 1 = 1
      OBVIOUS
    <3> QED BY <3>1, <3>2, <3>3 DEF Round, AreStops
  <2>3. CASE c \in Heads \ {h}
    <3>1. o[c] = c /\ M[c] = L[c]
      BY <1>0, <1>3, <1>6, <2>3 DEF Cells
    <3>2. PICK a : a = Stops(c, L[c])
      OBVIOUS
    <3>3. Ringed(n, p, o, a, c, L[c])
      BY <3>1, <3>2, LaidRings
    <3>4. ASSUME NEW i \in 0 .. Len(L[c]) PROVE m[a[i]] = a[i + 1]
      <4>1. i \in 0 .. Len(L[c]) + 1
        BY <3>3 DEF Ringed, AreStops
      <4>2. a[i] \in Cells /\ o[a[i]] = c /\ n[a[i]] = a[i + 1]
        BY <4>1, <3>3 DEF Ringed
      <4> QED BY <4>2, <2>3, <1>0
    <3> QED BY <3>1, <3>2, <3>4 DEF Round
  <2> QED BY <2>1, <2>2, <2>3 DEF Cells
<1>7. ASSUME NEW c \in Cells, q[c] \notin {c, NoList}
      PROVE  \E i \in 1 .. Len(M[q[c]]) : M[q[c]][i] = c
  <2>1. CASE q[c] = h
    BY <2>1, <1>0, <1>3, <1>7
  <2>2. CASE q[c] # h
    <3>1. c \in Entries
      BY <2>2, <1>4, <1>7 DEF Cells
    <3>2. q[c] = o[c] /\ o[c] \in Heads \ {h}
      BY <3>1, <2>2, <1>0, <1>7 DEF Laid
    <3>3. M[q[c]] = L[o[c]]
      BY <3>2, <1>3 DEF Cells
    <3> QED BY <3>2, <3>3, <1>7 DEF Laid
  <2> QED BY <2>1, <2>2
<1>8. Laid(m, q, M)
  BY <1>3, <1>4, <1>5, <1>6, <1>7 DEF Laid
<1> QED BY <1>1, <1>8

\* The stops b are the stops a, of l entries, with c behind stop k.
StopsWith(a, b, l, k, c) ==
  /\ \A i \in 0 .. k : b[i] = a[i]
  /\ b[k + 1] = c
  /\ \A i \in k + 1 .. l + 1 : b[i + 1] = a[i]

\* The stops after an entry has been put behind stop k.
LEMMA InsertedIs ==
  ASSUME NEW h, NEW r \in Seq(Entries), NEW k \in 0 .. Len(r), NEW c \in Entries,
         NEW s, s = Abstract!Take(r, k) \o <<c>> \o Abstract!Drop(r, k)
  PROVE  /\ s \in Seq(Entries) /\ Len(s) = Len(r) + 1
         /\ StopsWith(Stops(h, r), Stops(h, s), Len(r), k, c)
<1>1. PICK a : a = Stops(h, r)
  OBVIOUS
<1>2. PICK b : b = Stops(h, s)
  OBVIOUS
<1>3. PICK w : w = <<c>>
  OBVIOUS
<1>4. w \in Seq(Entries) /\ Len(w) = 1 /\ w[1] = c
  BY <1>3
<1>5. Pieces(s, r, w, k) /\ s \in Seq(Entries)
  BY <1>3, <1>4, PiecesAre
<1>6. AreStops(a, h, r) /\ AreStops(b, h, s)
  BY <1>1, <1>2, <1>5, StopsAre
<1>7. /\ Len(s) = Len(r) + 1 /\ Len(r) \in Nat
      /\ \A i \in 1 .. Len(s) : s[i] = IF i <= k THEN r[i]
                                      ELSE IF i <= k + 1 THEN w[i - k] ELSE r[i - 1]
  BY <1>4, <1>5 DEF Pieces
<1>8. ASSUME NEW i \in 0 .. k PROVE b[i] = a[i]
  <2>1. i = 0 \/ (i \in 1 .. Len(r) /\ i \in 1 .. Len(s) /\ i <= k)
    BY <1>7
  <2> QED BY <2>1, <1>6, <1>7 DEF AreStops
<1>9. b[k + 1] = c
  <2>1. k + 1 \in 1 .. Len(s) /\ ~(k + 1 <= k) /\ (k + 1) - k = 1
    BY <1>7
  <2>2. s[k + 1] = w[1]
    BY <2>1, <1>7
  <2> QED BY <2>1, <2>2, <1>4, <1>6 DEF AreStops
<1>10. ASSUME NEW i \in k + 1 .. Len(r) + 1 PROVE b[i + 1] = a[i]
  <2>1. CASE i = Len(r) + 1
    BY <2>1, <1>6, <1>7 DEF AreStops
  <2>2. CASE i # Len(r) + 1
    <3>1. /\ i + 1 \in 1 .. Len(s) /\ i \in 1 .. Len(r) /\ (i + 1) - 1 = i
          /\ ~(i + 1 <= k) /\ ~(i + 1 <= k + 1)
      BY <2>2, <1>7
    <3>2. s[i + 1] = r[(i + 1) - 1]
      BY <3>1, <1>7
    <3> QED BY <3>1, <3>2, <1>6 DEF AreStops
  <2> QED BY <2>1, <2>2
<1>11. StopsWith(a, b, Len(r), k, c)
  BY <1>8, <1>9, <1>10 DEF StopsWith
<1> QED BY <1>1, <1>2, <1>5, <1>7, <1>11

\* An entry is linked in behind a stop.
LEMMA InsertLaid ==
  ASSUME NEW n, NEW p, NEW o, Sound(n, p, o), NEW L, Laid(n, o, L),
         NEW h \in Heads, o[h] = h, NEW k \in 0 .. Len(L[h]),
         NEW c \in Entries, o[c] \in {c, NoList},
         NEW x, x = Stops(h, L[h])[k], NEW s,
         s = Abstract!Take(L[h], k) \o <<c>> \o Abstract!Drop(L[h], k)
  PROVE  Laid([n EXCEPT ![c] = n[x], ![x] = c], [o EXCEPT ![c] = h], [L EXCEPT ![h] = s])
<1>1. PICK a : a = Stops(h, L[h])
  OBVIOUS
<1>2. PICK b : b = Stops(h, s)
  OBVIOUS
<1>3. PICK r : r = L[h]
  OBVIOUS
<1>4. PICK m : m = [n EXCEPT ![c] = n[x], ![x] = c]
  OBVIOUS
<1>5. PICK q : q = [o EXCEPT ![c] = h]
  OBVIOUS
<1>6. h \in Cells /\ c \in Cells /\ h # c /\ c # NoList /\ h # NoList
  BY Sentinels DEF Cells
<1>7. Ringed(n, p, o, a, h, r)
  BY <1>1, <1>3, <1>6, LaidRings
<1>8. PICK l : l = Len(r)
  OBVIOUS
<1>9. s \in Seq(Entries) /\ Len(s) = l + 1 /\ StopsWith(a, b, l, k, c)
  <2>1. r \in Seq(Entries) /\ k \in 0 .. Len(r)
    BY <1>3, <1>7 DEF Ringed
  <2>2. s = Abstract!Take(r, k) \o <<c>> \o Abstract!Drop(r, k)
    BY <1>3
  <2>3. /\ s \in Seq(Entries) /\ Len(s) = Len(r) + 1
        /\ StopsWith(Stops(h, r), Stops(h, s), Len(r), k, c)
    BY <2>1, <2>2, InsertedIs
  <2> QED BY <2>3, <1>1, <1>2, <1>3, <1>8
<1>10. /\ l \in Nat /\ k \in 0 .. l /\ x = a[k] /\ a[0] = h /\ a[l + 1] = h
       /\ \A i \in 0 .. l + 1 : a[i] \in Cells /\ o[a[i]] = h
       /\ \A i \in 0 .. l : n[a[i]] = a[i + 1]
       /\ \A i, j \in 0 .. l : a[i] = a[j] => i = j
       /\ \A i \in 1 .. l : a[i] = r[i]
  BY <1>1, <1>3, <1>7, <1>8 DEF Ringed, AreStops
<1>11. AreStops(b, h, s)
  BY <1>2, <1>9, StopsAre
<1>12. n \in [Cells -> Pointers] /\ o \in [Cells -> Cells \cup {NoList}]
  BY DEF Sound, PointerMap, ListMap
<1>13. x \in Cells /\ x # c /\ o[x] = h
  <2>1. k \in 0 .. l + 1
    BY <1>10
  <2> QED BY <2>1, <1>6, <1>10
<1>14. /\ m[x] = c /\ m[c] = n[x] /\ \A d \in Cells \ {c, x} : m[d] = n[d]
       /\ q[c] = h /\ \A d \in Cells \ {c} : q[d] = o[d]
  BY <1>4, <1>5, <1>6, <1>12, <1>13
<1>15. ASSUME NEW i \in 0 .. l, i # k PROVE m[a[i]] = a[i + 1]
  <2>1. i \in 0 .. l + 1
    BY <1>10
  <2>2. a[i] \in Cells /\ a[i] # x /\ a[i] # c
    BY <2>1, <1>6, <1>10, <1>15
  <2> QED BY <2>2, <1>10, <1>14
<1>16. ASSUME NEW i \in 0 .. l + 1 PROVE m[b[i]] = b[i + 1]
  <2>1. CASE i < k
    <3>1. i \in 0 .. k /\ i + 1 \in 0 .. k /\ i \in 0 .. l /\ i # k
      BY <2>1, <1>10
    <3> QED BY <3>1, <1>9, <1>15 DEF StopsWith
  <2>2. CASE i = k
    <3>1. b[i] = x /\ b[i + 1] = c
      BY <2>2, <1>9, <1>10 DEF StopsWith
    <3> QED BY <3>1, <1>14
  <2>3. CASE i = k + 1
    <3>1. k + 1 \in k + 1 .. l + 1
      BY <1>10
    <3>2. b[i] = c /\ b[i + 1] = a[k + 1]
      BY <2>3, <3>1, <1>9 DEF StopsWith
    <3> QED BY <3>2, <1>10, <1>14
  <2>4. CASE i > k + 1
    <3>1. PICK j : j = i - 1
      OBVIOUS
    <3>2. j \in k + 1 .. l + 1 /\ j + 1 \in k + 1 .. l + 1 /\ j \in 0 .. l /\ j # k /\ i = j + 1
      BY <2>4, <3>1, <1>10
    <3>3. b[i] = a[j] /\ b[i + 1] = a[j + 1]
      BY <3>2, <1>9 DEF StopsWith
    <3> QED BY <3>2, <3>3, <1>15
  <2> QED BY <2>1, <2>2, <2>3, <2>4, <1>10
<1>17. Round(m, h, s)
  BY <1>2, <1>9, <1>16 DEF Round
<1>18. ASSUME NEW d \in Cells, q[d] = h, d # h PROVE \E i \in 1 .. Len(s) : s[i] = d
  <2>1. CASE d = c
    <3>1. b[k + 1] = c /\ k + 1 \in 1 .. Len(s)
      BY <1>9, <1>10 DEF StopsWith
    <3> QED BY <2>1, <3>1, <1>11 DEF AreStops
  <2>2. CASE d # c
    <3>1. o[d] = h /\ o[d] \notin {d, NoList}
      BY <2>2, <1>6, <1>14, <1>18
    <3>2. PICK i \in 1 .. l : a[i] = d
      <4>1. PICK i \in 1 .. Len(L[h]) : L[h][i] = d
        BY <3>1 DEF Laid
      <4> QED BY <4>1, <1>3, <1>8, <1>10
    <3>3. (i \in 0 .. k /\ i \in 1 .. Len(s)) \/ (i \in k + 1 .. l + 1 /\ i + 1 \in 1 .. Len(s))
      BY <1>9, <1>10
    <3>4. \E j \in 1 .. Len(s) : b[j] = d
      BY <3>2, <3>3, <1>9 DEF StopsWith
    <3> QED BY <3>4, <1>11 DEF AreStops
  <2> QED BY <2>1, <2>2
<1>19. /\ q[h] = h
       /\ \A g \in Heads \ {h} : q[g] = o[g]
       /\ \A e \in Entries : q[e] \in {h, e, NoList, o[e]}
       /\ \A d \in Cells : o[d] \in Heads \ {h} => q[d] = o[d] /\ m[d] = n[d]
  <2>1. \A d \in Cells : o[d] \in Heads \ {h} => d # c /\ d # x
    BY <1>6, <1>13, Sentinels DEF Cells
  <2>2. \A g \in Heads : g \in Cells /\ g # c
    BY Sentinels DEF Cells
  <2> QED BY <2>1, <2>2, <1>6, <1>10, <1>14 DEF Cells
<1>20. ASSUME NEW e \in Entries, q[e] = e PROVE m[e] = e
  <2>1. e \in Cells /\ e # c /\ e # x /\ o[e] = e
    BY <1>6, <1>13, <1>14, <1>20, Sentinels DEF Cells
  <2>2. n[e] = e
    <3>1. L[e] = <<>> /\ Ringed(n, p, o, Stops(e, L[e]), e, L[e])
      BY <2>1, LaidRings DEF Laid
    <3>2. Len(L[e]) = 0
      BY <3>1
    <3> QED BY <3>1, <3>2 DEF Ringed, AreStops
  <2> QED BY <2>1, <2>2, <1>14
<1>21. Laid(m, q, [L EXCEPT ![h] = s])
  <2>1. OneChanges(n, o, m, q, h, s)
    BY <1>9, <1>17, <1>18, <1>19, <1>20 DEF OneChanges
  <2> QED BY <2>1, OneLaid
<1> QED BY <1>4, <1>5, <1>21

\* Without an entry, the stops are the others.
LEMMA RemovedIs ==
  ASSUME NEW h, NEW r \in Seq(Entries), NEW k \in 1 .. Len(r),
         NEW s, s = Abstract!Take(r, k - 1) \o Abstract!Drop(r, k)
  PROVE  /\ s \in Seq(Entries) /\ Len(r) = Len(s) + 1 /\ k - 1 \in 0 .. Len(s)
         /\ StopsWith(Stops(h, s), Stops(h, r), Len(s), k - 1, r[k])
<1>1. PICK a : a = Stops(h, s)
  OBVIOUS
<1>2. PICK b : b = Stops(h, r)
  OBVIOUS
<1>3. PICK u : u = SubSeq(r, 1, k - 1)
  OBVIOUS
<1>4. PICK v : v = SubSeq(r, k + 1, Len(r))
  OBVIOUS
<1>5. /\ u \in Seq(Entries) /\ Len(u) = k - 1 /\ \A i \in 1 .. k - 1 : u[i] = r[i]
      /\ v \in Seq(Entries) /\ Len(v) = Len(r) - k
      /\ \A i \in 1 .. Len(r) - k : v[i] = r[k + i]
  BY <1>3, <1>4, SubSeqProperties
<1>6. s = u \o v
  BY <1>3, <1>4 DEF Abstract!Take, Abstract!Drop
<1>7. s \in Seq(Entries) /\ Glued(s, u, v)
  BY <1>5, <1>6, GlueIs
<1>8. /\ Len(r) \in Nat /\ Len(s) \in Nat /\ Len(r) = Len(s) + 1 /\ k - 1 \in 0 .. Len(s)
      /\ \A i \in 1 .. Len(s) : s[i] = IF i <= k - 1 THEN u[i] ELSE v[i - (k - 1)]
  <2>1. Len(s) = Len(u) + Len(v)
    BY <1>7 DEF Glued
  <2>2. Len(r) \in Nat /\ Len(s) = (k - 1) + (Len(r) - k)
    BY <2>1, <1>5
  <2>3. Len(s) \in Nat /\ Len(r) = Len(s) + 1 /\ k - 1 \in 0 .. Len(s)
    BY <2>2
  <2>4. \A i \in 1 .. Len(s) : s[i] = IF i <= Len(u) THEN u[i] ELSE v[i - Len(u)]
    BY <1>7 DEF Glued
  <2> QED BY <2>2, <2>3, <2>4, <1>5
<1>9. AreStops(a, h, s) /\ AreStops(b, h, r)
  BY <1>1, <1>2, <1>7, StopsAre
<1>10. ASSUME NEW i \in 0 .. k - 1 PROVE b[i] = a[i]
  <2>1. CASE i = 0
    BY <2>1, <1>9 DEF AreStops
  <2>2. CASE i # 0
    <3>1. i \in 1 .. k - 1 /\ i \in 1 .. Len(s) /\ i \in 1 .. Len(r) /\ i <= k - 1
      BY <2>2, <1>8
    <3>2. s[i] = r[i]
      BY <3>1, <1>5, <1>8
    <3> QED BY <3>1, <3>2, <1>9 DEF AreStops
  <2> QED BY <2>1, <2>2
<1>11. b[(k - 1) + 1] = r[k]
  BY <1>9 DEF AreStops
<1>12. ASSUME NEW i \in (k - 1) + 1 .. Len(s) + 1 PROVE b[i + 1] = a[i]
  <2>1. CASE i = Len(s) + 1
    BY <2>1, <1>8, <1>9 DEF AreStops
  <2>2. CASE i # Len(s) + 1
    <3>1. PICK j : j = i - (k - 1)
      OBVIOUS
    <3>2. /\ i \in 1 .. Len(s) /\ i + 1 \in 1 .. Len(r) /\ ~(i <= k - 1)
          /\ j \in 1 .. Len(r) - k /\ k + j = i + 1
      BY <2>2, <3>1, <1>8
    <3>3. s[i] = r[i + 1]
      BY <3>1, <3>2, <1>5, <1>8
    <3> QED BY <3>2, <3>3, <1>9 DEF AreStops
  <2> QED BY <2>1, <2>2
<1>13. StopsWith(a, b, Len(s), k - 1, r[k])
  BY <1>10, <1>11, <1>12 DEF StopsWith
<1> QED BY <1>1, <1>2, <1>7, <1>8, <1>13


\* An entry is unlinked from its list.
LEMMA RemoveLaid ==
  ASSUME NEW n, NEW p, NEW o, Sound(n, p, o), NEW L, Laid(n, o, L),
         NEW c \in Entries, o[c] # NoList
  PROVE  Laid([n EXCEPT ![p[c]] = n[c]], [o EXCEPT ![c] = NoList], Abstract!Without(L, c))
<1>1. PICK h : h = o[c]
  OBVIOUS
<1>2. PICK m : m = [n EXCEPT ![p[c]] = n[c]]
  OBVIOUS
<1>3. PICK q : q = [o EXCEPT ![c] = NoList]
  OBVIOUS
<1>4. c \in Cells /\ c \notin Heads /\ c # NoList /\ NoList \notin Heads /\ (h = c \/ h \in Heads)
      /\ p[c] \in Cells /\ o[p[c]] = h /\ n[p[c]] = c /\ p[n[c]] = c
  BY <1>1, Sentinels DEF Cells, Laid, Sound, SoundAt
<1>5. n \in [Cells -> Pointers] /\ o \in [Cells -> Cells \cup {NoList}]
  BY DEF Sound, PointerMap, ListMap
<1>6. /\ m[p[c]] = n[c] /\ \A d \in Cells \ {p[c]} : m[d] = n[d]
      /\ q[c] = NoList /\ \A d \in Cells \ {c} : q[d] = o[d]
  BY <1>2, <1>3, <1>4, <1>5
<1>7. \A e \in Entries : o[e] = e => n[e] = e
  <2> TAKE e \in Entries
  <2> SUFFICES ASSUME o[e] = e PROVE n[e] = e
    OBVIOUS
  <2>1. e \in Cells
    BY DEF Cells
  <2>2. L[e] = <<>> /\ Ringed(n, p, o, Stops(e, L[e]), e, L[e])
    BY <2>1, LaidRings DEF Laid
  <2>3. Len(L[e]) = 0
    BY <2>2
  <2> QED BY <2>2, <2>3 DEF Ringed, AreStops
<1>8. CASE h = c
  <2>1. n[c] = c /\ p[c] = c
    BY <1>1, <1>4, <1>7, <1>8
  <2>2. m = n
    BY <2>1, <1>2, <1>4, <1>5
  <2>3. Abstract!HeadOf(L, c) = c
    <3>1. o[c] = c /\ c \in Cells /\ c \notin Heads
      BY <1>1, <1>4, <1>8
    <3> QED BY <3>1, HeadIs
  <2>4. Abstract!Without(L, c) = L
    BY <2>3 DEF Abstract!Without
  <2>5. \A d \in Cells : q[d] # NoList => q[d] = o[d]
    BY <1>6
  <2>6. \A g \in Heads : g \in Cells /\ q[g] = o[g]
    BY <1>4, <1>6 DEF Cells
  <2>7. \A e \in Entries : e \in Cells /\ q[e] \in {o[e], NoList}
    BY <1>6 DEF Cells
  <2>8. \A d \in Cells : q[d] = d => o[d] = d
    BY <2>5, Sentinels
  <2>9. Laid(n, q, L)
    <3>1. \A g \in Heads : q[g] = g \/ (q[g] = NoList /\ L[g] = <<>>)
      BY <2>6 DEF Laid
    <3>2. \A e \in Entries : q[e] \in Heads \cup {e, NoList} /\ L[e] = <<>>
      BY <2>7 DEF Laid
    <3>3. \A d \in Cells : q[d] = d => Round(n, d, L[d])
      BY <2>8 DEF Laid
    <3>4. \A d \in Cells : q[d] \notin {d, NoList} => \E i \in 1 .. Len(L[q[d]]) : L[q[d]][i] = d
      BY <2>5 DEF Laid
    <3> QED BY <3>1, <3>2, <3>3, <3>4 DEF Laid
  <2> QED BY <2>2, <2>4, <2>9, <1>2, <1>3
<1>9. CASE h \in Heads
  <2>1. PICK k : Stands(L, o, c, k)
    BY <1>1, <1>4, <1>9, StandsSomewhere
  <2>2. PICK r : r = L[h]
    OBVIOUS
  <2>3. /\ k \in 1 .. Len(r) /\ Abstract!HeadOf(L, c) = h /\ Abstract!Place(L, c) = k
        /\ Stops(h, r)[k] = c /\ h # c
    <3>1. k # 0 /\ h # c
      BY <2>1, <1>1, <1>4, <1>9 DEF Stands
    <3> QED BY <2>1, <2>2, <3>1, <1>1 DEF Stands
  <2>4. PICK a : a = Stops(h, r)
    OBVIOUS
  <2>5. o[h] = h /\ h \in Cells
    <3>1. r # <<>>
      BY <2>3
    <3> QED BY <3>1, <2>2, <1>9 DEF Laid, Cells
  <2>6. Ringed(n, p, o, a, h, r)
    BY <2>2, <2>4, <2>5, LaidRings
  <2>7. PICK s : s = Abstract!Take(r, k - 1) \o Abstract!Drop(r, k)
    OBVIOUS
  <2>8. PICK b : b = Stops(h, s)
    OBVIOUS
  <2>9. PICK l : l = Len(s)
    OBVIOUS
  <2>10. r \in Seq(Entries) /\ Len(r) \in Nat
    BY <2>6 DEF Ringed, AreStops
  <2>11. /\ s \in Seq(Entries) /\ Len(r) = l + 1 /\ k - 1 \in 0 .. l
         /\ StopsWith(b, a, l, k - 1, r[k])
    <3>1. /\ s \in Seq(Entries) /\ Len(r) = Len(s) + 1 /\ k - 1 \in 0 .. Len(s)
          /\ StopsWith(Stops(h, s), Stops(h, r), Len(s), k - 1, r[k])
      BY <2>3, <2>7, <2>10, RemovedIs
    <3> QED BY <3>1, <2>4, <2>8, <2>9
  <2>12. /\ l \in Nat /\ k \in 1 .. l + 1 /\ a[k] = c
         /\ \A i \in 0 .. k - 1 : a[i] = b[i]
         /\ \A i \in k .. l + 1 : a[i + 1] = b[i]
         /\ \A i \in 0 .. l + 2 : a[i] \in Cells /\ o[a[i]] = h
         /\ \A i \in 0 .. l + 1 : n[a[i]] = a[i + 1] /\ p[a[i + 1]] = a[i]
         /\ \A i, j \in 0 .. l + 1 : a[i] = a[j] => i = j
         /\ \A i \in 1 .. l + 1 : a[i] = r[i]
    <3>1. l \in Nat /\ k \in 1 .. l + 1 /\ a[k] = c /\ (k - 1) + 1 = k
      BY <2>3, <2>4, <2>9, <2>11
    <3>2. (l + 1) + 1 = l + 2
      BY <3>1
    <3>3. /\ \A i \in 0 .. k - 1 : a[i] = b[i]
          /\ \A i \in k .. l + 1 : a[i + 1] = b[i]
      BY <3>1, <2>11 DEF StopsWith
    <3> QED BY <3>1, <3>2, <3>3, <2>6, <2>11 DEF Ringed, AreStops
  <2>13. AreStops(b, h, s)
    BY <2>8, <2>11, StopsAre
  <2>14. PICK j : j = k - 1
    OBVIOUS
  <2>15. /\ j \in 0 .. l /\ j \in 0 .. l + 1 /\ k = j + 1 /\ p[c] = a[j] /\ n[c] = a[k + 1]
         /\ a[k + 1] = b[k] /\ k \in 0 .. l + 1
    <3>1. j \in 0 .. l /\ j \in 0 .. l + 1 /\ k = j + 1 /\ k \in k .. l + 1 /\ k \in 0 .. l + 1
      BY <2>12, <2>14
    <3> QED BY <3>1, <2>12
  <2>16. ASSUME NEW i \in 0 .. l + 1, i # j PROVE m[a[i]] = a[i + 1]
    <3>1. i \in 0 .. l + 2
      BY <2>12
    <3>2. a[i] \in Cells /\ a[i] # p[c]
      BY <3>1, <2>12, <2>15, <2>16
    <3> QED BY <3>2, <2>12, <1>6
  <2>17. ASSUME NEW i \in 0 .. l PROVE m[b[i]] = b[i + 1]
    <3>1. CASE i < j
      <4>1. i \in 0 .. k - 1 /\ i + 1 \in 0 .. k - 1 /\ i \in 0 .. l + 1 /\ i # j
        BY <3>1, <2>12, <2>14
      <4> QED BY <4>1, <2>12, <2>16
    <3>2. CASE i = j
      <4>1. j \in 0 .. k - 1
        BY <2>14, <2>15
      <4>2. b[i] = p[c] /\ b[i + 1] = n[c]
        BY <4>1, <3>2, <2>12, <2>15
      <4> QED BY <4>2, <1>6
    <3>3. CASE i > j
      <4>1. i \in k .. l + 1 /\ i + 1 \in k .. l + 1 /\ i + 1 \in 0 .. l + 1 /\ i + 1 # j
        BY <3>3, <2>12, <2>14
      <4>2. a[i + 1] = b[i] /\ a[(i + 1) + 1] = b[i + 1]
        BY <4>1, <2>12
      <4> QED BY <4>1, <4>2, <2>16
    <3> QED BY <3>1, <3>2, <3>3, <2>15
  <2>18. Round(m, h, s)
    BY <2>8, <2>9, <2>17 DEF Round
  <2>19. ASSUME NEW d \in Cells, q[d] = h, d # h PROVE \E i \in 1 .. Len(s) : s[i] = d
    <3>1. d # c /\ o[d] = h /\ o[d] \notin {d, NoList}
      BY <1>4, <1>6, <1>9, <2>19
    <3>2. PICK i \in 1 .. l + 1 : r[i] = d
      <4>1. PICK i \in 1 .. Len(L[h]) : L[h][i] = d
        BY <3>1 DEF Laid
      <4> QED BY <4>1, <2>2, <2>11
    <3>3. a[i] = d /\ i # k
      BY <3>1, <3>2, <2>12
    <3>4. CASE i < k
      <4>1. i \in 0 .. k - 1 /\ i \in 1 .. l
        BY <3>4, <2>12
      <4>2. b[i] = d
        BY <4>1, <3>3, <2>12
      <4> QED BY <4>1, <4>2, <2>9, <2>13 DEF AreStops
    <3>5. CASE i > k
      <4>1. PICK e : e = i - 1
        OBVIOUS
      <4>2. e \in k .. l + 1 /\ e \in 1 .. l /\ i = e + 1
        BY <4>1, <3>5, <2>12
      <4>3. b[e] = d
        BY <4>2, <3>3, <2>12
      <4> QED BY <4>2, <4>3, <2>9, <2>13 DEF AreStops
    <3> QED BY <3>3, <3>4, <3>5, <2>12
  <2>20. \A g \in Heads : g \in Cells /\ q[g] = o[g]
    BY <1>4, <1>6 DEF Cells
  <2>21. \A e \in Entries : e \in Cells /\ q[e] \in {o[e], NoList}
    BY <1>6 DEF Cells
  <2>22. ASSUME NEW e \in Entries, q[e] = e PROVE m[e] = e
    <3>1. e \in Cells /\ o[e] = e /\ e # h
      BY <2>21, <2>22, <1>9, Sentinels DEF Cells
    <3> QED BY <3>1, <1>4, <1>6, <1>7
  <2>23. ASSUME NEW d \in Cells, o[d] \in Heads \ {h} PROVE q[d] = o[d] /\ m[d] = n[d]
    BY <2>23, <1>1, <1>4, <1>6
  <2>24. OneChanges(n, o, m, q, h, s)
    <3>1. q[h] = h
      BY <2>5, <2>20, <1>9
    <3>2. \A g \in Heads \ {h} : q[g] = o[g]
      BY <2>20
    <3>3. \A e \in Entries : q[e] \in {h, e, NoList, o[e]}
      BY <2>21
    <3> QED BY <2>11, <2>18, <2>19, <2>22, <2>23, <3>1, <3>2, <3>3 DEF OneChanges
  <2>25. Laid(m, q, [L EXCEPT ![h] = s])
    BY <2>24, <1>9, OneLaid
  <2>26. Abstract!Without(L, c) = [L EXCEPT ![h] = s]
    BY <2>2, <2>3, <2>7 DEF Abstract!Without
  <2> QED BY <2>25, <2>26, <1>2, <1>3
<1> QED BY <1>4, <1>8, <1>9

\* A cell no other is linked to is initialised or given up.
LEMMA LonelyLaid ==
  ASSUME NEW n, NEW p, NEW o, Sound(n, p, o), NEW L, Laid(n, o, L), NEW c \in Cells,
         o[c] = NoList \/ (o[c] = c /\ n[c] = c), NEW x, NEW v \in {c, NoList}, v = c => x = c
  PROVE  Laid([n EXCEPT ![c] = x], [o EXCEPT ![c] = v], L)
<1>1. PICK m : m = [n EXCEPT ![c] = x]
  OBVIOUS
<1>2. PICK q : q = [o EXCEPT ![c] = v]
  OBVIOUS
<1>3. n \in [Cells -> Pointers] /\ o \in [Cells -> Cells \cup {NoList}]
  BY DEF Sound, PointerMap, ListMap
<1>4. /\ m[c] = x /\ \A d \in Cells \ {c} : m[d] = n[d]
      /\ q[c] = v /\ \A d \in Cells \ {c} : q[d] = o[d]
  BY <1>1, <1>2, <1>3
<1>5. L[c] = <<>>
  <2>1. CASE o[c] = NoList
    BY <2>1, Sentinels DEF Laid, Cells
  <2>2. CASE o[c] = c /\ n[c] = c
    <3>1. Ringed(n, p, o, Stops(c, L[c]), c, L[c])
      BY <2>2, LaidRings
    <3>2. PICK a : Ringed(n, p, o, a, c, L[c])
      BY <3>1
    <3>3. L[c] \in Seq(Entries) /\ Len(L[c]) \in Nat /\ a[0] = c
      BY <3>2 DEF Ringed, AreStops
    <3>4. ASSUME Len(L[c]) # 0 PROVE FALSE
      <4>1. 1 \in 1 .. Len(L[c]) /\ 0 \in 0 .. Len(L[c]) /\ 0 + 1 = 1
        BY <3>3, <3>4
      <4>2. n[a[0]] = a[0 + 1] /\ a[1] # c
        BY <3>2, <4>1 DEF Ringed
      <4> QED BY <4>1, <4>2, <3>3, <2>2
    <3> QED BY <3>3, <3>4
  <2> QED BY <2>1, <2>2
<1>6. /\ \A h \in Heads : q[h] = h \/ (q[h] = NoList /\ L[h] = <<>>)
      /\ \A e \in Entries : q[e] \in Heads \cup {e, NoList} /\ L[e] = <<>>
  <2>1. \A h \in Heads : q[h] = h \/ (q[h] = NoList /\ L[h] = <<>>)
    BY <1>4, <1>5 DEF Laid, Cells
  <2>2. \A e \in Entries : q[e] \in Heads \cup {e, NoList} /\ L[e] = <<>>
    BY <1>4 DEF Laid, Cells
  <2> QED BY <2>1, <2>2
<1>7. ASSUME NEW d \in Cells, q[d] = d PROVE Round(m, d, L[d])
  <2>1. CASE d = c
    <3>1. m[c] = c
      BY <2>1, <1>4, <1>7, Sentinels
    <3>2. AreStops(Stops(c, <<>>), c, <<>>)
      <4>1. <<>> \in Seq(Entries)
        OBVIOUS
      <4> QED BY <4>1, StopsAre
    <3>3. \A i \in 0 .. 0 : i = 0 /\ i + 1 = 1
      OBVIOUS
    <3> QED BY <2>1, <3>1, <3>2, <3>3, <1>5 DEF Round, AreStops
  <2>2. CASE d # c
    <3>1. PICK a : a = Stops(d, L[d])
      OBVIOUS
    <3>2. o[d] = d
      BY <2>2, <1>4, <1>7
    <3>3. Ringed(n, p, o, a, d, L[d])
      BY <3>1, <3>2, LaidRings
    <3>4. ASSUME NEW i \in 0 .. Len(L[d]) PROVE m[a[i]] = a[i + 1]
      <4>1. i \in 0 .. Len(L[d]) + 1
        BY <3>3 DEF Ringed, AreStops
      <4>2. a[i] \in Cells /\ o[a[i]] = d /\ n[a[i]] = a[i + 1]
        BY <4>1, <3>3 DEF Ringed
      <4>3. a[i] # c
        BY <4>2, <2>2, Sentinels
      <4> QED BY <4>2, <4>3, <1>4
    <3> QED BY <3>1, <3>4 DEF Round
  <2> QED BY <2>1, <2>2
<1>8. ASSUME NEW d \in Cells, q[d] \notin {d, NoList}
      PROVE  \E i \in 1 .. Len(L[q[d]]) : L[q[d]][i] = d
  <2>1. d # c /\ q[d] = o[d]
    BY <1>4, <1>8
  <2> QED BY <2>1, <1>8 DEF Laid
<1>9. Laid(m, q, L)
  BY <1>6, <1>7, <1>8 DEF Laid
<1> QED BY <1>1, <1>2, <1>9

\* The lists of the two maps are the lists of their heap.
LEMMA MemHolds ==
  ASSUME NEW n, NEW p, NEW o, NEW L, Ok(Mem(n, p), o), Laid(n, o, L)
  PROVE  Holds(Mem(n, p), o, L)
BY MemParts DEF Holds

\* INIT_LIST_HEAD changes no list.
LEMMA HoldsInit ==
  ASSUME NEW H, NEW o, NEW L, Holds(H, o, L), NEW c \in Cells, Isolated(H.next, o, c),
         o[c] \in {c, NoList}
  PROVE  Holds(INIT_LIST_HEAD(H, c), [o EXCEPT ![c] = c], L)
<1>1. PICK n : n = H.next
  OBVIOUS
<1>2. PICK p : p = H.prev
  OBVIOUS
<1>3. H = Mem(n, p) /\ Sound(n, p, o) /\ Laid(n, o, L) /\ Ok(H, o)
  BY <1>1, <1>2 DEF Holds, Ok
<1>4. Ok(INIT_LIST_HEAD(H, c), [o EXCEPT ![c] = c])
  BY <1>3, OkInit
<1>5. o[c] = NoList \/ (o[c] = c /\ n[c] = c)
  BY <1>1 DEF Isolated
<1>6. Laid([n EXCEPT ![c] = c], [o EXCEPT ![c] = c], L)
  BY <1>3, <1>5, LonelyLaid
<1>7. INIT_LIST_HEAD(H, c) = Mem([n EXCEPT ![c] = c], [p EXCEPT ![c] = c])
  BY <1>3, InitIs
<1> QED BY <1>4, <1>6, <1>7, MemParts DEF Holds

\* Nor does poison in a cell that is on none.
LEMMA HoldsOverwrite ==
  ASSUME NEW H, NEW o, NEW L, Holds(H, o, L), NEW c \in Cells, o[c] = NoList,
         NEW a \in Pointers, NEW b \in Pointers
  PROVE  /\ Holds(SetPrev(SetNext(H, c, a), c, b), o, L)
         /\ Holds(SetPrev(H, c, b), o, L)
<1>1. PICK n : n = H.next
  OBVIOUS
<1>2. PICK p : p = H.prev
  OBVIOUS
<1>3. H = Mem(n, p) /\ Sound(n, p, o) /\ Laid(n, o, L) /\ Ok(H, o)
  BY <1>1, <1>2 DEF Holds, Ok
<1>4. Ok(SetPrev(SetNext(H, c, a), c, b), o) /\ Ok(SetPrev(H, c, b), o)
  BY <1>3, OkOverwrite
<1>5. PICK m : m = [n EXCEPT ![c] = a]
  OBVIOUS
<1>6. SetNext(H, c, a) = Mem(m, p)
  <2>1. SetNext(Mem(n, p), c, a) = Mem([n EXCEPT ![c] = a], p)
    BY MemNext
  <2> QED BY <2>1, <1>3, <1>5
<1>7. SetPrev(Mem(m, p), c, b) = Mem(m, [p EXCEPT ![c] = b])
  BY MemPrev
<1>8. SetPrev(H, c, b) = Mem(n, [p EXCEPT ![c] = b])
  BY <1>3, MemPrev
<1>9. Laid(m, o, L)
  <2>1. o \in ListMap /\ c # NoList
    BY <1>3, Sentinels DEF Sound
  <2>2. [o EXCEPT ![c] = NoList] = o
    BY <2>1 DEF ListMap
  <2>3. Laid([n EXCEPT ![c] = a], [o EXCEPT ![c] = NoList], L)
    BY <2>1, <1>3, LonelyLaid
  <2> QED BY <2>2, <2>3, <1>5
<1> QED BY <1>3, <1>4, <1>6, <1>7, <1>8, <1>9, MemParts DEF Holds

\* __list_del_entry takes the entry out of its list.
LEMMA HoldsUnlink ==
  ASSUME NEW H, NEW o, NEW L, Holds(H, o, L), NEW entry \in Entries, o[entry] # NoList
  PROVE  Holds(UnlinkEntry(H, entry), [o EXCEPT ![entry] = NoList],
               Abstract!Without(L, entry))
<1>1. PICK n : n = H.next
  OBVIOUS
<1>2. PICK p : p = H.prev
  OBVIOUS
<1>3. H = Mem(n, p) /\ Sound(n, p, o) /\ Laid(n, o, L) /\ Ok(H, o) /\ entry \in Cells
  BY <1>1, <1>2 DEF Holds, Ok, Cells
<1>4. Ok(UnlinkEntry(H, entry), [o EXCEPT ![entry] = NoList])
  BY <1>3, OkUnlink
<1>5. PICK m : m = [n EXCEPT ![p[entry]] = n[entry]]
  OBVIOUS
<1>6. Laid(m, [o EXCEPT ![entry] = NoList], Abstract!Without(L, entry))
  BY <1>3, <1>5, RemoveLaid
<1>7. UnlinkEntry(H, entry).next = m
  <2>1. UnlinkEntry(Mem(n, p), entry) =
          Mem([n EXCEPT ![p[entry]] = n[entry]], [p EXCEPT ![n[entry]] = p[entry]])
    BY UnlinkIs
  <2> QED BY <2>1, <1>3, <1>5, MemParts
<1> QED BY <1>4, <1>6, <1>7 DEF Holds

\* list_add and list_add_tail put the entry behind or in front of a position.
LEMMA HoldsAdd ==
  ASSUME NEW H, NEW o, NEW L, Holds(H, o, L), NEW new \in Entries, NEW head \in Cells,
         Isolated(H.next, o, new), o[new] \in {new, NoList}, o[head] \in Heads
  PROVE  /\ Holds(list_add(H, new, head), [o EXCEPT ![new] = o[head]],
                  Abstract!Behind(L, head, <<new>>))
         /\ Holds(list_add_tail(H, new, head), [o EXCEPT ![new] = o[head]],
                  Abstract!InFront(L, head, <<new>>))
<1>1. PICK n : n = H.next
  OBVIOUS
<1>2. PICK p : p = H.prev
  OBVIOUS
<1>3. H = Mem(n, p) /\ Sound(n, p, o) /\ Laid(n, o, L) /\ Ok(H, o)
  BY <1>1, <1>2 DEF Holds, Ok
<1>4. PICK h : h = o[head]
  OBVIOUS
<1>5. /\ h \in Heads /\ h # NoList /\ new # head /\ new \in Cells
  BY <1>4, Sentinels DEF Cells
<1>6. PICK k : Stands(L, o, head, k)
  BY <1>3, StandsSomewhere
<1>7. PICK r : r = L[h]
  OBVIOUS
<1>8. PICK a : a = Stops(h, r)
  OBVIOUS
<1>9. o[h] = h
  <2>1. head = h \/ (o[head] \notin {head, NoList})
    BY <1>4, <1>5
  <2>2. head = h \/ r # <<>>
    BY <2>1, <1>3, <1>4, <1>7 DEF Laid
  <2> QED BY <2>2, <1>3, <1>4, <1>5, <1>7 DEF Laid
<1>10. Ringed(n, p, o, a, h, r)
  BY <1>3, <1>5, <1>7, <1>8, <1>9, LaidRings DEF Cells
<1>11. PICK j : j = IF k = 0 THEN Len(r) ELSE k - 1
  OBVIOUS
<1>12. /\ k \in 0 .. Len(r) /\ a[k] = head /\ Abstract!HeadOf(L, head) = h
       /\ Abstract!UpTo(L, head) = k /\ Abstract!Before(L, head) = j
  BY <1>4, <1>6, <1>7, <1>8, <1>11 DEF Stands
<1>13. j \in 0 .. Len(r) /\ p[head] = a[j] /\ n[a[j]] = head
  <2>1. j \in 0 .. Len(r) /\ (k = 0 \/ k = j + 1) /\ Len(r) \in Nat
    BY <1>10, <1>11, <1>12 DEF Ringed, AreStops
  <2>2. a[j + 1] = head
    BY <2>1, <1>10, <1>11, <1>12 DEF Ringed, AreStops
  <2> QED BY <2>1, <2>2, <1>10 DEF Ringed
<1>14. PICK s : s = Abstract!Take(r, k) \o <<new>> \o Abstract!Drop(r, k)
  OBVIOUS
<1>15. PICK t : t = Abstract!Take(r, j) \o <<new>> \o Abstract!Drop(r, j)
  OBVIOUS
<1>16. Laid([n EXCEPT ![new] = n[head], ![head] = new], [o EXCEPT ![new] = h],
            [L EXCEPT ![h] = s])
  BY <1>3, <1>5, <1>7, <1>8, <1>9, <1>12, <1>14, InsertLaid
<1>17. Laid([n EXCEPT ![new] = n[a[j]], ![a[j]] = new], [o EXCEPT ![new] = h],
            [L EXCEPT ![h] = t])
  BY <1>3, <1>5, <1>7, <1>8, <1>9, <1>13, <1>15, InsertLaid
<1>18. /\ Abstract!Behind(L, head, <<new>>) = [L EXCEPT ![h] = s]
       /\ Abstract!InFront(L, head, <<new>>) = [L EXCEPT ![h] = t]
  BY <1>7, <1>12, <1>14, <1>15 DEF Abstract!Behind, Abstract!InFront
<1>19. /\ Ok(list_add(H, new, head), [o EXCEPT ![new] = h])
       /\ Ok(list_add_tail(H, new, head), [o EXCEPT ![new] = h])
  BY <1>3, <1>4, <1>5, OkAdd
<1>20. list_add(H, new, head) = Link(Mem(n, p), new, head, n[head])
       /\ list_add_tail(H, new, head) = Link(Mem(n, p), new, a[j], n[a[j]])
  BY <1>1, <1>2, <1>3, <1>13 DEF list_add, list_add_tail
<1>21. PICK m1 : m1 = [n EXCEPT ![new] = n[head], ![head] = new]
  OBVIOUS
<1>22. PICK m2 : m2 = [n EXCEPT ![new] = n[a[j]], ![a[j]] = new]
  OBVIOUS
<1>23. Link(Mem(n, p), new, head, n[head]).next = m1
  <2>1. Link(Mem(n, p), new, head, n[head]) =
          Mem([n EXCEPT ![new] = n[head], ![head] = new],
              [p EXCEPT ![n[head]] = new, ![new] = head])
    BY LinkIs
  <2> QED BY <2>1, <1>21, MemParts
<1>24. Link(Mem(n, p), new, a[j], n[a[j]]).next = m2
  <2>1. Link(Mem(n, p), new, a[j], n[a[j]]) =
          Mem([n EXCEPT ![new] = n[a[j]], ![a[j]] = new],
              [p EXCEPT ![n[a[j]]] = new, ![new] = a[j]])
    BY LinkIs
  <2> QED BY <2>1, <1>22, MemParts
<1>25. list_add(H, new, head).next = m1 /\ list_add_tail(H, new, head).next = m2
  BY <1>20, <1>23, <1>24
<1> QED BY <1>4, <1>16, <1>17, <1>18, <1>19, <1>21, <1>22, <1>25 DEF Holds

\* list_move and list_move_tail take it out before they put it in.
LEMMA HoldsMove ==
  ASSUME NEW H, NEW o, NEW L, Holds(H, o, L), NEW list \in Entries, NEW head \in Cells,
         o[list] # NoList, o[head] \in Heads, list # head
  PROVE  /\ Holds(list_move(H, list, head), [o EXCEPT ![list] = o[head]],
                  Abstract!Behind(Abstract!Without(L, list), head, <<list>>))
         /\ Holds(list_move_tail(H, list, head), [o EXCEPT ![list] = o[head]],
                  Abstract!InFront(Abstract!Without(L, list), head, <<list>>))
<1>1. PICK G : G = UnlinkEntry(H, list)
  OBVIOUS
<1>2. PICK r : r = [o EXCEPT ![list] = NoList]
  OBVIOUS
<1>3. PICK M : M = Abstract!Without(L, list)
  OBVIOUS
<1>4. Holds(G, r, M)
  BY <1>1, <1>2, <1>3, HoldsUnlink
<1>5. o \in ListMap /\ list \in Cells
  BY DEF Holds, Ok, Sound, Cells
<1>6. r[list] = NoList /\ r[head] = o[head]
      /\ [r EXCEPT ![list] = r[head]] = [o EXCEPT ![list] = o[head]]
  BY <1>2, <1>5 DEF ListMap
<1>7. Isolated(G.next, r, list)
  BY <1>6 DEF Isolated
<1>8. /\ Holds(list_add(G, list, head), [r EXCEPT ![list] = r[head]],
               Abstract!Behind(M, head, <<list>>))
      /\ Holds(list_add_tail(G, list, head), [r EXCEPT ![list] = r[head]],
               Abstract!InFront(M, head, <<list>>))
  BY <1>4, <1>6, <1>7, HoldsAdd
<1>9. list_move(H, list, head) = list_add(G, list, head)
      /\ list_move_tail(H, list, head) = list_add_tail(G, list, head)
  BY <1>1 DEF list_move, list_move_tail
<1> QED BY <1>3, <1>6, <1>8, <1>9

-----------------------------------------------------------------------------
(* Several lists change.                                                    *)

\* The lists of G become those of M, or are given up, and nothing happens to the cells
\* of the others.
SomeChange(n, o, L, m, q, M, G) ==
  /\ M \in [Cells -> Seq(Entries)]
  /\ \A g \in Heads \ G : q[g] = o[g] /\ M[g] = L[g]
  /\ \A g \in G : (q[g] = g /\ Round(m, g, M[g])) \/ (q[g] = NoList /\ M[g] = <<>>)
  /\ \A e \in Entries : q[e] \in Heads \cup {e, NoList} /\ M[e] = <<>>
  /\ \A e \in Entries : q[e] = e => m[e] = e
  /\ \A e \in Entries : q[e] \in Heads \ G => o[e] = q[e]
  /\ \A e \in Entries : q[e] \in G => \E i \in 1 .. Len(M[q[e]]) : M[q[e]][i] = e
  /\ \A c \in Cells : o[c] \in Heads \ G => m[c] = n[c]

\* Where some lists change, the lists are as before but for those.
LEMMA SomeLaid ==
  ASSUME NEW n, NEW p, NEW o, Sound(n, p, o), NEW L, Laid(n, o, L),
         NEW m, NEW q, NEW M, NEW G \in SUBSET Heads, SomeChange(n, o, L, m, q, M, G)
  PROVE  Laid(m, q, M)
<1>1. /\ M \in [Cells -> Seq(Entries)]
      /\ \A g \in Heads \ G : q[g] = o[g] /\ M[g] = L[g]
      /\ \A g \in G : (q[g] = g /\ Round(m, g, M[g])) \/ (q[g] = NoList /\ M[g] = <<>>)
      /\ \A e \in Entries : q[e] \in Heads \cup {e, NoList} /\ M[e] = <<>>
      /\ \A e \in Entries : q[e] = e => m[e] = e
      /\ \A e \in Entries : q[e] \in Heads \ G => o[e] = q[e]
      /\ \A e \in Entries : q[e] \in G => \E i \in 1 .. Len(M[q[e]]) : M[q[e]][i] = e
      /\ \A c \in Cells : o[c] \in Heads \ G => m[c] = n[c]
  BY DEF SomeChange
<1>2. \A g \in Heads : q[g] = g \/ (q[g] = NoList /\ M[g] = <<>>)
  BY <1>1 DEF Laid
<1>3. ASSUME NEW c \in Cells, q[c] = c PROVE Round(m, c, M[c])
  <2>1. CASE c \in G
    <3>1. c # NoList
      BY Sentinels
    <3> QED BY <2>1, <3>1, <1>1, <1>3
  <2>2. CASE c \in Entries
    <3>1. m[c] = c /\ M[c] = <<>>
      BY <1>1, <1>3, <2>2
    <3>2. AreStops(Stops(c, <<>>), c, <<>>)
      <4>1. <<>> \in Seq(Entries)
        OBVIOUS
      <4> QED BY <4>1, StopsAre
    <3>3. \A i \in 0 .. 0 : i = 0 /\ i + 1 = 1
      OBVIOUS
    <3> QED BY <3>1, <3>2, <3>3 DEF Round, AreStops
  <2>3. CASE c \in Heads \ G
    <3>1. o[c] = c /\ M[c] = L[c]
      BY <1>1, <1>3, <2>3
    <3>2. PICK a : a = Stops(c, L[c])
      OBVIOUS
    <3>3. Ringed(n, p, o, a, c, L[c])
      BY <3>1, <3>2, LaidRings
    <3>4. ASSUME NEW i \in 0 .. Len(L[c]) PROVE m[a[i]] = a[i + 1]
      <4>1. i \in 0 .. Len(L[c]) + 1
        BY <3>3 DEF Ringed, AreStops
      <4>2. a[i] \in Cells /\ o[a[i]] = c /\ n[a[i]] = a[i + 1]
        BY <4>1, <3>3 DEF Ringed
      <4> QED BY <4>2, <2>3, <1>1
    <3> QED BY <3>1, <3>2, <3>4 DEF Round
  <2> QED BY <2>1, <2>2, <2>3 DEF Cells
<1>4. ASSUME NEW c \in Cells, q[c] \notin {c, NoList}
      PROVE  \E i \in 1 .. Len(M[q[c]]) : M[q[c]][i] = c
  <2>1. c \in Entries
    BY <1>2, <1>4 DEF Cells
  <2>2. CASE q[c] \in G
    BY <2>1, <2>2, <1>1
  <2>3. CASE q[c] \notin G
    <3>1. q[c] \in Heads \ G
      BY <2>1, <2>3, <1>1, <1>4
    <3>2. o[c] = q[c] /\ M[q[c]] = L[o[c]]
      BY <2>1, <3>1, <1>1
    <3> QED BY <3>2, <1>4 DEF Laid
  <2> QED BY <2>2, <2>3
<1> QED BY <1>1, <1>2, <1>3, <1>4 DEF Laid

-----------------------------------------------------------------------------
(* Entries change places.                                                   *)

\* The pointers m and lists q are n and o with each cell that was on a list renamed by f.
Carried(n, o, m, q, f) ==
  /\ f \in [Cells -> Cells]
  /\ \A h \in Heads : f[h] = h /\ q[h] = o[h]
  /\ \A e \in Entries : f[e] \in Entries
  /\ \A c \in Cells : o[c] # NoList => m[f[c]] = f[n[c]] /\ q[f[c]] = f[o[c]]
  /\ \A d \in Cells : q[d] # NoList => \E c \in Cells : o[c] # NoList /\ f[c] = d

\* An entry by itself points to itself both ways.
LEMMA AloneIs ==
  ASSUME NEW n, NEW p, NEW o, Sound(n, p, o), NEW L, Laid(n, o, L),
         NEW e \in Entries, o[e] = e
  PROVE  n[e] = e /\ p[e] = e
<1>1. e \in Cells
  BY DEF Cells
<1>2. L[e] = <<>> /\ Ringed(n, p, o, Stops(e, L[e]), e, L[e])
  BY <1>1, LaidRings DEF Laid
<1>3. Len(L[e]) = 0
  BY <1>2
<1> QED BY <1>2, <1>3 DEF Ringed, AreStops

\* The entries of one list are carried over to another cell.
LEMMA CarriedLaid ==
  ASSUME NEW n, NEW p, NEW o, Sound(n, p, o), NEW L, Laid(n, o, L),
         NEW m, NEW q, NEW f, Carried(n, o, m, q, f)
  PROVE  Laid(m, q, Abstract!Renaming(L, f))
<1>1. PICK M : M = Abstract!Renaming(L, f)
  OBVIOUS
<1>2. /\ f \in [Cells -> Cells]
      /\ \A h \in Heads : f[h] = h /\ q[h] = o[h]
      /\ \A e \in Entries : f[e] \in Entries
      /\ \A c \in Cells : o[c] # NoList => m[f[c]] = f[n[c]] /\ q[f[c]] = f[o[c]]
      /\ \A d \in Cells : q[d] # NoList => \E c \in Cells : o[c] # NoList /\ f[c] = d
  BY DEF Carried
<1>3. M = [h \in Cells |-> [i \in DOMAIN L[h] |-> f[L[h][i]]]]
  BY <1>1 DEF Abstract!Renaming
<1>4. ASSUME NEW h \in Cells
      PROVE  /\ M[h] \in Seq(Entries) /\ Len(M[h]) = Len(L[h]) /\ L[h] \in Seq(Entries)
             /\ \A i \in 1 .. Len(L[h]) : M[h][i] = f[L[h][i]]
  <2>1. PICK s : s = L[h]
    OBVIOUS
  <2>2. s \in Seq(Entries) /\ M[h] = [i \in DOMAIN s |-> f[s[i]]]
    BY <2>1, <1>3 DEF Laid
  <2>3. \A i \in 1 .. Len(s) : s[i] \in Entries
    BY <2>2
  <2>4. M[h] = [i \in 1 .. Len(s) |-> f[s[i]]]
    BY <2>2
  <2>5. M[h] \in Seq(Entries) /\ Len(M[h]) = Len(s)
    BY <2>2, <2>3, <2>4, <1>2
  <2> QED BY <2>1, <2>2, <2>4, <2>5
<1>5. M \in [Cells -> Seq(Entries)]
  BY <1>3, <1>4
<1>6. \A h \in Heads : q[h] = h \/ (q[h] = NoList /\ M[h] = <<>>)
  <2> TAKE h \in Heads
  <2>1. h \in Cells
    BY DEF Cells
  <2>2. L[h] = <<>> => M[h] = <<>>
    BY <2>1, <1>4
  <2> QED BY <2>2, <1>2 DEF Laid
<1>7. ASSUME NEW e \in Entries
      PROVE  /\ q[e] \in Heads \cup {e, NoList} /\ M[e] = <<>>
             /\ q[e] = e => m[e] = e
             /\ q[e] \notin {e, NoList} =>
                  \E c \in Cells : f[c] = e /\ o[c] = q[e] /\ o[c] \notin {c, NoList}
  <2>1. e \in Cells /\ L[e] = <<>> /\ e \notin Heads
    BY Sentinels DEF Laid, Cells
  <2>2. M[e] = <<>>
    BY <2>1, <1>4
  <2>3. CASE q[e] # NoList
    <3>1. PICK c \in Cells : o[c] # NoList /\ f[c] = e
      BY <2>1, <2>3, <1>2
    <3>2. q[e] = f[o[c]] /\ m[e] = f[n[c]] /\ c \in Entries
      BY <2>1, <3>1, <1>2 DEF Cells
    <3>3. o[c] = c \/ o[c] \in Heads
      BY <3>1, <3>2 DEF Laid
    <3>4. CASE o[c] = c
      BY <3>1, <3>2, <3>4, <2>2, AloneIs
    <3>5. CASE o[c] \in Heads
      <4>1. q[e] = o[c]
        BY <3>2, <3>5, <1>2
      <4>2. o[c] # c
        BY <3>2, <3>5, Sentinels
      <4> QED BY <3>1, <3>5, <4>1, <4>2, <2>1, <2>2
    <3> QED BY <3>3, <3>4, <3>5
  <2>4. CASE q[e] = NoList
    BY <2>1, <2>2, <2>4, Sentinels
  <2> QED BY <2>3, <2>4
<1>8. ASSUME NEW c \in Cells, q[c] = c PROVE Round(m, c, M[c])
  <2>1. CASE c \in Entries
    <3>1. m[c] = c /\ M[c] = <<>>
      BY <1>7, <1>8, <2>1
    <3>2. AreStops(Stops(c, <<>>), c, <<>>)
      <4>1. <<>> \in Seq(Entries)
        OBVIOUS
      <4> QED BY <4>1, StopsAre
    <3>3. \A i \in 0 .. 0 : i = 0 /\ i + 1 = 1
      OBVIOUS
    <3> QED BY <3>1, <3>2, <3>3 DEF Round, AreStops
  <2>2. CASE c \in Heads
    <3>1. o[c] = c /\ f[c] = c
      BY <2>2, <1>2, <1>8
    <3>2. PICK a : a = Stops(c, L[c])
      OBVIOUS
    <3>3. PICK b : b = Stops(c, M[c])
      OBVIOUS
    <3>4. Ringed(n, p, o, a, c, L[c])
      BY <3>1, <3>2, LaidRings
    <3>5. PICK l : l = Len(L[c])
      OBVIOUS
    <3>6. l \in Nat /\ AreStops(a, c, L[c]) /\ AreStops(b, c, M[c]) /\ Len(M[c]) = l
      BY <1>4, <3>3, <3>4, <3>5, StopsAre DEF Ringed
    <3>7. \A i \in 0 .. l + 1 : b[i] = f[a[i]]
      <4> TAKE i \in 0 .. l + 1
      <4>1. i = 0 \/ i = l + 1 \/ i \in 1 .. l
        BY <3>6
      <4> QED BY <4>1, <3>1, <3>5, <3>6, <1>4 DEF AreStops
    <3>8. ASSUME NEW i \in 0 .. l PROVE m[b[i]] = b[i + 1]
      <4>1. i \in 0 .. l + 1 /\ i + 1 \in 0 .. l + 1
        BY <3>6
      <4>2. a[i] \in Cells /\ o[a[i]] # NoList /\ n[a[i]] = a[i + 1]
        BY <4>1, <3>4, <3>5, Sentinels DEF Ringed
      <4> QED BY <4>1, <4>2, <3>7, <1>2
    <3> QED BY <3>3, <3>6, <3>8 DEF Round
  <2> QED BY <2>1, <2>2 DEF Cells
<1>9. ASSUME NEW c \in Cells, q[c] \notin {c, NoList}
      PROVE  \E i \in 1 .. Len(M[q[c]]) : M[q[c]][i] = c
  <2>1. c \in Entries
    BY <1>6, <1>9 DEF Cells
  <2>2. PICK d \in Cells : f[d] = c /\ o[d] = q[c] /\ o[d] \notin {d, NoList}
    BY <2>1, <1>7, <1>9
  <2>3. PICK i \in 1 .. Len(L[o[d]]) : L[o[d]][i] = d
    BY <2>2 DEF Laid
  <2>4. o[d] \in Cells
    BY <2>2 DEF Sound, ListMap
  <2> QED BY <2>2, <2>3, <2>4, <1>4
<1>10. Laid(m, q, M)
  BY <1>5, <1>6, <1>7, <1>8, <1>9 DEF Laid
<1> QED BY <1>1, <1>10

\* A list whose head points to itself has no entries.
LEMMA EmptyIs ==
  ASSUME NEW n, NEW p, NEW o, Sound(n, p, o), NEW L, Laid(n, o, L), NEW h \in Cells
  PROVE  /\ o[h] = h => (n[h] = h <=> L[h] = <<>>)
         /\ o[h] = NoList => L[h] = <<>>
<1>1. ASSUME o[h] = h PROVE n[h] = h <=> L[h] = <<>>
  <2>1. PICK a : Ringed(n, p, o, a, h, L[h])
    BY <1>1, LaidRings
  <2>2. L[h] \in Seq(Entries) /\ Len(L[h]) \in Nat /\ a[0] = h /\ a[Len(L[h]) + 1] = h
    BY <2>1 DEF Ringed, AreStops
  <2>3. 0 \in 0 .. Len(L[h]) /\ 0 + 1 = 1
    BY <2>2
  <2>4. n[a[0]] = a[0 + 1]
    BY <2>1, <2>3 DEF Ringed
  <2>5. Len(L[h]) # 0 => a[1] # h
    <3>1. Len(L[h]) # 0 => 1 \in 1 .. Len(L[h])
      BY <2>2
    <3> QED BY <3>1, <2>1 DEF Ringed
  <2>6. Len(L[h]) = 0 => a[1] = h
    BY <2>2
  <2>7. L[h] = <<>> <=> Len(L[h]) = 0
    BY <2>2
  <2> QED BY <2>2, <2>3, <2>4, <2>5, <2>6, <2>7
<1>2. ASSUME o[h] = NoList PROVE L[h] = <<>>
  BY <1>2, Sentinels DEF Laid, Cells
<1> QED BY <1>1, <1>2

\* The pointers to the next cells after list_replace.
LEMMA ReplacedNext ==
  ASSUME NEW n, NEW p, NEW o, Sound(n, p, o), NEW old \in Cells, NEW new \in Cells,
         old # new, o[old] # NoList, Isolated(n, o, new)
  PROVE  \A c \in Cells : Replaced(n, p, old, new).next[c] =
           IF c = new THEN IF n[old] = old THEN new ELSE n[old]
           ELSE IF c = p[old] /\ c # old THEN new ELSE n[c]
<1>1. PICK n1 : n1 = [n EXCEPT ![new] = n[old]]
  OBVIOUS
<1>2. PICK p1 : p1 = [p EXCEPT ![n1[new]] = new]
  OBVIOUS
<1>3. PICK p2 : p2 = [p1 EXCEPT ![new] = p1[old]]
  OBVIOUS
<1>4. PICK n2 : n2 = [n1 EXCEPT ![p2[new]] = new]
  OBVIOUS
<1>5. Replaced(n, p, old, new) = Mem(n2, p2)
  BY <1>1, <1>2, <1>3, <1>4 DEF Replaced
<1>6. /\ n \in [Cells -> Pointers] /\ p \in [Cells -> Pointers]
      /\ n[old] \in Cells /\ p[old] \in Cells /\ n[old] # new /\ p[old] # new
      /\ n[old] = old <=> p[old] = old
  BY DEF Sound, SoundAt, Isolated, PointerMap
<1>7. n1[new] = n[old] /\ \A c \in Cells \ {new} : n1[c] = n[c]
  BY <1>1, <1>6
<1>8. p1[old] = IF n[old] = old THEN new ELSE p[old]
  BY <1>2, <1>6, <1>7
<1>9. p2[new] = p1[old]
  BY <1>2, <1>3, <1>6
<1>10. \A c \in Cells : n2[c] = IF c = p1[old] THEN new ELSE n1[c]
  BY <1>1, <1>4, <1>6, <1>8, <1>9
<1>11. Replaced(n, p, old, new).next = n2
  BY <1>5, MemParts
<1>12. \A c \in Cells : n2[c] = IF c = new THEN IF n[old] = old THEN new ELSE n[old]
                               ELSE IF c = p[old] /\ c # old THEN new ELSE n[c]
  BY <1>6, <1>7, <1>8, <1>10
<1> QED BY <1>11, <1>12

\* An entry takes the place of another.
LEMMA ReplaceEntryLaid ==
  ASSUME NEW n, NEW p, NEW o, Sound(n, p, o), NEW L, Laid(n, o, L),
         NEW old \in Entries, NEW new \in Entries, old # new, o[old] # NoList,
         o[new] = NoList \/ (o[new] = new /\ n[new] = new),
         NEW m, m = Replaced(n, p, old, new).next,
         NEW q, q = [c \in Cells |->
                       IF c = old THEN NoList
                       ELSE IF c = new THEN IF o[old] = old THEN new ELSE o[old]
                       ELSE o[c]],
         NEW f, f = [c \in Cells |-> IF c = old THEN new ELSE c]
  PROVE  Laid(m, q, Abstract!Renaming(L, f))
<1>1. PICK r : r = [o EXCEPT ![new] = NoList]
  OBVIOUS
<1>2. /\ n \in [Cells -> Pointers] /\ p \in [Cells -> Pointers]
      /\ o \in [Cells -> Cells \cup {NoList}] /\ old \in Cells /\ new \in Cells
      /\ old \notin Heads /\ new \notin Heads /\ NoList \notin Cells /\ Isolated(n, o, new)
  BY Sentinels DEF Sound, PointerMap, ListMap, Cells, Isolated
<1>3. [n EXCEPT ![new] = n[new]] = n /\ [p EXCEPT ![new] = p[new]] = p
  BY <1>2
<1>4. Sound(n, p, r)
  <2>1. n[new] \in Pointers /\ p[new] \in Pointers
    BY <1>2
  <2>2. Sound([n EXCEPT ![new] = n[new]], [p EXCEPT ![new] = p[new]], r)
    BY <2>1, <1>1, <1>2, OverwriteSound
  <2> QED BY <2>2, <1>3
<1>5. Laid(n, r, L)
  <2>1. NoList # new
    BY <1>2
  <2>2. Laid([n EXCEPT ![new] = n[new]], r, L)
    BY <2>1, <1>1, <1>2, LonelyLaid
  <2> QED BY <2>2, <1>3
<1>6. r[new] = NoList /\ \A c \in Cells \ {new} : r[c] = o[c]
  BY <1>1, <1>2
<1>7. \A c \in Cells : m[c] = IF c = new THEN IF n[old] = old THEN new ELSE n[old]
                             ELSE IF c = p[old] /\ c # old THEN new ELSE n[c]
  BY <1>2, ReplacedNext
<1>8. \A c \in Cells : f[c] = IF c = old THEN new ELSE c
  OBVIOUS
<1>9. \A c \in Cells : q[c] = IF c = old THEN NoList
                             ELSE IF c = new THEN IF o[old] = old THEN new ELSE o[old]
                             ELSE o[c]
  OBVIOUS
<1>10. \A c \in Cells : r[c] # NoList => /\ n[c] \in Cells /\ r[n[c]] = r[c] /\ p[n[c]] = c
                                         /\ p[c] \in Cells /\ n[p[c]] = c
  BY <1>4 DEF Sound, SoundAt
<1>11. \A h \in Heads : f[h] = h /\ q[h] = o[h] /\ h \in Cells
  BY <1>2, <1>8, <1>9 DEF Cells
<1>12. /\ f \in [Cells -> Cells]
       /\ \A h \in Heads : q[h] = r[h]
       /\ \A e \in Entries : f[e] \in Entries
  BY <1>2, <1>6, <1>8, <1>11 DEF Cells
<1>13. ASSUME NEW c \in Cells, r[c] # NoList PROVE m[f[c]] = f[n[c]]
  <2>1. c # new
    BY <1>6, <1>13
  <2>2. CASE c = old
    <3>1. n[old] \in Cells
      BY <1>10, <1>13, <2>2
    <3> QED BY <2>2, <3>1, <1>2, <1>7, <1>8
  <2>3. CASE c # old
    <3>1. n[c] \in Cells /\ p[n[c]] = c
      BY <1>10, <1>13
    <3>2. r[old] # NoList
      BY <1>2, <1>6
    <3>3. n[p[old]] = old
      BY <3>2, <1>2, <1>10
    <3> QED BY <2>1, <2>3, <3>1, <3>3, <1>7, <1>8
  <2> QED BY <2>2, <2>3
<1>14. ASSUME NEW c \in Cells, r[c] # NoList PROVE q[f[c]] = f[r[c]]
  <2>1. c # new /\ r[c] = o[c] /\ o[c] \in Cells /\ f[c] \in Cells
    BY <1>2, <1>6, <1>12, <1>14
  <2>2. o[c] = c \/ o[c] \in Heads
    BY <2>1, <1>14, <1>2 DEF Laid, Cells
  <2>3. CASE c = old
    BY <2>1, <2>2, <2>3, <1>2, <1>8, <1>9
  <2>4. CASE c # old
    <3>1. f[c] = c /\ q[c] = o[c]
      BY <2>1, <2>4, <1>8, <1>9
    <3>2. f[o[c]] = o[c]
      BY <2>1, <2>2, <2>4, <1>2, <1>8
    <3> QED BY <2>1, <3>1, <3>2
  <2> QED BY <2>3, <2>4
<1>15. ASSUME NEW d \in Cells, q[d] # NoList PROVE \E c \in Cells : r[c] # NoList /\ f[c] = d
  <2>1. CASE d = new
    BY <2>1, <1>2, <1>6, <1>8
  <2>2. CASE d # new
    BY <2>2, <1>2, <1>6, <1>8, <1>9, <1>15
  <2> QED BY <2>1, <2>2
<1>16. Carried(n, r, m, q, f)
  BY <1>11, <1>12, <1>13, <1>14, <1>15 DEF Carried
<1> QED BY <1>4, <1>5, <1>16, CarriedLaid

\* A head takes the place of another, and gets its entries.
LEMMA ReplaceHeadLaid ==
  ASSUME NEW n, NEW p, NEW o, Sound(n, p, o), NEW L, Laid(n, o, L),
         NEW old \in Heads, NEW new \in Heads, old # new, o[old] = old,
         o[new] = NoList \/ (o[new] = new /\ n[new] = new),
         NEW m, m = Replaced(n, p, old, new).next,
         NEW q, q = [c \in Cells |-> IF c = old THEN NoList
                                     ELSE IF c = new \/ o[c] = old THEN new ELSE o[c]]
  PROVE  Laid(m, q, [L EXCEPT ![new] = L[old], ![old] = <<>>])
<1>1. PICK M : M = [L EXCEPT ![new] = L[old], ![old] = <<>>]
  OBVIOUS
<1>2. PICK G : G = {old, new}
  OBVIOUS
<1>3. /\ n \in [Cells -> Pointers] /\ p \in [Cells -> Pointers]
      /\ o \in [Cells -> Cells \cup {NoList}] /\ old \in Cells /\ new \in Cells
      /\ old \notin Entries /\ new \notin Entries /\ NoList \notin Cells /\ Isolated(n, o, new)
  BY Sentinels DEF Sound, PointerMap, ListMap, Cells, Isolated
<1>4. PICK s : s = L[old]
  OBVIOUS
<1>5. <<>> \in Seq(Entries) /\ L \in [Cells -> Seq(Entries)]
  BY DEF Laid
<1>6. /\ M \in [Cells -> Seq(Entries)] /\ M[new] = s /\ M[old] = <<>>
      /\ \A c \in Cells \ G : M[c] = L[c]
  BY <1>1, <1>2, <1>3, <1>4, <1>5
<1>7. \A c \in Cells : m[c] = IF c = new THEN IF n[old] = old THEN new ELSE n[old]
                             ELSE IF c = p[old] /\ c # old THEN new ELSE n[c]
  BY <1>3, ReplacedNext
<1>8. \A c \in Cells : q[c] = IF c = old THEN NoList
                             ELSE IF c = new \/ o[c] = old THEN new ELSE o[c]
  OBVIOUS
<1>9. /\ \A g \in Heads : g \in Cells /\ o[g] \in {g, NoList}
      /\ \A e \in Entries : e \in Cells /\ o[e] \in Heads \cup {e, NoList} /\ L[e] = <<>>
  BY DEF Laid, Cells
<1>10. p[old] \in Cells /\ o[p[old]] = old /\ n[p[old]] = old /\ n[old] \in Cells
  BY <1>3 DEF Sound, SoundAt
<1>11. L[new] = <<>>
  BY <1>3, EmptyIs
<1>12. PICK a : a = Stops(old, s)
  OBVIOUS
<1>13. PICK b : b = Stops(new, s)
  OBVIOUS
<1>14. Ringed(n, p, o, a, old, s) /\ s \in Seq(Entries)
  BY <1>3, <1>4, <1>5, <1>12, LaidRings
<1>15. PICK l : l = Len(s)
  OBVIOUS
<1>16. /\ l \in Nat /\ a[0] = old /\ a[l + 1] = old /\ b[0] = new /\ b[l + 1] = new
       /\ \A i \in 1 .. l : a[i] = b[i] /\ a[i] \in Entries /\ a[i] # old
       /\ \A i \in 0 .. l : n[a[i]] = a[i + 1] /\ p[a[i + 1]] = a[i]
       /\ \A i \in 0 .. l + 1 : a[i] \in Cells /\ o[a[i]] = old
       /\ \A i, j \in 0 .. l : a[i] = a[j] => i = j
  <2>1. AreStops(b, new, s)
    BY <1>13, <1>14, StopsAre
  <2> QED BY <2>1, <1>14, <1>15 DEF Ringed, AreStops
<1>17. n[old] = a[1] /\ p[old] = a[l]
  <2>1. 0 \in 0 .. l /\ l \in 0 .. l /\ 0 + 1 = 1
    BY <1>16
  <2>2. n[a[0]] = a[0 + 1] /\ p[a[l + 1]] = a[l]
    BY <1>16, <2>1
  <2> QED BY <2>2, <1>16
<1>18. ASSUME NEW i \in 0 .. l PROVE m[b[i]] = b[i + 1]
  <2>1. CASE l = 0
    <3>1. i = 0 /\ n[old] = old /\ b[1] = new
      BY <2>1, <1>16, <1>17
    <3> QED BY <3>1, <1>3, <1>7, <1>16
  <2>2. CASE l # 0 /\ i = 0
    <3>1. 1 \in 1 .. l
      BY <2>2, <1>16
    <3>2. n[old] # old /\ n[old] = b[1]
      BY <3>1, <1>16, <1>17
    <3> QED BY <2>2, <3>2, <1>3, <1>7, <1>16
  <2>3. CASE i # 0 /\ i = l
    <3>1. i \in 1 .. l
      BY <2>3, <1>16
    <3>2. b[i] = p[old] /\ b[i] # old /\ b[i] # new /\ b[i] \in Cells
      BY <2>3, <3>1, <1>3, <1>16, <1>17, <1>10
    <3> QED BY <2>3, <3>2, <1>7, <1>16
  <2>4. CASE i # 0 /\ i # l
    <3>1. i \in 1 .. l /\ i + 1 \in 1 .. l /\ i \in 0 .. l + 1 /\ l \in 0 .. l
      BY <2>4, <1>16
    <3>2. b[i] = a[i] /\ a[i] # p[old] /\ a[i] # new /\ a[i] \in Cells /\ b[i + 1] = a[i + 1]
      BY <2>4, <3>1, <1>3, <1>16, <1>17
    <3> QED BY <3>2, <1>7, <1>16
  <2> QED BY <2>1, <2>2, <2>3, <2>4
<1>19. Round(m, new, s)
  BY <1>13, <1>15, <1>18 DEF Round
<1>20. \A g \in Heads \ G : q[g] = o[g] /\ M[g] = L[g]
  BY <1>2, <1>3, <1>6, <1>8, <1>9
<1>21. \A g \in G : (q[g] = g /\ Round(m, g, M[g])) \/ (q[g] = NoList /\ M[g] = <<>>)
  BY <1>2, <1>3, <1>6, <1>8, <1>19
<1>22. \A e \in Entries : q[e] \in Heads \cup {e, NoList} /\ M[e] = <<>>
  BY <1>2, <1>3, <1>6, <1>8, <1>9
<1>23. ASSUME NEW e \in Entries, q[e] = e PROVE m[e] = e
  <2>1. o[e] = e /\ e # new /\ e # p[old]
    BY <1>3, <1>8, <1>9, <1>10, <1>23
  <2> QED BY <2>1, <1>7, <1>9, AloneIs
<1>24. \A e \in Entries : q[e] \in Heads \ G => o[e] = q[e]
  BY <1>2, <1>3, <1>8, <1>9
<1>25. ASSUME NEW e \in Entries, q[e] \in G PROVE \E i \in 1 .. Len(M[q[e]]) : M[q[e]][i] = e
  <2>1. q[e] = new /\ (o[e] = old \/ o[e] = new)
    BY <1>2, <1>3, <1>8, <1>9, <1>25
  <2>2. o[e] \notin {e, NoList}
    BY <2>1, <1>3, <1>25
  <2>3. PICK i \in 1 .. Len(L[o[e]]) : L[o[e]][i] = e
    BY <2>2, <1>9 DEF Laid
  <2>4. Len(<<>>) = 0
    OBVIOUS
  <2>5. o[e] = old
    BY <2>1, <2>3, <2>4, <1>11
  <2> QED BY <2>1, <2>3, <2>5, <1>4, <1>6
<1>26. \A c \in Cells : o[c] \in Heads \ G => m[c] = n[c]
  BY <1>2, <1>7, <1>9, <1>10, Sentinels
<1>27. SomeChange(n, o, L, m, q, M, G)
  BY <1>6, <1>20, <1>21, <1>22, <1>23, <1>24, <1>25, <1>26 DEF SomeChange
<1>28. Laid(m, q, M)
  BY <1>2, <1>27, SomeLaid
<1> QED BY <1>1, <1>28

Deleted(n, p, entry, x, y) ==
  LET m1 == [n EXCEPT ![p[entry]] = n[entry]]
      q1 == [p EXCEPT ![n[entry]] = p[entry]]
  IN  Mem([m1 EXCEPT ![entry] = x], [q1 EXCEPT ![entry] = y])

\* list_del, as assignments to the two maps.
LEMMA DelIs ==
  ASSUME NEW n, NEW p, NEW entry, NEW x, NEW y
  PROVE  list_del(Mem(n, p), entry, x, y) = Deleted(n, p, entry, x, y)
<1> DEFINE q1 == [p EXCEPT ![n[entry]] = p[entry]]
           m1 == [n EXCEPT ![p[entry]] = n[entry]]
<1>1. SetPrev(Mem(n, p), n[entry], p[entry]) = Mem(n, q1)
  BY MemPrev
<1> HIDE DEF q1
<1>2. SetNext(Mem(n, q1), p[entry], n[entry]) = Mem(m1, q1)
  BY MemNext
<1> HIDE DEF m1
<1> DEFINE n1 == [m1 EXCEPT ![entry] = x]
           p1 == [q1 EXCEPT ![entry] = y]
<1>3. SetNext(Mem(m1, q1), entry, x) = Mem(n1, q1)
  BY MemNext
<1> HIDE DEF n1
<1>4. SetPrev(Mem(n1, q1), entry, y) = Mem(n1, p1)
  BY MemPrev
<1> HIDE DEF p1
<1>5. list_del(Mem(n, p), entry, x, y) = Mem(n1, p1)
  BY <1>1, <1>2, <1>3, <1>4, MemParts DEF list_del, UnlinkEntry, Unlink
<1> QED BY <1>5, Zenon DEF p1, n1, m1, q1, Deleted

\* The pointers to the next cells after list_swap, step by step: n1 without entry2, n2 with
\* entry2 for entry1, m with entry1 behind new.
SwapSteps(n, p, entry1, entry2, new, n1, p1, n2, m) ==
  /\ \A c \in Cells : n1[c] = IF c = entry2 THEN POISON1
                              ELSE IF c = p[entry2] THEN n[entry2] ELSE n[c]
  /\ \A c \in Cells : p1[c] = IF c = entry2 THEN POISON2
                              ELSE IF c = n[entry2] THEN p[entry2] ELSE p[c]
  /\ \A c \in Cells : n2[c] = IF c = entry2
                              THEN IF n1[entry1] = entry1 THEN entry2 ELSE n1[entry1]
                              ELSE IF c = p1[entry1] /\ c # entry1 THEN entry2 ELSE n1[c]
  /\ \A c \in Cells : m[c] = IF c = new THEN entry1
                             ELSE IF c = entry1 THEN n2[new] ELSE n2[c]

\* The three steps of list_swap.
LEMMA SwapStepsAre ==
  ASSUME NEW H, NEW o, Ok(H, o), NEW n, n = H.next, NEW p, p = H.prev,
         NEW entry1 \in Entries, NEW entry2 \in Entries, entry1 # entry2,
         o[entry1] # NoList, o[entry2] # NoList, n[entry2] # entry2,
         NEW new, new = IF p[entry2] = entry1 THEN entry2 ELSE p[entry2]
  PROVE  \E n1, p1, n2 : SwapSteps(n, p, entry1, entry2, new, n1, p1, n2,
                                   list_swap(H, entry1, entry2, POISON1, POISON2).next)
<1>1. /\ H = Mem(n, p) /\ Sound(n, p, o)
      /\ n \in [Cells -> Pointers] /\ p \in [Cells -> Pointers]
      /\ o \in [Cells -> Cells \cup {NoList}] /\ entry1 \in Cells /\ entry2 \in Cells
      /\ {POISON1, POISON2} \subseteq Pointers
  BY DEF Ok, Sound, PointerMap, ListMap, Cells, Pointers
<1>2. /\ n[entry2] \in Cells /\ p[entry2] \in Cells /\ p[entry2] # entry2
      /\ new \in Cells /\ new # entry1
  BY <1>1 DEF Sound, SoundAt
<1>3. PICK H1 : H1 = list_del(H, entry2, POISON1, POISON2)
  OBVIOUS
<1>4. PICK o1 : o1 = [o EXCEPT ![entry2] = NoList]
  OBVIOUS
<1>5. o1[entry2] = NoList /\ o1[entry1] # NoList
  BY <1>1, <1>4
<1>6. Ok(H1, o1)
  <2>1. Ok(UnlinkEntry(H, entry2), o1)
    BY <1>1, <1>4, OkUnlink
  <2> QED BY <2>1, <1>1, <1>3, <1>5, OkOverwrite DEF list_del
<1>7. PICK m1 : m1 = [n EXCEPT ![p[entry2]] = n[entry2]]
  OBVIOUS
<1>8. PICK q1 : q1 = [p EXCEPT ![n[entry2]] = p[entry2]]
  OBVIOUS
<1>9. PICK n1 : n1 = [m1 EXCEPT ![entry2] = POISON1]
  OBVIOUS
<1>10. PICK p1 : p1 = [q1 EXCEPT ![entry2] = POISON2]
  OBVIOUS
<1>11. H1 = Mem(n1, p1)
  <2>1. list_del(Mem(n, p), entry2, POISON1, POISON2)
          = Deleted(n, p, entry2, POISON1, POISON2)
    BY DelIs
  <2>2. Deleted(n, p, entry2, POISON1, POISON2) = Mem(n1, p1)
    BY <1>7, <1>8, <1>9, <1>10 DEF Deleted
  <2> QED BY <2>1, <2>2, <1>1, <1>3
<1>12. /\ \A c \in Cells : n1[c] = IF c = entry2 THEN POISON1
                                   ELSE IF c = p[entry2] THEN n[entry2] ELSE n[c]
       /\ \A c \in Cells : p1[c] = IF c = entry2 THEN POISON2
                                   ELSE IF c = n[entry2] THEN p[entry2] ELSE p[c]
  BY <1>1, <1>2, <1>7, <1>8, <1>9, <1>10
<1>13. PICK H2 : H2 = list_replace(H1, entry1, entry2)
  OBVIOUS
<1>14. PICK n2 : n2 = H2.next
  OBVIOUS
<1>15. PICK p2 : p2 = H2.prev
  OBVIOUS
<1>16. Sound(n1, p1, o1)
  BY <1>6, <1>11, MemParts DEF Ok
<1>17. H2 = Replaced(n1, p1, entry1, entry2)
  BY <1>11, <1>13, ReplaceIs
<1>18. H2 = Mem(n2, p2)
  BY <1>14, <1>15, <1>17, MemParts DEF Replaced
<1>19. \A c \in Cells : n2[c] = IF c = entry2
                                THEN IF n1[entry1] = entry1 THEN entry2 ELSE n1[entry1]
                                ELSE IF c = p1[entry1] /\ c # entry1 THEN entry2 ELSE n1[c]
  <2>1. Isolated(n1, o1, entry2)
    BY <1>5 DEF Isolated
  <2> QED BY <2>1, <1>1, <1>5, <1>14, <1>16, <1>17, ReplacedNext
<1>20. PICK m : m = [n2 EXCEPT ![entry1] = n2[new], ![new] = entry1]
  OBVIOUS
<1>21. n2 \in [Cells -> Pointers]
  <2>1. Ok(H2, [o1 EXCEPT ![entry2] = o1[entry1], ![entry1] = NoList])
    <3>1. Isolated(H1.next, o1, entry2)
      BY <1>5 DEF Isolated
    <3> QED BY <3>1, <1>1, <1>5, <1>6, <1>13, OkReplace
  <2> QED BY <2>1, <1>14 DEF Ok, Sound, PointerMap
<1>22. list_swap(H, entry1, entry2, POISON1, POISON2) = list_add(H2, entry1, new)
  BY <1>1, <1>3, <1>13, MemParts DEF list_swap
<1>23. list_add(H2, entry1, new).next = m
  <2>1. list_add(H2, entry1, new) = Link(Mem(n2, p2), entry1, new, n2[new])
    BY <1>14, <1>18 DEF list_add
  <2>2. Link(Mem(n2, p2), entry1, new, n2[new]) =
          Mem([n2 EXCEPT ![entry1] = n2[new], ![new] = entry1],
              [p2 EXCEPT ![n2[new]] = entry1, ![entry1] = new])
    BY LinkIs
  <2> QED BY <2>1, <2>2, <1>20, MemParts
<1>24. \A c \in Cells : m[c] = IF c = new THEN entry1
                               ELSE IF c = entry1 THEN n2[new] ELSE n2[c]
  BY <1>1, <1>2, <1>20, <1>21
<1>25. SwapSteps(n, p, entry1, entry2, new, n1, p1, n2, m)
  BY <1>12, <1>19, <1>24 DEF SwapSteps
<1> QED BY <1>22, <1>23, <1>25

\* They put either entry in the place of the other, neighbours or not.
LEMMA SwapLaid ==
  ASSUME NEW H, NEW o, Ok(H, o), NEW L, Laid(H.next, o, L),
         NEW entry1 \in Entries, NEW entry2 \in Entries, entry1 # entry2,
         o[entry1] \in Heads, o[entry2] \in Heads, H.next[entry2] # entry2,
         NEW q, q = [o EXCEPT ![entry1] = o[entry2], ![entry2] = o[entry1]],
         NEW f, f = [c \in Cells |-> IF c = entry1 THEN entry2
                                     ELSE IF c = entry2 THEN entry1 ELSE c]
  PROVE  Laid(list_swap(H, entry1, entry2, POISON1, POISON2).next, q,
              Abstract!Renaming(L, f))
<1>1. PICK n : n = H.next
  OBVIOUS
<1>2. PICK p : p = H.prev
  OBVIOUS
<1>3. PICK m : m = list_swap(H, entry1, entry2, POISON1, POISON2).next
  OBVIOUS
<1>4. PICK new : new = IF p[entry2] = entry1 THEN entry2 ELSE p[entry2]
  OBVIOUS
<1>5. /\ Sound(n, p, o) /\ Laid(n, o, L) /\ n[entry2] # entry2
      /\ o \in [Cells -> Cells \cup {NoList}] /\ entry1 \in Cells /\ entry2 \in Cells
      /\ entry1 \notin Heads /\ entry2 \notin Heads /\ NoList \notin Cells
      /\ o[entry1] # NoList /\ o[entry2] # NoList
  BY <1>1, <1>2, Sentinels DEF Ok, Sound, ListMap, Cells
<1>6. PICK n1, p1, n2 : SwapSteps(n, p, entry1, entry2, new, n1, p1, n2, m)
  BY <1>1, <1>2, <1>3, <1>4, <1>5, SwapStepsAre
<1>7. \A c \in Cells : o[c] # NoList => /\ n[c] \in Cells /\ o[n[c]] = o[c] /\ p[n[c]] = c
                                        /\ p[c] \in Cells /\ n[p[c]] = c
  BY <1>5 DEF Sound, SoundAt
<1>8. /\ \A c \in Cells : f[c] = IF c = entry1 THEN entry2
                                 ELSE IF c = entry2 THEN entry1 ELSE c
      /\ \A c \in Cells : q[c] = IF c = entry1 THEN o[entry2]
                                 ELSE IF c = entry2 THEN o[entry1] ELSE o[c]
      /\ f \in [Cells -> Cells]
  BY <1>5
<1>9. ASSUME NEW c \in Cells, o[c] # NoList PROVE m[f[c]] = f[n[c]]
  <2>1. /\ n[c] \in Cells /\ p[n[c]] = c
        /\ n[entry1] \in Cells /\ p[n[entry1]] = entry1
        /\ n[entry2] \in Cells /\ p[n[entry2]] = entry2
        /\ p[entry1] \in Cells /\ n[p[entry1]] = entry1
        /\ p[entry2] \in Cells /\ n[p[entry2]] = entry2
    BY <1>5, <1>7, <1>9
  <2>2. CASE p[entry2] = entry1
    <3>1. new = entry2 /\ n[entry1] = entry2
      BY <2>1, <2>2, <1>4
    <3>2. n1[entry1] = n[entry2]
      BY <2>2, <1>5, <1>6 DEF SwapSteps
    <3>3. m[entry2] = entry1
      BY <3>1, <1>5, <1>6 DEF SwapSteps
    <3>4. m[entry1] = IF n[entry2] = entry1 THEN entry2 ELSE n[entry2]
      BY <3>1, <3>2, <1>5, <1>6 DEF SwapSteps
    <3>5. CASE c = entry1
      BY <3>1, <3>3, <3>5, <1>5, <1>8
    <3>6. CASE c = entry2
      BY <2>1, <3>4, <3>6, <1>5, <1>8
    <3>7. CASE c # entry1 /\ c # entry2
      <4>1. f[c] = c /\ n[c] # entry2
        BY <3>7, <2>1, <2>2, <1>8
      <4>2. p1[entry1] = IF n[entry2] = entry1 THEN entry1 ELSE p[entry1]
        BY <2>2, <1>5, <1>6 DEF SwapSteps
      <4>3. n1[c] = n[c]
        BY <3>7, <2>2, <1>6 DEF SwapSteps
      <4>4. m[c] = IF c = p1[entry1] THEN entry2 ELSE n[c]
        BY <3>1, <3>7, <4>3, <1>6 DEF SwapSteps
      <4>5. n[c] = entry1 => n[entry2] # entry1
        BY <2>1, <3>7
      <4> QED BY <2>1, <3>7, <4>1, <4>2, <4>4, <4>5, <1>8
    <3> QED BY <3>5, <3>6, <3>7
  <2>3. CASE p[entry2] # entry1
    <3>1. new = p[entry2] /\ new # entry1 /\ new # entry2 /\ n[entry1] # entry2 /\ n[new] = entry2
      BY <2>1, <2>3, <1>4, <1>5
    <3>2. n1[entry1] = n[entry1] /\ n1[new] = n[entry2]
      BY <2>1, <3>1, <1>5, <1>6 DEF SwapSteps
    <3>3. m[new] = entry1
      BY <2>1, <3>1, <1>6 DEF SwapSteps
    <3>4. m[entry2] = IF n[entry1] = entry1 THEN entry2 ELSE n[entry1]
      BY <3>1, <3>2, <1>5, <1>6 DEF SwapSteps
    <3>5. p1[entry1] = IF n[entry2] = entry1 THEN new ELSE p[entry1]
      BY <3>1, <1>5, <1>6 DEF SwapSteps
    <3>6. m[entry1] = IF new = p1[entry1] THEN entry2 ELSE n[entry2]
      BY <2>1, <3>1, <3>2, <1>5, <1>6 DEF SwapSteps
    <3>7. CASE c = entry1
      BY <2>1, <3>1, <3>4, <3>7, <1>5, <1>8
    <3>8. CASE c = entry2
      <4>1. n[entry2] = entry1 <=> new = p1[entry1]
        BY <2>1, <3>1, <3>5
      <4> QED BY <2>1, <3>6, <3>8, <4>1, <1>5, <1>8
    <3>9. CASE c # entry1 /\ c # entry2
      <4>1. f[c] = c
        BY <3>9, <1>8
      <4>2. CASE c = new
        BY <2>1, <3>1, <3>3, <4>1, <4>2, <1>5, <1>8
      <4>3. CASE c # new
        <5>1. m[c] = IF c = p1[entry1] THEN entry2 ELSE n[c]
          BY <3>1, <3>9, <4>3, <1>6 DEF SwapSteps
        <5>2. n[c] # entry2
          BY <2>1, <3>1, <4>3
        <5>3. n[c] = entry1 <=> c = p1[entry1]
          BY <2>1, <3>5, <3>9, <4>3
        <5> QED BY <2>1, <4>1, <5>1, <5>2, <5>3, <1>8
      <4> QED BY <4>2, <4>3
    <3> QED BY <3>7, <3>8, <3>9
  <2> QED BY <2>2, <2>3
<1>10. ASSUME NEW c \in Cells, o[c] # NoList PROVE q[f[c]] = f[o[c]]
  <2>1. o[c] \in Cells /\ (o[c] = c \/ o[c] \in Heads)
    BY <1>5, <1>10 DEF Laid, Cells
  <2>2. f[o[c]] = o[c]
    <3>1. o[entry1] # entry1 /\ o[entry2] # entry2
      BY <1>5
    <3> QED BY <2>1, <3>1, <1>5, <1>8
  <2> QED BY <2>2, <1>5, <1>8
<1>11. \A d \in Cells : q[d] # NoList => \E c \in Cells : o[c] # NoList /\ f[c] = d
  <2> TAKE d \in Cells
  <2> SUFFICES ASSUME q[d] # NoList PROVE \E c \in Cells : o[c] # NoList /\ f[c] = d
    OBVIOUS
  <2>1. f[d] \in Cells /\ f[f[d]] = d /\ o[f[d]] # NoList
    BY <1>5, <1>8
  <2> QED BY <2>1
<1>12. /\ \A h \in Heads : f[h] = h /\ q[h] = o[h]
       /\ \A e \in Entries : f[e] \in Entries
  BY <1>5, <1>8 DEF Cells
<1>13. Carried(n, o, m, q, f)
  BY <1>8, <1>9, <1>10, <1>11, <1>12 DEF Carried
<1> QED BY <1>3, <1>5, <1>13, CarriedLaid

\* The l stops a of the ring of list h, where their pointers lead, and that no cell of the
\* list is missing.
Known(n, p, o, h, s, a, l) ==
  /\ l \in Nat /\ s \in Seq(Entries) /\ h \in Cells /\ h \notin Entries /\ h # NoList
  /\ a[0] = h /\ a[l + 1] = h /\ n[h] = a[1] /\ p[h] = a[l]
  /\ \A i \in 1 .. l : a[i] = s[i] /\ a[i] \in Entries /\ a[i] # h
  /\ \A i \in 0 .. l + 1 : a[i] \in Cells /\ o[a[i]] = h
  /\ \A i \in 0 .. l : n[a[i]] = a[i + 1] /\ p[a[i + 1]] = a[i]
  /\ \A i, j \in 0 .. l : a[i] = a[j] => i = j
  /\ \A c \in Cells : o[c] = h /\ c # h => \E i \in 1 .. l : a[i] = c

\* The ring of a list, with what is known of its stops.
LEMMA RingKnown ==
  ASSUME NEW n, NEW p, NEW o, Sound(n, p, o), NEW L, Laid(n, o, L),
         NEW h \in Heads, o[h] = h
  PROVE  /\ Known(n, p, o, h, L[h], Stops(h, L[h]), Len(L[h]))
         /\ Ringed(n, p, o, Stops(h, L[h]), h, L[h])
<1>0. PICK s : s = L[h]
  OBVIOUS
<1>6. PICK a : a = Stops(h, s)
  OBVIOUS
<1>7. PICK l : l = Len(s)
  OBVIOUS
<1>1. h \in Cells /\ h \notin Entries /\ h # NoList
  BY Sentinels DEF Cells
<1>2. Ringed(n, p, o, a, h, s)
  BY <1>0, <1>1, <1>6, LaidRings
<1>3. /\ l \in Nat /\ s \in Seq(Entries) /\ a[0] = h /\ a[l + 1] = h
      /\ \A i \in 1 .. l : a[i] = s[i] /\ a[i] \in Entries /\ a[i] # h
      /\ \A i \in 0 .. l + 1 : a[i] \in Cells /\ o[a[i]] = h
      /\ \A i \in 0 .. l : n[a[i]] = a[i + 1] /\ p[a[i + 1]] = a[i]
      /\ \A i, j \in 0 .. l : a[i] = a[j] => i = j
  BY <1>2, <1>7 DEF Ringed, AreStops
<1>4. n[h] = a[1] /\ p[h] = a[l]
  <2>1. 0 \in 0 .. l /\ l \in 0 .. l /\ 0 + 1 = 1
    BY <1>3
  <2>2. n[a[0]] = a[0 + 1] /\ p[a[l + 1]] = a[l]
    BY <1>3, <2>1
  <2> QED BY <2>2, <1>3
<1>5. ASSUME NEW c \in Cells, o[c] = h, c # h PROVE \E i \in 1 .. l : a[i] = c
  <2>1. o[c] \notin {c, NoList}
    BY <1>1, <1>5
  <2>2. PICK i \in 1 .. l : s[i] = c
    BY <2>1, <1>0, <1>5, <1>7 DEF Laid
  <2> QED BY <2>2, <1>3
<1>8. Known(n, p, o, h, s, a, l)
  BY <1>1, <1>3, <1>4, <1>5 DEF Known
<1> QED BY <1>0, <1>2, <1>6, <1>7, <1>8

\* b are the stops of u and then v.
GluedStops(b, h, u, v) ==
  /\ b[0] = h /\ b[Len(u) + Len(v) + 1] = h
  /\ \A i \in 1 .. Len(u) : b[i] = u[i]
  /\ \A i \in 1 .. Len(v) : b[Len(u) + i] = v[i]

\* The stops of two sequences one behind the other.
LEMMA GluedStopsAre ==
  ASSUME NEW h, NEW u \in Seq(Entries), NEW v \in Seq(Entries)
  PROVE  /\ u \o v \in Seq(Entries) /\ Len(u \o v) = Len(u) + Len(v)
         /\ GluedStops(Stops(h, u \o v), h, u, v)
<1>0. PICK s : s = u \o v
  OBVIOUS
<1>1. s \in Seq(Entries) /\ Glued(s, u, v)
  BY <1>0, GlueIs
<1>2. Len(u) \in Nat /\ Len(v) \in Nat /\ Len(s) = Len(u) + Len(v)
  BY <1>1 DEF Glued
<1>3. PICK b : b = Stops(h, s)
  OBVIOUS
<1>4. AreStops(b, h, s)
  BY <1>1, <1>3, StopsAre
<1>5. ASSUME NEW i \in 1 .. Len(u) PROVE b[i] = u[i]
  <2>1. i \in 1 .. Len(s) /\ i <= Len(u)
    BY <1>2
  <2> QED BY <2>1, <1>1, <1>4 DEF Glued, AreStops
<1>6. ASSUME NEW i \in 1 .. Len(v) PROVE b[Len(u) + i] = v[i]
  <2>1. PICK j : j = Len(u) + i
    OBVIOUS
  <2>2. j \in 1 .. Len(s) /\ ~(j <= Len(u)) /\ j - Len(u) = i
    BY <2>1, <1>2
  <2> QED BY <2>1, <2>2, <1>1, <1>4 DEF Glued, AreStops
<1>7. b[0] = h /\ b[Len(u) + Len(v) + 1] = h
  BY <1>2, <1>4 DEF AreStops
<1>8. GluedStops(b, h, u, v)
  BY <1>5, <1>6, <1>7 DEF GluedStops
<1> QED BY <1>0, <1>1, <1>2, <1>3, <1>8

\* Parts of a ring's sequence.
LEMMA PartIs ==
  ASSUME NEW s \in Seq(Entries), NEW i \in 1 .. Len(s) + 1, NEW j \in 0 .. Len(s), i <= j + 1,
         NEW u, u = SubSeq(s, i, j)
  PROVE  /\ u \in Seq(Entries) /\ Len(u) = (j - i) + 1
         /\ \A t \in 1 .. (j - i) + 1 : u[t] = s[(i + t) - 1]
<1>1. Len(s) \in Nat /\ i \in Int /\ j \in Int /\ \A t \in i .. j : s[t] \in Entries
  <2>1. Len(s) \in Nat
    OBVIOUS
  <2>2. \A t \in i .. j : t \in 1 .. Len(s)
    BY <2>1
  <2> QED BY <2>1, <2>2
<1>2. /\ u \in Seq(Entries) /\ Len(u) = IF i <= j THEN j - i + 1 ELSE 0
      /\ \A t \in 1 .. j - i + 1 : u[t] = s[i + t - 1]
  BY <1>1, SubSeqProperties
<1> QED BY <1>1, <1>2

\* next is m after the head h has moved to the place before the entry.
HeadMoved(n, p, h, entry, m) ==
  \A c \in Cells : m[c] = IF c = IF entry = n[h] THEN p[h] ELSE p[entry] THEN h
                          ELSE IF c = h THEN entry ELSE IF c = p[h] THEN n[h] ELSE n[c]

\* list_rotate_to_front.
LEMMA RotateFrontLaid ==
  ASSUME NEW n, NEW p, NEW o, Sound(n, p, o), NEW L, Laid(n, o, L),
         NEW h \in Heads, o[h] = h, NEW entry \in Entries, o[entry] = h,
         NEW m, HeadMoved(n, p, h, entry, m), NEW k, k = Abstract!Place(L, entry)
  PROVE  Laid(m, o, [L EXCEPT ![h] = Abstract!Drop(L[h], k - 1) \o Abstract!Take(L[h], k - 1)])
<1>28. PICK z : z = IF entry = n[h] THEN p[h] ELSE p[entry]
  OBVIOUS
<1>29. \A c \in Cells : m[c] = IF c = z THEN h ELSE IF c = h THEN entry
                               ELSE IF c = p[h] THEN n[h] ELSE n[c]
  BY <1>28 DEF HeadMoved
<1>1. PICK s : s = L[h]
  OBVIOUS
<1>2. PICK a : a = Stops(h, s)
  OBVIOUS
<1>3. PICK l : l = Len(s)
  OBVIOUS
<1>4. /\ l \in Nat /\ s \in Seq(Entries) /\ h \in Cells /\ h \notin Entries /\ h # NoList
      /\ a[0] = h /\ a[l + 1] = h /\ n[h] = a[1] /\ p[h] = a[l]
      /\ \A i \in 1 .. l : a[i] = s[i] /\ a[i] \in Entries /\ a[i] # h
      /\ \A i \in 0 .. l + 1 : a[i] \in Cells /\ o[a[i]] = h
      /\ \A i \in 0 .. l : n[a[i]] = a[i + 1] /\ p[a[i + 1]] = a[i]
      /\ \A i, j \in 0 .. l : a[i] = a[j] => i = j
      /\ \A c \in Cells : o[c] = h /\ c # h => \E i \in 1 .. l : a[i] = c
  <2>1. Known(n, p, o, h, L[h], Stops(h, L[h]), Len(L[h]))
    BY RingKnown
  <2>2. Known(n, p, o, h, s, a, l)
    BY <2>1, <1>1, <1>2, <1>3
  <2> QED BY <2>2 DEF Known
<1>5. entry \in Cells /\ entry # h
  BY <1>4 DEF Cells
<1>6. k \in 1 .. l /\ a[k] = entry
  <2>1. PICK i \in 1 .. l : a[i] = entry
    BY <1>4, <1>5
  <2>2. i \in 1 .. Len(L[h]) /\ L[h][i] = entry
    BY <2>1, <1>1, <1>3, <1>4
  <2>3. Abstract!Place(L, L[h][i]) = i
    BY <2>2, PlaceIs
  <2> QED BY <2>1, <2>2, <2>3
<1>7. PICK j : j = k - 1
  OBVIOUS
<1>8. j \in 0 .. l /\ k = j + 1 /\ a[j + 1] = entry /\ j < l
  BY <1>4, <1>6, <1>7
<1>9. p[entry] = a[j]
  BY <1>4, <1>8
<1>10. z = IF j = 0 THEN a[l] ELSE a[j]
  <2>1. entry = n[h] <=> k = 1
    <3>1. k \in 0 .. l /\ 1 \in 0 .. l
      BY <1>4, <1>6
    <3> QED BY <3>1, <1>4, <1>6
  <2> QED BY <2>1, <1>4, <1>8, <1>9, <1>28
<1>11. PICK u : u = SubSeq(s, k, l)
  OBVIOUS
<1>12. PICK v : v = SubSeq(s, 1, j)
  OBVIOUS
<1>13. PICK r : r = u \o v
  OBVIOUS
<1>14. r = Abstract!Drop(L[h], k - 1) \o Abstract!Take(L[h], k - 1)
  <2>1. (k - 1) + 1 = k
    BY <1>8
  <2> QED BY <2>1, <1>1, <1>3, <1>7, <1>11, <1>12, <1>13 DEF Abstract!Drop, Abstract!Take
<1>15. PICK b : b = Stops(h, r)
  OBVIOUS
<1>26. PICK w : w = l - j
  OBVIOUS
<1>27. w \in 1 .. l /\ w + j = l /\ j + w = l /\ w \in Nat /\ j \in Nat
  BY <1>4, <1>8, <1>26
<1>16. /\ u \in Seq(Entries) /\ Len(u) = w
       /\ \A t \in 1 .. w : u[t] = s[j + t]
  <2>0. s \in Seq(Entries)
    BY <1>4
  <2>1. k \in 1 .. Len(s) + 1 /\ l \in 0 .. Len(s) /\ k <= l + 1
    BY <1>3, <1>4, <1>8
  <2>2. /\ u \in Seq(Entries) /\ Len(u) = (l - k) + 1
        /\ \A t \in 1 .. (l - k) + 1 : u[t] = s[(k + t) - 1]
    BY <2>0, <2>1, <1>11, PartIs
  <2>3. (l - k) + 1 = w /\ \A t \in 1 .. w : (k + t) - 1 = j + t
    BY <1>4, <1>8, <1>26
  <2> QED BY <2>2, <2>3
<1>17. /\ v \in Seq(Entries) /\ Len(v) = j
       /\ \A t \in 1 .. j : v[t] = s[t]
  <2>0. s \in Seq(Entries)
    BY <1>4
  <2>1. 1 \in 1 .. Len(s) + 1 /\ j \in 0 .. Len(s) /\ 1 <= j + 1 /\ (j - 1) + 1 = j
    BY <1>3, <1>4, <1>8
  <2>2. /\ v \in Seq(Entries) /\ Len(v) = (j - 1) + 1
        /\ \A t \in 1 .. (j - 1) + 1 : v[t] = s[(1 + t) - 1]
    BY <2>0, <2>1, <1>12, PartIs
  <2>3. \A t \in 1 .. j : (1 + t) - 1 = t
    BY <1>8
  <2> QED BY <2>1, <2>2, <2>3
<1>18. /\ r \in Seq(Entries) /\ Len(r) = l /\ b[0] = h /\ b[l + 1] = h
       /\ \A t \in 1 .. w : b[t] = a[j + t]
       /\ \A t \in 1 .. j : b[w + t] = a[t]
  <2>0. u \in Seq(Entries) /\ v \in Seq(Entries)
    BY <1>16, <1>17
  <2>5. /\ u \o v \in Seq(Entries) /\ Len(u \o v) = Len(u) + Len(v)
        /\ GluedStops(Stops(h, u \o v), h, u, v)
    BY <2>0, GluedStopsAre
  <2>1. /\ r \in Seq(Entries) /\ Len(r) = w + j
        /\ b[0] = h /\ b[w + j + 1] = h
        /\ \A i \in 1 .. w : b[i] = u[i]
        /\ \A i \in 1 .. j : b[w + i] = v[i]
    BY <2>5, <1>13, <1>15, <1>16, <1>17 DEF GluedStops
  <2>2. \A t \in 1 .. w : b[t] = s[j + t] /\ j + t \in 1 .. l
    <3>1. \A t \in 1 .. w : j + t \in 1 .. l
      BY <1>4, <1>8, <1>27
    <3> QED BY <2>1, <3>1, <1>16
  <2>3. \A t \in 1 .. j : b[w + t] = s[t] /\ t \in 1 .. l
    <3>1. \A t \in 1 .. j : t \in 1 .. l
      BY <1>4, <1>8, <1>27
    <3> QED BY <2>1, <3>1, <1>17
  <2>4. Len(r) = l /\ b[l + 1] = h
    BY <2>1, <1>27
  <2> QED BY <2>1, <2>2, <2>3, <2>4, <1>4
<1>19. ASSUME NEW i \in 0 .. l PROVE m[b[i]] = b[i + 1]
  <2>1. CASE i = 0
    <3>1. h # z
      <4>1. l \in 1 .. l /\ (j # 0 => j \in 1 .. l)
        BY <1>4, <1>8, <1>27
      <4> QED BY <4>1, <1>4, <1>10
    <3>2. 1 \in 1 .. w
      BY <1>4, <1>8, <1>27
    <3>3. b[1] = a[j + 1]
      BY <3>2, <1>18
    <3> QED BY <2>1, <3>1, <3>3, <1>4, <1>8, <1>27, <1>18, <1>29
  <2>2. CASE i # 0 /\ i < w
    <3>1. PICK t : t = j + i
      OBVIOUS
    <3>2. i \in 1 .. w /\ i + 1 \in 1 .. w /\ t + 1 = j + (i + 1)
      BY <2>2, <3>1, <1>8, <1>27
    <3>3. t \in 1 .. l /\ t \in 0 .. l /\ t \in 0 .. l + 1 /\ l \in 0 .. l /\ t # l /\ t # j
      BY <2>2, <3>1, <1>4, <1>8, <1>27
    <3>4. b[i] = a[t] /\ b[i + 1] = a[t + 1]
      BY <3>1, <3>2, <1>18
    <3>5. a[t] # z /\ a[t] # h /\ a[t] # p[h] /\ a[t] \in Cells
      BY <3>3, <1>4, <1>8, <1>10
    <3> QED BY <3>3, <3>4, <3>5, <1>4, <1>29
  <2>3. CASE i = w
    <3>1. i \in 1 .. w /\ j + i = l /\ l \in 1 .. l /\ l \in 0 .. l /\ l \in 0 .. l + 1
      BY <2>3, <1>4, <1>8, <1>27
    <3>2. b[i] = a[l] /\ a[l] # h /\ a[l] \in Cells
      BY <3>1, <1>4, <1>18
    <3>3. CASE j = 0
      BY <2>3, <3>2, <3>3, <1>4, <1>10, <1>18, <1>29
    <3>4. CASE j # 0
      <4>1. a[l] # z
        BY <3>1, <3>4, <1>4, <1>8, <1>27, <1>10
      <4>2. b[i + 1] = a[1]
        <5>1. 1 \in 1 .. j /\ w + 1 = i + 1
          BY <2>3, <3>4, <1>4, <1>8, <1>27
        <5> QED BY <5>1, <1>18
      <4> QED BY <3>2, <4>1, <4>2, <1>4, <1>29
    <3> QED BY <3>3, <3>4
  <2>4. CASE i > w
    <3>1. PICK t : t = i - w
      OBVIOUS
    <3>2. /\ t \in 1 .. j /\ w + t = i /\ t \in 1 .. l /\ t \in 0 .. l /\ t \in 0 .. l + 1
          /\ l \in 0 .. l /\ t # l /\ j # 0
      BY <2>4, <3>1, <1>4, <1>8, <1>27
    <3>3. b[i] = a[t] /\ a[t] \in Cells /\ a[t] # h /\ a[t] # p[h] /\ z = a[j]
      BY <3>2, <1>4, <1>10, <1>18
    <3>4. CASE t = j
      <4>1. i = l
        BY <3>2, <3>4, <1>4, <1>8, <1>27
      <4> QED BY <3>3, <3>4, <4>1, <1>4, <1>18, <1>29
    <3>5. CASE t # j
      <4>1. t + 1 \in 1 .. j /\ w + (t + 1) = i + 1
        <5>1. t \in 1 .. j /\ w + t = i /\ j \in Nat /\ w \in Nat
          BY <3>2, <1>27
        <5> QED BY <5>1, <3>5
      <4>2. b[i + 1] = a[t + 1] /\ a[t] # a[j]
        BY <4>1, <3>2, <3>5, <1>4, <1>8, <1>27, <1>18
      <4> QED BY <3>2, <3>3, <4>2, <1>4, <1>29
    <3> QED BY <3>4, <3>5
  <2> QED BY <2>1, <2>2, <2>3, <2>4, <1>4, <1>8, <1>27
<1>20. Round(m, h, r)
  BY <1>15, <1>18, <1>19 DEF Round
<1>21. ASSUME NEW c \in Cells, o[c] = h, c # h PROVE \E i \in 1 .. Len(r) : r[i] = c
  <2>1. PICK t \in 1 .. l : a[t] = c
    BY <1>4, <1>21
  <2>2. AreStops(b, h, r)
    BY <1>15, <1>18, StopsAre
  <2>3. CASE t <= j
    <3>1. t \in 1 .. j /\ w + t \in 1 .. Len(r)
      BY <2>3, <1>4, <1>8, <1>27, <1>18
    <3> QED BY <3>1, <2>1, <2>2, <1>18 DEF AreStops
  <2>4. CASE t > j
    <3>1. PICK i : i = t - j
      OBVIOUS
    <3>2. i \in 1 .. w /\ j + i = t /\ i \in 1 .. Len(r)
      BY <2>4, <3>1, <1>4, <1>8, <1>27, <1>18
    <3> QED BY <3>2, <2>1, <2>2, <1>18 DEF AreStops
  <2> QED BY <2>3, <2>4, <1>4, <1>8, <1>27
<1>22. z \in Cells /\ o[z] = h /\ p[h] \in Cells /\ o[p[h]] = h
  <2>1. l \in 0 .. l + 1 /\ j \in 0 .. l + 1
    BY <1>4, <1>8, <1>27
  <2> QED BY <2>1, <1>4, <1>10
<1>23. /\ \A e \in Entries : o[e] \in {h, e, NoList, o[e]}
       /\ \A c \in Cells : o[c] \in Heads \ {h} => o[c] = o[c] /\ m[c] = n[c]
  BY <1>4, <1>22, <1>29
<1>24. ASSUME NEW e \in Entries, o[e] = e PROVE m[e] = e
  <2>1. e # h /\ e # z /\ e # p[h] /\ e \in Cells
    BY <1>4, <1>22, <1>24 DEF Cells
  <2> QED BY <2>1, <1>24, <1>29, AloneIs
<1>25. OneChanges(n, o, m, o, h, r)
  BY <1>18, <1>20, <1>21, <1>23, <1>24 DEF OneChanges
<1> QED BY <1>14, <1>25, OneLaid

\* A segment is the run of the ring's stops i to j.
Run(a, seg, i, j) == i <= j /\ \A c : c \in seg <=> \E t \in i .. j : a[t] = c

\* A segment from stop i to stop j is the stops between them.
LEMMA SegmentIs ==
  ASSUME NEW n, NEW p, NEW o, NEW a, NEW h, NEW s, Ringed(n, p, o, a, h, s),
         \A c \in Cells : o[c] = h /\ c # h => \E i \in 1 .. Len(s) : a[i] = c,
         NEW seg \in SUBSET (Cells \ {h}),
         NEW i \in 1 .. Len(s), NEW j \in 1 .. Len(s), SegmentOf(n, p, o, seg, a[i], a[j])
  PROVE  Run(a, seg, i, j)
<1>1. PICK l : l = Len(s)
  OBVIOUS
<1>2. /\ l \in Nat /\ a[0] = h /\ a[l + 1] = h /\ i \in 1 .. l /\ j \in 1 .. l
      /\ \A t \in 1 .. l : a[t] # h
      /\ \A t \in 0 .. l + 1 : a[t] \in Cells /\ o[a[t]] = h
      /\ \A t \in 0 .. l : n[a[t]] = a[t + 1] /\ p[a[t + 1]] = a[t]
      /\ \A t, u \in 0 .. l : a[t] = a[u] => t = u
  BY <1>1 DEF Ringed, AreStops
<1>3. /\ a[i] \in seg /\ a[j] \in seg /\ p[a[i]] \notin seg /\ n[a[j]] \notin seg
      /\ h \notin seg /\ seg \subseteq Cells
      /\ \A c \in seg : /\ o[c] = o[a[i]]
                        /\ c # a[j] => n[c] \in seg
                        /\ c # a[i] => p[c] \in seg
  BY DEF SegmentOf
<1>4. i \in 0 .. l + 1 /\ j \in 0 .. l + 1 /\ i \in 0 .. l /\ j \in 0 .. l
  BY <1>2
<1>5. ASSUME NEW u \in i .. l + 1, a[u] \notin seg PROVE j \in i .. u /\ j # u
  <2> DEFINE Out == {t \in i .. l + 1 : a[t] \notin seg}
  <2>1. Out \subseteq Nat /\ u \in Out
    BY <1>2, <1>5
  <2> HIDE DEF Out
  <2>2. PICK t \in Out : \A x \in Out : t <= x
    BY <2>1, Least
  <2>3. t \in i .. l + 1 /\ a[t] \notin seg /\ t <= u /\ t # i
    BY <2>1, <2>2, <1>3 DEF Out
  <2>4. PICK x : x = t - 1
    OBVIOUS
  <2>5. x \in i .. l + 1 /\ x \in 0 .. l /\ x + 1 = t /\ ~(t <= x) /\ x < u
    BY <2>3, <2>4, <1>2, <1>5
  <2>6. a[x] \in seg
    BY <2>2, <2>5 DEF Out
  <2>7. n[a[x]] = a[t]
    BY <2>5, <1>2
  <2>8. a[x] = a[j]
    BY <2>3, <2>6, <2>7, <1>3
  <2>9. x = j
    BY <2>5, <2>8, <1>2, <1>4
  <2> QED BY <2>5, <2>9, <1>2, <1>5
<1>6. i <= j
  <2>1. l + 1 \in i .. l + 1
    BY <1>2
  <2>2. j \in i .. l + 1
    BY <2>1, <1>2, <1>3, <1>5
  <2> QED BY <2>2, <1>2
<1>7. ASSUME NEW t \in i .. j PROVE a[t] \in seg
  <2>1. t \in i .. l + 1 /\ (j \in i .. t => j = t)
    BY <1>2, <1>7
  <2> QED BY <2>1, <1>5
<1>8. ASSUME NEW t \in 1 .. l, a[t] \in seg PROVE t >= i
  <2> DEFINE In == {x \in 1 .. l : a[x] \in seg}
  <2>1. In \subseteq Nat /\ t \in In
    BY <1>2, <1>8
  <2> HIDE DEF In
  <2>2. PICK x \in In : \A y \in In : x <= y
    BY <2>1, Least
  <2>3. x \in 1 .. l /\ a[x] \in seg /\ x <= t
    BY <2>1, <2>2 DEF In
  <2>4. PICK y : y = x - 1
    OBVIOUS
  <2>5. y \in 0 .. l /\ y + 1 = x /\ ~(x <= y) /\ x \in 0 .. l /\ (y = 0 \/ y \in 1 .. l)
    BY <2>3, <2>4, <1>2
  <2>6. p[a[x]] = a[y]
    BY <2>5, <1>2
  <2>7. a[y] \notin seg
    BY <2>2, <2>5, <1>2, <1>3 DEF In
  <2>8. a[x] = a[i]
    BY <2>3, <2>6, <2>7, <1>3
  <2>9. x = i
    BY <2>5, <2>8, <1>2, <1>4
  <2> QED BY <2>3, <2>9, <1>2, <1>8
<1>9. ASSUME NEW t \in 1 .. l, a[t] \in seg PROVE t <= j
  <2> DEFINE In == {x \in j + 1 .. l : a[x] \in seg}
  <2> SUFFICES ASSUME t > j PROVE FALSE
    BY <1>2
  <2>1. In \subseteq Nat /\ t \in In
    BY <1>2, <1>9
  <2> HIDE DEF In
  <2>2. PICK x \in In : \A y \in In : x <= y
    BY <2>1, Least
  <2>3. x \in j + 1 .. l /\ a[x] \in seg
    BY <2>2 DEF In
  <2>4. PICK y : y = x - 1
    OBVIOUS
  <2>5. /\ y \in 0 .. l /\ y + 1 = x /\ ~(x <= y) /\ x \in 0 .. l /\ x # i
        /\ (y = j \/ y \in j + 1 .. l)
    BY <2>3, <2>4, <1>2, <1>6
  <2>6. p[a[x]] = a[y] /\ n[a[y]] = a[x]
    BY <2>5, <1>2
  <2>7. a[y] \in seg
    <3>1. a[x] # a[i]
      BY <2>5, <1>2, <1>4
    <3> QED BY <2>3, <2>6, <3>1, <1>3
  <2>8. y # j
    BY <2>3, <2>6, <1>3
  <2> QED BY <2>2, <2>5, <2>7, <2>8 DEF In
<1>10. ASSUME NEW c \in seg PROVE \E t \in i .. j : a[t] = c
  <2>1. c \in Cells /\ o[c] = h /\ c # h
    BY <1>2, <1>3, <1>4
  <2>2. PICK t \in 1 .. l : a[t] = c
    BY <2>1, <1>1
  <2>3. t >= i /\ t <= j
    BY <2>2, <1>8, <1>9
  <2>4. t \in i .. j
    BY <2>3, <1>2
  <2> QED BY <2>2, <2>4
<1>11. \A c : c \in seg <=> \E t \in i .. j : a[t] = c
  BY <1>7, <1>10
<1> QED BY <1>6, <1>11 DEF Run

\* next is m after what is before and with the cell x has been cut off from head to list.
RunCut(n, list, head, x, m) ==
  \A c \in Cells : m[c] = IF c = head THEN n[x] ELSE IF c = x THEN list
                          ELSE IF c = list THEN n[head] ELSE n[c]

\* The first k entries of head's list are cut off to list, and end at the cell x.
LEMMA CutLaid ==
  ASSUME NEW n, NEW p, NEW o, Sound(n, p, o), NEW L, Laid(n, o, L),
         NEW list \in Heads, NEW head \in Heads, list # head, o[head] = head,
         NEW k \in 1 .. Len(L[head]), NEW x, x = Stops(head, L[head])[k],
         NEW seg \in SUBSET (Cells \ {head}), SegmentOf(n, p, o, seg, n[head], x),
         NEW m, RunCut(n, list, head, x, m)
  PROVE  Laid(m, CutTo(o, list, seg), [L EXCEPT ![list] = Abstract!Take(L[head], k),
                                                ![head] = Abstract!Drop(L[head], k)])
<1>39. PICK s : s = L[head]
  OBVIOUS
<1>40. PICK a : a = Stops(head, s)
  OBVIOUS
<1>41. PICK q : q = CutTo(o, list, seg)
  OBVIOUS
<1>42. /\ k \in 1 .. Len(s) /\ SegmentOf(n, p, o, seg, n[head], a[k])
       /\ \A c \in Cells : m[c] = IF c = head THEN n[a[k]] ELSE IF c = a[k] THEN list
                                  ELSE IF c = list THEN n[head] ELSE n[c]
  BY <1>39, <1>40 DEF RunCut
<1>1. PICK l : l = Len(s)
  OBVIOUS
<1>2. /\ l \in Nat /\ s \in Seq(Entries) /\ head \in Cells /\ head \notin Entries
      /\ head # NoList /\ a[0] = head /\ a[l + 1] = head /\ n[head] = a[1] /\ p[head] = a[l]
      /\ \A i \in 1 .. l : a[i] = s[i] /\ a[i] \in Entries /\ a[i] # head
      /\ \A i \in 0 .. l + 1 : a[i] \in Cells /\ o[a[i]] = head
      /\ \A i \in 0 .. l : n[a[i]] = a[i + 1] /\ p[a[i + 1]] = a[i]
      /\ \A i, j \in 0 .. l : a[i] = a[j] => i = j
      /\ \A c \in Cells : o[c] = head /\ c # head => \E i \in 1 .. l : a[i] = c
      /\ Ringed(n, p, o, a, head, s)
  <2>1. /\ Known(n, p, o, head, L[head], Stops(head, L[head]), Len(L[head]))
        /\ Ringed(n, p, o, Stops(head, L[head]), head, L[head])
    BY RingKnown
  <2>2. Known(n, p, o, head, s, a, l) /\ Ringed(n, p, o, a, head, s)
    BY <2>1, <1>1, <1>39, <1>40
  <2> QED BY <2>2 DEF Known
<1>3. k \in 1 .. l /\ k \in 0 .. l /\ 1 \in 1 .. l /\ k \in 0 .. l + 1 /\ n[a[k]] = a[k + 1]
  <2>1. k \in 1 .. l /\ k \in 0 .. l /\ 1 \in 1 .. l /\ k \in 0 .. l + 1
    BY <1>1, <1>2, <1>42
  <2> QED BY <2>1, <1>2
<1>4. Run(a, seg, 1, k)
  <2>1. SegmentOf(n, p, o, seg, a[1], a[k]) /\ Ringed(n, p, o, a, head, s)
    BY <1>2, <1>42
  <2>2. \A c \in Cells : o[c] = head /\ c # head => \E i \in 1 .. Len(s) : a[i] = c
    BY <1>1, <1>2
  <2>3. 1 \in 1 .. Len(s) /\ k \in 1 .. Len(s)
    BY <1>1, <1>3
  <2> QED BY <2>1, <2>2, <2>3, SegmentIs
<1>5. \A c : c \in seg <=> \E t \in 1 .. k : a[t] = c
  BY <1>4 DEF Run
<1>6. PICK u : u = SubSeq(s, 1, k)
  OBVIOUS
<1>7. PICK v : v = SubSeq(s, k + 1, l)
  OBVIOUS
<1>8. u = Abstract!Take(s, k) /\ v = Abstract!Drop(s, k)
  BY <1>1, <1>6, <1>7 DEF Abstract!Take, Abstract!Drop
<1>9. /\ u \in Seq(Entries) /\ Len(u) = k
      /\ \A t \in 1 .. k : u[t] = s[t]
  <2>1. 1 \in 1 .. Len(s) + 1 /\ k \in 0 .. Len(s) /\ 1 <= k + 1 /\ (k - 1) + 1 = k
    BY <1>1, <1>2, <1>3
  <2>2. /\ u \in Seq(Entries) /\ Len(u) = (k - 1) + 1
        /\ \A t \in 1 .. (k - 1) + 1 : u[t] = s[(1 + t) - 1]
    BY <2>1, <1>2, <1>6, PartIs
  <2>3. \A t \in 1 .. k : (1 + t) - 1 = t
    BY <1>3
  <2> QED BY <2>1, <2>2, <2>3
<1>10. PICK w : w = l - k
  OBVIOUS
<1>11. w \in Nat /\ k + w = l /\ k \in Nat
  BY <1>2, <1>3, <1>10
<1>12. /\ v \in Seq(Entries) /\ Len(v) = w
       /\ \A t \in 1 .. w : v[t] = s[k + t]
  <2>1. k + 1 \in 1 .. Len(s) + 1 /\ l \in 0 .. Len(s) /\ k + 1 <= l + 1
    BY <1>1, <1>2, <1>3
  <2>2. /\ v \in Seq(Entries) /\ Len(v) = (l - (k + 1)) + 1
        /\ \A t \in 1 .. (l - (k + 1)) + 1 : v[t] = s[((k + 1) + t) - 1]
    BY <2>1, <1>2, <1>7, PartIs
  <2>3. (l - (k + 1)) + 1 = w /\ \A t \in 1 .. w : ((k + 1) + t) - 1 = k + t
    BY <1>10, <1>11
  <2> QED BY <2>2, <2>3
<1>13. /\ list \in Cells /\ list \notin Entries /\ list # NoList /\ o[list] # head
       /\ \A i \in 0 .. l : a[i] # list
  <2>1. list \in Cells /\ list \notin Entries /\ list # NoList
    BY Sentinels DEF Cells
  <2>2. o[list] # head
    BY <1>2 DEF Laid
  <2>3. \A i \in 0 .. l : i \in 0 .. l + 1
    BY <1>2
  <2> QED BY <2>1, <2>2, <2>3, <1>2
<1>14. PICK b : b = Stops(list, u)
  OBVIOUS
<1>15. AreStops(b, list, u)
  BY <1>9, <1>14, StopsAre
<1>16. PICK d : d = Stops(head, v)
  OBVIOUS
<1>17. AreStops(d, head, v)
  BY <1>12, <1>16, StopsAre
<1>18. /\ b[0] = list /\ b[k + 1] = list
       /\ \A i \in 1 .. k : b[i] = a[i]
  <2>1. b[0] = list /\ b[k + 1] = list /\ \A i \in 1 .. k : b[i] = u[i]
    BY <1>9, <1>15 DEF AreStops
  <2>2. \A i \in 1 .. k : i \in 1 .. l
    BY <1>2, <1>3
  <2>3. ASSUME NEW i \in 1 .. k PROVE u[i] = a[i]
    <3>1. i \in 1 .. l
      BY <2>2
    <3>2. u[i] = s[i]
      BY <1>9
    <3>3. a[i] = s[i]
      BY <3>1, <1>2
    <3> QED BY <3>2, <3>3
  <2> QED BY <2>1, <2>3
<1>19. /\ d[0] = head /\ \A i \in 1 .. w + 1 : d[i] = a[k + i]
  <2>1. d[0] = head /\ d[w + 1] = head /\ \A i \in 1 .. w : d[i] = s[k + i]
    BY <1>12, <1>17 DEF AreStops
  <2>2. \A i \in 1 .. w : k + i \in 1 .. l
    BY <1>11
  <2>3. k + (w + 1) = l + 1 /\ \A i \in 1 .. w + 1 : i = w + 1 \/ i \in 1 .. w
    BY <1>11
  <2> QED BY <2>1, <2>2, <2>3, <1>2
<1>20. ASSUME NEW i \in 0 .. k PROVE m[b[i]] = b[i + 1]
  <2>1. CASE i = 0
    <3>1. b[i] = list /\ b[i + 1] = a[1] /\ list # a[k]
      <4>1. 1 \in 1 .. k
        BY <1>3
      <4> QED BY <2>1, <4>1, <1>3, <1>13, <1>18
    <3> QED BY <3>1, <1>2, <1>13, <1>42
  <2>2. CASE i = k
    <3>1. k \in 1 .. k
      BY <1>3
    <3>2. b[i] = a[k] /\ b[i + 1] = list /\ a[k] # head /\ a[k] \in Cells
      BY <2>2, <3>1, <1>2, <1>3, <1>18
    <3> QED BY <3>2, <1>42
  <2>3. CASE i # 0 /\ i # k
    <3>1. i \in 1 .. k /\ i + 1 \in 1 .. k /\ i \in 1 .. l /\ i \in 0 .. l /\ i \in 0 .. l + 1
      BY <2>3, <1>2, <1>3
    <3>2. b[i] = a[i] /\ b[i + 1] = a[i + 1]
      BY <3>1, <1>18
    <3>3. a[i] \in Cells /\ a[i] # head /\ a[i] # a[k] /\ a[i] # list
      BY <2>3, <3>1, <1>2, <1>3, <1>13
    <3> QED BY <3>1, <3>2, <3>3, <1>2, <1>42
  <2> QED BY <2>1, <2>2, <2>3
<1>21. Round(m, list, u)
  BY <1>9, <1>14, <1>20 DEF Round
<1>22. ASSUME NEW i \in 0 .. w PROVE m[d[i]] = d[i + 1]
  <2>1. CASE i = 0
    <3>1. d[0 + 1] = a[k + 1]
      <4>1. 0 + 1 \in 1 .. w + 1 /\ k + (0 + 1) = k + 1
        BY <1>11
      <4>2. d[0 + 1] = a[k + (0 + 1)]
        BY <4>1, <1>19
      <4> QED BY <4>1, <4>2
    <3> QED BY <2>1, <3>1, <1>2, <1>3, <1>19, <1>42
  <2>2. CASE i # 0
    <3>1. PICK t : t = k + i
      OBVIOUS
    <3>2. i \in 1 .. w + 1 /\ i + 1 \in 1 .. w + 1 /\ t + 1 = k + (i + 1)
      BY <2>2, <3>1, <1>11
    <3>3. t \in 1 .. l /\ t \in 0 .. l /\ t \in 0 .. l + 1 /\ t # k
      BY <2>2, <3>1, <1>11
    <3>4. d[i] = a[t] /\ d[i + 1] = a[t + 1]
      BY <3>1, <3>2, <1>19
    <3>5. a[t] \in Cells /\ a[t] # head /\ a[t] # a[k] /\ a[t] # list
      BY <3>3, <1>2, <1>3, <1>13
    <3>6. m[a[t]] = n[a[t]]
      BY <3>5, <1>42
    <3>7. n[a[t]] = a[t + 1]
      BY <3>3, <1>2
    <3> QED BY <3>4, <3>6, <3>7
  <2> QED BY <2>1, <2>2
<1>23. Round(m, head, v)
  BY <1>12, <1>16, <1>22 DEF Round
<1>24. PICK M : M = [L EXCEPT ![list] = u, ![head] = v]
  OBVIOUS
<1>25. PICK G : G = {list, head}
  OBVIOUS
<1>26. /\ M \in [Cells -> Seq(Entries)] /\ M[list] = u /\ M[head] = v
       /\ \A c \in Cells \ G : M[c] = L[c]
  <2>1. L \in [Cells -> Seq(Entries)]
    BY DEF Laid
  <2>2. list \in Cells /\ head \in Cells /\ u \in Seq(Entries) /\ v \in Seq(Entries)
    BY <1>2, <1>9, <1>12, <1>13
  <2> QED BY <2>1, <2>2, <1>24, <1>25
<1>27. \A c \in Cells : q[c] = IF c = list \/ c \in seg THEN list
                               ELSE IF o[c] = list THEN NoList ELSE o[c]
  BY <1>41 DEF CutTo
<1>28. \A c \in seg : c \in Entries /\ o[c] = head
  <2> TAKE c \in seg
  <2>1. PICK t \in 1 .. k : a[t] = c
    BY <1>5
  <2>2. t \in 1 .. l /\ t \in 0 .. l + 1
    BY <1>2, <1>3
  <2> QED BY <2>1, <2>2, <1>2
<1>29. /\ \A g \in Heads : g \in Cells /\ g \notin Entries /\ o[g] \in {g, NoList}
       /\ \A e \in Entries : e \in Cells /\ e \notin Heads /\ o[e] \in Heads \cup {e, NoList}
                             /\ L[e] = <<>>
  BY Sentinels DEF Laid, Cells
<1>30. \A g \in Heads \ G : q[g] = o[g] /\ M[g] = L[g]
  BY <1>13, <1>25, <1>26, <1>27, <1>28, <1>29
<1>31. \A g \in G : (q[g] = g /\ Round(m, g, M[g])) \/ (q[g] = NoList /\ M[g] = <<>>)
  BY <1>2, <1>13, <1>21, <1>23, <1>25, <1>26, <1>27, <1>28
<1>32. \A e \in Entries : q[e] \in Heads \cup {e, NoList} /\ M[e] = <<>>
  BY <1>25, <1>26, <1>27, <1>29
<1>33. ASSUME NEW e \in Entries, q[e] = e PROVE m[e] = e
  <2>1. o[e] = e /\ e # list /\ e # head
    BY <1>2, <1>13, <1>27, <1>29, <1>33, Sentinels
  <2>2. e # a[k]
    BY <2>1, <1>2, <1>3
  <2> QED BY <2>1, <2>2, <1>29, <1>42, AloneIs
<1>34. \A e \in Entries : q[e] \in Heads \ G => o[e] = q[e]
  BY <1>25, <1>27, <1>29, Sentinels DEF Cells
<1>35. ASSUME NEW e \in Entries, q[e] \in G PROVE \E i \in 1 .. Len(M[q[e]]) : M[q[e]][i] = e
  <2>1. CASE e \in seg
    <3>1. PICK t \in 1 .. k : a[t] = e
      BY <2>1, <1>5
    <3>2. q[e] = list /\ b[t] = e
      BY <2>1, <3>1, <1>18, <1>27, <1>29
    <3> QED BY <3>2, <1>9, <1>15, <1>26 DEF AreStops
  <2>2. CASE e \notin seg
    <3>1. q[e] = head /\ o[e] = head /\ e # head
      BY <2>2, <1>2, <1>13, <1>25, <1>27, <1>29, <1>35
    <3>2. PICK t \in 1 .. l : a[t] = e
      BY <3>1, <1>2, <1>29
    <3>3. ~(t \in 1 .. k)
      BY <2>2, <3>2, <1>5
    <3>4. PICK i : i = t - k
      OBVIOUS
    <3>5. i \in 1 .. w /\ i \in 1 .. w + 1 /\ k + i = t
      BY <3>3, <3>4, <1>3, <1>11
    <3>6. d[i] = e
      BY <3>2, <3>5, <1>19
    <3> QED BY <3>1, <3>5, <3>6, <1>12, <1>17, <1>26 DEF AreStops
  <2> QED BY <2>1, <2>2
<1>36. \A c \in Cells : o[c] \in Heads \ G => m[c] = n[c]
  <2> TAKE c \in Cells
  <2> SUFFICES ASSUME o[c] \in Heads \ G PROVE m[c] = n[c]
    OBVIOUS
  <2>1. c # head /\ c # a[k] /\ c # list
    BY <1>2, <1>3, <1>25, <1>29, Sentinels
  <2> QED BY <2>1, <1>42
<1>37. SomeChange(n, o, L, m, q, M, G)
  BY <1>26, <1>30, <1>31, <1>32, <1>33, <1>34, <1>35, <1>36 DEF SomeChange
<1>38. Laid(m, q, M)
  BY <1>25, <1>37, SomeLaid
<1> QED BY <1>8, <1>24, <1>38, <1>39, <1>41

\* The stops b go past the y stops behind j first, and then past stops x + 1 to j.
RunMoved(a, b, x, j, y, w) ==
  /\ \A t \in 0 .. x : b[t] = a[t]
  /\ \A t \in 1 .. y : b[x + t] = a[j + t]
  /\ \A t \in 1 .. w : b[x + y + t] = a[x + t]

\* The stops after a run has been moved behind the last.
LEMMA RunMovedIs ==
  ASSUME NEW h, NEW s \in Seq(Entries), NEW x \in Nat, NEW j \in Nat, NEW y \in Nat, NEW w \in Nat,
         x + w = j, j + y = Len(s)
  PROVE  \E r : /\ r = Abstract!Take(s, x) \o Abstract!Drop(s, j) \o SubSeq(s, x + 1, j)
               /\ r \in Seq(Entries) /\ Len(r) = Len(s)
               /\ RunMoved(Stops(h, s), Stops(h, r), x, j, y, w)
<1>0. PICK r : r = Abstract!Take(s, x) \o Abstract!Drop(s, j) \o SubSeq(s, x + 1, j)
  OBVIOUS
<1>1. PICK l : l = Len(s)
  OBVIOUS
<1>2. PICK a : a = Stops(h, s)
  OBVIOUS
<1>3. PICK b : b = Stops(h, r)
  OBVIOUS
<1>4. PICK u : u = SubSeq(s, 1, x)
  OBVIOUS
<1>5. PICK v : v = SubSeq(s, j + 1, l)
  OBVIOUS
<1>6. PICK g : g = SubSeq(s, x + 1, j)
  OBVIOUS
<1>7. l \in Nat /\ x + w = j /\ j + y = l
  BY <1>1
<1>8. AreStops(a, h, s)
  BY <1>2, StopsAre
<1>9. a[0] = h /\ \A t \in 1 .. l : a[t] = s[t]
  BY <1>1, <1>8 DEF AreStops
<1>10. u \in Seq(Entries) /\ Len(u) = x /\ \A t \in 1 .. x : u[t] = s[t]
  <2>1. 1 \in 1 .. Len(s) + 1 /\ x \in 0 .. Len(s) /\ 1 <= x + 1 /\ (x - 1) + 1 = x
    BY <1>1, <1>7
  <2>2. /\ u \in Seq(Entries) /\ Len(u) = (x - 1) + 1
        /\ \A t \in 1 .. (x - 1) + 1 : u[t] = s[(1 + t) - 1]
    BY <2>1, <1>4, PartIs
  <2>3. \A t \in 1 .. x : (1 + t) - 1 = t
    OBVIOUS
  <2> QED BY <2>1, <2>2, <2>3
<1>11. v \in Seq(Entries) /\ Len(v) = y /\ \A t \in 1 .. y : v[t] = s[j + t]
  <2>1. j + 1 \in 1 .. Len(s) + 1 /\ l \in 0 .. Len(s) /\ j + 1 <= l + 1
    BY <1>1, <1>7
  <2>2. /\ v \in Seq(Entries) /\ Len(v) = (l - (j + 1)) + 1
        /\ \A t \in 1 .. (l - (j + 1)) + 1 : v[t] = s[((j + 1) + t) - 1]
    BY <2>1, <1>5, PartIs
  <2>3. (l - (j + 1)) + 1 = y /\ \A t \in 1 .. y : ((j + 1) + t) - 1 = j + t
    BY <1>7
  <2> QED BY <2>2, <2>3
<1>12. g \in Seq(Entries) /\ Len(g) = w /\ \A t \in 1 .. w : g[t] = s[x + t]
  <2>1. x + 1 \in 1 .. Len(s) + 1 /\ j \in 0 .. Len(s) /\ x + 1 <= j + 1
    BY <1>1, <1>7
  <2>2. /\ g \in Seq(Entries) /\ Len(g) = (j - (x + 1)) + 1
        /\ \A t \in 1 .. (j - (x + 1)) + 1 : g[t] = s[((x + 1) + t) - 1]
    BY <2>1, <1>6, PartIs
  <2>3. (j - (x + 1)) + 1 = w /\ \A t \in 1 .. w : ((x + 1) + t) - 1 = x + t
    BY <1>7
  <2> QED BY <2>2, <2>3
<1>13. PICK c : c = u \o v
  OBVIOUS
<1>14. r = c \o g
  BY <1>0, <1>1, <1>4, <1>5, <1>6, <1>13 DEF Abstract!Take, Abstract!Drop
<1>15. /\ c \in Seq(Entries) /\ Len(c) = x + y
       /\ \A t \in 1 .. x + y : c[t] = IF t <= x THEN u[t] ELSE v[t - x]
  <2>1. c \in Seq(Entries) /\ Glued(c, u, v)
    BY <1>10, <1>11, <1>13, GlueIs
  <2> QED BY <2>1, <1>10, <1>11 DEF Glued
<1>16. /\ r \in Seq(Entries) /\ Len(r) = (x + y) + w
       /\ b[0] = h /\ b[((x + y) + w) + 1] = h
       /\ \A t \in 1 .. x + y : b[t] = c[t]
       /\ \A t \in 1 .. w : b[(x + y) + t] = g[t]
  <2>1. /\ c \o g \in Seq(Entries) /\ Len(c \o g) = Len(c) + Len(g)
        /\ GluedStops(Stops(h, c \o g), h, c, g)
    BY <1>12, <1>15, GluedStopsAre
  <2> QED BY <2>1, <1>3, <1>12, <1>14, <1>15 DEF GluedStops
<1>17. Len(r) = Len(s)
  BY <1>1, <1>7, <1>16
<1>18. ASSUME NEW t \in 0 .. x PROVE b[t] = a[t]
  <2>1. CASE t = 0
    BY <2>1, <1>9, <1>16
  <2>2. CASE t # 0
    <3>1. t \in 1 .. x /\ t \in 1 .. x + y /\ t <= x /\ t \in 1 .. l
      BY <2>2, <1>7
    <3> QED BY <3>1, <1>9, <1>10, <1>15, <1>16
  <2> QED BY <2>1, <2>2
<1>19. ASSUME NEW t \in 1 .. y PROVE b[x + t] = a[j + t]
  <2>1. PICK k : k = x + t
    OBVIOUS
  <2>2. k \in 1 .. x + y /\ ~(k <= x) /\ k - x = t /\ j + t \in 1 .. l
    BY <2>1, <1>7
  <2>3. b[k] = v[t]
    BY <2>2, <1>15, <1>16
  <2> QED BY <2>1, <2>2, <2>3, <1>9, <1>11
<1>20. ASSUME NEW t \in 1 .. w PROVE b[x + y + t] = a[x + t]
  <2>1. x + t \in 1 .. l
    BY <1>7
  <2>2. b[(x + y) + t] = g[t]
    BY <1>16
  <2> QED BY <2>1, <2>2, <1>9, <1>12
<1>21. RunMoved(a, b, x, j, y, w)
  BY <1>18, <1>19, <1>20 DEF RunMoved
<1> QED BY <1>0, <1>2, <1>3, <1>16, <1>17, <1>21

\* next is m after the run from first to last has moved to the tail of h.
RunToTail(n, p, h, first, last, m) ==
  \A c \in Cells : m[c] = IF c = last THEN h
                          ELSE IF c = IF n[last] = h THEN p[first] ELSE p[h] THEN first
                          ELSE IF c = p[first] THEN n[last] ELSE n[c]

\* list_bulk_move_tail: the run from stop i to stop j goes to the end.
LEMMA BulkMoveLaid ==
  ASSUME NEW n, NEW p, NEW o, Sound(n, p, o), NEW L, Laid(n, o, L),
         NEW h \in Heads, o[h] = h, NEW i, NEW j, i \in 1 .. Len(L[h]), j \in 1 .. Len(L[h]),
         i <= j, NEW m, RunToTail(n, p, h, L[h][i], L[h][j], m)
  PROVE  Laid(m, o, [L EXCEPT ![h] = Abstract!Take(L[h], i - 1) \o Abstract!Drop(L[h], j)
                                       \o SubSeq(L[h], i, j)])
<1>24. PICK first : first = L[h][i]
  OBVIOUS
<1>25. PICK last : last = L[h][j]
  OBVIOUS
<1>26. PICK z : z = IF n[last] = h THEN p[first] ELSE p[h]
  OBVIOUS
<1>27. \A c \in Cells : m[c] = IF c = last THEN h ELSE IF c = z THEN first
                               ELSE IF c = p[first] THEN n[last] ELSE n[c]
  BY <1>24, <1>25, <1>26 DEF RunToTail
<1>1. PICK s : s = L[h]
  OBVIOUS
<1>2. PICK a : a = Stops(h, s)
  OBVIOUS
<1>3. PICK l : l = Len(s)
  OBVIOUS
<1>4. /\ l \in Nat /\ s \in Seq(Entries) /\ h \in Cells /\ h \notin Entries /\ h # NoList
      /\ a[0] = h /\ a[l + 1] = h /\ n[h] = a[1] /\ p[h] = a[l]
      /\ \A t \in 1 .. l : a[t] = s[t] /\ a[t] \in Entries /\ a[t] # h
      /\ \A t \in 0 .. l + 1 : a[t] \in Cells /\ o[a[t]] = h
      /\ \A t \in 0 .. l : n[a[t]] = a[t + 1] /\ p[a[t + 1]] = a[t]
      /\ \A t, k \in 0 .. l : a[t] = a[k] => t = k
      /\ \A c \in Cells : o[c] = h /\ c # h => \E t \in 1 .. l : a[t] = c
  <2>1. Known(n, p, o, h, L[h], Stops(h, L[h]), Len(L[h]))
    BY RingKnown
  <2>2. Known(n, p, o, h, s, a, l)
    BY <2>1, <1>1, <1>2, <1>3
  <2> QED BY <2>2 DEF Known
<1>5. PICK x : x = i - 1
  OBVIOUS
<1>6. PICK y : y = l - j
  OBVIOUS
<1>7. PICK w : w = j - x
  OBVIOUS
<1>8. /\ x \in Nat /\ y \in Nat /\ w \in Nat /\ w # 0 /\ j \in Nat
      /\ i = x + 1 /\ x + w = j /\ j + y = l /\ x + y + w = l
      /\ x < j /\ i \in 1 .. l /\ j \in 1 .. l /\ x \in 0 .. l /\ j \in 0 .. l /\ l \in 0 .. l
      /\ x \in 0 .. l + 1 /\ j \in 0 .. l + 1 /\ l \in 0 .. l + 1
  <2>1. i \in 1 .. l /\ j \in 1 .. l /\ l \in Nat
    BY <1>1, <1>3, <1>4
  <2>2. /\ x \in Nat /\ y \in Nat /\ w \in Nat /\ w # 0 /\ j \in Nat
        /\ i = x + 1 /\ x + w = j /\ j + y = l /\ x + y + w = l
    <3>1. x \in Nat /\ y \in Nat /\ j \in Nat /\ i = x + 1 /\ j + y = l
      BY <2>1, <1>5, <1>6
    <3>2. i <= j /\ w = j - x
      BY <1>7
    <3>3. w \in Nat /\ w # 0 /\ x + w = j
      BY <3>1, <3>2
    <3> QED BY <3>1, <3>3, <2>1
  <2>3. x < j /\ x \in 0 .. l /\ j \in 0 .. l /\ l \in 0 .. l
    BY <2>1, <1>5
  <2>4. x \in 0 .. l + 1 /\ j \in 0 .. l + 1 /\ l \in 0 .. l + 1
    BY <2>1, <2>3
  <2> QED BY <2>1, <2>2, <2>3, <2>4
<1>9. first = a[x + 1] /\ last = a[j] /\ p[first] = a[x] /\ n[last] = a[j + 1]
  <2>1. first = a[x + 1] /\ last = a[j]
    BY <1>1, <1>4, <1>8, <1>24, <1>25
  <2> QED BY <2>1, <1>4, <1>8
<1>10. z = IF y = 0 THEN a[x] ELSE a[l]
  <2>1. a[j + 1] = h <=> y = 0
    <3>1. y = 0 => j + 1 = l + 1
      BY <1>8
    <3>2. y # 0 => j + 1 \in 1 .. l
      BY <1>4, <1>8
    <3> QED BY <3>1, <3>2, <1>4
  <2> QED BY <2>1, <1>4, <1>9, <1>26
<1>11. PICK r : r = Abstract!Take(s, x) \o Abstract!Drop(s, j) \o SubSeq(s, x + 1, j)
  OBVIOUS
<1>12. PICK b : b = Stops(h, r)
  OBVIOUS
<1>13. /\ r \in Seq(Entries) /\ Len(r) = l
       /\ \A t \in 0 .. x : b[t] = a[t]
       /\ \A t \in 1 .. y : b[x + t] = a[j + t]
       /\ \A t \in 1 .. w : b[x + y + t] = a[x + t]
       /\ b[l + 1] = h /\ \A t \in 1 .. l : b[t] = r[t]
  <2>1. /\ s \in Seq(Entries) /\ j + y = Len(s) /\ x + w = j
        /\ x \in Nat /\ j \in Nat /\ y \in Nat /\ w \in Nat
    BY <1>3, <1>4, <1>8
  <2>6. \E d : /\ d = Abstract!Take(s, x) \o Abstract!Drop(s, j) \o SubSeq(s, x + 1, j)
              /\ d \in Seq(Entries) /\ Len(d) = Len(s)
              /\ RunMoved(Stops(h, s), Stops(h, d), x, j, y, w)
    BY <2>1, RunMovedIs
  <2>2. /\ r \in Seq(Entries) /\ Len(r) = Len(s)
        /\ RunMoved(Stops(h, s), Stops(h, r), x, j, y, w)
    BY <2>6, <1>11
  <2>3. RunMoved(a, b, x, j, y, w) /\ Len(r) = l
    BY <2>2, <1>2, <1>3, <1>12
  <2>4. AreStops(b, h, r)
    BY <2>2, <1>12, StopsAre
  <2>5. b[l + 1] = h /\ \A t \in 1 .. l : b[t] = r[t]
    BY <2>3, <2>4 DEF AreStops
  <2> QED BY <2>2, <2>3, <2>5 DEF RunMoved
<1>14. ASSUME NEW t \in 0 .. l, t # x, t # j, ~(y # 0 /\ t = l) PROVE m[a[t]] = a[t + 1]
  <2>1. a[t] # last /\ a[t] # a[x] /\ a[t] # z
    BY <1>4, <1>8, <1>9, <1>10, <1>14
  <2>2. t \in 0 .. l + 1
    BY <1>4
  <2> QED BY <2>1, <2>2, <1>4, <1>9, <1>27
<1>15. /\ m[a[j]] = h
       /\ y = 0 => m[a[x]] = a[x + 1]
       /\ y # 0 => m[a[l]] = a[x + 1] /\ m[a[x]] = a[j + 1]
  <2>1. j \in 0 .. l + 1 /\ x \in 0 .. l + 1 /\ l \in 0 .. l + 1
    BY <1>8
  <2>2. a[x] # a[j] /\ (y # 0 => a[l] # a[j] /\ a[x] # a[l])
    <3>1. x # j /\ (y # 0 => l # j /\ x # l)
      BY <1>8
    <3> QED BY <3>1, <1>4, <1>8
  <2> QED BY <2>1, <2>2, <1>4, <1>9, <1>10, <1>27
<1>16. ASSUME NEW t \in 0 .. l PROVE m[b[t]] = b[t + 1]
  <2>1. CASE t < x
    <3>0. x \in Nat /\ x < j /\ x <= l /\ j \in Nat /\ l \in Nat
      BY <1>4, <1>8
    <3>1. t \in 0 .. x /\ t + 1 \in 0 .. x /\ t # x /\ t # j /\ ~(y # 0 /\ t = l)
      BY <2>1, <3>0
    <3> QED BY <3>1, <1>13, <1>14
  <2>2. CASE t = x
    <3>1. b[t] = a[x]
      <4>1. t \in 0 .. x
        BY <2>2, <1>8
      <4> QED BY <4>1, <2>2, <1>13
    <3>2. CASE y = 0
      <4>1. 1 \in 1 .. w /\ x + y + 1 = t + 1
        BY <2>2, <3>2, <1>8
      <4> QED BY <3>1, <3>2, <4>1, <1>13, <1>15
    <3>3. CASE y # 0
      <4>1. 1 \in 1 .. y
        BY <3>3, <1>8
      <4> QED BY <2>2, <3>1, <3>3, <4>1, <1>13, <1>15
    <3> QED BY <3>2, <3>3
  <2>3. CASE t > x /\ t < x + y
    <3>1. PICK k : k = t - x
      OBVIOUS
    <3>2. PICK c : c = j + k
      OBVIOUS
    <3>3. /\ k \in 1 .. y /\ k + 1 \in 1 .. y /\ x + k = t /\ x + (k + 1) = t + 1
          /\ c \in 0 .. l /\ c # x /\ c # j /\ c # l /\ j + (k + 1) = c + 1
      <4>1. x \in Nat /\ y \in Nat /\ j \in Nat /\ l \in Nat /\ x < j /\ j + y = l
        BY <1>4, <1>8
      <4>2. t \in Nat
        BY <4>1
      <4>3. /\ k \in 1 .. y /\ k + 1 \in 1 .. y /\ x + k = t /\ x + (k + 1) = t + 1
            /\ k \in Nat /\ k # 0 /\ k + 1 <= y
        BY <2>3, <3>1, <4>1, <4>2
      <4>4. c \in 0 .. l /\ c # x /\ c # j /\ c # l /\ j + (k + 1) = c + 1
        BY <3>2, <4>1, <4>3
      <4> QED BY <4>3, <4>4
    <3>4. b[t] = a[c] /\ b[t + 1] = a[c + 1]
      BY <3>2, <3>3, <1>13
    <3> QED BY <3>3, <3>4, <1>14
  <2>4. CASE t = x + y /\ y # 0
    <3>1. y \in 1 .. y /\ 1 \in 1 .. w
      BY <2>4, <1>8
    <3>2. b[t] = a[l] /\ b[t + 1] = a[x + 1]
      BY <2>4, <3>1, <1>8, <1>13
    <3> QED BY <2>4, <3>2, <1>15
  <2>5. CASE t > x + y /\ t < l
    <3>1. PICK k : k = t - (x + y)
      OBVIOUS
    <3>2. PICK c : c = x + k
      OBVIOUS
    <3>0. /\ x \in Nat /\ y \in Nat /\ w \in Nat /\ l \in Nat /\ j \in Nat
          /\ x + w = j /\ x + y + w = l
      BY <1>4, <1>8
    <3>5. k \in 1 .. w /\ k + 1 \in 1 .. w /\ x + y + k = t /\ x + y + (k + 1) = t + 1 /\ k < w
      BY <2>5, <3>0, <3>1
    <3>6. c \in 0 .. l /\ c # x /\ c # j /\ ~(y # 0 /\ c = l) /\ x + (k + 1) = c + 1
      BY <3>0, <3>2, <3>5
    <3>3. /\ k \in 1 .. w /\ k + 1 \in 1 .. w /\ x + y + k = t /\ x + y + (k + 1) = t + 1
          /\ c \in 0 .. l /\ c # x /\ c # j /\ ~(y # 0 /\ c = l) /\ x + (k + 1) = c + 1
      BY <3>5, <3>6
    <3>4. b[t] = a[c] /\ b[t + 1] = a[c + 1]
      BY <3>2, <3>3, <1>13
    <3> QED BY <3>3, <3>4, <1>14
  <2>6. CASE t = l
    <3>1. w \in 1 .. w /\ x + y + w = t
      BY <2>6, <1>8
    <3>2. b[t] = a[j]
      BY <3>1, <1>8, <1>13
    <3> QED BY <2>6, <3>2, <1>13, <1>15
  <2> QED BY <2>1, <2>2, <2>3, <2>4, <2>5, <2>6, <1>8
<1>17. Round(m, h, r)
  BY <1>12, <1>13, <1>16 DEF Round
<1>18. ASSUME NEW c \in Cells, o[c] = h, c # h PROVE \E t \in 1 .. Len(r) : r[t] = c
  <2>1. PICK t \in 1 .. l : a[t] = c
    BY <1>4, <1>18
  <2>2. CASE t <= x
    <3>1. t \in 0 .. x
      BY <2>2, <1>8
    <3>2. t \in 1 .. Len(r) /\ b[t] = a[t] /\ r[t] = b[t]
      BY <3>1, <1>13
    <3> QED BY <2>1, <3>2
  <2>3. CASE t > x /\ t <= j
    <3>1. PICK k : k = t - x
      OBVIOUS
    <3>2. k \in 1 .. w /\ x + k = t /\ x + y + k \in 1 .. l
      BY <2>3, <3>1, <1>8
    <3>3. PICK d : d = x + y + k
      OBVIOUS
    <3>4. d \in 1 .. Len(r) /\ b[d] = a[t] /\ r[d] = b[d]
      BY <3>2, <3>3, <1>13
    <3> QED BY <2>1, <3>4
  <2>4. CASE t > j
    <3>1. PICK k : k = t - j
      OBVIOUS
    <3>2. k \in 1 .. y /\ j + k = t /\ x + k \in 1 .. l
      BY <2>4, <3>1, <1>8
    <3>3. PICK d : d = x + k
      OBVIOUS
    <3>4. d \in 1 .. Len(r) /\ b[d] = a[t] /\ r[d] = b[d]
      BY <3>2, <3>3, <1>13
    <3> QED BY <2>1, <3>4
  <2> QED BY <2>2, <2>3, <2>4, <1>8
<1>19. o[last] = h /\ o[z] = h /\ o[p[first]] = h
  <2>1. l \in 0 .. l + 1 /\ j \in 0 .. l + 1 /\ x \in 0 .. l + 1
    BY <1>4, <1>8
  <2> QED BY <2>1, <1>4, <1>9, <1>10
<1>20. /\ \A e \in Entries : o[e] \in {h, e, NoList, o[e]}
       /\ \A c \in Cells : o[c] \in Heads \ {h} => o[c] = o[c] /\ m[c] = n[c]
  BY <1>4, <1>19, <1>27
<1>21. ASSUME NEW e \in Entries, o[e] = e PROVE m[e] = e
  <2>1. e # last /\ e # z /\ e # p[first] /\ e \in Cells
    BY <1>4, <1>19, <1>21 DEF Cells
  <2> QED BY <2>1, <1>21, <1>27, AloneIs
<1>22. OneChanges(n, o, m, o, h, r)
  BY <1>13, <1>17, <1>18, <1>20, <1>21 DEF OneChanges
<1>23. i - 1 = x /\ i = x + 1
  BY <1>5, <1>8
<1> QED BY <1>1, <1>11, <1>22, <1>23, OneLaid

\* The stops b are the stops a, of l entries, with the w entries of r behind stop k.
StopsWithin(a, b, l, k, r, w) ==
  /\ \A i \in 0 .. k : b[i] = a[i]
  /\ \A i \in 1 .. w : b[k + i] = r[i]
  /\ \A i \in k + 1 .. l + 1 : b[w + i] = a[i]

\* The stops after a whole list has been put behind stop k.
LEMMA PutInIs ==
  ASSUME NEW h, NEW s \in Seq(Entries), NEW k \in 0 .. Len(s), NEW r \in Seq(Entries)
  PROVE  \E t : /\ t = Abstract!Take(s, k) \o r \o Abstract!Drop(s, k)
                /\ t \in Seq(Entries) /\ Len(t) = Len(s) + Len(r)
                /\ StopsWithin(Stops(h, s), Stops(h, t), Len(s), k, r, Len(r))
<1>1. PICK t : t = Abstract!Take(s, k) \o r \o Abstract!Drop(s, k)
  OBVIOUS
<1>2. PICK a : a = Stops(h, s)
  OBVIOUS
<1>3. PICK b : b = Stops(h, t)
  OBVIOUS
<1>4. PICK l : l = Len(s)
  OBVIOUS
<1>5. PICK w : w = Len(r)
  OBVIOUS
<1>6. t \in Seq(Entries) /\ Pieces(t, s, r, k)
  BY <1>1, PiecesAre
<1>7. /\ l \in Nat /\ w \in Nat /\ k \in 0 .. l /\ Len(t) = l + w
      /\ \A i \in 1 .. l + w :
           t[i] = IF i <= k THEN s[i] ELSE IF i <= k + w THEN r[i - k] ELSE s[i - w]
  BY <1>4, <1>5, <1>6 DEF Pieces
<1>8. a[0] = h /\ a[l + 1] = h /\ \A i \in 1 .. l : a[i] = s[i]
  <2>1. AreStops(a, h, s)
    BY <1>2, StopsAre
  <2> QED BY <2>1, <1>4 DEF AreStops
<1>9. b[0] = h /\ b[(l + w) + 1] = h /\ \A i \in 1 .. l + w : b[i] = t[i]
  <2>1. AreStops(b, h, t)
    BY <1>3, <1>6, StopsAre
  <2> QED BY <2>1, <1>7 DEF AreStops
<1>10. ASSUME NEW i \in 0 .. k PROVE b[i] = a[i]
  <2>1. CASE i = 0
    BY <2>1, <1>8, <1>9
  <2>2. CASE i # 0
    <3>1. i \in 1 .. l /\ i \in 1 .. l + w /\ i <= k
      BY <2>2, <1>7
    <3> QED BY <3>1, <1>7, <1>8, <1>9
  <2> QED BY <2>1, <2>2
<1>11. ASSUME NEW i \in 1 .. w PROVE b[k + i] = r[i]
  <2>1. PICK j : j = k + i
    OBVIOUS
  <2>2. j \in 1 .. l + w /\ ~(j <= k) /\ j <= k + w /\ j - k = i
    BY <2>1, <1>7
  <2>3. b[j] = r[j - k]
    BY <2>2, <1>7, <1>9
  <2> QED BY <2>1, <2>2, <2>3
<1>12. ASSUME NEW i \in k + 1 .. l + 1 PROVE b[w + i] = a[i]
  <2>1. CASE i = l + 1
    <3>1. w + i = (l + w) + 1
      BY <2>1, <1>7
    <3> QED BY <2>1, <3>1, <1>8, <1>9
  <2>2. CASE i # l + 1
    <3>1. PICK j : j = w + i
      OBVIOUS
    <3>2. i \in 1 .. l /\ j \in 1 .. l + w /\ ~(j <= k) /\ ~(j <= k + w) /\ j - w = i
      BY <2>2, <3>1, <1>7
    <3>3. b[j] = s[j - w]
      BY <3>2, <1>7, <1>9
    <3> QED BY <3>1, <3>2, <3>3, <1>8
  <2> QED BY <2>1, <2>2
<1>13. StopsWithin(a, b, l, k, r, w)
  BY <1>10, <1>11, <1>12 DEF StopsWithin
<1> QED BY <1>1, <1>2, <1>3, <1>4, <1>5, <1>6, <1>7, <1>13

\* next is m after the entries of list have been put behind the cell x.
RunJoined(n, p, list, x, m) ==
  \A c \in Cells : m[c] = IF c = p[list] THEN n[x] ELSE IF c = x THEN n[list] ELSE n[c]

\* The lists after the entries of list have gone to h's.
JoinedTo(o, list, h) ==
  [c \in Cells |-> IF c = list THEN NoList ELSE IF o[c] = list THEN h ELSE o[c]]

\* The entries of list go behind stop k, the cell x, of the list h.
LEMMA JoinLaid ==
  ASSUME NEW n, NEW p, NEW o, Sound(n, p, o), NEW L, Laid(n, o, L),
         NEW list \in Heads, o[list] = list, n[list] # list,
         NEW h \in Heads, o[h] = h, h # list,
         NEW k \in 0 .. Len(L[h]), NEW x, x = Stops(h, L[h])[k],
         NEW m, RunJoined(n, p, list, x, m)
  PROVE  Laid(m, JoinedTo(o, list, h),
              [L EXCEPT ![h] = Abstract!Take(@, k) \o L[list] \o Abstract!Drop(@, k),
                        ![list] = <<>>])
<1>34. PICK q : q = JoinedTo(o, list, h)
  OBVIOUS
<1>35. \A c \in Cells : m[c] = IF c = p[list] THEN n[x] ELSE IF c = x THEN n[list] ELSE n[c]
  BY DEF RunJoined
<1>1. PICK s : s = L[h]
  OBVIOUS
<1>2. PICK a : a = Stops(h, s)
  OBVIOUS
<1>3. PICK l : l = Len(s)
  OBVIOUS
<1>4. PICK r : r = L[list]
  OBVIOUS
<1>5. PICK b : b = Stops(list, r)
  OBVIOUS
<1>6. PICK w : w = Len(r)
  OBVIOUS
<1>7. Known(n, p, o, h, s, a, l) /\ Known(n, p, o, list, r, b, w)
  <2>1. /\ Known(n, p, o, h, L[h], Stops(h, L[h]), Len(L[h]))
        /\ Known(n, p, o, list, L[list], Stops(list, L[list]), Len(L[list]))
    BY RingKnown
  <2> QED BY <2>1, <1>1, <1>2, <1>3, <1>4, <1>5, <1>6
<1>8. /\ l \in Nat /\ s \in Seq(Entries) /\ h \in Cells /\ h \notin Entries /\ h # NoList
      /\ a[0] = h /\ a[l + 1] = h
      /\ \A i \in 1 .. l : a[i] = s[i] /\ a[i] \in Entries /\ a[i] # h
      /\ \A i \in 0 .. l + 1 : a[i] \in Cells /\ o[a[i]] = h
      /\ \A i \in 0 .. l : n[a[i]] = a[i + 1]
      /\ \A i, j \in 0 .. l : a[i] = a[j] => i = j
      /\ \A c \in Cells : o[c] = h /\ c # h => \E i \in 1 .. l : a[i] = c
  BY <1>7 DEF Known
<1>9. /\ w \in Nat /\ r \in Seq(Entries) /\ list \in Cells /\ list \notin Entries /\ list # NoList
      /\ b[0] = list /\ b[w + 1] = list /\ n[list] = b[1] /\ p[list] = b[w]
      /\ \A i \in 1 .. w : b[i] = r[i] /\ b[i] \in Entries /\ b[i] # list
      /\ \A i \in 0 .. w + 1 : b[i] \in Cells /\ o[b[i]] = list
      /\ \A i \in 0 .. w : n[b[i]] = b[i + 1]
      /\ \A i, j \in 0 .. w : b[i] = b[j] => i = j
      /\ \A c \in Cells : o[c] = list /\ c # list => \E i \in 1 .. w : b[i] = c
  BY <1>7 DEF Known
<1>10. w # 0 /\ 1 \in 1 .. w /\ w \in 1 .. w /\ w \in 0 .. w /\ w \in 0 .. w + 1
  <2>1. w # 0
    BY <1>9
  <2> QED BY <2>1, <1>9
<1>11. k \in 0 .. l /\ k \in 0 .. l + 1 /\ k \in Nat /\ k <= l /\ x = a[k]
  <2>1. k \in 0 .. l /\ x = a[k]
    BY <1>1, <1>2, <1>3
  <2> QED BY <2>1, <1>8
<1>12. x \in Cells /\ o[x] = h /\ n[x] = a[k + 1] /\ p[list] \in Cells /\ o[p[list]] = list
  BY <1>8, <1>9, <1>10, <1>11
<1>13. PICK t : t = Abstract!Take(s, k) \o r \o Abstract!Drop(s, k)
  OBVIOUS
<1>14. PICK d : d = Stops(h, t)
  OBVIOUS
<1>15. /\ t \in Seq(Entries) /\ Len(t) = l + w
       /\ \A i \in 0 .. k : d[i] = a[i]
       /\ \A i \in 1 .. w : d[k + i] = r[i]
       /\ \A i \in k + 1 .. l + 1 : d[w + i] = a[i]
       /\ \A i \in 1 .. l + w : d[i] = t[i]
  <2>1. \E u : /\ u = Abstract!Take(s, k) \o r \o Abstract!Drop(s, k)
               /\ u \in Seq(Entries) /\ Len(u) = Len(s) + Len(r)
               /\ StopsWithin(Stops(h, s), Stops(h, u), Len(s), k, r, Len(r))
    BY <1>3, <1>8, <1>9, <1>11, PutInIs
  <2>2. t \in Seq(Entries) /\ Len(t) = l + w /\ StopsWithin(a, d, l, k, r, w)
    BY <2>1, <1>2, <1>3, <1>6, <1>13, <1>14
  <2>3. AreStops(d, h, t)
    BY <2>2, <1>14, StopsAre
  <2>4. \A i \in 1 .. l + w : d[i] = t[i]
    BY <2>2, <2>3 DEF AreStops
  <2> QED BY <2>2, <2>4 DEF StopsWithin
<1>16. ASSUME NEW i \in 0 .. l, i # k PROVE m[a[i]] = a[i + 1]
  <2>1. i \in 0 .. l + 1
    BY <1>8
  <2>2. a[i] # x
    BY <1>8, <1>11, <1>16
  <2>3. a[i] # p[list]
    BY <2>1, <1>8, <1>12
  <2> QED BY <2>1, <2>2, <2>3, <1>8, <1>35
<1>17. ASSUME NEW i \in 1 .. w PROVE m[b[i]] = IF i = w THEN a[k + 1] ELSE b[i + 1]
  <2>1. i \in 0 .. w /\ i \in 0 .. w + 1
    BY <1>9
  <2>2. b[i] \in Cells /\ o[b[i]] = list /\ n[b[i]] = b[i + 1] /\ b[i] # x
    BY <2>1, <1>9, <1>12
  <2>3. b[i] = p[list] <=> i = w
    BY <2>1, <1>9, <1>10
  <2> QED BY <2>2, <2>3, <1>12, <1>35
<1>18. ASSUME NEW i \in 0 .. l + w PROVE m[d[i]] = d[i + 1]
  <2>1. CASE i < k
    <3>1. i \in 0 .. k /\ i + 1 \in 0 .. k /\ i # k /\ i \in 0 .. l
      BY <2>1, <1>8, <1>11
    <3> QED BY <3>1, <1>15, <1>16
  <2>2. CASE i = k
    <3>1. k \in 0 .. k
      BY <1>11
    <3>2. d[i] = x /\ d[i + 1] = b[1]
      BY <2>2, <3>1, <1>9, <1>10, <1>11, <1>15
    <3>3. m[x] = n[list]
      BY <1>8, <1>9, <1>12, <1>35
    <3> QED BY <3>2, <3>3, <1>9
  <2>3. CASE i > k /\ i < k + w
    <3>1. PICK j : j = i - k
      OBVIOUS
    <3>2. j \in 1 .. w /\ j + 1 \in 1 .. w /\ j # w /\ k + j = i /\ k + (j + 1) = i + 1
      BY <2>3, <3>1, <1>9, <1>11
    <3>3. d[i] = b[j] /\ d[i + 1] = b[j + 1]
      BY <3>2, <1>9, <1>15
    <3> QED BY <3>2, <3>3, <1>17
  <2>4. CASE i = k + w
    <3>1. d[i] = b[w]
      BY <2>4, <1>9, <1>10, <1>15
    <3>2. k + 1 \in k + 1 .. l + 1 /\ w + (k + 1) = i + 1
      BY <2>4, <1>8, <1>9, <1>11
    <3>3. d[i + 1] = a[k + 1]
      BY <3>2, <1>15
    <3> QED BY <3>1, <3>3, <1>10, <1>17
  <2>5. CASE i > k + w
    <3>1. PICK j : j = i - w
      OBVIOUS
    <3>2. /\ j \in k + 1 .. l + 1 /\ j + 1 \in k + 1 .. l + 1 /\ w + j = i /\ w + (j + 1) = i + 1
          /\ j \in 0 .. l /\ j # k
      <4>1. l \in Nat /\ w \in Nat /\ k \in Nat
        BY <1>8, <1>9, <1>11
      <4>2. j \in Int /\ j > k /\ j <= l /\ w + j = i
        BY <2>5, <3>1, <4>1
      <4> QED BY <4>1, <4>2
    <3>3. d[i] = a[j] /\ d[i + 1] = a[j + 1]
      BY <3>2, <1>15
    <3> QED BY <3>2, <3>3, <1>16
  <2> QED BY <2>1, <2>2, <2>3, <2>4, <2>5, <1>8, <1>9, <1>11
<1>19. Round(m, h, t)
  BY <1>14, <1>15, <1>18 DEF Round
<1>20. PICK M : M = [L EXCEPT ![h] = t, ![list] = <<>>]
  OBVIOUS
<1>21. PICK G : G = {list, h}
  OBVIOUS
<1>22. /\ M \in [Cells -> Seq(Entries)] /\ M[h] = t /\ M[list] = <<>>
       /\ \A c \in Cells \ G : M[c] = L[c]
  <2>1. L \in [Cells -> Seq(Entries)]
    BY DEF Laid
  <2>2. <<>> \in Seq(Entries)
    OBVIOUS
  <2>3. M \in [Cells -> Seq(Entries)]
    BY <2>1, <2>2, <1>15, <1>20
  <2>4. M[h] = t /\ M[list] = <<>>
    BY <2>1, <1>8, <1>9, <1>20
  <2>5. \A c \in Cells \ G : M[c] = L[c]
    BY <2>1, <1>20, <1>21
  <2> QED BY <2>3, <2>4, <2>5
<1>23. \A c \in Cells : q[c] = IF c = list THEN NoList ELSE IF o[c] = list THEN h ELSE o[c]
  BY <1>34 DEF JoinedTo
<1>24. /\ \A g \in Heads : g \in Cells /\ g \notin Entries /\ o[g] \in {g, NoList}
       /\ \A e \in Entries : e \in Cells /\ e \notin Heads /\ o[e] \in Heads \cup {e, NoList}
                             /\ L[e] = <<>>
  BY Sentinels DEF Laid, Cells
<1>25. \A g \in Heads \ G : q[g] = o[g] /\ M[g] = L[g]
  BY <1>9, <1>21, <1>22, <1>23, <1>24
<1>26. \A g \in G : (q[g] = g /\ Round(m, g, M[g])) \/ (q[g] = NoList /\ M[g] = <<>>)
  BY <1>8, <1>9, <1>19, <1>21, <1>22, <1>23
<1>27. \A e \in Entries : q[e] \in Heads \cup {e, NoList} /\ M[e] = <<>>
  BY <1>21, <1>22, <1>23, <1>24
<1>28. ASSUME NEW e \in Entries, q[e] = e PROVE m[e] = e
  <2>1. o[e] = e /\ e # list /\ e # h
    BY <1>8, <1>9, <1>23, <1>24, <1>28, Sentinels
  <2>2. e # x /\ e # p[list]
    BY <2>1, <1>12
  <2> QED BY <2>1, <2>2, <1>24, <1>35, AloneIs
<1>29. \A e \in Entries : q[e] \in Heads \ G => o[e] = q[e]
  BY <1>21, <1>23, <1>24, Sentinels DEF Cells
<1>30. ASSUME NEW e \in Entries, q[e] \in G PROVE \E i \in 1 .. Len(M[q[e]]) : M[q[e]][i] = e
  <2>1. q[e] = h /\ e # list /\ e # h /\ e \in Cells /\ o[e] \in {list, h}
    BY <1>8, <1>9, <1>21, <1>23, <1>24, <1>30
  <2>2. \E i \in 1 .. l + w : d[i] = e
    <3>1. CASE o[e] = list
      <4>1. PICK i \in 1 .. w : b[i] = e
        BY <2>1, <3>1, <1>9
      <4>2. k + i \in 1 .. l + w /\ d[k + i] = b[i]
        BY <1>8, <1>9, <1>11, <1>15
      <4> QED BY <4>1, <4>2
    <3>2. CASE o[e] = h
      <4>1. PICK i \in 1 .. l : a[i] = e
        BY <2>1, <3>2, <1>8
      <4>2. CASE i <= k
        <5>1. i \in 0 .. k /\ i \in 1 .. l + w
          BY <4>2, <1>8, <1>9, <1>11
        <5> QED BY <4>1, <5>1, <1>15
      <4>3. CASE i > k
        <5>1. i \in k + 1 .. l + 1 /\ w + i \in 1 .. l + w
          BY <4>3, <1>8, <1>9, <1>11
        <5> QED BY <4>1, <5>1, <1>15
      <4> QED BY <4>2, <4>3, <1>8, <1>11
    <3> QED BY <2>1, <3>1, <3>2
  <2> QED BY <2>1, <2>2, <1>15, <1>22
<1>31. \A c \in Cells : o[c] \in Heads \ G => m[c] = n[c]
  <2> TAKE c \in Cells
  <2> SUFFICES ASSUME o[c] \in Heads \ G PROVE m[c] = n[c]
    OBVIOUS
  <2>1. c # x /\ c # p[list]
    BY <1>12, <1>21
  <2> QED BY <2>1, <1>35
<1>32. SomeChange(n, o, L, m, q, M, G)
  BY <1>22, <1>25, <1>26, <1>27, <1>28, <1>29, <1>30, <1>31 DEF SomeChange
<1>33. Laid(m, q, M)
  BY <1>21, <1>32, SomeLaid
<1> QED BY <1>1, <1>4, <1>13, <1>20, <1>33, <1>34

-----------------------------------------------------------------------------
(* Where next leads after the functions that move several entries.          *)

\* list_bulk_move_tail leads over the run last.
LEMMA BulkMovedNext ==
  ASSUME NEW n \in PointerMap, NEW p \in PointerMap, NEW h \in Cells, NEW first \in Cells,
         NEW last \in Cells, last # p[first]
  PROVE  RunToTail(n, p, h, first, last, BulkMoved(n, p, h, first, last).next)
<1> DEFINE n1 == [n EXCEPT ![p[first]] = n[last]]
           p1 == [p EXCEPT ![n1[last]] = p[first]]
           n2 == [n1 EXCEPT ![p1[h]] = first]
           n3 == [n2 EXCEPT ![last] = h]
<1>1. BulkMoved(n, p, h, first, last).next = n3
  BY MemParts DEF BulkMoved
<1>2. n1 \in [Cells -> Pointers] /\ n1[last] = n[last]
  BY DEF PointerMap
<1>3. \A c \in Cells : n1[c] = IF c = p[first] THEN n[last] ELSE n[c]
  BY DEF PointerMap
<1>4. p1[h] = IF n[last] = h THEN p[first] ELSE p[h]
  BY <1>2 DEF PointerMap
<1> HIDE DEF n1, p1
<1>5. n2 \in [Cells -> Pointers] /\ \A c \in Cells : n2[c] = IF c = p1[h] THEN first ELSE n1[c]
  BY <1>2 DEF Pointers
<1> HIDE DEF n2
<1>6. \A c \in Cells : n3[c] = IF c = last THEN h ELSE n2[c]
  BY <1>5
<1> HIDE DEF n3
<1> QED BY <1>1, <1>3, <1>4, <1>5, <1>6 DEF RunToTail

\* list_cut_position ends the run it cuts off at entry.
LEMMA CutOffNext ==
  ASSUME NEW n \in PointerMap, NEW p \in PointerMap, NEW list \in Cells, NEW h \in Cells,
         NEW entry \in Cells
  PROVE  RunCut(n, list, h, entry, CutOff(n, p, list, h, entry).next)
<1> DEFINE n1 == [n EXCEPT ![list] = n[h]]
           n2 == [n1 EXCEPT ![entry] = list]
           n3 == [n2 EXCEPT ![h] = n[entry]]
<1>1. CutOff(n, p, list, h, entry).next = n3
  BY MemParts DEF CutOff
<1>2. n1 \in [Cells -> Pointers] /\ \A c \in Cells : n1[c] = IF c = list THEN n[h] ELSE n[c]
  BY DEF PointerMap
<1> HIDE DEF n1
<1>3. n2 \in [Cells -> Pointers] /\ \A c \in Cells : n2[c] = IF c = entry THEN list ELSE n1[c]
  BY <1>2 DEF Pointers
<1> HIDE DEF n2
<1>4. \A c \in Cells : n3[c] = IF c = h THEN n[entry] ELSE n2[c]
  BY <1>3
<1> HIDE DEF n3
<1> QED BY <1>1, <1>2, <1>3, <1>4 DEF RunCut

\* list_cut_before ends it at the cell before entry.
LEMMA CutOffBeforeNext ==
  ASSUME NEW n \in PointerMap, NEW p \in PointerMap, NEW list \in Cells, NEW h \in Cells,
         NEW entry \in Cells, n[h] # entry, n[p[entry]] = entry
  PROVE  RunCut(n, list, h, p[entry], CutOffBefore(n, p, list, h, entry).next)
<1> DEFINE n1 == [n EXCEPT ![list] = n[h]]
           p1 == [p EXCEPT ![n1[list]] = list]
           p2 == [p1 EXCEPT ![list] = p1[entry]]
           n2 == [n1 EXCEPT ![p2[list]] = list]
           n3 == [n2 EXCEPT ![h] = entry]
<1>1. CutOffBefore(n, p, list, h, entry).next = n3
  BY MemParts DEF CutOffBefore
<1>2. n1 \in [Cells -> Pointers] /\ \A c \in Cells : n1[c] = IF c = list THEN n[h] ELSE n[c]
  BY DEF PointerMap
<1>3. n1[list] = n[h]
  BY <1>2
<1> HIDE DEF n1
<1>4. p1[entry] = p[entry] /\ list \in DOMAIN p1
  BY <1>3 DEF PointerMap
<1> HIDE DEF p1
<1>5. p2[list] = p[entry]
  BY <1>4
<1> HIDE DEF p2
<1>6. n2 \in [Cells -> Pointers] /\ \A c \in Cells : n2[c] = IF c = p[entry] THEN list ELSE n1[c]
  BY <1>2, <1>5 DEF Pointers
<1> HIDE DEF n2
<1>7. \A c \in Cells : n3[c] = IF c = h THEN entry ELSE n2[c]
  BY <1>6
<1> HIDE DEF n3
<1> QED BY <1>1, <1>2, <1>6, <1>7 DEF RunCut

\* __list_splice leads over the entries of list behind prev.
LEMMA JoinedNext ==
  ASSUME NEW n \in PointerMap, NEW p \in PointerMap, NEW list \in Cells, NEW prev \in Cells
  PROVE  RunJoined(n, p, list, prev, Joined(n, p, list, prev, n[prev]).next)
<1> DEFINE n1 == [n EXCEPT ![prev] = n[list]]
           n2 == [n1 EXCEPT ![p[list]] = n[prev]]
<1>1. Joined(n, p, list, prev, n[prev]).next = n2
  BY MemParts DEF Joined
<1>2. n1 \in [Cells -> Pointers] /\ \A c \in Cells : n1[c] = IF c = prev THEN n[list] ELSE n[c]
  BY DEF PointerMap
<1> HIDE DEF n1
<1>3. \A c \in Cells : n2[c] = IF c = p[list] THEN n[prev] ELSE n1[c]
  BY <1>2
<1> HIDE DEF n2
<1> QED BY <1>1, <1>2, <1>3 DEF RunJoined

\* The head h is taken out and put before the entry.
LEMMA HeadMovedNext ==
  ASSUME NEW n, NEW p, NEW o, Sound(n, p, o), NEW h \in Cells, NEW entry \in Cells,
         h # entry, o[h] # NoList, o[entry] # NoList
  PROVE  HeadMoved(n, p, h, entry, list_move_tail(Mem(n, p), h, entry).next)
<1>1. PICK n1 : n1 = [n EXCEPT ![p[h]] = n[h]]
  OBVIOUS
<1>2. PICK p1 : p1 = [p EXCEPT ![n[h]] = p[h]]
  OBVIOUS
<1>3. PICK z : z = IF entry = n[h] THEN p[h] ELSE p[entry]
  OBVIOUS
<1>4. UnlinkEntry(Mem(n, p), h) = Mem(n1, p1)
  <2>1. UnlinkEntry(Mem(n, p), h) = Mem([n EXCEPT ![p[h]] = n[h]], [p EXCEPT ![n[h]] = p[h]])
    BY UnlinkIs
  <2> QED BY <2>1, <1>1, <1>2
<1>5. n \in PointerMap /\ p \in PointerMap /\ p[h] \in Cells /\ n[h] \in Cells
  BY DEF Sound, SoundAt
<1>6. p1[entry] = z
  BY <1>2, <1>3, <1>5 DEF PointerMap
<1>7. list_move_tail(Mem(n, p), h, entry) = Link(Mem(n1, p1), h, z, entry)
  BY <1>4, <1>6, MemParts DEF list_move_tail, list_add_tail
<1>8. PICK n2 : n2 = [n1 EXCEPT ![h] = entry]
  OBVIOUS
<1>9. PICK n3 : n3 = [n2 EXCEPT ![z] = h]
  OBVIOUS
<1>10. Link(Mem(n1, p1), h, z, entry).next = n3
  <2>1. PICK q : q = [p1 EXCEPT ![entry] = h, ![h] = z]
    OBVIOUS
  <2>2. Link(Mem(n1, p1), h, z, entry) =
          Mem([n1 EXCEPT ![h] = entry, ![z] = h], [p1 EXCEPT ![entry] = h, ![h] = z])
    BY LinkIs
  <2>3. [n1 EXCEPT ![h] = entry, ![z] = h] = n3
    BY <1>8, <1>9
  <2>4. Link(Mem(n1, p1), h, z, entry) = Mem(n3, q)
    BY <2>1, <2>2, <2>3
  <2> QED BY <2>4, MemParts
<1>11. n1 \in [Cells -> Pointers] /\ \A c \in Cells : n1[c] = IF c = p[h] THEN n[h] ELSE n[c]
  BY <1>1, <1>5 DEF PointerMap
<1>12. n2 \in [Cells -> Pointers] /\ \A c \in Cells : n2[c] = IF c = h THEN entry ELSE n1[c]
  BY <1>8, <1>11 DEF Pointers
<1>13. \A c \in Cells : n3[c] = IF c = z THEN h ELSE n2[c]
  BY <1>9, <1>12
<1>14. \A c \in Cells : n3[c] = IF c = z THEN h ELSE IF c = h THEN entry
                                ELSE IF c = p[h] THEN n[h] ELSE n[c]
  BY <1>11, <1>12, <1>13
<1> QED BY <1>3, <1>7, <1>10, <1>14 DEF HeadMoved

-----------------------------------------------------------------------------
(* What each function does to the lists.                                    *)

\* INIT_LIST_HEAD of a cell that may be overwritten changes no list.
LEMMA InitLeavesLists ==
  ASSUME NEW L, Holds(heap, on, L), NEW c \in Cells, InitListHead(c)
  PROVE  Holds(heap', on', L)
<1>1. on \in ListMap /\ Isolated(heap.next, on, c) /\ on[c] \in {c, NoList}
  BY DEF Holds, Ok, Sound, InitListHead, Free, Isolated, list_empty
<1>2. Holds(INIT_LIST_HEAD(heap, c), [on EXCEPT ![c] = c], L)
  BY <1>1, HoldsInit
<1>3. heap' = INIT_LIST_HEAD(heap, c) /\ on' = [on EXCEPT ![c] = c]
  BY <1>1, PutIs DEF InitListHead
<1> QED BY <1>2, <1>3

\* The three ways to delete take the entry out of its list.
LEMMA DelTakesOut ==
  ASSUME NEW L, Holds(heap, on, L), NEW e \in Entries,
         ListDel(e) \/ ListDelInit(e) \/ ListDelClearprev(e)
  PROVE  Holds(heap', on', Abstract!Without(L, e))
<1>1. PICK M : M = Abstract!Without(L, e)
  OBVIOUS
<1>2. PICK G : G = UnlinkEntry(heap, e)
  OBVIOUS
<1>3. PICK r : r = [on EXCEPT ![e] = NoList]
  OBVIOUS
<1>4. on \in ListMap /\ e \in Cells /\ on[e] # NoList
  BY DEF Holds, Ok, Sound, Cells, ListDel, ListDelInit, ListDelClearprev, Linked
<1>5. Holds(G, r, M)
  BY <1>1, <1>2, <1>3, <1>4, HoldsUnlink
<1>6. r[e] = NoList /\ [r EXCEPT ![e] = e] = [on EXCEPT ![e] = e]
      /\ Put({e}, NoList) = r /\ Put({e}, e) = [on EXCEPT ![e] = e]
  BY <1>3, <1>4, PutIs DEF ListMap
<1>7. NULL \in Pointers /\ POISON1 \in Pointers /\ POISON2 \in Pointers
  BY DEF Pointers
<1>8. CASE ListDel(e)
  <2>1. heap' = SetPrev(SetNext(G, e, POISON1), e, POISON2) /\ on' = r
    BY <1>2, <1>6, <1>8 DEF ListDel, list_del
  <2>2. Holds(SetPrev(SetNext(G, e, POISON1), e, POISON2), r, M)
    BY <1>4, <1>5, <1>6, <1>7, HoldsOverwrite
  <2> QED BY <1>1, <2>1, <2>2
<1>9. CASE ListDelInit(e)
  <2>1. heap' = INIT_LIST_HEAD(G, e) /\ on' = [r EXCEPT ![e] = e]
    BY <1>2, <1>6, <1>9 DEF ListDelInit, list_del_init
  <2>2. Isolated(G.next, r, e)
    BY <1>6 DEF Isolated
  <2>3. Holds(INIT_LIST_HEAD(G, e), [r EXCEPT ![e] = e], M)
    BY <1>4, <1>5, <1>6, <2>2, HoldsInit
  <2> QED BY <1>1, <2>1, <2>3
<1>10. CASE ListDelClearprev(e)
  <2>1. heap' = SetPrev(G, e, NULL) /\ on' = r
    BY <1>2, <1>6, <1>10 DEF ListDelClearprev, list_del_clearprev
  <2>2. Holds(SetPrev(G, e, NULL), r, M)
    BY <1>4, <1>5, <1>6, <1>7, HoldsOverwrite
  <2> QED BY <1>1, <2>1, <2>2
<1> QED BY <1>8, <1>9, <1>10

\* list_add and list_add_tail put an entry in.
LEMMA AddPutsIn ==
  ASSUME NEW L, Holds(heap, on, L), NEW e \in Entries, NEW head \in Cells
  PROVE  /\ ListAdd(e, head) => Holds(heap', on', Abstract!Behind(L, head, <<e>>))
         /\ ListAddTail(e, head) => Holds(heap', on', Abstract!InFront(L, head, <<e>>))
<1>1. SUFFICES ASSUME Free(e), Position(head)
               PROVE  /\ Holds(list_add(heap, e, head), Put({e}, on[head]),
                               Abstract!Behind(L, head, <<e>>))
                      /\ Holds(list_add_tail(heap, e, head), Put({e}, on[head]),
                               Abstract!InFront(L, head, <<e>>))
  BY DEF ListAdd, ListAddTail
<1>2. /\ on \in ListMap /\ e \in Cells /\ on[head] \in Heads
      /\ Isolated(heap.next, on, e) /\ on[e] \in {e, NoList}
  BY <1>1 DEF Holds, Ok, Sound, Cells, Free, Position, Isolated, list_empty
<1>3. Put({e}, on[head]) = [on EXCEPT ![e] = on[head]]
  <2>1. on[head] \in Cells \cup {NoList}
    BY <1>2 DEF Cells
  <2> QED BY <1>2, <2>1, PutIs
<1> QED BY <1>2, <1>3, HoldsAdd

\* list_move and list_move_tail take an entry out and put it in.
LEMMA MovePutsElsewhere ==
  ASSUME NEW L, Holds(heap, on, L), NEW e \in Entries, NEW head \in Cells
  PROVE  /\ ListMove(e, head) =>
              Holds(heap', on', Abstract!Behind(Abstract!Without(L, e), head, <<e>>))
         /\ ListMoveTail(e, head) =>
              Holds(heap', on', Abstract!InFront(Abstract!Without(L, e), head, <<e>>))
<1>1. SUFFICES ASSUME e # head, Linked(e), Position(head)
               PROVE  /\ Holds(list_move(heap, e, head), Put({e}, on[head]),
                               Abstract!Behind(Abstract!Without(L, e), head, <<e>>))
                      /\ Holds(list_move_tail(heap, e, head), Put({e}, on[head]),
                               Abstract!InFront(Abstract!Without(L, e), head, <<e>>))
  BY DEF ListMove, ListMoveTail
<1>2. on \in ListMap /\ e \in Cells /\ on[head] \in Heads /\ on[e] # NoList
  BY <1>1 DEF Holds, Ok, Sound, Cells, Linked, Position
<1>3. Put({e}, on[head]) = [on EXCEPT ![e] = on[head]]
  <2>1. on[head] \in Cells \cup {NoList}
    BY <1>2 DEF Cells
  <2> QED BY <1>2, <2>1, PutIs
<1> QED BY <1>1, <1>2, <1>3, HoldsMove

\* list_replace keeps the heap well linked, and so does initialising old after it.
LEMMA RenameKeeps ==
  ASSUME Ok(heap, on), NEW old \in Cells, NEW new \in Cells,
         old # new, on[old] # NoList, Isolated(heap.next, on, new)
  PROVE  /\ Ok(list_replace(heap, old, new), Renamed(old, new, NoList))
         /\ Renamed(old, new, NoList) \in ListMap
         /\ Renamed(old, new, NoList)[old] = NoList
         /\ [Renamed(old, new, NoList) EXCEPT ![old] = old] = Renamed(old, new, old)
<1> DEFINE G == list_replace(heap, old, new)
           r == [on EXCEPT ![new] = on[old], ![old] = NoList]
           t == Renamed(old, new, NoList)
<1>1. on \in ListMap
  BY DEF Ok, Sound
<1>2. Ok(G, r)
  BY <1>1, OkReplace
<1>3. t \in ListMap /\ t[old] = NoList
  BY <1>1 DEF Renamed, ListMap
<1>4. /\ \A c \in Cells : t[c] # NoList => r[c] # NoList
      /\ \A c, d \in Cells : r[c] = r[d] => t[c] = t[d]
  BY <1>1, Sentinels DEF Renamed, ListMap
<1>6. [t EXCEPT ![old] = old] = Renamed(old, new, old)
  BY <1>1 DEF Renamed, ListMap
<1> HIDE DEF G, r, t
<1>5. Ok(G, t)
  BY <1>2, <1>3, <1>4, RelabelSound DEF Ok
<1> QED BY <1>3, <1>5, <1>6 DEF G, t

\* An entry that is on no list is in none.
LEMMA MetNowhere ==
  ASSUME NEW n, NEW p, NEW o, Sound(n, p, o), NEW L, Laid(n, o, L),
         NEW c \in Entries, o[c] \notin Heads, NEW f, \A d \in Cells : d # c => f[d] = d
  PROVE  Abstract!Renaming(L, f) = L
<1>1. ASSUME NEW h \in Cells PROVE [i \in DOMAIN L[h] |-> f[L[h][i]]] = L[h]
  <2>1. L[h] \in Seq(Entries)
    BY DEF Laid
  <2>2. ASSUME NEW i \in DOMAIN L[h] PROVE f[L[h][i]] = L[h][i]
    <3>1. i \in 1 .. Len(L[h]) /\ L[h] # <<>> /\ L[h][i] \in Entries
      BY <2>1
    <3>2. h \in Heads /\ o[h] = h
      BY <3>1 DEF Laid, Cells
    <3>3. Ringed(n, p, o, Stops(h, L[h]), h, L[h])
      BY <3>2, LaidRings
    <3>4. o[L[h][i]] = h
      BY <3>1, <3>3 DEF Ringed, AreStops
    <3>5. L[h][i] # c
      BY <3>2, <3>4
    <3> QED BY <3>1, <3>5 DEF Cells
  <2> QED BY <2>1, <2>2
<1>2. L = [h \in Cells |-> L[h]]
  BY DEF Laid
<1> QED BY <1>1, <1>2 DEF Abstract!Renaming

\* What Replace says.
InPlace(L, old, new) ==
  IF Abstract!HeadOf(L, old) = old
  THEN [L EXCEPT ![new] = L[old], ![old] = <<>>]
  ELSE Abstract!Renaming(L, [c \in Cells |-> IF c = old THEN new ELSE c])

\* An entry that replaces an entry takes its place.
LEMMA ReplaceEntryHolds ==
  ASSUME NEW L, Holds(heap, on, L), NEW old \in Entries, NEW new \in Entries,
         old # new, Linked(old), Free(new)
  PROVE  Holds(list_replace(heap, old, new), Renamed(old, new, NoList), InPlace(L, old, new))
<1>1. PICK n : n = heap.next
  OBVIOUS
<1>2. PICK p : p = heap.prev
  OBVIOUS
<1>3. PICK f : f = [c \in Cells |-> IF c = old THEN new ELSE c]
  OBVIOUS
<1>4. /\ Ok(heap, on) /\ heap = Mem(n, p) /\ Sound(n, p, on) /\ Laid(n, on, L)
      /\ on \in ListMap /\ old \in Cells /\ new \in Cells /\ on[old] # NoList
      /\ Isolated(n, on, new) /\ (on[new] = NoList \/ (on[new] = new /\ n[new] = new))
  BY <1>1, <1>2 DEF Holds, Ok, Sound, Cells, Linked, Free, Isolated, list_empty
<1>5. PICK G : G = list_replace(heap, old, new)
  OBVIOUS
<1>6. PICK t : t = Renamed(old, new, NoList)
  OBVIOUS
<1>7. Ok(G, t)
  BY <1>1, <1>4, <1>5, <1>6, RenameKeeps
<1>8. G.next = Replaced(n, p, old, new).next
  <2>1. list_replace(Mem(n, p), old, new) = Replaced(n, p, old, new)
    BY ReplaceIs
  <2> QED BY <2>1, <1>4, <1>5
<1>9. /\ \A e \in Entries : e \in Cells /\ e \notin Heads /\ on[e] \in Heads \cup {e, NoList}
      /\ \A g \in Heads : g \in Cells /\ g \notin Entries /\ on[g] \in {g, NoList}
  BY <1>4, Sentinels DEF Laid, Cells
<1>10. t = [c \in Cells |-> IF c = old THEN NoList
                            ELSE IF c = new THEN IF on[old] = old THEN new ELSE on[old]
                            ELSE on[c]]
  <2>1. \A c \in Cells : c # old /\ c # new /\ on[c] = on[old] =>
           (IF on[old] = old THEN new ELSE on[old]) = on[c]
    <3> SUFFICES ASSUME NEW c \in Cells, c # old, c # new, on[c] = on[old], on[old] = old
                 PROVE  FALSE
      OBVIOUS
    <3>1. old # NoList /\ old \notin Heads /\ on[c] = old
      BY <1>4, Sentinels
    <3> QED BY <3>1, <1>9 DEF Cells
  <2> QED BY <2>1, <1>6 DEF Renamed
<1>11. Laid(G.next, t, Abstract!Renaming(L, f))
  BY <1>3, <1>4, <1>8, <1>10, ReplaceEntryLaid
<1>12. InPlace(L, old, new) = Abstract!Renaming(L, f)
  <2>1. Abstract!HeadOf(L, old) = IF on[old] \in Heads THEN on[old] ELSE old
    BY <1>4, HeadIs
  <2>2. CASE on[old] \in Heads
    <3>1. Abstract!HeadOf(L, old) # old
      BY <2>1, <2>2, <1>9
    <3> QED BY <3>1, <1>3 DEF InPlace
  <2>3. CASE on[old] \notin Heads
    <3>1. L \in [Cells -> Seq(Entries)] /\ L[old] = <<>> /\ L[new] = <<>>
      BY <1>4 DEF Laid
    <3>2. [L EXCEPT ![new] = L[old], ![old] = <<>>] = L
      BY <3>1, <1>4
    <3>3. InPlace(L, old, new) = L
      BY <2>1, <2>3, <3>2 DEF InPlace
    <3>4. \A d \in Cells : d # old => f[d] = d
      BY <1>3
    <3>5. Abstract!Renaming(L, f) = L
      BY <2>3, <3>4, <1>4, MetNowhere
    <3> QED BY <3>3, <3>5
  <2> QED BY <2>2, <2>3
<1>13. PICK M : M = InPlace(L, old, new)
  OBVIOUS
<1>14. Holds(G, t, M)
  BY <1>7, <1>11, <1>12, <1>13 DEF Holds
<1> QED BY <1>5, <1>6, <1>13, <1>14

\* A head that replaces a head gets its entries.
LEMMA ReplaceHeadHolds ==
  ASSUME NEW L, Holds(heap, on, L), NEW old \in Heads, NEW new \in Heads,
         old # new, Linked(old), Free(new)
  PROVE  Holds(list_replace(heap, old, new), Renamed(old, new, NoList), InPlace(L, old, new))
<1>1. PICK n : n = heap.next
  OBVIOUS
<1>2. PICK p : p = heap.prev
  OBVIOUS
<1>4. /\ Ok(heap, on) /\ heap = Mem(n, p) /\ Sound(n, p, on) /\ Laid(n, on, L)
      /\ on \in ListMap /\ old \in Cells /\ new \in Cells /\ on[old] # NoList
      /\ Isolated(n, on, new) /\ (on[new] = NoList \/ (on[new] = new /\ n[new] = new))
  BY <1>1, <1>2 DEF Holds, Ok, Sound, Cells, Linked, Free, Isolated, list_empty
<1>5. PICK G : G = list_replace(heap, old, new)
  OBVIOUS
<1>6. PICK t : t = Renamed(old, new, NoList)
  OBVIOUS
<1>7. Ok(G, t)
  BY <1>1, <1>4, <1>5, <1>6, RenameKeeps
<1>8. G.next = Replaced(n, p, old, new).next
  <2>1. list_replace(Mem(n, p), old, new) = Replaced(n, p, old, new)
    BY ReplaceIs
  <2> QED BY <2>1, <1>4, <1>5
<1>9. on[old] = old
  BY <1>4 DEF Laid
<1>10. t = [c \in Cells |-> IF c = old THEN NoList
                            ELSE IF c = new \/ on[c] = old THEN new ELSE on[c]]
  BY <1>6, <1>9 DEF Renamed
<1>11. Laid(G.next, t, [L EXCEPT ![new] = L[old], ![old] = <<>>])
  BY <1>4, <1>8, <1>9, <1>10, ReplaceHeadLaid
<1>12. Abstract!HeadOf(L, old) = old
  BY <1>4, <1>9, HeadIs
<1>13. PICK M : M = InPlace(L, old, new)
  OBVIOUS
<1>14. Holds(G, t, M)
  BY <1>7, <1>11, <1>12, <1>13 DEF Holds, InPlace
<1> QED BY <1>5, <1>6, <1>13, <1>14

\* So it is with list_replace and list_replace_init.
LEMMA ReplaceKeepsPlaces ==
  ASSUME NEW L, Holds(heap, on, L), NEW S \in {Entries, Heads}, NEW old \in S, NEW new \in S,
         ListReplace(old, new) \/ ListReplaceInit(old, new)
  PROVE  Holds(heap', on', InPlace(L, old, new))
<1>1. /\ old # new /\ Linked(old) /\ Free(new) /\ Ok(heap, on)
      /\ old \in Cells /\ new \in Cells
  BY DEF ListReplace, ListReplaceInit, Holds, Cells
<1>2. PICK G : G = list_replace(heap, old, new)
  OBVIOUS
<1>3. PICK t : t = Renamed(old, new, NoList)
  OBVIOUS
<1>4. PICK M : M = InPlace(L, old, new)
  OBVIOUS
<1>5. Holds(G, t, M)
  BY <1>1, <1>2, <1>3, <1>4, ReplaceEntryHolds, ReplaceHeadHolds
<1>6. t[old] = NoList /\ [t EXCEPT ![old] = old] = Renamed(old, new, old)
  <2>1. on[old] # NoList /\ Isolated(heap.next, on, new)
    BY <1>1 DEF Linked, Free, Isolated, list_empty
  <2> QED BY <2>1, <1>1, <1>3, RenameKeeps
<1>7. CASE ListReplace(old, new)
  <2>1. heap' = G /\ on' = t
    BY <1>2, <1>3, <1>7 DEF ListReplace
  <2> QED BY <2>1, <1>4, <1>5
<1>8. CASE ListReplaceInit(old, new)
  <2>1. heap' = INIT_LIST_HEAD(G, old) /\ on' = [t EXCEPT ![old] = old]
    BY <1>2, <1>6, <1>8 DEF ListReplaceInit
  <2>2. Isolated(G.next, t, old)
    BY <1>6 DEF Isolated
  <2>3. Holds(INIT_LIST_HEAD(G, old), [t EXCEPT ![old] = old], M)
    BY <1>1, <1>5, <1>6, <2>2, HoldsInit
  <2> QED BY <2>1, <2>3, <1>4
<1> QED BY <1>7, <1>8

\* list_swap puts either entry in the place of the other.
LEMMA SwapKeepsPlaces ==
  ASSUME NEW L, Holds(heap, on, L), NEW entry1 \in Entries, NEW entry2 \in Entries,
         ListSwap(entry1, entry2)
  PROVE  Holds(heap', on', Abstract!Renaming(L, [c \in Cells |-> IF c = entry1 THEN entry2
                                                              ELSE IF c = entry2 THEN entry1
                                                              ELSE c]))
<1>1. PICK f : f = [c \in Cells |-> IF c = entry1 THEN entry2
                                    ELSE IF c = entry2 THEN entry1 ELSE c]
  OBVIOUS
<1>2. PICK q : q = [on EXCEPT ![entry1] = on[entry2], ![entry2] = on[entry1]]
  OBVIOUS
<1>3. /\ Ok(heap, on) /\ Laid(heap.next, on, L) /\ entry1 # entry2
      /\ on[entry1] \in Heads /\ on[entry2] \in Heads /\ heap.next[entry2] # entry2
      /\ heap' = list_swap(heap, entry1, entry2, POISON1, POISON2) /\ on' = q
  BY <1>2 DEF Holds, ListSwap, Position, list_empty
<1>4. Laid(list_swap(heap, entry1, entry2, POISON1, POISON2).next, q, Abstract!Renaming(L, f))
  BY <1>1, <1>2, <1>3, SwapLaid
<1>5. Ok(heap', on')
  BY <1>3, SwapKeeps
<1>6. Holds(heap', on', Abstract!Renaming(L, f))
  BY <1>3, <1>4, <1>5 DEF Holds
<1> QED BY <1>1, <1>6

\* The first of a sequence, taken out and put behind the last.
LEMMA FirstToLast ==
  ASSUME NEW s \in Seq(Entries), s # <<>>
  PROVE  \E t : /\ t = Abstract!Take(s, 0) \o Abstract!Drop(s, 1)
                /\ Abstract!Take(t, Len(t)) \o <<s[1]>> \o Abstract!Drop(t, Len(t))
                     = Tail(s) \o <<s[1]>>
<1>1. PICK u : u = Tail(s)
  OBVIOUS
<1>2. u \in Seq(Entries) /\ s[1] \in Entries /\ Len(u) \in Nat
  BY <1>1, HeadTailProperties
<1>3. Abstract!Take(s, 0) = <<>>
  <2>1. SubSeq(s, 1, 0) = <<>>
    BY SubSeqEmpty
  <2> QED BY <2>1 DEF Abstract!Take
<1>4. Abstract!Drop(s, 1) = u
  <2>1. Tail(s) = SubSeq(s, 2, Len(s)) /\ 1 + 1 = 2
    BY TailIsSubSeq
  <2> QED BY <2>1, <1>1 DEF Abstract!Drop
<1>5. Abstract!Take(s, 0) \o Abstract!Drop(s, 1) = u
  BY <1>2, <1>3, <1>4, ConcatEmptySeq
<1>6. Abstract!Take(u, Len(u)) = u
  <2>1. SubSeq(u, 1, Len(u)) = u
    BY <1>2, SubSeqFull
  <2> QED BY <2>1 DEF Abstract!Take
<1>7. Abstract!Drop(u, Len(u)) = <<>>
  <2>1. Len(u) + 1 \in Int /\ Len(u) \in Int /\ Len(u) < Len(u) + 1
    BY <1>2
  <2>2. SubSeq(u, Len(u) + 1, Len(u)) = <<>>
    BY <2>1, SubSeqEmpty
  <2> QED BY <2>2 DEF Abstract!Drop
<1>8. PICK r : r = <<s[1]>>
  OBVIOUS
<1>9. r \in Seq(Entries)
  BY <1>2, <1>8
<1>10. u \o r \o <<>> = u \o r
  <2>1. u \o r \in Seq(Entries)
    BY <1>2, <1>9, ConcatProperties
  <2> QED BY <2>1, ConcatEmptySeq
<1> QED BY <1>1, <1>5, <1>6, <1>7, <1>8, <1>10

\* What RotateLeft says.
FirstLast(L, head) ==
  IF L[head] = <<>> THEN L ELSE [L EXCEPT ![head] = Tail(@) \o <<@[1]>>]

\* list_rotate_left makes the first entry the last.
LEMMA RotateLeftTurns ==
  ASSUME NEW L, Holds(heap, on, L), NEW head \in Heads, ListRotateLeft(head)
  PROVE  Holds(heap', on', FirstLast(L, head))
<1>1. PICK n : n = heap.next
  OBVIOUS
<1>2. PICK p : p = heap.prev
  OBVIOUS
<1>3. PICK s : s = L[head]
  OBVIOUS
<1>4. PICK a : a = Stops(head, s)
  OBVIOUS
<1>5. /\ Ok(heap, on) /\ heap = Mem(n, p) /\ Sound(n, p, on) /\ Laid(n, on, L) /\ on \in ListMap
      /\ on[head] = head /\ heap' = list_rotate_left(heap, head) /\ on' = on
      /\ head \in Cells /\ head \notin Entries
  BY <1>1, <1>2, Sentinels DEF Holds, Ok, Sound, ListRotateLeft, Cells
<1>6. n[head] = head <=> s = <<>>
  BY <1>3, <1>5, EmptyIs
<1>7. CASE s = <<>>
  <2>1. heap' = heap
    BY <1>1, <1>5, <1>6, <1>7 DEF list_rotate_left, list_empty
  <2> QED BY <2>1, <1>3, <1>5, <1>7 DEF FirstLast
<1>8. CASE s # <<>>
  <2>1. PICK e : e = n[head]
    OBVIOUS
  <2>2. Ringed(n, p, on, a, head, s)
    BY <1>3, <1>4, <1>5, LaidRings
  <2>3. s \in Seq(Entries) /\ 1 \in 1 .. Len(s)
    BY <2>2, <1>8 DEF Ringed
  <2>4. e = s[1] /\ e \in Entries /\ on[e] = head /\ e # head
    <3>1. 0 \in 0 .. Len(s) /\ 1 \in 0 .. Len(s) + 1 /\ 0 + 1 = 1
      BY <2>3
    <3>2. a[0] = head /\ a[1] = s[1]
      BY <2>2, <2>3 DEF Ringed, AreStops
    <3>3. n[a[0]] = a[0 + 1] /\ a[1] # head /\ on[a[1]] = head
      BY <2>2, <2>3, <3>1 DEF Ringed
    <3> QED BY <2>1, <2>3, <3>2, <3>3
  <2>5. heap' = list_move_tail(heap, e, head)
    BY <2>1, <1>1, <1>5, <1>6, <1>8 DEF list_rotate_left, list_empty
  <2>6. [on EXCEPT ![e] = on[head]] = on
    BY <2>4, <1>5 DEF ListMap
  <2>7. PICK M : M = Abstract!Without(L, e)
    OBVIOUS
  <2>8. head # NoList /\ on[e] # NoList /\ on[head] \in Heads
    BY <2>4, <1>5, Sentinels
  <2>9. Holds(heap', on', Abstract!InFront(M, head, <<e>>))
    BY <2>4, <2>5, <2>6, <2>7, <2>8, <1>5, HoldsMove
  <2>10. Abstract!HeadOf(L, e) = head
    BY <2>4, <1>5, HeadIs DEF Cells
  <2>11. Abstract!Place(L, e) = 1
    <3>1. Abstract!Place(L, L[head][1]) = 1
      BY <2>3, <1>3, <1>5, PlaceIs
    <3> QED BY <3>1, <2>4, <1>3
  <2>12. PICK t : t = Abstract!Take(s, 0) \o Abstract!Drop(s, 1)
    OBVIOUS
  <2>13. L \in [Cells -> Seq(Entries)]
    BY <1>5 DEF Laid
  <2>14. M = [L EXCEPT ![head] = t] /\ M[head] = t
    <3>1. 1 - 1 = 0
      OBVIOUS
    <3>2. M = [L EXCEPT ![head] = t]
      BY <2>4, <2>7, <2>10, <2>11, <2>12, <3>1, <1>3 DEF Abstract!Without
    <3> QED BY <3>2, <2>13, <1>5
  <2>15. Abstract!HeadOf(M, head) = head
    <3>1. PICK G : G = UnlinkEntry(heap, e)
      OBVIOUS
    <3>2. PICK r : r = [on EXCEPT ![e] = NoList]
      OBVIOUS
    <3>3. Holds(G, r, M)
      BY <2>4, <2>7, <2>8, <3>1, <3>2, HoldsUnlink
    <3>4. Sound(G.next, G.prev, r) /\ Laid(G.next, r, M) /\ r[head] = head
      BY <3>2, <3>3, <2>4, <1>5 DEF Holds, Ok, ListMap
    <3> QED BY <3>4, <1>5, HeadIs
  <2>16. Abstract!Before(M, head) = Len(t)
    BY <2>14, <2>15 DEF Abstract!Before
  <2>17. PICK x : x = Abstract!Take(t, Len(t)) \o <<e>> \o Abstract!Drop(t, Len(t))
    OBVIOUS
  <2>18. Abstract!InFront(M, head, <<e>>) = [M EXCEPT ![head] = x]
    BY <2>14, <2>15, <2>16, <2>17 DEF Abstract!InFront
  <2>19. x = Tail(s) \o <<s[1]>>
    <3>1. \E u : /\ u = Abstract!Take(s, 0) \o Abstract!Drop(s, 1)
                 /\ Abstract!Take(u, Len(u)) \o <<s[1]>> \o Abstract!Drop(u, Len(u))
                      = Tail(s) \o <<s[1]>>
      BY <2>3, <1>8, FirstToLast
    <3> QED BY <3>1, <2>4, <2>12, <2>17
  <2>20. [M EXCEPT ![head] = x] = [L EXCEPT ![head] = x]
    BY <2>13, <2>14
  <2>21. FirstLast(L, head) = [L EXCEPT ![head] = x]
    BY <2>19, <1>3, <1>8 DEF FirstLast
  <2> QED BY <2>9, <2>18, <2>20, <2>21
<1> QED BY <1>7, <1>8

\* list_rotate_to_front makes the entry the first, and keeps the order of the ring.
LEMMA RotateToFrontTurns ==
  ASSUME NEW L, Holds(heap, on, L), NEW entry \in Entries, NEW head \in Heads,
         ListRotateToFront(entry, head), NEW k, k = Abstract!Place(L, entry) - 1
  PROVE  Holds(heap', on', [L EXCEPT ![head] = Abstract!Drop(@, k) \o Abstract!Take(@, k)])
<1>1. PICK n : n = heap.next
  OBVIOUS
<1>2. PICK p : p = heap.prev
  OBVIOUS
<1>3. /\ Ok(heap, on) /\ heap = Mem(n, p) /\ Sound(n, p, on) /\ Laid(n, on, L)
      /\ on[head] = head /\ on[entry] = head /\ entry # head /\ head # NoList
      /\ heap' = list_move_tail(Mem(n, p), head, entry) /\ on' = on
      /\ head \in Cells /\ entry \in Cells
  BY <1>1, <1>2, Sentinels DEF Holds, Ok, ListRotateToFront, list_rotate_to_front, Cells
<1>5. PICK m : m = list_move_tail(Mem(n, p), head, entry).next
  OBVIOUS
<1>6. HeadMoved(n, p, head, entry, m)
  BY <1>3, <1>5, HeadMovedNext
<1>7. PICK i : i = Abstract!Place(L, entry)
  OBVIOUS
<1>8. Laid(m, on, [L EXCEPT ![head] = Abstract!Drop(L[head], i - 1)
                                       \o Abstract!Take(L[head], i - 1)])
  BY <1>3, <1>6, <1>7, RotateFrontLaid
<1>9. Ok(heap', on')
  BY RotateKeeps DEF Holds
<1> QED BY <1>3, <1>5, <1>7, <1>8, <1>9 DEF Holds

\* list_bulk_move_tail puts the run behind the others.
LEMMA BulkMoveGoesToTail ==
  ASSUME NEW L, Holds(heap, on, L), NEW head \in Heads, NEW first \in Entries,
         NEW last \in Entries, ListBulkMoveTail(head, first, last),
         NEW i, i = Abstract!Place(L, first), NEW j, j = Abstract!Place(L, last)
  PROVE  Holds(heap', on', [L EXCEPT ![head] = Abstract!Take(L[head], i - 1)
                                                 \o Abstract!Drop(L[head], j)
                                                 \o SubSeq(L[head], i, j)])
<1>1. PICK n : n = heap.next
  OBVIOUS
<1>2. PICK p : p = heap.prev
  OBVIOUS
<1>3. PICK seg \in SUBSET (Cells \ {head}) : Segment(seg, first, last)
  BY DEF ListBulkMoveTail
<1>4. /\ Ok(heap, on) /\ heap = Mem(n, p) /\ Sound(n, p, on) /\ Laid(n, on, L)
      /\ n \in PointerMap /\ p \in PointerMap
      /\ on[head] \in Heads /\ on[first] = on[head]
      /\ heap' = list_bulk_move_tail(Mem(n, p), head, first, last) /\ on' = on
      /\ head \in Cells /\ first \in Cells /\ last \in Cells /\ head \notin Entries
      /\ SegmentOf(n, p, on, seg, first, last)
  BY <1>1, <1>2, <1>3, Sentinels DEF Holds, Ok, Sound, ListBulkMoveTail, Position, Cells,
                                        Segment, SegmentOf
<1>5. on[head] = head /\ on[last] = head
  <2>1. on[head] = head
    BY <1>4, Sentinels DEF Laid, Cells
  <2> QED BY <2>1, <1>4 DEF SegmentOf
<1>6. PICK s : s = L[head]
  OBVIOUS
<1>7. PICK a : a = Stops(head, s)
  OBVIOUS
<1>8. PICK l : l = Len(s)
  OBVIOUS
<1>9. Known(n, p, on, head, s, a, l) /\ Ringed(n, p, on, a, head, s)
  <2>1. /\ Known(n, p, on, head, L[head], Stops(head, L[head]), Len(L[head]))
        /\ Ringed(n, p, on, Stops(head, L[head]), head, L[head])
    BY <1>4, <1>5, RingKnown
  <2> QED BY <2>1, <1>6, <1>7, <1>8
<1>10. PICK x \in 1 .. l : a[x] = first
  BY <1>4, <1>5, <1>9 DEF Known
<1>11. PICK y \in 1 .. l : a[y] = last
  BY <1>4, <1>5, <1>9 DEF Known
<1>12. Run(a, seg, x, y)
  <2>1. \A c \in Cells : on[c] = head /\ c # head => \E t \in 1 .. Len(s) : a[t] = c
    BY <1>8, <1>9 DEF Known
  <2>2. x \in 1 .. Len(s) /\ y \in 1 .. Len(s) /\ SegmentOf(n, p, on, seg, a[x], a[y])
    BY <1>4, <1>8, <1>10, <1>11
  <2> QED BY <2>1, <2>2, <1>9, SegmentIs
<1>13. /\ x <= y /\ first = s[x] /\ last = s[y] /\ last # p[first]
  <2>1. x <= y
    BY <1>12 DEF Run
  <2>2. first = s[x] /\ last = s[y]
    BY <1>9, <1>10, <1>11 DEF Known
  <2>3. PICK t : t = x - 1
    OBVIOUS
  <2>4. l \in Nat /\ t \in 0 .. l /\ t + 1 = x /\ y \in 0 .. l /\ t # y
    BY <2>1, <2>3, <1>9 DEF Known
  <2>5. p[a[t + 1]] = a[t]
    BY <2>4, <1>9 DEF Known
  <2>6. a[t] # a[y]
    BY <2>4, <1>9 DEF Known
  <2> QED BY <2>1, <2>2, <2>4, <2>5, <2>6, <1>10, <1>11
<1>14. i = x /\ j = y
  <2>1. x \in 1 .. Len(L[head]) /\ y \in 1 .. Len(L[head])
    BY <1>6, <1>8
  <2>2. Abstract!Place(L, L[head][x]) = x /\ Abstract!Place(L, L[head][y]) = y
    BY <2>1, <1>4, <1>5, PlaceIs
  <2> QED BY <2>2, <1>6, <1>13
<1>15. PICK m : m = BulkMoved(n, p, head, first, last).next
  OBVIOUS
<1>17. RunToTail(n, p, head, first, last, m)
  BY <1>4, <1>13, <1>15, BulkMovedNext
<1>18. Laid(m, on, [L EXCEPT ![head] = Abstract!Take(L[head], i - 1) \o Abstract!Drop(L[head], j)
                                         \o SubSeq(L[head], i, j)])
  <2>1. i \in 1 .. Len(L[head]) /\ j \in 1 .. Len(L[head]) /\ i <= j
        /\ first = L[head][i] /\ last = L[head][j]
    BY <1>6, <1>8, <1>13, <1>14
  <2>2. RunToTail(n, p, head, L[head][i], L[head][j], m)
    BY <2>1, <1>17
  <2> QED BY <2>1, <2>2, <1>4, <1>5, BulkMoveLaid
<1>19. heap'.next = m
  BY <1>4, <1>15, BulkMoveIs
<1>20. Ok(heap', on')
  BY <1>4, BulkMoveKeeps
<1> QED BY <1>4, <1>18, <1>19, <1>20 DEF Holds

\* On the list h, c is stop k and its predecessor is stop j.
StopsAt(n, p, o, L, c, h, k, j) ==
  /\ h = o[c] /\ h \in Heads /\ h \in Cells /\ o[h] = h
  /\ k \in 0 .. Len(L[h]) /\ Stops(h, L[h])[k] = c
  /\ j \in 0 .. Len(L[h]) /\ Stops(h, L[h])[j] = p[c]
  /\ p[c] \in Cells /\ n[p[c]] = c
  /\ Abstract!HeadOf(L, c) = h /\ Abstract!UpTo(L, c) = k /\ Abstract!Before(L, c) = j
  /\ k = 0 <=> c = h

\* Every cell that is on a list has its stop, and a stop before it.
LEMMA StopsSomewhere ==
  ASSUME NEW n, NEW p, NEW o, Sound(n, p, o), NEW L, Laid(n, o, L),
         NEW c \in Cells, o[c] \in Heads
  PROVE  \E k, j : StopsAt(n, p, o, L, c, o[c], k, j)
<1>1. PICK h : h = o[c]
  OBVIOUS
<1>2. h \in Heads /\ h \in Cells /\ h # NoList
  BY <1>1, Sentinels DEF Cells
<1>3. PICK k : Stands(L, o, c, k)
  BY StandsSomewhere
<1>4. PICK r : r = L[h]
  OBVIOUS
<1>5. PICK a : a = Stops(h, r)
  OBVIOUS
<1>6. o[h] = h
  <2>1. c = h \/ (o[c] \notin {c, NoList})
    BY <1>1, <1>2
  <2>2. c = h \/ r # <<>>
    BY <2>1, <1>1, <1>4 DEF Laid
  <2> QED BY <2>2, <1>1, <1>2, <1>4 DEF Laid
<1>7. Ringed(n, p, o, a, h, r)
  BY <1>2, <1>4, <1>5, <1>6, LaidRings
<1>8. PICK j : j = IF k = 0 THEN Len(r) ELSE k - 1
  OBVIOUS
<1>9. /\ k \in 0 .. Len(r) /\ a[k] = c /\ Abstract!HeadOf(L, c) = h
      /\ Abstract!UpTo(L, c) = k /\ Abstract!Before(L, c) = j /\ (k = 0 <=> c = h)
  BY <1>1, <1>3, <1>4, <1>5, <1>8 DEF Stands
<1>10. j \in 0 .. Len(r) /\ p[c] = a[j] /\ n[a[j]] = c /\ a[j] \in Cells
  <2>1. /\ j \in 0 .. Len(r) /\ (k = 0 \/ k = j + 1) /\ Len(r) \in Nat
        /\ j \in 0 .. Len(r) + 1
    BY <1>7, <1>8, <1>9 DEF Ringed, AreStops
  <2>2. a[j + 1] = c
    BY <2>1, <1>7, <1>8, <1>9 DEF Ringed, AreStops
  <2> QED BY <2>1, <2>2, <1>7 DEF Ringed
<1>11. StopsAt(n, p, o, L, c, h, k, j)
  BY <1>1, <1>2, <1>4, <1>5, <1>6, <1>9, <1>10 DEF StopsAt
<1> QED BY <1>1, <1>11

\* Nothing put into a sequence leaves it as it was, and the part before its first entry is
\* empty.
LEMMA NothingPutIn ==
  ASSUME NEW s \in Seq(Entries), NEW k \in 0 .. Len(s)
  PROVE  /\ Abstract!Take(s, k) \o <<>> \o Abstract!Drop(s, k) = s
         /\ Abstract!Take(s, 0) = <<>> /\ Abstract!Drop(s, 0) = s
<1>1. PICK t : t = Abstract!Take(s, k) \o <<>> \o Abstract!Drop(s, k)
  OBVIOUS
<1>2. PICK r : r = <<>>
  OBVIOUS
<1>3. r \in Seq(Entries) /\ Len(r) = 0 /\ Len(s) \in Nat
  BY <1>2
<1>4. t = Abstract!Take(s, k) \o r \o Abstract!Drop(s, k)
  BY <1>1, <1>2
<1>5. t \in Seq(Entries) /\ Pieces(t, s, r, k)
  BY <1>3, <1>4, PiecesAre
<1>6. Len(t) = Len(s) /\ \A i \in 1 .. Len(t) : t[i] = s[i]
  BY <1>3, <1>5 DEF Pieces
<1>7. t = s
  BY <1>5, <1>6, SeqEqual
<1>8. SubSeq(s, 1, 0) = <<>>
  BY SubSeqEmpty
<1>9. SubSeq(s, 0 + 1, Len(s)) = s
  <2>1. 0 + 1 = 1
    OBVIOUS
  <2> QED BY <2>1, SubSeqFull
<1> QED BY <1>1, <1>7, <1>8, <1>9 DEF Abstract!Take, Abstract!Drop

\* Splicing an empty list changes no list.
LEMMA NothingToSplice ==
  ASSUME NEW L, Holds(heap, on, L), NEW list \in Heads, NEW head \in Cells,
         on[list] = list, Position(head), list_empty(heap, list)
  PROVE  /\ Spliced(list, head, list) = on
         /\ Abstract!Emptied(Abstract!Behind(L, head, L[list]), list) = L
         /\ Abstract!Emptied(Abstract!InFront(L, head, L[list]), list) = L
<1>1. PICK n : n = heap.next
  OBVIOUS
<1>2. PICK p : p = heap.prev
  OBVIOUS
<1>3. /\ Sound(n, p, on) /\ Laid(n, on, L) /\ on \in ListMap /\ n[list] = list
      /\ on[head] \in Heads /\ list \in Cells /\ list # NoList
  BY <1>1, <1>2, Sentinels DEF Holds, Ok, Sound, list_empty, Position, Cells
<1>4. L[list] = <<>> /\ L \in [Cells -> Seq(Entries)]
  <2>1. L[list] = <<>>
    BY <1>3, EmptyIs
  <2> QED BY <2>1, <1>3 DEF Laid
<1>5. \A c \in Cells : on[c] = list => c = list
  <2> SUFFICES ASSUME NEW c \in Cells, on[c] = list, c # list PROVE FALSE
    OBVIOUS
  <2>1. \E i \in 1 .. Len(L[list]) : L[list][i] = c
    BY <1>3 DEF Laid
  <2> QED BY <2>1, <1>4
<1>6. Spliced(list, head, list) = on
  BY <1>3, <1>5 DEF Spliced, ListMap
<1>7. PICK h : h = on[head]
  OBVIOUS
<1>8. PICK k, j : StopsAt(n, p, on, L, head, h, k, j)
  BY <1>3, <1>7, StopsSomewhere
<1>9. /\ h \in Cells /\ k \in 0 .. Len(L[h]) /\ j \in 0 .. Len(L[h])
      /\ Abstract!HeadOf(L, head) = h /\ Abstract!UpTo(L, head) = k
      /\ Abstract!Before(L, head) = j
  BY <1>8 DEF StopsAt
<1>10. /\ Abstract!Take(L[h], k) \o <<>> \o Abstract!Drop(L[h], k) = L[h]
       /\ Abstract!Take(L[h], j) \o <<>> \o Abstract!Drop(L[h], j) = L[h]
  BY <1>4, <1>9, NothingPutIn
<1>11. [L EXCEPT ![h] = L[h]] = L
  BY <1>4
<1>12. Abstract!Behind(L, head, L[list]) = L /\ Abstract!InFront(L, head, L[list]) = L
  BY <1>4, <1>9, <1>10, <1>11 DEF Abstract!Behind, Abstract!InFront
<1>13. Abstract!Emptied(L, list) = L
  BY <1>3, <1>4 DEF Abstract!Emptied
<1> QED BY <1>6, <1>12, <1>13

\* Splicing a list that is not empty puts its entries behind or in front of a position.
LEMMA JoinHolds ==
  ASSUME NEW L, Holds(heap, on, L), NEW list \in Heads, NEW head \in Cells,
         on[list] = list, Position(head), on[head] # list, ~list_empty(heap, list)
  PROVE  /\ Holds(list_splice(heap, list, head), Spliced(list, head, NoList),
                  Abstract!Emptied(Abstract!Behind(L, head, L[list]), list))
         /\ Holds(list_splice_tail(heap, list, head), Spliced(list, head, NoList),
                  Abstract!Emptied(Abstract!InFront(L, head, L[list]), list))
<1>1. PICK n : n = heap.next
  OBVIOUS
<1>2. PICK p : p = heap.prev
  OBVIOUS
<1>3. PICK h : h = on[head]
  OBVIOUS
<1>4. /\ heap = Mem(n, p) /\ Sound(n, p, on) /\ Laid(n, on, L) /\ n[list] # list
      /\ n \in PointerMap /\ p \in PointerMap /\ h \in Heads /\ list \in Cells
  BY <1>1, <1>2, <1>3 DEF Holds, Ok, Sound, list_empty, Position, Cells
<1>5. PICK k, j : StopsAt(n, p, on, L, head, h, k, j)
  BY <1>3, <1>4, StopsSomewhere
<1>6. /\ h \in Cells /\ k \in 0 .. Len(L[h]) /\ j \in 0 .. Len(L[h]) /\ on[h] = h /\ h # list
      /\ Stops(h, L[h])[k] = head /\ Stops(h, L[h])[j] = p[head]
      /\ p[head] \in Cells /\ n[p[head]] = head
      /\ Abstract!HeadOf(L, head) = h /\ Abstract!UpTo(L, head) = k
      /\ Abstract!Before(L, head) = j
  BY <1>3, <1>5 DEF StopsAt
<1>7. Spliced(list, head, NoList) = JoinedTo(on, list, h)
  BY <1>3 DEF Spliced, JoinedTo
<1>8. ASSUME NEW x \in Cells, NEW i \in 0 .. Len(L[h]), Stops(h, L[h])[i] = x
      PROVE  Laid(Joined(n, p, list, x, n[x]).next, JoinedTo(on, list, h),
                  [L EXCEPT ![h] = Abstract!Take(@, i) \o L[list] \o Abstract!Drop(@, i),
                            ![list] = <<>>])
  <2>1. PICK m : m = Joined(n, p, list, x, n[x]).next
    OBVIOUS
  <2>2. RunJoined(n, p, list, x, m)
    BY <2>1, <1>4, JoinedNext
  <2> QED BY <2>1, <2>2, <1>4, <1>6, <1>8, JoinLaid
<1>9. list_splice(heap, list, head).next = Joined(n, p, list, head, n[head]).next
  <2>1. list_splice(heap, list, head) = Join(Mem(n, p), list, head, n[head])
    BY <1>1, <1>4 DEF list_splice
  <2> QED BY <2>1, JoinIs
<1>10. list_splice_tail(heap, list, head).next = Joined(n, p, list, p[head], n[p[head]]).next
  <2>1. list_splice_tail(heap, list, head) = Join(Mem(n, p), list, p[head], n[p[head]])
    BY <1>2, <1>4, <1>6 DEF list_splice_tail
  <2> QED BY <2>1, JoinIs
<1>11. PICK M1 : M1 = [L EXCEPT ![h] = Abstract!Take(@, k) \o L[list] \o Abstract!Drop(@, k),
                               ![list] = <<>>]
  OBVIOUS
<1>12. PICK M2 : M2 = [L EXCEPT ![h] = Abstract!Take(@, j) \o L[list] \o Abstract!Drop(@, j),
                               ![list] = <<>>]
  OBVIOUS
<1>13. /\ Laid(list_splice(heap, list, head).next, Spliced(list, head, NoList), M1)
       /\ Laid(list_splice_tail(heap, list, head).next, Spliced(list, head, NoList), M2)
  BY <1>6, <1>7, <1>8, <1>9, <1>10, <1>11, <1>12
<1>14. /\ Ok(list_splice(heap, list, head), Spliced(list, head, NoList))
       /\ Ok(list_splice_tail(heap, list, head), Spliced(list, head, NoList))
  BY JoinKeeps DEF Holds
<1>15. L \in [Cells -> Seq(Entries)]
  BY <1>4 DEF Laid
<1>16. /\ Abstract!Emptied(Abstract!Behind(L, head, L[list]), list) = M1
       /\ Abstract!Emptied(Abstract!InFront(L, head, L[list]), list) = M2
  BY <1>6, <1>11, <1>12, <1>15 DEF Abstract!Emptied, Abstract!Behind, Abstract!InFront
<1> QED BY <1>13, <1>14, <1>16 DEF Holds

\* So do the four splice functions, and leave list empty.
LEMMA SpliceCarriesOver ==
  ASSUME NEW L, Holds(heap, on, L), NEW list \in Heads, NEW head \in Cells
  PROVE  /\ ListSplice(list, head) \/ ListSpliceInit(list, head)
              => Holds(heap', on', Abstract!Emptied(Abstract!Behind(L, head, L[list]), list))
         /\ ListSpliceTail(list, head) \/ ListSpliceTailInit(list, head)
              => Holds(heap', on', Abstract!Emptied(Abstract!InFront(L, head, L[list]), list))
<1>1. SUFFICES ASSUME on[list] = list, Position(head), on[head] # list
               PROVE  /\ ListSplice(list, head) \/ ListSpliceInit(list, head)
                           => Holds(heap', on', Abstract!Emptied(
                                                  Abstract!Behind(L, head, L[list]), list))
                      /\ ListSpliceTail(list, head) \/ ListSpliceTailInit(list, head)
                           => Holds(heap', on', Abstract!Emptied(
                                                  Abstract!InFront(L, head, L[list]), list))
  BY DEF ListSplice, ListSpliceInit, ListSpliceTail, ListSpliceTailInit
<1>2. PICK M1 : M1 = Abstract!Emptied(Abstract!Behind(L, head, L[list]), list)
  OBVIOUS
<1>3. PICK M2 : M2 = Abstract!Emptied(Abstract!InFront(L, head, L[list]), list)
  OBVIOUS
<1>4. CASE list_empty(heap, list)
  <2>1. Spliced(list, head, list) = on /\ M1 = L /\ M2 = L
    BY <1>1, <1>2, <1>3, <1>4, NothingToSplice
  <2>2. ListSplice(list, head) \/ ListSpliceInit(list, head) \/ ListSpliceTail(list, head)
          \/ ListSpliceTailInit(list, head) => heap' = heap /\ on' = on
    BY <2>1, <1>4 DEF ListSplice, ListSpliceTail, ListSpliceInit, ListSpliceTailInit,
                list_splice, list_splice_tail, list_splice_init, list_splice_tail_init
  <2> QED BY <2>1, <2>2, <1>2, <1>3
<1>5. CASE ~list_empty(heap, list)
  <2>1. PICK t : t = Spliced(list, head, NoList)
    OBVIOUS
  <2>2. /\ Holds(list_splice(heap, list, head), t, M1)
        /\ Holds(list_splice_tail(heap, list, head), t, M2)
    BY <2>1, <1>1, <1>2, <1>3, <1>5, JoinHolds
  <2>3. list \in Cells /\ on \in ListMap
    BY DEF Holds, Ok, Sound, Cells
  <2>4. t[list] = NoList /\ [t EXCEPT ![list] = list] = Spliced(list, head, list)
    BY <2>1, <2>3 DEF Spliced, ListMap
  <2>5. ASSUME NEW G, NEW M, Holds(G, t, M)
        PROVE  Holds(INIT_LIST_HEAD(G, list), Spliced(list, head, list), M)
    <3>1. Isolated(G.next, t, list)
      BY <2>4 DEF Isolated
    <3>2. Holds(INIT_LIST_HEAD(G, list), [t EXCEPT ![list] = list], M)
      BY <2>3, <2>4, <2>5, <3>1, HoldsInit
    <3> QED BY <2>4, <3>2
  <2>6. ListSplice(list, head) => heap' = list_splice(heap, list, head) /\ on' = t
    BY <2>1, <1>5 DEF ListSplice
  <2>7. ListSpliceTail(list, head) => heap' = list_splice_tail(heap, list, head) /\ on' = t
    BY <2>1, <1>5 DEF ListSpliceTail
  <2>8. ListSpliceInit(list, head) =>
          /\ heap' = INIT_LIST_HEAD(list_splice(heap, list, head), list)
          /\ on' = Spliced(list, head, list)
    BY <1>5 DEF ListSpliceInit, list_splice_init
  <2>9. ListSpliceTailInit(list, head) =>
          /\ heap' = INIT_LIST_HEAD(list_splice_tail(heap, list, head), list)
          /\ on' = Spliced(list, head, list)
    BY <1>5 DEF ListSpliceTailInit, list_splice_tail_init
  <2>10. /\ Holds(INIT_LIST_HEAD(list_splice(heap, list, head), list),
                  Spliced(list, head, list), M1)
         /\ Holds(INIT_LIST_HEAD(list_splice_tail(heap, list, head), list),
                  Spliced(list, head, list), M2)
    BY <2>2, <2>5
  <2> QED BY <2>2, <2>6, <2>7, <2>8, <2>9, <2>10, <1>2, <1>3
<1> QED BY <1>4, <1>5

\* All the entries of list are given up.
LEMMA GivenUpLaid ==
  ASSUME NEW n, NEW o \in ListMap, NEW L, Laid(n, o, L), NEW list \in Heads,
         o[list] \in {list, NoList},
         NEW r, r = [c \in Cells |-> IF c = list \/ o[c] = list THEN NoList ELSE o[c]]
  PROVE  r \in ListMap /\ Laid(n, r, [L EXCEPT ![list] = <<>>])
<1>1. PICK M : M = [L EXCEPT ![list] = <<>>]
  OBVIOUS
<1>2. /\ list \in Cells /\ list \notin Entries /\ list # NoList
      /\ \A h \in Heads : h \in Cells /\ h # NoList
      /\ \A e \in Entries : e \in Cells /\ e # list
  BY Sentinels DEF Cells
<1>3. /\ r \in ListMap /\ r[list] = NoList
      /\ \A c \in Cells : r[c] = IF c = list \/ o[c] = list THEN NoList ELSE o[c]
  BY <1>2 DEF ListMap
<1>4. /\ M \in [Cells -> Seq(Entries)] /\ M[list] = <<>>
      /\ \A c \in Cells : c # list => M[c] = L[c]
  <2>1. <<>> \in Seq(Entries)
    OBVIOUS
  <2> QED BY <2>1, <1>1, <1>2 DEF Laid
<1>5. \A h \in Heads : r[h] = h \/ (r[h] = NoList /\ M[h] = <<>>)
  <2> SUFFICES ASSUME NEW h \in Heads, h # list
               PROVE  r[h] = h \/ (r[h] = NoList /\ M[h] = <<>>)
    BY <1>3, <1>4
  <2>1. o[h] = h \/ (o[h] = NoList /\ L[h] = <<>>)
    BY DEF Laid
  <2> QED BY <2>1, <1>2, <1>3, <1>4
<1>6. \A e \in Entries : r[e] \in Heads \cup {e, NoList} /\ M[e] = <<>>
  <2> SUFFICES ASSUME NEW e \in Entries
               PROVE  r[e] \in Heads \cup {e, NoList} /\ M[e] = <<>>
    OBVIOUS
  <2>1. o[e] \in Heads \cup {e, NoList} /\ L[e] = <<>>
    BY DEF Laid
  <2> QED BY <2>1, <1>2, <1>3, <1>4
<1>7. \A c \in Cells : r[c] = c => Round(n, c, M[c])
  <2> SUFFICES ASSUME NEW c \in Cells, r[c] = c PROVE Round(n, c, M[c])
    OBVIOUS
  <2>1. c # NoList
    BY Sentinels
  <2>2. c # list /\ o[c] = c
    BY <2>1, <1>3
  <2>3. Round(n, c, L[c])
    BY <2>2 DEF Laid
  <2> QED BY <2>2, <2>3, <1>4
<1>8. \A c \in Cells : r[c] \notin {c, NoList} => \E i \in 1 .. Len(M[r[c]]) : M[r[c]][i] = c
  <2> SUFFICES ASSUME NEW c \in Cells, r[c] \notin {c, NoList}
               PROVE  \E i \in 1 .. Len(M[r[c]]) : M[r[c]][i] = c
    OBVIOUS
  <2>1. o[c] = r[c] /\ r[c] # list /\ r[c] \in Cells
    BY <1>3 DEF ListMap
  <2>2. \E i \in 1 .. Len(L[o[c]]) : L[o[c]][i] = c
    BY <2>1 DEF Laid
  <2>3. M[r[c]] = L[o[c]]
    BY <2>1, <1>4
  <2> QED BY <2>2, <2>3
<1>9. Laid(n, r, M)
  BY <1>4, <1>5, <1>6, <1>7, <1>8 DEF Laid
<1> QED BY <1>1, <1>3, <1>9

\* What list had is given up, and it becomes an empty list.
LEMMA GivesUpHolds ==
  ASSUME NEW L, Holds(heap, on, L), NEW list \in Heads, on[list] \in {list, NoList}
  PROVE  Holds(INIT_LIST_HEAD(heap, list), Cutting(list, {}), [L EXCEPT ![list] = <<>>])
<1>1. PICK n : n = heap.next
  OBVIOUS
<1>2. PICK p : p = heap.prev
  OBVIOUS
<1>3. /\ heap = Mem(n, p) /\ Sound(n, p, on) /\ Laid(n, on, L) /\ on \in ListMap
      /\ list \in Cells /\ list # NoList
  BY <1>1, <1>2, Sentinels DEF Holds, Ok, Sound, Cells
<1>4. PICK r : r = [c \in Cells |-> IF c = list \/ on[c] = list THEN NoList ELSE on[c]]
  OBVIOUS
<1>5. r \in ListMap /\ Laid(n, r, [L EXCEPT ![list] = <<>>])
  BY <1>3, <1>4, GivenUpLaid
<1>6. Sound(n, p, r)
  <2>1. \A c \in Cells : r[c] # NoList => on[c] # NoList
    BY <1>4
  <2>2. \A c, d \in Cells : on[c] = on[d] => r[c] = r[d]
    BY <1>3, <1>4
  <2> QED BY <2>1, <2>2, <1>3, <1>5, RelabelSound
<1>7. Holds(heap, r, [L EXCEPT ![list] = <<>>])
  BY <1>3, <1>5, <1>6, OkMem, MemHolds
<1>8. r[list] = NoList /\ Isolated(heap.next, r, list)
  BY <1>3, <1>4 DEF Isolated
<1>9. Holds(INIT_LIST_HEAD(heap, list), [r EXCEPT ![list] = list], [L EXCEPT ![list] = <<>>])
  BY <1>3, <1>7, <1>8, HoldsInit
<1>10. [r EXCEPT ![list] = list] = Cutting(list, {})
  BY <1>3, <1>4 DEF Cutting
<1> QED BY <1>9, <1>10

\* What the cut functions say: the first k entries of head's list are list's.
CutAt(L, list, head, k) ==
  [L EXCEPT ![list] = Abstract!Take(L[head], k), ![head] = Abstract!Drop(L[head], k)]

\* Cutting nothing off leaves head's list, and empties list's.
LEMMA CutAtNone ==
  ASSUME NEW L \in [Cells -> Seq(Entries)], NEW list \in Heads, NEW head \in Heads, list # head
  PROVE  CutAt(L, list, head, 0) = [L EXCEPT ![list] = <<>>]
<1>1. list \in Cells /\ head \in Cells
  BY DEF Cells
<1>2. L[head] \in Seq(Entries) /\ Len(L[head]) \in Nat
  BY <1>1
<1>3. 0 \in 0 .. Len(L[head])
  BY <1>2
<1>4. Abstract!Take(L[head], 0) = <<>> /\ Abstract!Drop(L[head], 0) = L[head]
  BY <1>2, <1>3, NothingPutIn
<1> QED BY <1>1, <1>4 DEF CutAt

\* Some entries are cut off, up to and with the cell x.
LEMMA CutOffHolds ==
  ASSUME NEW n, NEW p, NEW L, heap = Mem(n, p), Holds(heap, on, L),
         NEW list \in Heads, NEW head \in Heads, list # head, on[head] = head,
         NEW k \in 1 .. Len(L[head]), NEW x, x = Stops(head, L[head])[k],
         NEW seg \in SUBSET (Cells \ {head}), Segment(seg, n[head], x), on' = Cutting(list, seg),
         Ok(heap', on'), RunCut(n, list, head, x, heap'.next)
  PROVE  Holds(heap', on', CutAt(L, list, head, k))
<1>1. heap.next = n /\ heap.prev = p
  BY DEF Mem
<1>2. Sound(n, p, on) /\ Laid(n, on, L)
  BY <1>1 DEF Holds, Ok
<1>3. SegmentOf(n, p, on, seg, n[head], x)
  BY <1>1 DEF Segment, SegmentOf
<1>4. PICK m : m = heap'.next
  OBVIOUS
<1>5. RunCut(n, list, head, x, m)
  BY <1>4
<1>6. Laid(m, CutTo(on, list, seg), CutAt(L, list, head, k))
  BY <1>2, <1>3, <1>5, CutLaid DEF CutAt
<1>7. on' = CutTo(on, list, seg)
  BY DEF Cutting, CutTo
<1> QED BY <1>4, <1>6, <1>7 DEF Holds

\* When list_cut_position changes nothing, there is nothing to cut.
LEMMA NothingToCut ==
  ASSUME NEW n, NEW p, NEW L, heap = Mem(n, p), Sound(n, p, on), Laid(n, on, L),
         NEW head \in Heads, on[head] = head, NEW entry \in Cells, on[entry] = head
  PROVE  CutsNothing(heap, head, entry) <=> L[head] = <<>>
<1>1. heap.next = n /\ heap.prev = p /\ head \in Cells
  BY DEF Mem, Cells
<1>2. n[head] = head <=> L[head] = <<>>
  BY <1>1, EmptyIs
<1>3. ASSUME L[head] # <<>>, p[head] = n[head], n[head] # entry, head # entry PROVE FALSE
  <2>1. PICK j, k : StopsAt(n, p, on, L, entry, head, k, j)
    BY StopsSomewhere
  <2>2. PICK a : a = Stops(head, L[head])
    OBVIOUS
  <2>3. Ringed(n, p, on, a, head, L[head])
    BY <2>2, <1>1, LaidRings
  <2>4. PICK l : l = Len(L[head])
    OBVIOUS
  <2>5. k \in 0 .. l /\ a[k] = entry /\ k # 0
    BY <2>1, <2>2, <2>4, <1>3 DEF StopsAt
  <2>6. l \in Nat /\ k \in 1 .. l /\ 0 \in 0 .. l /\ l \in 0 .. l /\ 1 \in 0 .. l /\ 0 + 1 = 1
    BY <2>3, <2>4, <2>5 DEF Ringed, AreStops
  <2>7. n[head] = a[1] /\ p[head] = a[l]
    BY <2>3, <2>4, <2>6 DEF Ringed, AreStops
  <2>8. 1 = l
    <3>1. a[1] = a[l]
      BY <2>7, <1>3
    <3>2. \A x, y \in 0 .. l : a[x] = a[y] => x = y
      BY <2>3, <2>4 DEF Ringed
    <3> QED BY <3>1, <3>2, <2>6
  <2>9. k = 1
    BY <2>6, <2>8
  <2> QED BY <2>5, <2>7, <2>9, <1>3
<1> QED BY <1>1, <1>2, <1>3 DEF CutsNothing, list_empty, list_is_singular

\* What CutPosition says.
CutBehind(L, list, head, entry) ==
  IF L[head] = <<>> THEN L ELSE CutAt(L, list, head, Abstract!UpTo(L, entry))

\* list_cut_position cuts off what is up to and with entry.
LEMMA CutPositionCuts ==
  ASSUME NEW L, Holds(heap, on, L), NEW list \in Heads, NEW head \in Heads, NEW entry \in Cells,
         ListCutPosition(list, head, entry)
  PROVE  Holds(heap', on', CutBehind(L, list, head, entry))
<1>1. PICK n : n = heap.next
  OBVIOUS
<1>2. PICK p : p = heap.prev
  OBVIOUS
<1>3. /\ heap = Mem(n, p) /\ Sound(n, p, on) /\ Laid(n, on, L)
      /\ n \in PointerMap /\ p \in PointerMap /\ L \in [Cells -> Seq(Entries)]
  BY <1>1, <1>2 DEF Holds, Ok, Sound, Laid
<1>4. /\ list # head /\ on[list] \in {list, NoList} /\ on[head] = head /\ on[entry] = head
      /\ list \in Cells /\ head \in Cells
  BY DEF ListCutPosition, Cells
<1>5. CutsNothing(heap, head, entry) <=> L[head] = <<>>
  BY <1>3, <1>4, NothingToCut
<1>6. PICK k, j : StopsAt(n, p, on, L, entry, head, k, j)
  BY <1>3, <1>4, StopsSomewhere
<1>7. /\ k \in 0 .. Len(L[head]) /\ Stops(head, L[head])[k] = entry
      /\ Abstract!UpTo(L, entry) = k /\ (k = 0 <=> entry = head)
  BY <1>6 DEF StopsAt
<1>8. CASE L[head] = <<>>
  <2>1. heap' = heap /\ on' = on
    BY <1>5, <1>8 DEF ListCutPosition, list_cut_position
  <2> QED BY <2>1, <1>8 DEF CutBehind
<1>9. CASE L[head] # <<>> /\ entry = head
  <2>1. heap' = INIT_LIST_HEAD(heap, list) /\ on' = Cutting(list, {})
    BY <1>5, <1>9 DEF ListCutPosition, list_cut_position
  <2>2. CutBehind(L, list, head, entry) = [L EXCEPT ![list] = <<>>]
    <3>1. CutBehind(L, list, head, entry) = CutAt(L, list, head, 0)
      BY <1>7, <1>9 DEF CutBehind
    <3> QED BY <3>1, <1>3, <1>4, CutAtNone
  <2>3. Holds(INIT_LIST_HEAD(heap, list), Cutting(list, {}), [L EXCEPT ![list] = <<>>])
    BY <1>4, GivesUpHolds
  <2> QED BY <2>1, <2>2, <2>3
<1>10. CASE L[head] # <<>> /\ entry # head
  <2>1. PICK seg \in SUBSET (Cells \ {head}) :
          Segment(seg, n[head], entry) /\ on' = Cutting(list, seg)
    BY <1>1, <1>5, <1>10 DEF ListCutPosition
  <2>2. heap' = CutOff(n, p, list, head, entry)
    <3>1. heap' = Cut(Mem(n, p), list, head, entry)
      BY <1>3, <1>5, <1>10 DEF ListCutPosition, list_cut_position
    <3> QED BY <3>1, CutIs
  <2>3. RunCut(n, list, head, entry, heap'.next)
    <3>1. RunCut(n, list, head, entry, CutOff(n, p, list, head, entry).next)
      BY <1>3, <1>4, CutOffNext
    <3> QED BY <3>1, <2>2
  <2>4. Ok(heap', on')
    BY CutKeeps DEF Holds
  <2>5. k \in 1 .. Len(L[head])
    BY <1>3, <1>4, <1>7, <1>10
  <2>6. Holds(heap', on', CutAt(L, list, head, k))
    BY <2>1, <2>3, <2>4, <2>5, <1>3, <1>4, <1>7, CutOffHolds
  <2> QED BY <2>6, <1>7, <1>10 DEF CutBehind
<1> QED BY <1>8, <1>9, <1>10

\* list_cut_before cuts off what is before entry.
LEMMA CutBeforeCuts ==
  ASSUME NEW L, Holds(heap, on, L), NEW list \in Heads, NEW head \in Heads, NEW entry \in Cells,
         ListCutBefore(list, head, entry)
  PROVE  Holds(heap', on', CutAt(L, list, head, Abstract!Before(L, entry)))
<1>1. PICK n : n = heap.next
  OBVIOUS
<1>2. PICK p : p = heap.prev
  OBVIOUS
<1>3. /\ heap = Mem(n, p) /\ Sound(n, p, on) /\ Laid(n, on, L)
      /\ n \in PointerMap /\ p \in PointerMap /\ L \in [Cells -> Seq(Entries)]
  BY <1>1, <1>2 DEF Holds, Ok, Sound, Laid
<1>4. /\ list # head /\ on[list] \in {list, NoList} /\ on[head] = head /\ on[entry] = head
      /\ list \in Cells /\ head \in Cells /\ head # NoList
  BY Sentinels DEF ListCutBefore, Cells
<1>5. PICK k, j : StopsAt(n, p, on, L, entry, head, k, j)
  BY <1>3, <1>4, StopsSomewhere
<1>6. /\ j \in 0 .. Len(L[head]) /\ Stops(head, L[head])[j] = p[entry]
      /\ n[p[entry]] = entry /\ Abstract!Before(L, entry) = j
  BY <1>5 DEF StopsAt
<1>7. CASE n[head] = entry
  <2>1. heap' = INIT_LIST_HEAD(heap, list) /\ on' = Cutting(list, {})
    BY <1>1, <1>7 DEF ListCutBefore, list_cut_before
  <2>2. j = 0
    <3>1. PICK a : a = Stops(head, L[head])
      OBVIOUS
    <3>2. Ringed(n, p, on, a, head, L[head])
      BY <3>1, <1>3, <1>4, LaidRings
    <3>3. a[0] = head /\ Len(L[head]) \in Nat /\ 0 \in 0 .. Len(L[head])
      BY <3>2 DEF Ringed, AreStops
    <3>4. p[entry] = head
      BY <1>3, <1>4, <1>7 DEF Sound, SoundAt
    <3> QED BY <3>1, <3>2, <3>3, <3>4, <1>6 DEF Ringed
  <2>3. CutAt(L, list, head, 0) = [L EXCEPT ![list] = <<>>]
    BY <1>3, <1>4, CutAtNone
  <2> QED BY <2>1, <2>2, <2>3, <1>4, <1>6, GivesUpHolds
<1>8. CASE n[head] # entry
  <2>1. PICK seg \in SUBSET (Cells \ {head}) :
          Segment(seg, n[head], p[entry]) /\ on' = Cutting(list, seg)
    BY <1>1, <1>2, <1>8 DEF ListCutBefore
  <2>2. heap' = CutOffBefore(n, p, list, head, entry)
    <3>1. heap' = list_cut_before(Mem(n, p), list, head, entry)
      BY <1>3 DEF ListCutBefore
    <3> QED BY <3>1, <1>8, CutBeforeIs
  <2>3. RunCut(n, list, head, p[entry], heap'.next)
    <3>1. RunCut(n, list, head, p[entry], CutOffBefore(n, p, list, head, entry).next)
      BY <1>3, <1>4, <1>6, <1>8, CutOffBeforeNext
    <3> QED BY <3>1, <2>2
  <2>4. Ok(heap', on')
    BY CutKeeps DEF Holds
  <2>5. j \in 1 .. Len(L[head])
    <3>1. j # 0
      <4>1. Stops(head, L[head])[0] = head
        BY <1>3, <1>4, StopsAre DEF AreStops
      <4> QED BY <4>1, <1>6, <1>8
    <3> QED BY <3>1, <1>3, <1>4, <1>6
  <2>6. Holds(heap', on', CutAt(L, list, head, j))
    BY <2>1, <2>3, <2>4, <2>5, <1>3, <1>4, <1>6, CutOffHolds
  <2> QED BY <2>6, <1>6
<1> QED BY <1>7, <1>8

-----------------------------------------------------------------------------
(* The lists through a whole run.                                           *)

\* Before the first call every list is empty.
LEMMA InitHolds == Init => \E L : Holds(heap, on, L)
<1> SUFFICES ASSUME Init PROVE \E L : Holds(heap, on, L)
  OBVIOUS
<1>1. PICK L : L = [c \in Cells |-> <<>>]
  OBVIOUS
<1>2. Ok(heap, on)
  <2> SUFFICES TypeOK /\ WellLinked
    BY OkIsInvariant
  <2> QED
    BY DEF Init, TypeOK, WellLinked, Linked, Pointers
<1>3. /\ \A c \in Cells : on[c] = NoList /\ c # NoList
      /\ \A c \in Cells : L[c] = <<>>
      /\ Entries \subseteq Cells /\ Heads \subseteq Cells
  BY <1>1, Sentinels DEF Init, Cells
<1>4. L \in [Cells -> Seq(Entries)]
  <2>1. <<>> \in Seq(Entries)
    OBVIOUS
  <2> QED BY <2>1, <1>1
<1>5. Laid(heap.next, on, L)
  BY <1>3, <1>4 DEF Laid
<1> QED BY <1>2, <1>5 DEF Holds

\* Every call leaves lists, and each cell on the list it was put on.
LEMMA CallKeeps ==
  ASSUME NEW L, Holds(heap, on, L), Next
  PROVE  \E M : Holds(heap', on', M)
<1>1. ASSUME NEW c \in Cells, InitListHead(c) PROVE \E M : Holds(heap', on', M)
  BY <1>1, InitLeavesLists
<1>2. ASSUME NEW e \in Entries, EntryStep(e) PROVE \E M : Holds(heap', on', M)
  <2>1. CASE ListDel(e) \/ ListDelInit(e) \/ ListDelClearprev(e)
    BY <2>1, DelTakesOut
  <2>2. ASSUME NEW p \in Cells, \/ ListAdd(e, p) \/ ListAddTail(e, p)
                                \/ ListMove(e, p) \/ ListMoveTail(e, p)
        PROVE  \E M : Holds(heap', on', M)
    BY <2>2, AddPutsIn, MovePutsElsewhere
  <2>3. ASSUME NEW f \in Entries, ListSwap(e, f) PROVE \E M : Holds(heap', on', M)
    BY <2>3, SwapKeepsPlaces
  <2>4. ASSUME NEW f \in Entries, ListReplace(e, f) \/ ListReplaceInit(e, f)
        PROVE  \E M : Holds(heap', on', M)
    BY <2>4, ReplaceKeepsPlaces
  <2> QED BY <1>2, <2>1, <2>2, <2>3, <2>4 DEF EntryStep
<1>3. ASSUME NEW h \in Heads, HeadStep(h) PROVE \E M : Holds(heap', on', M)
  <2>1. CASE ListRotateLeft(h)
    BY <2>1, RotateLeftTurns
  <2>2. ASSUME NEW e \in Entries, ListRotateToFront(e, h)
        PROVE  \E M : Holds(heap', on', M)
    BY <2>2, RotateToFrontTurns
  <2>3. ASSUME NEW first \in Entries, NEW last \in Entries,
               ListBulkMoveTail(h, first, last)
        PROVE  \E M : Holds(heap', on', M)
    BY <2>3, BulkMoveGoesToTail
  <2>4. ASSUME NEW new \in Heads, ListReplace(h, new) \/ ListReplaceInit(h, new)
        PROVE  \E M : Holds(heap', on', M)
    BY <2>4, ReplaceKeepsPlaces
  <2> QED BY <1>3, <2>1, <2>2, <2>3, <2>4 DEF HeadStep
<1>4. ASSUME NEW list \in Heads, ListStep(list) PROVE \E M : Holds(heap', on', M)
  <2>1. ASSUME NEW head \in Heads, NEW entry \in Cells,
               ListCutPosition(list, head, entry) \/ ListCutBefore(list, head, entry)
        PROVE  \E M : Holds(heap', on', M)
    BY <2>1, CutPositionCuts, CutBeforeCuts
  <2>2. ASSUME NEW p \in Cells,
               \/ ListSplice(list, p) \/ ListSpliceTail(list, p)
               \/ ListSpliceInit(list, p) \/ ListSpliceTailInit(list, p)
        PROVE  \E M : Holds(heap', on', M)
    BY <2>2, SpliceCarriesOver
  <2> QED BY <1>4, <2>1, <2>2 DEF ListStep
<1> QED BY <1>1, <1>2, <1>3, <1>4 DEF Next

\* The calls that move one entry do to the lists L what they say, and leave M.
DoesToEntries(L, M) ==
  \A e \in Entries :
    /\ InitListHead(e) => M = L
    /\ ListDel(e) \/ ListDelInit(e) \/ ListDelClearprev(e) => M = Abstract!Without(L, e)
    /\ \A p \in Cells :
         /\ ListAdd(e, p) => M = Abstract!Behind(L, p, <<e>>)
         /\ ListAddTail(e, p) => M = Abstract!InFront(L, p, <<e>>)
         /\ ListMove(e, p) => M = Abstract!Behind(Abstract!Without(L, e), p, <<e>>)
         /\ ListMoveTail(e, p) => M = Abstract!InFront(Abstract!Without(L, e), p, <<e>>)

\* So do those that put one cell in the place of another.
DoesToPlaces(L, M) ==
  \A S \in {Entries, Heads} : \A c, d \in S :
    /\ ListReplace(c, d) \/ ListReplaceInit(c, d) => M = InPlace(L, c, d)
    /\ S = Entries /\ ListSwap(c, d) =>
         M = Abstract!Renaming(L, [x \in Cells |-> IF x = c THEN d
                                                   ELSE IF x = d THEN c
                                                   ELSE x])

\* And those that move many entries.
DoesToRuns(L, M) ==
  \A h \in Heads :
    /\ ListRotateLeft(h) => M = FirstLast(L, h)
    /\ \A c \in Cells :
         /\ ListSplice(h, c) \/ ListSpliceInit(h, c) =>
              M = Abstract!Emptied(Abstract!Behind(L, c, L[h]), h)
         /\ ListSpliceTail(h, c) \/ ListSpliceTailInit(h, c) =>
              M = Abstract!Emptied(Abstract!InFront(L, c, L[h]), h)
         /\ \A g \in Heads :
              /\ ListCutPosition(g, h, c) => M = CutBehind(L, g, h, c)
              /\ ListCutBefore(g, h, c) => M = CutAt(L, g, h, Abstract!Before(L, c))
    /\ \A e \in Entries :
         /\ ListRotateToFront(e, h) =>
              M = [L EXCEPT ![h] = Abstract!Drop(@, Abstract!Place(L, e) - 1)
                                     \o Abstract!Take(@, Abstract!Place(L, e) - 1)]
         /\ \A f \in Entries : ListBulkMoveTail(h, e, f) =>
              M = [L EXCEPT ![h] = Abstract!Take(L[h], Abstract!Place(L, e) - 1)
                                     \o Abstract!Drop(L[h], Abstract!Place(L, f))
                                     \o SubSeq(L[h], Abstract!Place(L, e),
                                               Abstract!Place(L, f))]

\* What a call leaves is what it says.
LEMMA CallDoes ==
  ASSUME NEW L, Holds(heap, on, L), NEW M, Holds(heap', on', M)
  PROVE  DoesToEntries(L, M) /\ DoesToPlaces(L, M) /\ DoesToRuns(L, M)
<1>1. \A N : Holds(heap', on', N) => M = N
  BY ContentsAre
<1>2. DoesToEntries(L, M)
  <2> SUFFICES ASSUME NEW e \in Entries
               PROVE  /\ InitListHead(e) => M = L
                      /\ ListDel(e) \/ ListDelInit(e) \/ ListDelClearprev(e)
                           => M = Abstract!Without(L, e)
                      /\ \A p \in Cells :
                           /\ ListAdd(e, p) => M = Abstract!Behind(L, p, <<e>>)
                           /\ ListAddTail(e, p) => M = Abstract!InFront(L, p, <<e>>)
                           /\ ListMove(e, p) =>
                                M = Abstract!Behind(Abstract!Without(L, e), p, <<e>>)
                           /\ ListMoveTail(e, p) =>
                                M = Abstract!InFront(Abstract!Without(L, e), p, <<e>>)
    BY DEF DoesToEntries
  <2>1. InitListHead(e) => M = L
    BY <1>1, InitLeavesLists DEF Cells
  <2>2. ListDel(e) \/ ListDelInit(e) \/ ListDelClearprev(e) => M = Abstract!Without(L, e)
    BY <1>1, DelTakesOut
  <2>3. ASSUME NEW p \in Cells
        PROVE  /\ ListAdd(e, p) => M = Abstract!Behind(L, p, <<e>>)
               /\ ListAddTail(e, p) => M = Abstract!InFront(L, p, <<e>>)
    BY <1>1, AddPutsIn
  <2>4. ASSUME NEW p \in Cells
        PROVE  /\ ListMove(e, p) => M = Abstract!Behind(Abstract!Without(L, e), p, <<e>>)
               /\ ListMoveTail(e, p) =>
                    M = Abstract!InFront(Abstract!Without(L, e), p, <<e>>)
    BY <1>1, MovePutsElsewhere
  <2> QED BY <2>1, <2>2, <2>3, <2>4
<1>3. DoesToPlaces(L, M)
  <2>1. ASSUME NEW S \in {Entries, Heads}, NEW c \in S, NEW d \in S,
               ListReplace(c, d) \/ ListReplaceInit(c, d)
        PROVE  M = InPlace(L, c, d)
    BY <1>1, <2>1, ReplaceKeepsPlaces
  <2>2. ASSUME NEW c \in Entries, NEW d \in Entries, ListSwap(c, d)
        PROVE  M = Abstract!Renaming(L, [x \in Cells |-> IF x = c THEN d
                                                         ELSE IF x = d THEN c
                                                         ELSE x])
    BY <1>1, <2>2, SwapKeepsPlaces
  <2> QED BY <2>1, <2>2 DEF DoesToPlaces
<1>4. DoesToRuns(L, M)
  <2>1. ASSUME NEW h \in Heads, ListRotateLeft(h) PROVE M = FirstLast(L, h)
    BY <1>1, <2>1, RotateLeftTurns
  <2>2. ASSUME NEW h \in Heads, NEW c \in Cells
        PROVE  /\ ListSplice(h, c) \/ ListSpliceInit(h, c) =>
                    M = Abstract!Emptied(Abstract!Behind(L, c, L[h]), h)
               /\ ListSpliceTail(h, c) \/ ListSpliceTailInit(h, c) =>
                    M = Abstract!Emptied(Abstract!InFront(L, c, L[h]), h)
    BY <1>1, SpliceCarriesOver
  <2>3. ASSUME NEW h \in Heads, NEW c \in Cells, NEW g \in Heads
        PROVE  /\ ListCutPosition(g, h, c) => M = CutBehind(L, g, h, c)
               /\ ListCutBefore(g, h, c) => M = CutAt(L, g, h, Abstract!Before(L, c))
    BY <1>1, CutPositionCuts, CutBeforeCuts
  <2>4. ASSUME NEW h \in Heads, NEW e \in Entries, ListRotateToFront(e, h)
        PROVE  M = [L EXCEPT ![h] = Abstract!Drop(@, Abstract!Place(L, e) - 1)
                                      \o Abstract!Take(@, Abstract!Place(L, e) - 1)]
    BY <1>1, <2>4, RotateToFrontTurns
  <2>5. ASSUME NEW h \in Heads, NEW e \in Entries, NEW f \in Entries,
               ListBulkMoveTail(h, e, f)
        PROVE  M = [L EXCEPT ![h] = Abstract!Take(L[h], Abstract!Place(L, e) - 1)
                                      \o Abstract!Drop(L[h], Abstract!Place(L, f))
                                      \o SubSeq(L[h], Abstract!Place(L, e),
                                                Abstract!Place(L, f))]
    BY <1>1, <2>5, BulkMoveGoesToTail
  <2> QED BY <2>1, <2>2, <2>3, <2>4, <2>5 DEF DoesToRuns
<1> QED BY <1>2, <1>3, <1>4

\* The invariant with the lists in it: the heap is well linked, and what the
\* loops meet is what the callers put there.
ListInv == Holds(heap, on, Contents)

\* A step keeps the lists, and a call does to them what it says.
LEMMA ListsKeep ==
  ASSUME ListInv, [Next]_vars
  PROVE  /\ Holds(heap', on', Contents')
         /\ Next => /\ DoesToEntries(Contents, Contents')
                    /\ DoesToPlaces(Contents, Contents')
                    /\ DoesToRuns(Contents, Contents')
<1>1. PICK L : L = Contents
  OBVIOUS
<1>2. Holds(heap, on, L)
  BY <1>1 DEF ListInv
<1>3. CASE Next
  <2>1. PICK M : Holds(heap', on', M)
    BY <1>2, <1>3, CallKeeps
  <2>2. Contents' = M
    BY <2>1, ContentsAre
  <2>3. DoesToEntries(L, M) /\ DoesToPlaces(L, M) /\ DoesToRuns(L, M)
    BY <1>2, <2>1, CallDoes
  <2> QED BY <1>1, <2>1, <2>2, <2>3
<1>4. CASE UNCHANGED vars /\ ~Next
  <2>1. Holds(heap', on', L)
    BY <1>2, <1>4 DEF vars
  <2>2. Contents' = L
    BY <2>1, ContentsAre
  <2> QED BY <1>4, <2>1, <2>2
<1> QED BY <1>3, <1>4

\* For any number of entries and heads: however the functions are called, the
\* entries of each list are a sequence that both pointers follow.
THEOREM ListsIntact == Spec => []ListInv
<1>1. Init => ListInv
  BY InitHolds, ContentsAre DEF ListInv
<1>2. ListInv /\ [Next]_vars => Holds(heap', on', Contents')
  BY ListsKeep
<1>3. ListInv' <=> Holds(heap', on', Contents')
  BY DEF ListInv, Holds, Ok, Mem, Sound, SoundAt, Laid, Round, Stops, PointerMap, ListMap
<1> QED BY <1>1, <1>2, <1>3, PTL DEF Spec

\* Whatever functions are called, in whatever order and with whatever cells
\* their comments allow, every list is well linked and reaches only cells of
\* its own.
THEOREM Integrity == Spec => [](TypeOK /\ WellLinked)
<1>1. ListInv => TypeOK /\ WellLinked
  BY OkIsInvariant DEF ListInv, Holds
<1> QED BY <1>1, ListsIntact, PTL

\* No list ever reaches a deleted, replaced, given-up or poisoned cell.
THEOREM TypeCorrect == Spec => []TypeOK
BY Integrity, PTL

\* next and prev stay inverse on every list.
THEOREM LinksAreInverse == Spec => []WellLinked
BY Integrity, PTL

\* Loops in both directions and the tests of a list always agree.
THEOREM ReadersTold == Spec => []ReadersAgree
<1>1. ListInv => ReadersAgree
  BY ReadersAreTold DEF ListInv
<1> QED BY <1>1, ListsIntact, PTL

\* The function calls refine the edits of sequences that list.h promises.
THEOREM FunctionsObey == Spec => FunctionsKeepTheirWord
<1>1. ListInv /\ [Next]_vars =>
        [\A e \in Entries :
           /\ InitListHead(e) => UNCHANGED Contents
           /\ ListDel(e) \/ ListDelInit(e) \/ ListDelClearprev(e) => Abstract!Del(e)
           /\ \A p \in Cells : /\ ListAdd(e, p)      => Abstract!Add(e, p)
                               /\ ListAddTail(e, p)  => Abstract!AddTail(e, p)
                               /\ ListMove(e, p)     => Abstract!Move(e, p)
                               /\ ListMoveTail(e, p) => Abstract!MoveTail(e, p)]_vars
  <2> SUFFICES ASSUME ListInv, Next
               PROVE  \A e \in Entries :
           /\ InitListHead(e) => UNCHANGED Contents
           /\ ListDel(e) \/ ListDelInit(e) \/ ListDelClearprev(e) => Abstract!Del(e)
           /\ \A p \in Cells : /\ ListAdd(e, p)      => Abstract!Add(e, p)
                               /\ ListAddTail(e, p)  => Abstract!AddTail(e, p)
                               /\ ListMove(e, p)     => Abstract!Move(e, p)
                               /\ ListMoveTail(e, p) => Abstract!MoveTail(e, p)
    OBVIOUS
  <2>1. DoesToEntries(Contents, Contents')
    BY ListsKeep
  <2> QED BY <2>1 DEF DoesToEntries, Abstract!Del, Abstract!Add, Abstract!AddTail,
                      Abstract!Move, Abstract!MoveTail
<1>2. ListInv /\ [Next]_vars =>
        [\A S \in {Entries, Heads} : \A c, d \in S :
           /\ ListReplace(c, d) \/ ListReplaceInit(c, d) => Abstract!Replace(c, d)
           /\ S = Entries /\ ListSwap(c, d) => Abstract!Swap(c, d)]_vars
  <2> SUFFICES ASSUME ListInv, Next, NEW S \in {Entries, Heads}, NEW c \in S, NEW d \in S
               PROVE  /\ ListReplace(c, d) \/ ListReplaceInit(c, d) => Abstract!Replace(c, d)
                      /\ S = Entries /\ ListSwap(c, d) => Abstract!Swap(c, d)
    OBVIOUS
  <2>1. DoesToPlaces(Contents, Contents')
    BY ListsKeep
  <2> QED BY <2>1 DEF DoesToPlaces, InPlace, Abstract!Replace, Abstract!Swap
<1>3. ListInv /\ [Next]_vars =>
        [\A h \in Heads :
           /\ ListRotateLeft(h) => Abstract!RotateLeft(h)
           /\ \A c \in Cells :
                /\ (ListSplice(h, c) \/ ListSpliceInit(h, c)) => Abstract!Splice(h, c)
                /\ (ListSpliceTail(h, c) \/ ListSpliceTailInit(h, c))
                     => Abstract!SpliceTail(h, c)
                /\ \A g \in Heads :
                     /\ ListCutPosition(g, h, c) => Abstract!CutPosition(g, h, c)
                     /\ ListCutBefore(g, h, c) => Abstract!CutBefore(g, h, c)
           /\ \A e \in Entries :
                /\ ListRotateToFront(e, h) => Abstract!RotateToFront(e, h)
                /\ \A f \in Entries :
                     ListBulkMoveTail(h, e, f) => Abstract!BulkMoveTail(h, e, f)]_vars
  <2> SUFFICES ASSUME ListInv, Next, NEW h \in Heads
               PROVE
           /\ ListRotateLeft(h) => Abstract!RotateLeft(h)
           /\ \A c \in Cells :
                /\ (ListSplice(h, c) \/ ListSpliceInit(h, c)) => Abstract!Splice(h, c)
                /\ (ListSpliceTail(h, c) \/ ListSpliceTailInit(h, c))
                     => Abstract!SpliceTail(h, c)
                /\ \A g \in Heads :
                     /\ ListCutPosition(g, h, c) => Abstract!CutPosition(g, h, c)
                     /\ ListCutBefore(g, h, c) => Abstract!CutBefore(g, h, c)
           /\ \A e \in Entries :
                /\ ListRotateToFront(e, h) => Abstract!RotateToFront(e, h)
                /\ \A f \in Entries :
                     ListBulkMoveTail(h, e, f) => Abstract!BulkMoveTail(h, e, f)
    OBVIOUS
  <2>1. DoesToRuns(Contents, Contents')
    BY ListsKeep
  <2>2. ListRotateLeft(h) => Abstract!RotateLeft(h)
    BY <2>1 DEF DoesToRuns, FirstLast, Abstract!RotateLeft
  <2>3. ASSUME NEW c \in Cells
        PROVE  /\ (ListSplice(h, c) \/ ListSpliceInit(h, c)) => Abstract!Splice(h, c)
               /\ (ListSpliceTail(h, c) \/ ListSpliceTailInit(h, c))
                    => Abstract!SpliceTail(h, c)
    BY <2>1 DEF DoesToRuns, Abstract!Splice, Abstract!SpliceTail
  <2>4. ASSUME NEW c \in Cells, NEW g \in Heads
        PROVE  /\ ListCutPosition(g, h, c) => Abstract!CutPosition(g, h, c)
               /\ ListCutBefore(g, h, c) => Abstract!CutBefore(g, h, c)
    BY <2>1 DEF DoesToRuns, CutBehind, CutAt, Abstract!CutPosition, Abstract!CutBefore
  <2>5. ASSUME NEW e \in Entries
        PROVE  ListRotateToFront(e, h) => Abstract!RotateToFront(e, h)
    BY <2>1 DEF DoesToRuns, Abstract!RotateToFront
  <2>6. ASSUME NEW e \in Entries, NEW f \in Entries
        PROVE  ListBulkMoveTail(h, e, f) => Abstract!BulkMoveTail(h, e, f)
    BY <2>1 DEF DoesToRuns, Abstract!BulkMoveTail
  <2> QED BY <2>2, <2>3, <2>4, <2>5, <2>6
<1>4. Spec => EntriesGoWhereTold
  BY <1>1, ListsIntact, PTL DEF Spec, EntriesGoWhereTold
<1>5. Spec => PlacesAreKept
  BY <1>2, ListsIntact, PTL DEF Spec, PlacesAreKept
<1>6. Spec => RunsGoWhereTold
  BY <1>3, ListsIntact, PTL DEF Spec, RunsGoWhereTold
<1> QED BY <1>4, <1>5, <1>6 DEF FunctionsKeepTheirWord
=============================================================================
