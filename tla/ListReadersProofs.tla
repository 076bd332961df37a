--------------------------- MODULE ListReadersProofs ---------------------------
(****************************************************************************)
(* Proofs about those who read a list while it changes, for any number of   *)
(* entries: that a loop over a list runs its body once for each entry that  *)
(* stays, in order, and that what list_empty_careful() calls empty is off   *)
(* the list for good.                                                       *)
(****************************************************************************)
EXTENDS MCListReaders, SequenceTheorems, TLAPS

(* A list that changes has no fixed order, but its entries have one for      *)
(* ever: what was added or is on the list keeps its side of everything else. *)
(* later[x] are the entries ever placed behind x, as the loop goes.          *)

\* The other direction.
Opposite(d) == IF d = "next" THEN "prev" ELSE "next"

\* The entries that are or were on the list.
Placed == Entries \ fresh

\* The entries the body has run for.
Seen == {visited[j] : j \in DOMAIN visited}

\* later is a strict total order of S.
Ordered(later, S) ==
  /\ later \in [S -> SUBSET S]
  /\ \A x \in S : x \notin later[x]
  /\ \A x, y \in S : x # y => (y \in later[x] <=> x \notin later[y])
  /\ \A x, y \in S : y \in later[x] => later[y] \subseteq later[x]

\* What of the list lies behind x, and what is left from y on.
Above(later, on, x) == IF x = head THEN on ELSE later[x] \cap on
From(later, on, y) == IF y = head THEN {} ELSE {y} \cup (later[y] \cap on)

\* y is the next on the list behind x.
Follows(later, on, x, y) ==
  y \in on \cup {head} /\ Above(later, on, x) = From(later, on, y)

\* The pointers link the entries on the list, in order, into a ring.
Woven(later, on, nx, pv) ==
  \A x \in on \cup {head} :
    /\ Follows(later, on, x, nx[x]) /\ pv[nx[x]] = x
    /\ pv[x] \in on \cup {head} /\ nx[pv[x]] = x

\* The pointers lead past e on both sides.
Bypassed(on, nx, pv, e, nx1, pv1) ==
  \A c \in (on \ {e}) \cup {head} :
    /\ nx1[c] = (IF nx[c] = e THEN nx[e] ELSE nx[c])
    /\ pv1[c] = (IF pv[c] = e THEN pv[e] ELSE pv[c])

\* Another entry is taken off.
LEMMA StillFollows ==
  ASSUME NEW S, NEW later, Ordered(later, S), head \notin S,
         NEW on \in SUBSET S, NEW e \in on, NEW x \in S \cup {head}, NEW y,
         x # e, y # e, Follows(later, on, x, y)
  PROVE  Follows(later, on \ {e}, x, y)
BY DEF Follows, Above, From, Ordered

\* The entry between x and y is taken off.
LEMMA FollowsOver ==
  ASSUME NEW S, NEW later, Ordered(later, S), head \notin S,
         NEW on \in SUBSET S, NEW e \in on, NEW x \in S \cup {head}, NEW y,
         Follows(later, on, x, e), Follows(later, on, e, y)
  PROVE  Follows(later, on \ {e}, x, y)
<1>1. Above(later, on, x) = {e} \cup (later[e] \cap on)
  BY DEF Follows, From
<1>2. later[e] \cap on = From(later, on, y) /\ y \in on \cup {head}
  BY DEF Follows, Above
<1>3. e \notin later[e] /\ y # e
  BY <1>2 DEF Ordered, From
<1>4. Above(later, on \ {e}, x) = later[e] \cap on
  BY <1>1, <1>3 DEF Above
<1>5. From(later, on \ {e}, y) = From(later, on, y)
  BY <1>2, <1>3 DEF From
<1> QED
  BY <1>2, <1>3, <1>4, <1>5 DEF Follows

\* A deletion keeps the ring.
LEMMA RemoveKeepsWoven ==
  ASSUME NEW S, NEW later, Ordered(later, S), head \notin S,
         NEW on \in SUBSET S, NEW nx, NEW pv, Woven(later, on, nx, pv),
         NEW e \in on, NEW nx1, NEW pv1, Bypassed(on, nx, pv, e, nx1, pv1)
  PROVE  Woven(later, on \ {e}, nx1, pv1)
<1> SUFFICES ASSUME NEW x \in (on \ {e}) \cup {head}
             PROVE  /\ Follows(later, on \ {e}, x, nx1[x]) /\ pv1[nx1[x]] = x
                    /\ pv1[x] \in (on \ {e}) \cup {head} /\ nx1[pv1[x]] = x
  BY DEF Woven
<1>1. /\ \A c \in on \cup {head} : /\ nx[c] \in on \cup {head} /\ pv[nx[c]] = c
                                   /\ pv[c] \in on \cup {head} /\ nx[pv[c]] = c
                                   /\ Follows(later, on, c, nx[c])
  BY DEF Woven, Follows
<1>2. nx[e] # e /\ pv[e] # e
  <2>1. Follows(later, on, e, nx[e]) /\ e # head /\ e \notin later[e]
    BY <1>1 DEF Ordered
  <2>2. nx[e] # e
    BY <2>1 DEF Follows, Above, From
  <2> QED
    BY <1>1, <2>2
<1>3. x # e /\ x \in on \cup {head} /\ x \in S \cup {head}
  OBVIOUS
<1>4. CASE nx[x] = e
  <2>1. nx1[x] = nx[e]
    BY <1>4 DEF Bypassed
  <2>2. Follows(later, on, x, e)
    BY <1>4, <1>1, <1>3
  <2>3. Follows(later, on \ {e}, x, nx1[x])
    BY <1>1, <2>1, <2>2, FollowsOver
  <2>4. pv1[nx1[x]] = x
    BY <1>1, <1>2, <1>3, <1>4, <2>1 DEF Bypassed
  <2> QED
    BY <1>1, <1>2, <1>3, <1>4, <2>3, <2>4 DEF Bypassed
<1>5. CASE nx[x] # e
  <2>1. nx1[x] = nx[x]
    BY <1>5 DEF Bypassed
  <2>2. Follows(later, on \ {e}, x, nx1[x])
    BY <1>1, <1>3, <1>5, <2>1, StillFollows
  <2>3. pv1[nx1[x]] = x
    BY <1>1, <1>2, <1>3, <1>5, <2>1 DEF Bypassed
  <2> QED
    BY <1>1, <1>2, <1>3, <1>5, <2>2, <2>3 DEF Bypassed
<1> QED
  BY <1>4, <1>5

-----------------------------------------------------------------------------
\* Is x in front of what is put in behind a?
UpTo(later, a, x) == a # head /\ (x = a \/ a \in later[x])

\* The order with new put in right behind a.
Inserted(later, S, a, new) ==
  [x \in S \cup {new} |->
     IF x = new THEN {y \in S : ~UpTo(later, a, y)}
     ELSE IF UpTo(later, a, x) THEN later[x] \cup {new} ELSE later[x]]

LEMMA InsertedIs ==
  ASSUME NEW S, NEW later, Ordered(later, S), NEW a, NEW new, new \notin S
  PROVE  /\ Inserted(later, S, a, new) \in [S \cup {new} -> SUBSET (S \cup {new})]
         /\ \A y \in S : y \in Inserted(later, S, a, new)[new] <=> ~UpTo(later, a, y)
         /\ new \notin Inserted(later, S, a, new)[new]
         /\ \A x \in S : new \in Inserted(later, S, a, new)[x] <=> UpTo(later, a, x)
         /\ \A x, y \in S : y \in Inserted(later, S, a, new)[x] <=> y \in later[x]
BY DEF Inserted, Ordered

\* Putting an entry in leaves an order.
LEMMA InsertKeepsOrder ==
  ASSUME NEW S, NEW later, Ordered(later, S), head \notin S,
         NEW a \in S \cup {head}, NEW new, new \notin S
  PROVE  Ordered(Inserted(later, S, a, new), S \cup {new})
<1> DEFINE ins == Inserted(later, S, a, new)
           T == S \cup {new}
<1>1. /\ ins \in [T -> SUBSET T]
      /\ \A y \in S : y \in ins[new] <=> ~UpTo(later, a, y)
      /\ new \notin ins[new]
      /\ \A x \in S : new \in ins[x] <=> UpTo(later, a, x)
      /\ \A x, y \in S : y \in ins[x] <=> y \in later[x]
  BY InsertedIs
<1> HIDE DEF ins
<1>2. \A x \in T : x \notin ins[x]
  BY <1>1 DEF Ordered
<1>3. \A x, y \in T : x # y => (y \in ins[x] <=> x \notin ins[y])
  BY <1>1 DEF Ordered
<1>4. \A x, y \in S : y \in later[x] /\ UpTo(later, a, y) => UpTo(later, a, x)
  BY DEF UpTo, Ordered
<1>5. ASSUME NEW x \in T, NEW y \in T, y \in ins[x], NEW z \in ins[y]
      PROVE  z \in ins[x]
  <2>1. z \in T
    BY <1>1, <1>5
  <2>2. CASE x = new
    BY <1>1, <1>4, <1>5, <2>1, <2>2 DEF Ordered
  <2>3. CASE x # new /\ y = new
    <3>1. UpTo(later, a, x) /\ z \in S /\ ~UpTo(later, a, z)
      BY <1>1, <1>5, <2>1, <2>3
    <3>2. x \in S /\ z # x
      BY <3>1, <2>3
    <3>3. z \in later[x]
      BY <3>1, <3>2, <1>4 DEF Ordered
    <3> QED
      BY <3>1, <3>2, <3>3, <1>1
  <2>4. CASE x # new /\ y # new
    BY <1>1, <1>4, <1>5, <2>1, <2>4 DEF Ordered
  <2> QED
    BY <2>2, <2>3, <2>4
<1>6. \A x, y \in T : y \in ins[x] => ins[y] \subseteq ins[x]
  BY <1>5
<1>7. Ordered(ins, T)
  BY <1>1, <1>2, <1>3, <1>6 DEF Ordered
<1> QED
  BY <1>7 DEF ins

\* new is put between a and what follows it.
LinkedIn(on, nx, pv, a, new, nx1, pv1) ==
  /\ nx1[a] = new /\ nx1[new] = nx[a]
  /\ pv1[nx[a]] = new /\ pv1[new] = a
  /\ \A c \in on \cup {head} : c # a => nx1[c] = nx[c]
  /\ \A c \in on \cup {head} : c # nx[a] => pv1[c] = pv[c]

\* What does not lead to b goes on where it did.
LEMMA FollowsBeside ==
  ASSUME NEW S, NEW later, Ordered(later, S), head \notin S, NEW on \in SUBSET S,
         NEW a \in on \cup {head}, NEW new, new \notin S, new # head,
         NEW x \in on \cup {head}, x # a, NEW y, Follows(later, on, x, y)
  PROVE  Follows(Inserted(later, S, a, new), on \cup {new}, x, y)
<1> DEFINE ins == Inserted(later, S, a, new)
           more == on \cup {new}
<1>1. /\ ins \in [S \cup {new} -> SUBSET (S \cup {new})]
      /\ \A z \in S : new \in ins[z] <=> UpTo(later, a, z)
      /\ \A z, w \in S : w \in ins[z] <=> w \in later[z]
  BY InsertedIs
<1> HIDE DEF ins
<1>2. y \in on \cup {head} /\ \A z \in on : z \in Above(later, on, x) <=> z \in From(later, on, y)
  BY DEF Follows
<1>3. \A z \in on : z \in Above(ins, more, x) <=> z \in Above(later, on, x)
  BY <1>1 DEF Above
<1>4. \A z \in on : z \in From(ins, more, y) <=> z \in From(later, on, y)
  BY <1>1, <1>2 DEF From
<1>5. new \in Above(ins, more, x) <=> a # head /\ a \in Above(later, on, x)
  <2>1. CASE x = head
    BY <2>1 DEF Above
  <2>2. CASE x # head
    BY <1>1, <2>2 DEF Above, UpTo
  <2> QED
    BY <2>1, <2>2
<1>6. new \in From(ins, more, y) <=> a # head /\ a \in From(later, on, y)
  <2>1. CASE y = head
    BY <2>1 DEF From
  <2>2. CASE y # head
    BY <1>1, <1>2, <2>2 DEF From, UpTo
  <2> QED
    BY <2>1, <2>2
<1>7. Above(ins, more, x) \subseteq more /\ From(ins, more, y) \subseteq more
  BY <1>2 DEF Above, From
<1>8. Above(ins, more, x) = From(ins, more, y)
  <2>1. \A z \in more : z \in Above(ins, more, x) <=> z \in From(ins, more, y)
    BY <1>2, <1>3, <1>4, <1>5, <1>6
  <2> QED
    BY <1>7, <2>1
<1>9. Follows(ins, more, x, y)
  BY <1>2, <1>8 DEF Follows
<1> QED
  BY <1>9 DEF ins

\* The new entry follows the one it is put behind.
LEMMA FollowsIn ==
  ASSUME NEW S, NEW later, Ordered(later, S), head \notin S, NEW on \in SUBSET S,
         NEW a \in on \cup {head}, NEW new, new \notin S, new # head
  PROVE  Follows(Inserted(later, S, a, new), on \cup {new}, a, new)
<1> DEFINE ins == Inserted(later, S, a, new)
           more == on \cup {new}
<1>1. /\ ins \in [S \cup {new} -> SUBSET (S \cup {new})]
      /\ \A y \in S : y \in ins[new] <=> ~UpTo(later, a, y)
      /\ new \notin ins[new]
      /\ \A z \in S : new \in ins[z] <=> UpTo(later, a, z)
      /\ \A z, w \in S : w \in ins[z] <=> w \in later[z]
  BY InsertedIs
<1> HIDE DEF ins
<1>2. \A z \in on : z \in Above(ins, more, a) <=> ~UpTo(later, a, z)
  <2>1. CASE a = head
    BY <2>1 DEF Above, UpTo
  <2>2. CASE a # head
    BY <1>1, <2>2 DEF Above, UpTo, Ordered
  <2> QED
    BY <2>1, <2>2
<1>3. \A z \in on : z \in From(ins, more, new) <=> ~UpTo(later, a, z)
  BY <1>1 DEF From
<1>4. new \in Above(ins, more, a) /\ new \in From(ins, more, new)
  BY <1>1 DEF Above, From, UpTo
<1>5. Above(ins, more, a) \subseteq more /\ From(ins, more, new) \subseteq more
  BY DEF Above, From
<1>6. Above(ins, more, a) = From(ins, more, new)
  BY <1>2, <1>3, <1>4, <1>5
<1>7. Follows(ins, more, a, new)
  BY <1>6 DEF Follows
<1> QED
  BY <1>7 DEF ins

\* What followed that one follows the new entry.
LEMMA FollowsOn ==
  ASSUME NEW S, NEW later, Ordered(later, S), head \notin S, NEW on \in SUBSET S,
         NEW a \in on \cup {head}, NEW new, new \notin S, new # head,
         NEW b, Follows(later, on, a, b)
  PROVE  Follows(Inserted(later, S, a, new), on \cup {new}, new, b)
<1> DEFINE ins == Inserted(later, S, a, new)
           more == on \cup {new}
<1>1. /\ ins \in [S \cup {new} -> SUBSET (S \cup {new})]
      /\ \A y \in S : y \in ins[new] <=> ~UpTo(later, a, y)
      /\ new \notin ins[new]
      /\ \A z \in S : new \in ins[z] <=> UpTo(later, a, z)
      /\ \A z, w \in S : w \in ins[z] <=> w \in later[z]
  BY InsertedIs
<1> HIDE DEF ins
<1>2. b \in on \cup {head} /\ Above(later, on, a) = From(later, on, b)
  BY DEF Follows
<1>3. \A z \in on : z \in Above(later, on, a) <=> ~UpTo(later, a, z)
  <2>1. CASE a = head
    BY <2>1 DEF Above, UpTo
  <2>2. CASE a # head
    BY <2>2 DEF Above, UpTo, Ordered
  <2> QED
    BY <2>1, <2>2
<1>4. \A z \in on : z \in Above(ins, more, new) <=> ~UpTo(later, a, z)
  BY <1>1 DEF Above
<1>5. \A z \in on : z \in From(ins, more, b) <=> z \in From(later, on, b)
  BY <1>1, <1>2 DEF From
<1>6. new \notin Above(ins, more, new)
  BY <1>1 DEF Above
<1>7. new \notin From(ins, more, b)
  <2>1. CASE b = head
    BY <2>1 DEF From
  <2>2. CASE b # head
    <3>1. b \in on /\ b \in From(later, on, b)
      BY <1>2, <2>2 DEF From
    <3>2. ~UpTo(later, a, b)
      BY <1>2, <1>3, <3>1
    <3> QED
      BY <1>1, <2>2, <3>1, <3>2 DEF From
  <2> QED
    BY <2>1, <2>2
<1>8. Above(ins, more, new) \subseteq more /\ From(ins, more, b) \subseteq more
  BY <1>2 DEF Above, From
<1>9. Above(ins, more, new) = From(ins, more, b)
  BY <1>2, <1>3, <1>4, <1>5, <1>6, <1>7, <1>8
<1>10. Follows(ins, more, new, b)
  BY <1>2, <1>9 DEF Follows
<1> QED
  BY <1>10 DEF ins

\* An insertion keeps the ring.
LEMMA InsertKeepsWoven ==
  ASSUME NEW S, NEW later, Ordered(later, S), head \notin S, NEW on \in SUBSET S,
         NEW nx, NEW pv, Woven(later, on, nx, pv),
         NEW a \in on \cup {head}, NEW new, new \notin S, new # head,
         NEW nx1, NEW pv1, LinkedIn(on, nx, pv, a, new, nx1, pv1)
  PROVE  Woven(Inserted(later, S, a, new), on \cup {new}, nx1, pv1)
<1> DEFINE ins == Inserted(later, S, a, new)
<1> DEFINE ring == on \cup {head}
<1>1. \A c \in ring : Follows(later, on, c, nx[c])
  BY DEF Woven
<1>a. \A c \in ring : nx[c] \in ring
  BY <1>1 DEF Follows
<1>b. \A c \in ring : pv[c] \in ring
  BY DEF Woven
<1>c. \A c \in ring : pv[nx[c]] = c
  BY DEF Woven
<1>d. \A c \in ring : nx[pv[c]] = c
  BY DEF Woven
<1>e. a \in ring /\ new \notin ring
  OBVIOUS
<1>2. /\ nx1[a] = new /\ nx1[new] = nx[a]
      /\ pv1[nx[a]] = new /\ pv1[new] = a
  BY DEF LinkedIn
<1>f. \A c \in ring : c # a => nx1[c] = nx[c]
  BY DEF LinkedIn
<1>g. \A c \in ring : c # nx[a] => pv1[c] = pv[c]
  BY DEF LinkedIn
<1>3. ASSUME NEW x \in on \cup {new} \cup {head}
      PROVE  Follows(ins, on \cup {new}, x, nx1[x])
  <2>1. CASE x = new
    BY <1>1, <1>2, <2>1, FollowsOn
  <2>2. CASE x = a
    BY <1>2, <2>2, FollowsIn
  <2>3. CASE x # new /\ x # a
    <3>1. x \in ring
      BY <2>3
    <3>2. Follows(later, on, x, nx[x]) /\ nx1[x] = nx[x]
      BY <1>1, <1>f, <2>3, <3>1
    <3>3. Follows(ins, on \cup {new}, x, nx[x])
      BY <2>3, <3>1, <3>2, FollowsBeside
    <3> QED
      BY <3>2, <3>3
  <2> QED
    BY <2>1, <2>2, <2>3
<1> HIDE DEF ring
<1>4. ASSUME NEW x \in ring \cup {new}
      PROVE  pv1[nx1[x]] = x
  <2>1. CASE x = new \/ x = a
    BY <1>2, <2>1
  <2>2. CASE x # new /\ x # a
    <3>1. x \in ring /\ nx1[x] = nx[x]
      BY <1>f, <2>2
    <3>2. nx[x] \in ring /\ nx[x] # nx[a]
      BY <1>a, <1>c, <1>e, <2>2, <3>1
    <3> QED
      BY <1>c, <1>g, <3>1, <3>2
  <2> QED
    BY <2>1, <2>2
<1>5. ASSUME NEW x \in ring \cup {new}
      PROVE  pv1[x] \in ring \cup {new} /\ nx1[pv1[x]] = x
  <2>1. CASE x = new \/ x = nx[a]
    BY <1>2, <1>e, <2>1
  <2>2. CASE x # new /\ x # nx[a]
    <3>1. x \in ring /\ pv1[x] = pv[x]
      BY <1>g, <2>2
    <3>2. pv[x] \in ring /\ nx[pv[x]] = x /\ pv[x] # a
      BY <1>b, <1>d, <2>2, <3>1
    <3> QED
      BY <1>f, <3>1, <3>2
  <2> QED
    BY <2>1, <2>2
<1> HIDE DEF ins
<1>6. Woven(ins, on \cup {new}, nx1, pv1)
  BY <1>3, <1>4, <1>5 DEF Woven, ring
<1> QED
  BY <1>6 DEF ins

-----------------------------------------------------------------------------
(* The heap functions on the two maps of the heap. *)

Pointers == Cells \cup {NULL, POISON1, POISON2}
Heaps == [next : [Cells -> Pointers], prev : [Cells -> Pointers]]

\* An assignment to one pointer.
LEMMA SetNextIs ==
  ASSUME NEW H \in Heaps, NEW c \in Cells, NEW ptr \in Pointers
  PROVE  /\ SetNext(H, c, ptr) \in Heaps
         /\ SetNext(H, c, ptr).next = [H.next EXCEPT ![c] = ptr]
         /\ SetNext(H, c, ptr).prev = H.prev
BY DEF SetNext, Heaps

LEMMA SetPrevIs ==
  ASSUME NEW H \in Heaps, NEW c \in Cells, NEW ptr \in Pointers
  PROVE  /\ SetPrev(H, c, ptr) \in Heaps
         /\ SetPrev(H, c, ptr).prev = [H.prev EXCEPT ![c] = ptr]
         /\ SetPrev(H, c, ptr).next = H.next
BY DEF SetPrev, Heaps

LEMMA MapsAre ==
  ASSUME NEW H \in Heaps
  PROVE  H.next \in [Cells -> Pointers] /\ H.prev \in [Cells -> Pointers]
BY DEF Heaps

\* __list_del_entry writes the neighbours only.
LEMMA UnlinkEntryIs ==
  ASSUME NEW H \in Heaps, NEW e \in Cells, H.next[e] \in Cells, H.prev[e] \in Cells
  PROVE  LET H1 == UnlinkEntry(H, e)
         IN  /\ H1 \in Heaps
             /\ H1.next = [H.next EXCEPT ![H.prev[e]] = H.next[e]]
             /\ H1.prev = [H.prev EXCEPT ![H.next[e]] = H.prev[e]]
<1> DEFINE a == H.prev[e]
           b == H.next[e]
           G == SetPrev(H, b, a)
<1>1. a \in Cells /\ b \in Cells /\ a \in Pointers /\ b \in Pointers
  BY DEF Pointers
<1>2. UnlinkEntry(H, e) = SetNext(G, a, b)
  BY DEF UnlinkEntry, Unlink
<1> HIDE DEF a, b
<1>3. G \in Heaps /\ G.prev = [H.prev EXCEPT ![b] = a] /\ G.next = H.next
  BY <1>1, SetPrevIs
<1> HIDE DEF G
<1>4. /\ SetNext(G, a, b) \in Heaps
      /\ SetNext(G, a, b).next = [G.next EXCEPT ![a] = b]
      /\ SetNext(G, a, b).prev = G.prev
  BY <1>1, <1>3, SetNextIs
<1> QED
  BY <1>2, <1>3, <1>4 DEF a, b

\* What either form of deletion leaves of the other cells.
Deleted(H, e, H1) ==
  /\ H1 \in Heaps
  /\ \A c \in Cells \ {e} :
       /\ H1.next[c] = (IF c = H.prev[e] THEN H.next[e] ELSE H.next[c])
       /\ H1.prev[c] = (IF c = H.next[e] THEN H.prev[e] ELSE H.prev[c])

\* The same heap, but for the pointers of e.
KeepsOthers(G, e, H1) ==
  H1 \in Heaps /\ \A c \in Cells \ {e} : H1.next[c] = G.next[c] /\ H1.prev[c] = G.prev[c]

LEMMA OwnPointers ==
  ASSUME NEW G \in Heaps, NEW e \in Cells, NEW p \in Pointers, NEW q \in Pointers
  PROVE  KeepsOthers(G, e, SetPrev(SetNext(G, e, p), e, q))
<1> DEFINE K == SetNext(G, e, p)
           H1 == SetPrev(K, e, q)
<1>1. K \in Heaps /\ K.next = [G.next EXCEPT ![e] = p] /\ K.prev = G.prev
  BY SetNextIs
<1> HIDE DEF K
<1>2. H1 \in Heaps /\ H1.prev = [K.prev EXCEPT ![e] = q] /\ H1.next = K.next
  BY <1>1, SetPrevIs
<1>3. G.next \in [Cells -> Pointers] /\ G.prev \in [Cells -> Pointers]
  BY MapsAre
<1> HIDE DEF H1
<1>4. KeepsOthers(G, e, H1)
  BY <1>1, <1>2, <1>3 DEF KeepsOthers
<1> QED
  BY <1>4 DEF H1, K

\* list_del and list_del_init differ in what they leave in the entry.
LEMMA DeletedIs ==
  ASSUME NEW H \in Heaps, NEW e \in Cells, H.next[e] \in Cells, H.prev[e] \in Cells,
         NEW H1 \in {list_del(H, e, POISON1, POISON2), list_del_init(H, e)}
  PROVE  Deleted(H, e, H1)
<1> DEFINE G == UnlinkEntry(H, e)
<1>1. /\ G \in Heaps
      /\ G.next = [H.next EXCEPT ![H.prev[e]] = H.next[e]]
      /\ G.prev = [H.prev EXCEPT ![H.next[e]] = H.prev[e]]
  BY UnlinkEntryIs
<1> HIDE DEF G
<1>2. H.next \in [Cells -> Pointers] /\ H.prev \in [Cells -> Pointers]
  BY MapsAre
<1>3. PICK p \in Pointers, q \in Pointers : H1 = SetPrev(SetNext(G, e, p), e, q)
  <2>1. CASE H1 = list_del(H, e, POISON1, POISON2)
    <3>1. POISON1 \in Pointers /\ POISON2 \in Pointers
      BY DEF Pointers
    <3> QED
      BY <2>1, <3>1 DEF list_del, G
  <2>2. CASE H1 = list_del_init(H, e)
    <3>1. e \in Pointers
      BY DEF Pointers
    <3> QED
      BY <2>2, <3>1 DEF list_del_init, INIT_LIST_HEAD, G
  <2> QED
    BY <2>1, <2>2
<1>4. KeepsOthers(G, e, H1)
  BY <1>1, <1>3, OwnPointers
<1>5. \A c \in Cells : /\ G.next[c] = (IF c = H.prev[e] THEN H.next[e] ELSE H.next[c])
                       /\ G.prev[c] = (IF c = H.next[e] THEN H.prev[e] ELSE H.prev[c])
  BY <1>1, <1>2
<1> QED
  BY <1>4, <1>5 DEF Deleted, KeepsOthers

\* A deletion in either direction.
LEMMA DeleteBypasses ==
  ASSUME NEW H \in Heaps, NEW H1, NEW d \in {"next", "prev"},
         NEW S, NEW later, NEW on \in SUBSET Entries, NEW e \in on,
         Woven(later, on, H[d], H[Opposite(d)]), Deleted(H, e, H1)
  PROVE  Bypassed(on, H[d], H[Opposite(d)], e, H1[d], H1[Opposite(d)])
<1> DEFINE nx == H[d]
           pv == H[Opposite(d)]
<1>1. \A c \in on \cup {head} : /\ nx[c] \in on \cup {head} /\ pv[nx[c]] = c
                                /\ pv[c] \in on \cup {head} /\ nx[pv[c]] = c
  BY DEF Woven, Follows
<1>2. \A c \in (on \ {e}) \cup {head} : c \in Cells \ {e} /\ c \in on \cup {head}
  BY SafeIterationAssumption DEF Cells
<1>3. \A c \in on \cup {head} : (nx[c] = e <=> c = pv[e]) /\ (pv[c] = e <=> c = nx[e])
  BY <1>1
<1>4. CASE d = "next"
  <2>1. nx = H.next /\ pv = H.prev /\ H1[d] = H1.next /\ H1[Opposite(d)] = H1.prev
    BY <1>4 DEF Opposite
  <2> HIDE DEF nx, pv
  <2>2. Bypassed(on, nx, pv, e, H1[d], H1[Opposite(d)])
    BY <1>2, <1>3, <2>1 DEF Bypassed, Deleted
  <2> QED
    BY <2>2 DEF nx, pv
<1>5. CASE d = "prev"
  <2>1. nx = H.prev /\ pv = H.next /\ H1[d] = H1.prev /\ H1[Opposite(d)] = H1.next
    BY <1>5 DEF Opposite
  <2> HIDE DEF nx, pv
  <2>2. Bypassed(on, nx, pv, e, H1[d], H1[Opposite(d)])
    BY <1>2, <1>3, <2>1 DEF Bypassed, Deleted
  <2> QED
    BY <2>2 DEF nx, pv
<1> QED
  BY <1>4, <1>5

-----------------------------------------------------------------------------
\* What list_add leaves: new is behind at.
Added(H, new, at, H1) ==
  /\ H1 \in Heaps
  /\ H1.next[at] = new /\ H1.next[new] = H.next[at]
  /\ H1.prev[H.next[at]] = new /\ H1.prev[new] = at
  /\ \A c \in Cells \ {new} : c # at => H1.next[c] = H.next[c]
  /\ \A c \in Cells \ {new} : c # H.next[at] => H1.prev[c] = H.prev[c]

LEMMA AddedIs ==
  ASSUME NEW H \in Heaps, NEW new \in Cells, NEW at \in Cells,
         H.next[at] \in Cells, new # at, H.next[at] # new
  PROVE  Added(H, new, at, list_add(H, new, at))
<1> DEFINE b == H.next[at]
           G == SetPrev(H, b, new)
           K == SetNext(G, new, b)
           M == SetPrev(K, new, at)
           N == SetNext(M, at, new)
<1>1. new \in Pointers /\ at \in Pointers /\ b \in Pointers /\ b \in Cells
  BY DEF Pointers
<1>2. list_add(H, new, at) = N
  BY DEF list_add, Link
<1> HIDE DEF b
<1>3. G \in Heaps /\ G.prev = [H.prev EXCEPT ![b] = new] /\ G.next = H.next
  BY <1>1, SetPrevIs
<1> HIDE DEF G
<1>4. K \in Heaps /\ K.next = [G.next EXCEPT ![new] = b] /\ K.prev = G.prev
  BY <1>1, <1>3, SetNextIs
<1> HIDE DEF K
<1>5. M \in Heaps /\ M.prev = [K.prev EXCEPT ![new] = at] /\ M.next = K.next
  BY <1>1, <1>4, SetPrevIs
<1> HIDE DEF M
<1>6. N \in Heaps /\ N.next = [M.next EXCEPT ![at] = new] /\ N.prev = M.prev
  BY <1>1, <1>5, SetNextIs
<1> HIDE DEF N
<1>7. H.next \in [Cells -> Pointers] /\ H.prev \in [Cells -> Pointers]
  BY MapsAre
<1>8. N.next = [[H.next EXCEPT ![new] = b] EXCEPT ![at] = new]
  BY <1>3, <1>4, <1>5, <1>6
<1>9. N.prev = [[H.prev EXCEPT ![b] = new] EXCEPT ![new] = at]
  BY <1>3, <1>4, <1>5, <1>6
<1>10. b # new
  BY DEF b
<1>11. N.next[at] = new /\ N.next[new] = b /\ N.prev[b] = new /\ N.prev[new] = at
  BY <1>1, <1>7, <1>8, <1>9, <1>10
<1>12. /\ \A c \in Cells \ {new} : c # at => N.next[c] = H.next[c]
       /\ \A c \in Cells \ {new} : c # b => N.prev[c] = H.prev[c]
  BY <1>1, <1>7, <1>8, <1>9
<1> QED
  BY <1>2, <1>6, <1>11, <1>12 DEF Added, b

\* In the loop's direction it comes behind at, or in front of it.
LEMMA AddLinksIn ==
  ASSUME NEW H \in Heaps, NEW H1, NEW d \in {"next", "prev"},
         NEW later, NEW on \in SUBSET Entries, NEW new \in Entries \ on,
         NEW at \in on \cup {head},
         Woven(later, on, H[d], H[Opposite(d)]), Added(H, new, at, H1)
  PROVE  LinkedIn(on, H[d], H[Opposite(d)], IF d = "next" THEN at ELSE H.next[at], new,
                  H1[d], H1[Opposite(d)])
<1> DEFINE nx == H[d]
           pv == H[Opposite(d)]
<1>1. \A c \in on \cup {head} : /\ nx[c] \in on \cup {head} /\ pv[nx[c]] = c
                                /\ pv[c] \in on \cup {head} /\ nx[pv[c]] = c
  BY DEF Woven, Follows
<1>2. \A c \in on \cup {head} : c \in Cells \ {new}
  BY SafeIterationAssumption DEF Cells
<1>3. CASE d = "next"
  <2>1. nx = H.next /\ pv = H.prev /\ H1[d] = H1.next /\ H1[Opposite(d)] = H1.prev
    BY <1>3 DEF Opposite
  <2> HIDE DEF nx, pv
  <2>2. LinkedIn(on, nx, pv, at, new, H1[d], H1[Opposite(d)])
    BY <1>2, <2>1 DEF LinkedIn, Added
  <2> QED
    BY <1>3, <2>2 DEF nx, pv
<1>4. CASE d = "prev"
  <2>1. nx = H.prev /\ pv = H.next /\ H1[d] = H1.prev /\ H1[Opposite(d)] = H1.next
    BY <1>4 DEF Opposite
  <2> HIDE DEF nx, pv
  <2>2. nx[pv[at]] = at
    BY <1>1
  <2>3. LinkedIn(on, nx, pv, pv[at], new, H1[d], H1[Opposite(d)])
    BY <1>2, <2>1, <2>2 DEF LinkedIn, Added
  <2> QED
    BY <1>4, <2>1, <2>3 DEF nx, pv
<1> QED
  BY <1>3, <1>4

-----------------------------------------------------------------------------
(* The list the loop starts with. *)

\* Places number the entries from 1.
LEMMA PlaceIs ==
  /\ DOMAIN Order = 1 .. Len(Order) /\ Len(Order) \in Nat
  /\ head \notin Entries /\ Place(head) = 0
  /\ \A e \in Entries : Place(e) \in 1 .. Len(Order) /\ Order[Place(e)] = e
  /\ \A j \in 1 .. Len(Order) : Order[j] \in Entries /\ Place(Order[j]) = j
<1>1. DOMAIN Order = 1 .. Len(Order) /\ Len(Order) \in Nat
  BY SafeIterationAssumption
<1>2. head \notin Entries /\ Place(head) = 0
  BY SafeIterationAssumption DEF Place
<1>3. ASSUME NEW e \in Entries
      PROVE  Place(e) \in DOMAIN Order /\ Order[Place(e)] = e
  <2>1. \E j \in DOMAIN Order : Order[j] = e
    BY DEF Entries
  <2>2. Place(e) = CHOOSE j \in DOMAIN Order : Order[j] = e
    BY <1>2 DEF Place
  <2> QED
    BY <2>1, <2>2
<1>4. ASSUME NEW j \in DOMAIN Order
      PROVE  Order[j] \in Entries /\ Place(Order[j]) = j
  <2>1. Order[j] \in Entries
    BY DEF Entries
  <2> QED
    BY <1>3, <2>1, SafeIterationAssumption
<1> QED
  BY <1>1, <1>2, <1>3, <1>4

\* The order of a list that nothing has changed yet.
Original(on) == [x \in on |-> {y \in on : InFront(x, y)}]

\* The first m entries.
First(m) == {Order[j] : j \in 1 .. m}

LEMMA FirstIs ==
  ASSUME NEW m \in 0 .. Len(Order)
  PROVE  /\ First(m) \subseteq Entries
         /\ \A x \in Entries : x \in First(m) <=> Place(x) <= m
<1>1. \A j \in 1 .. m : j \in 1 .. Len(Order)
  BY PlaceIs
<1>2. First(m) \subseteq Entries
  BY <1>1, PlaceIs DEF First
<1>3. ASSUME NEW x \in Entries, x \in First(m) PROVE Place(x) <= m
  <2>1. PICK j \in 1 .. m : x = Order[j]
    BY <1>3 DEF First
  <2> QED
    BY <1>1, <2>1, PlaceIs
<1>4. ASSUME NEW x \in Entries, Place(x) <= m PROVE x \in First(m)
  <2>1. Place(x) \in 1 .. m /\ Order[Place(x)] = x
    BY <1>4, PlaceIs
  <2> QED
    BY <2>1 DEF First
<1> QED
  BY <1>2, <1>3, <1>4

\* The places order the first entries, in the direction of the loop.
LEMMA OriginalOrdered ==
  ASSUME NEW m \in 0 .. Len(Order), dir \in {"next", "prev"}
  PROVE  Ordered(Original(First(m)), First(m))
<1> DEFINE on == First(m)
           later == Original(on)
<1>1. /\ on \subseteq Entries
      /\ \A x \in on : Place(x) \in Nat
      /\ \A x, y \in on : Place(x) = Place(y) => x = y
  BY FirstIs, PlaceIs
<1> HIDE DEF on
<1>2. /\ later \in [on -> SUBSET on]
      /\ \A x, y \in on : y \in later[x] <=> InFront(x, y)
  BY DEF Original
<1> HIDE DEF later
<1>3. \A x \in on : x \notin later[x]
  BY <1>1, <1>2 DEF InFront
<1>4. \A x, y \in on : x # y => (y \in later[x] <=> x \notin later[y])
  BY <1>1, <1>2 DEF InFront
<1>5. ASSUME NEW x \in on, NEW y \in on, y \in later[x], NEW z \in later[y]
      PROVE  z \in later[x]
  BY <1>1, <1>2, <1>5 DEF InFront
<1>6. Ordered(later, on)
  BY <1>2, <1>3, <1>4, <1>5 DEF Ordered
<1> QED
  BY <1>6 DEF later, on

\* The cell at place j of a ring of m entries and the head.
Cell(m, j) == IF j \in 1 .. m THEN Order[j] ELSE head

LEMMA CellIs ==
  ASSUME NEW m \in 0 .. Len(Order), NEW j \in 0 .. m + 1
  PROVE  /\ Cell(m, j) \in First(m) \cup {head}
         /\ Cell(m, j) = head <=> j \notin 1 .. m
         /\ j \in 0 .. m => Place(Cell(m, j)) = j
<1>1. CASE j \in 1 .. m
  BY <1>1, PlaceIs DEF Cell, First
<1>2. CASE j \notin 1 .. m
  BY <1>2, PlaceIs DEF Cell
<1> QED
  BY <1>1, <1>2

LEMMA ListedIs ==
  ASSUME NEW m \in 0 .. Len(Order)
  PROVE  /\ Listed(m) \in Heaps
         /\ \A c \in First(m) \cup {head} :
              /\ Place(c) \in 0 .. m
              /\ Listed(m).next[c] = Cell(m, Place(c) + 1)
              /\ Listed(m).prev[c] = IF c = head THEN Cell(m, m) ELSE Cell(m, Place(c) - 1)
<1> DEFINE nx == [c \in Cells |-> IF Place(c) <= m THEN Cell(m, Place(c) + 1) ELSE NULL]
           pv == [c \in Cells |-> IF c = head THEN Cell(m, m)
                                  ELSE IF Place(c) <= m THEN Cell(m, Place(c) - 1) ELSE NULL]
<1>1. Listed(m) = [next |-> nx, prev |-> pv]
  BY DEF Listed, Cell
<1>2. \A c \in Cells : c = head \/ c \in Entries
  BY DEF Cells
<1>3. \A j : Cell(m, j) \in Pointers
  BY PlaceIs DEF Cell, Cells, Pointers
<1>4. NULL \in Pointers
  BY DEF Pointers
<1>5. \A c \in First(m) \cup {head} : c \in Cells /\ Place(c) \in 0 .. m
  BY FirstIs, PlaceIs DEF Cells
<1>6. Listed(m) \in Heaps
  BY <1>1, <1>3, <1>4 DEF Heaps
<1>7. Listed(m).next = nx /\ Listed(m).prev = pv
  BY <1>1
<1>8. ASSUME NEW c \in First(m) \cup {head}
      PROVE  nx[c] = Cell(m, Place(c) + 1)
  BY <1>5
<1>9. ASSUME NEW c \in First(m) \cup {head}
      PROVE  pv[c] = IF c = head THEN Cell(m, m) ELSE Cell(m, Place(c) - 1)
  BY <1>5
<1> HIDE DEF nx, pv
<1> QED
  BY <1>5, <1>6, <1>7, <1>8, <1>9

\* The list of the first entries is a ring in their order.
LEMMA OriginalWoven ==
  ASSUME NEW m \in 0 .. Len(Order), dir \in {"next", "prev"}
  PROVE  Woven(Original(First(m)), First(m), Listed(m)[dir], Listed(m)[Opposite(dir)])
<1> DEFINE on == First(m)
           later == Original(on)
           nx == Listed(m).next
           pv == Listed(m).prev
<1>1. \A x \in on \cup {head} :
        /\ Place(x) \in 0 .. m /\ (x = head <=> Place(x) = 0)
        /\ nx[x] = Cell(m, Place(x) + 1)
        /\ pv[x] = IF x = head THEN Cell(m, m) ELSE Cell(m, Place(x) - 1)
  BY ListedIs, PlaceIs, FirstIs
<1>2. \A x, y \in on \cup {head} : Place(x) = Place(y) => x = y
  BY FirstIs, PlaceIs
<1>3. \A x, y \in on : y \in later[x] <=> InFront(x, y)
  BY DEF Original
<1>4. \A j \in 0 .. m + 1 : /\ Cell(m, j) \in on \cup {head}
                            /\ Cell(m, j) = head <=> j \notin 1 .. m
                            /\ j \in 0 .. m => Place(Cell(m, j)) = j
  BY CellIs
<1>5. later \in [on -> SUBSET on] /\ head \notin on
  BY FirstIs, PlaceIs DEF Original
<1>6. m \in Nat /\ \A x \in on : Place(x) \in 1 .. m
  BY <1>1, <1>5, PlaceIs
<1> HIDE DEF on, later, nx, pv
<1>7. \A x \in on \cup {head} : /\ nx[x] \in on \cup {head} /\ pv[nx[x]] = x
                                /\ pv[x] \in on \cup {head} /\ nx[pv[x]] = x
  <2> TAKE x \in on \cup {head}
  <2>0. Place(x) \in 0 .. m /\ nx[x] = Cell(m, Place(x) + 1)
    BY <1>1
  <2>1. Place(x) \in 0 .. m /\ nx[x] = Cell(m, Place(x) + 1) /\ nx[x] \in on \cup {head}
    BY <1>4, <1>6, <2>0
  <2>2. pv[nx[x]] = x
    <3>1. CASE Place(x) = m
      <4>1. nx[x] = head
        BY <1>4, <2>1, <3>1
      <4>2. pv[nx[x]] = Cell(m, m)
        BY <1>1, <4>1
      <4> QED
        BY <1>2, <1>4, <1>6, <3>1, <4>2
    <3>2. CASE Place(x) < m
      <4>1. Place(nx[x]) = Place(x) + 1 /\ nx[x] # head
        BY <1>4, <2>1, <3>2
      <4>2. pv[nx[x]] = Cell(m, Place(x))
        BY <1>1, <2>1, <4>1
      <4> QED
        BY <1>2, <1>4, <2>1, <4>2
    <3> QED
      BY <1>6, <2>1, <3>1, <3>2
  <2>3. pv[x] \in on \cup {head} /\ nx[pv[x]] = x
    <3>1. CASE x = head
      <4>1. pv[x] = Cell(m, m) /\ pv[x] \in on \cup {head} /\ Place(pv[x]) = m
        BY <1>1, <1>4, <1>6, <3>1
      <4>2. nx[pv[x]] = Cell(m, m + 1)
        BY <1>1, <4>1
      <4> QED
        BY <1>4, <1>6, <3>1, <4>1, <4>2
    <3>2. CASE x # head
      <4>1. Place(x) \in 1 .. m /\ pv[x] = Cell(m, Place(x) - 1)
        BY <1>1, <1>6, <3>2
      <4>2. pv[x] \in on \cup {head} /\ Place(pv[x]) = Place(x) - 1
        BY <1>4, <1>6, <4>1
      <4>3. nx[pv[x]] = Cell(m, Place(x))
        BY <1>1, <4>1, <4>2
      <4> QED
        BY <1>2, <1>4, <1>6, <4>1, <4>2, <4>3
    <3> QED
      BY <3>1, <3>2
  <2> QED
    BY <2>1, <2>2, <2>3
<1>8. CASE dir = "next"
  <2>1. \A x \in on \cup {head}, y \in on : y \in Above(later, on, x) <=> Place(x) < Place(y)
    BY <1>1, <1>3, <1>6, <1>8 DEF Above, InFront
  <2>2. \A j \in 1 .. m + 1, y \in on : y \in From(later, on, Cell(m, j)) <=> j <= Place(y)
    <3> TAKE j \in 1 .. m + 1, y \in on
    <3>1. CASE j = m + 1
      BY <1>4, <1>6, <3>1 DEF From
    <3>2. CASE j \in 1 .. m
      <4>1. Cell(m, j) \in on /\ Cell(m, j) # head /\ Place(Cell(m, j)) = j
        BY <1>4, <1>6, <3>2
      <4>2. y = Cell(m, j) <=> Place(y) = j
        BY <1>2, <4>1
      <4> QED
        BY <1>3, <1>6, <1>8, <4>1, <4>2 DEF From, InFront
    <3> QED
      BY <1>6, <3>1, <3>2
  <2>3. ASSUME NEW x \in on \cup {head} PROVE Follows(later, on, x, nx[x])
    <3>1. nx[x] = Cell(m, Place(x) + 1) /\ Place(x) + 1 \in 1 .. m + 1
      BY <1>1, <1>6
    <3>2. \A y \in on : y \in Above(later, on, x) <=> y \in From(later, on, nx[x])
      BY <1>1, <1>6, <2>1, <2>2, <3>1
    <3>3. nx[x] \in on \cup {head}
      BY <1>7
    <3>4. Above(later, on, x) \subseteq on /\ From(later, on, nx[x]) \subseteq on
      BY <3>3 DEF Above, From
    <3> QED
      BY <3>2, <3>3, <3>4 DEF Follows
  <2>4. Woven(later, on, nx, pv)
    BY <1>7, <2>3 DEF Woven
  <2> QED
    BY <1>8, <2>4 DEF on, later, nx, pv, Opposite
<1>9. CASE dir = "prev"
  <2>1. \A x, y \in on : y \in Above(later, on, x) <=> Place(y) < Place(x)
    BY <1>3, <1>5, <1>9 DEF Above, InFront
  <2>2. \A j \in 0 .. m, y \in on : y \in From(later, on, Cell(m, j)) <=> Place(y) <= j
    <3> TAKE j \in 0 .. m, y \in on
    <3>1. CASE j = 0
      BY <1>4, <1>6, <3>1 DEF From
    <3>2. CASE j \in 1 .. m
      <4>1. Cell(m, j) \in on /\ Cell(m, j) # head /\ Place(Cell(m, j)) = j
        BY <1>4, <1>6, <3>2
      <4>2. y = Cell(m, j) <=> Place(y) = j
        BY <1>2, <4>1
      <4> QED
        BY <1>3, <1>6, <1>9, <4>1, <4>2 DEF From, InFront
    <3> QED
      BY <1>6, <3>1, <3>2
  <2>3. ASSUME NEW x \in on \cup {head} PROVE Follows(later, on, x, pv[x])
    <3>2. \A y \in on : y \in Above(later, on, x) <=> y \in From(later, on, pv[x])
      <4>1. CASE x = head
        <5>1. pv[x] = Cell(m, m)
          BY <1>1, <4>1
        <5> QED
          BY <1>6, <2>2, <4>1, <5>1 DEF Above
      <4>2. CASE x # head
        <5>1. pv[x] = Cell(m, Place(x) - 1) /\ Place(x) - 1 \in 0 .. m
          BY <1>1, <1>6, <4>2
        <5> QED
          BY <1>1, <1>6, <2>1, <2>2, <4>2, <5>1
      <4> QED
        BY <4>1, <4>2
    <3>3. pv[x] \in on \cup {head}
      BY <1>7
    <3>4. Above(later, on, x) \subseteq on /\ From(later, on, pv[x]) \subseteq on
      BY <3>3 DEF Above, From
    <3> QED
      BY <3>2, <3>3, <3>4 DEF Follows
  <2>4. Woven(later, on, pv, nx)
    BY <1>7, <2>3 DEF Woven
  <2> QED
    BY <1>9, <2>4 DEF on, later, nx, pv, Opposite
<1> QED
  BY <1>8, <1>9

-----------------------------------------------------------------------------
(* The invariant of a loop. *)

\* The types of the loop's variables.
TypeOK ==
  /\ heap \in Heaps
  /\ linked \subseteq Placed /\ stayed \subseteq Placed /\ fresh \subseteq Entries
  /\ dir \in {"next", "prev"} /\ safe \in BOOLEAN
  /\ pc \in {"begin", "body", "unlocked", "locked", "advance", "done"}
  /\ pos \in Cells /\ n \in Pointers /\ visited \in Seq(Entries)

\* Before a loop begins nothing has happened to the list.
Untouched ==
  /\ visited = <<>> /\ stayed = {}
  /\ \E m \in 0 .. Len(Order) : heap = Listed(m) /\ linked = First(m)
  /\ fresh = Entries \ linked

\* Within a loop: where it is, what it will go to, and that who stayed is
\* either seen or ahead.
Cursor(later) ==
  /\ Len(visited) > 0 /\ pos = visited[Len(visited)]
  /\ pc # "advance" \/ ~safe => pos \in linked
  /\ safe /\ pc = "unlocked" => dir = "next"
  /\ safe /\ pc # "unlocked" => Follows(later, linked, pos, n)
  /\ stayed \subseteq Seen \cup Above(later, linked, pos)

\* The order agrees with the places of who stayed, and the body went along it.
History(later) ==
  /\ \A x, y \in stayed : y \in later[x] <=> InFront(x, y)
  /\ Seen \subseteq Placed
  /\ \A j, l \in DOMAIN visited : j < l => visited[l] \in later[visited[j]]

\* A loop on its way along a list in this order.
Along(later) ==
  /\ Ordered(later, Placed)
  /\ Woven(later, linked, heap[dir], heap[Opposite(dir)])
  /\ History(later)
  /\ pc \in {"body", "unlocked", "locked", "advance"} => Cursor(later)
  /\ pc = "done" => stayed \subseteq Seen

\* The invariant of a loop.
IInv ==
  /\ TypeOK
  /\ pc = "begin" => Untouched
  /\ pc # "begin" => \E later : Along(later)

\* The head is no entry.
LEMMA HeadIsOff == head \notin Entries /\ head \notin Placed
BY SafeIterationAssumption DEF Placed

\* A loop begins in the invariant.
LEMMA InitOK == Init => IInv
<1> SUFFICES ASSUME Init PROVE IInv
  OBVIOUS
<1>1. PICK m \in 0 .. Len(Order) : heap = Listed(m) /\ linked = First(m)
  BY DEF Init, First
<1>2. linked \subseteq Entries /\ fresh = Entries \ linked /\ Placed = linked
  BY <1>1, FirstIs DEF Init, Placed
<1>3. head \in Cells /\ head \in Pointers
  BY DEF Cells, Pointers
<1>4. TypeOK
  BY <1>1, <1>2, <1>3, ListedIs DEF Init, TypeOK
<1>5. Untouched /\ pc = "begin"
  BY <1>1, <1>2 DEF Init, Untouched
<1> QED
  BY <1>4, <1>5 DEF IInv

-----------------------------------------------------------------------------
\* The end of a sequence.
LEMMA AppendIs ==
  ASSUME NEW T, NEW seq \in Seq(T), NEW c \in T
  PROVE  /\ Append(seq, c) \in Seq(T) /\ Len(seq) \in Nat
         /\ Len(Append(seq, c)) = Len(seq) + 1
         /\ DOMAIN seq = 1 .. Len(seq)
         /\ DOMAIN Append(seq, c) = 1 .. Len(seq) + 1
         /\ Append(seq, c)[Len(seq) + 1] = c
         /\ \A j \in 1 .. Len(seq) : Append(seq, c)[j] = seq[j]
OBVIOUS

\* What a loop that comes to this cell has to know of it.
Reaches(later, at, staying) ==
  /\ at \in linked \cup {head}
  /\ at # head => \A j \in DOMAIN visited : at \in later[visited[j]]
  /\ staying \subseteq Seen \cup From(later, linked, at)
  /\ staying \subseteq Placed
  /\ \A x, y \in staying : y \in later[x] <=> InFront(x, y)

\* The loop comes to at and tests whether it is the head.
LEMMA TestKeeps ==
  ASSUME TypeOK, NEW later, Ordered(later, Placed),
         Woven(later, linked, heap[dir], heap[Opposite(dir)]),
         Seen \subseteq Placed,
         \A j, l \in DOMAIN visited : j < l => visited[l] \in later[visited[j]],
         NEW at, Reaches(later, at, stayed'), Test(at)
  PROVE  IInv'
<1>1. at \in Cells /\ at \in Pointers /\ linked \subseteq Entries
  BY HeadIsOff DEF TypeOK, Reaches, Cells, Placed, Pointers
<1>2. /\ pos' = at /\ n' = (IF safe THEN heap[dir][at] ELSE n)
      /\ pc' = (IF at = head THEN "done" ELSE "body")
      /\ visited' = (IF at \in Entries THEN Append(visited, at) ELSE visited)
      /\ UNCHANGED <<heap, linked, fresh, dir, safe>>
  BY <1>1 DEF Test
<1>3. heap[dir][at] \in Pointers
  <2>1. heap.next \in [Cells -> Pointers] /\ heap.prev \in [Cells -> Pointers]
    BY MapsAre DEF TypeOK
  <2>2. heap[dir] = heap.next \/ heap[dir] = heap.prev
    BY DEF TypeOK
  <2> QED
    BY <1>1, <2>1, <2>2
<1>4. at \in Entries <=> at # head
  BY <1>1, HeadIsOff DEF Reaches
<1>5. visited \in Seq(Entries) /\ DOMAIN visited = 1 .. Len(visited) /\ Len(visited) \in Nat
  BY DEF TypeOK
<1>6. /\ visited' \in Seq(Entries)
      /\ at \in Entries => /\ Len(visited') = Len(visited) + 1
                           /\ DOMAIN visited' = 1 .. Len(visited) + 1
                           /\ visited'[Len(visited) + 1] = at
                           /\ \A j \in 1 .. Len(visited) : visited'[j] = visited[j]
  BY <1>2, <1>5, AppendIs
<1>7. TypeOK'
  BY <1>1, <1>2, <1>3, <1>6 DEF TypeOK, Reaches, Placed
<1>8. Seen' = IF at = head THEN Seen ELSE Seen \cup {at}
  <2>1. CASE at = head
    BY <1>2, <1>4, <2>1 DEF Seen
  <2>2. CASE at # head
    <3>1. 1 .. Len(visited) + 1 = (1 .. Len(visited)) \cup {Len(visited) + 1}
      BY <1>5
    <3>2. Seen' = {visited'[j] : j \in 1 .. Len(visited)} \cup {visited'[Len(visited) + 1]}
      BY <1>4, <1>6, <2>2, <3>1 DEF Seen
    <3> QED
      BY <1>4, <1>5, <1>6, <2>2, <3>2 DEF Seen
  <2> QED
    BY <2>1, <2>2
<1>9. Placed' = Placed /\ (Ordered(later, Placed))'
  BY <1>2 DEF Placed
<1>10. (Woven(later, linked, heap[dir], heap[Opposite(dir)]))'
  BY <1>2
<1>11. \A x, y \in stayed' : y \in later[x] <=> InFront(x, y)'
  BY <1>2 DEF Reaches, InFront
<1>12. Seen' \subseteq Placed'
  BY <1>8, <1>9 DEF Reaches, TypeOK
<1>13. \A j, l \in DOMAIN visited' : j < l => visited'[l] \in later[visited'[j]]
  <2>1. CASE at = head
    BY <1>2, <1>4, <2>1
  <2>2. CASE at # head
    <3> TAKE j, l \in DOMAIN visited'
    <3> HAVE j < l
    <3>1. j \in 1 .. Len(visited) /\ visited'[j] = visited[j]
      BY <1>4, <1>5, <1>6, <2>2
    <3>2. CASE l = Len(visited) + 1
      BY <1>4, <1>5, <1>6, <2>2, <3>1, <3>2 DEF Reaches
    <3>3. CASE l \in 1 .. Len(visited)
      BY <1>4, <1>5, <1>6, <2>2, <3>1, <3>3
    <3> QED
      BY <1>4, <1>5, <1>6, <2>2, <3>2, <3>3
  <2> QED
    BY <2>1, <2>2
<1>14. History(later)'
  BY <1>11, <1>12, <1>13 DEF History
<1>15. ASSUME at # head PROVE Cursor(later)'
  <2>1. Follows(later, linked, at, heap[dir][at])
    BY DEF Woven, Reaches
  <2>2. pc' = "body" /\ at \in linked /\ Seen' = Seen \cup {at}
    BY <1>2, <1>8, <1>15 DEF Reaches
  <2>3. stayed' \subseteq Seen' \cup Above(later, linked, at)
    BY <1>15, <2>2 DEF Reaches, From, Above
  <2>4. Len(visited') > 0 /\ visited'[Len(visited')] = at
    BY <1>4, <1>5, <1>6, <1>15
  <2> QED
    BY <1>2, <2>1, <2>2, <2>3, <2>4 DEF Cursor, Follows, Above, From
<1>16. at = head => stayed' \subseteq Seen'
  BY <1>8 DEF Reaches, From
<1>17. Along(later)'
  BY <1>2, <1>9, <1>10, <1>14, <1>15, <1>16 DEF Along
<1> QED
  BY <1>2, <1>7, <1>17 DEF IInv

\* The first step of a loop.
LEMMA BeginKeeps ==
  ASSUME IInv, ForEach \/ \E e \in Entries : ForEachContinue(e) \/ ForEachFrom(e)
  PROVE  IInv'
<1>1. PICK at : Begin(at) /\ (at = heap[dir][head] \/ (\E e \in linked : at = heap[dir][e] \/ at = e))
  BY DEF ForEach, ForEachContinue, ForEachFrom
<1>2. TypeOK /\ Untouched
  BY <1>1 DEF IInv, Begin
<1>3. PICK m \in 0 .. Len(Order) : heap = Listed(m) /\ linked = First(m)
  BY <1>2 DEF Untouched
<1>4. linked \subseteq Entries /\ Placed = linked
  BY <1>2, <1>3, FirstIs DEF Untouched, Placed
<1> DEFINE later == Original(linked)
<1>5. Ordered(later, Placed)
  BY <1>2, <1>3, <1>4, OriginalOrdered DEF TypeOK
<1>6. Woven(later, linked, heap[dir], heap[Opposite(dir)])
  BY <1>2, <1>3, OriginalWoven DEF TypeOK
<1>7. \A x, y \in linked : y \in later[x] <=> InFront(x, y)
  BY DEF Original
<1>8. later \in [linked -> SUBSET linked]
  BY DEF Original
<1> HIDE DEF later
<1>9. Seen = {} /\ DOMAIN visited = {}
  BY <1>2 DEF Untouched, Seen
<1>10. at \in linked \cup {head}
  BY <1>1, <1>6 DEF Woven, Follows
<1>11. stayed' = From(later, linked, at)
  BY <1>1, <1>7, <1>8, <1>10 DEF Begin, Before, From
<1>12. stayed' \subseteq linked
  BY <1>8, <1>10, <1>11 DEF From
<1>13. Reaches(later, at, stayed')
  BY <1>4, <1>7, <1>9, <1>10, <1>11, <1>12 DEF Reaches
<1> QED
  BY <1>1, <1>2, <1>5, <1>6, <1>9, <1>13, TestKeeps DEF Begin

\* On to the next cell: the plain loop reads it now, the safe one has it.
LEMMA AdvanceKeeps == ASSUME IInv, Advance PROVE IInv'
<1> DEFINE at == IF safe THEN n ELSE heap[dir][pos]
<1>1. TypeOK /\ pc = "advance" /\ Test(at) /\ stayed' = stayed
  BY DEF IInv, Advance
<1>2. PICK later : Along(later)
  BY <1>1 DEF IInv
<1>3. /\ Ordered(later, Placed)
      /\ Woven(later, linked, heap[dir], heap[Opposite(dir)])
      /\ History(later) /\ Cursor(later)
  BY <1>1, <1>2 DEF Along
<1>4. Follows(later, linked, pos, at)
  BY <1>1, <1>3 DEF Cursor, Woven
<1> HIDE DEF at
<1>5. at \in linked \cup {head} /\ Above(later, linked, pos) = From(later, linked, at)
  BY <1>4 DEF Follows
<1>6. visited \in Seq(Entries) /\ Len(visited) \in DOMAIN visited /\ pos = visited[Len(visited)]
      /\ DOMAIN visited = 1 .. Len(visited) /\ Len(visited) \in Nat
  BY <1>1, <1>3 DEF TypeOK, Cursor
<1>7. pos \in Placed /\ pos # head
  BY <1>3, <1>6, HeadIsOff DEF History, Seen
<1>8. ASSUME at # head, NEW j \in DOMAIN visited
      PROVE  at \in later[visited[j]]
  <2>1. at \in later[pos]
    BY <1>5, <1>7, <1>8 DEF Above, From
  <2>2. CASE j = Len(visited)
    BY <1>6, <2>1, <2>2
  <2>3. CASE j < Len(visited)
    <3>1. visited[j] \in Placed /\ pos \in later[visited[j]]
      BY <1>3, <1>6, <1>8, <2>3 DEF History, Seen
    <3> QED
      BY <1>3, <1>7, <2>1, <3>1 DEF Ordered
  <2> QED
    BY <1>6, <1>8, <2>2, <2>3
<1>9. Reaches(later, at, stayed')
  BY <1>1, <1>3, <1>5, <1>8 DEF Reaches, Cursor, History, TypeOK
<1> QED
  BY <1>1, <1>3, <1>9, TestKeeps DEF History

\* The steps that only move the loop, and change no more than pc and n.
LEMMA StaysKeeps ==
  ASSUME TypeOK', pc' # "begin", NEW later, Along(later), Cursor(later)',
         UNCHANGED <<heap, linked, stayed, fresh, dir, safe, pos, visited>>,
         pc' # "done"
  PROVE  IInv'
<1>1. Placed' = Placed /\ Seen' = Seen
  BY DEF Placed, Seen
<1>2. History(later)'
  BY <1>1 DEF Along, History, InFront
<1>3. Along(later)'
  BY <1>1, <1>2 DEF Along
<1> QED
  BY <1>3 DEF IInv

\* The body leaves the entry on the list.
LEMMA KeepKeeps == ASSUME IInv, Keep PROVE IInv'
<1>1. TypeOK /\ TypeOK'
  BY DEF IInv, TypeOK, Keep, Placed
<1>2. PICK later : Along(later) /\ Cursor(later)
  BY DEF IInv, Keep, Along
<1>3. Cursor(later)'
  BY <1>2 DEF Keep, Cursor, Seen, Above, From, Follows
<1> QED
  BY <1>1, <1>2, <1>3, StaysKeeps DEF Keep

\* The body lets others at the list.
LEMMA UnlockKeeps == ASSUME IInv, Unlock PROVE IInv'
<1>1. TypeOK /\ TypeOK'
  BY DEF IInv, TypeOK, Unlock, Placed
<1>2. PICK later : Along(later) /\ Cursor(later)
  BY DEF IInv, Unlock, Along
<1>3. Cursor(later)'
  BY <1>2 DEF Unlock, Cursor, Seen, Above
<1> QED
  BY <1>1, <1>2, <1>3, StaysKeeps DEF Unlock

\* And takes the list again, with a fresh look at what comes next.
LEMMA RelockKeeps == ASSUME IInv, Relock PROVE IInv'
<1>1. PICK later : Along(later) /\ Cursor(later)
  BY DEF IInv, Relock, Along
<1>2. TypeOK /\ heap.next[pos] \in Pointers
  BY MapsAre DEF IInv, TypeOK
<1>3. TypeOK'
  BY <1>2 DEF TypeOK, Relock, Placed
<1>4. pos \in linked /\ (safe => dir = "next")
  BY <1>1 DEF Relock, Cursor
<1>5. safe => Follows(later, linked, pos, heap.next[pos])
  BY <1>1, <1>4 DEF Along, Woven
<1>6. Cursor(later)'
  BY <1>1, <1>4, <1>5 DEF Relock, Cursor, Seen, Above, From, Follows
<1> QED
  BY <1>1, <1>3, <1>6, StaysKeeps DEF Relock

\* The body takes its own entry off.
LEMMA RemoveKeeps == ASSUME IInv, Remove PROVE IInv'
<1>1. PICK later : Along(later) /\ Cursor(later)
  BY DEF IInv, Remove, Along
<1>2. TypeOK /\ pos \in linked /\ linked \subseteq Entries /\ linked \subseteq Placed
  BY <1>1 DEF IInv, TypeOK, Remove, Cursor, Placed
<1>3. /\ Ordered(later, Placed)
      /\ Woven(later, linked, heap[dir], heap[Opposite(dir)])
  BY <1>1 DEF Along
<1>4. heap.next[pos] \in Cells /\ heap.prev[pos] \in Cells
  BY <1>2, <1>3 DEF Woven, Follows, TypeOK, Opposite, Cells
<1>5. heap \in Heaps /\ pos \in Cells /\ dir \in {"next", "prev"}
  BY <1>2 DEF TypeOK
<1>6. Deleted(heap, pos, heap')
  BY <1>4, <1>5, DeletedIs DEF Remove
<1>7. Bypassed(linked, heap[dir], heap[Opposite(dir)], pos, heap'[dir], heap'[Opposite(dir)])
  BY <1>2, <1>3, <1>5, <1>6, DeleteBypasses
<1>8. /\ Woven(later, linked \ {pos}, heap'[dir], heap'[Opposite(dir)])
  BY <1>2, <1>3, <1>7, HeadIsOff, RemoveKeepsWoven
<1>9. UNCHANGED <<stayed, fresh, dir, safe, pos, n, visited>> /\ linked' = linked \ {pos}
      /\ pc' = "advance" /\ safe
  BY DEF Remove
<1>10. TypeOK'
  BY <1>2, <1>6, <1>9 DEF TypeOK, Deleted, Placed
<1>11. Placed' = Placed /\ Seen' = Seen /\ History(later)'
  BY <1>1, <1>9 DEF Placed, Seen, History, InFront, Along
<1>12. pos \notin later[pos] /\ pos \in Placed /\ pos # head /\ Follows(later, linked, pos, n)
  BY <1>1, <1>2, <1>3, HeadIsOff DEF Ordered, Cursor, Remove
<1>13. Above(later, linked \ {pos}, pos) = Above(later, linked, pos)
  BY <1>12 DEF Above
<1>14. n # pos /\ pos \notin From(later, linked, n)
  BY <1>12 DEF Follows, Above, From
<1>15. Follows(later, linked \ {pos}, pos, n)
  <2>1. From(later, linked \ {pos}, n) = From(later, linked, n)
    BY <1>14 DEF From
  <2> QED
    BY <1>12, <1>13, <1>14, <2>1 DEF Follows
<1>16. Cursor(later)'
  BY <1>1, <1>9, <1>11, <1>13, <1>15 DEF Cursor, Above, Follows, From
<1>17. Along(later)'
  BY <1>3, <1>8, <1>9, <1>11, <1>16 DEF Along
<1> QED
  BY <1>9, <1>10, <1>17 DEF IInv

\* Another takes off an entry the loop is not at.
LEMMA OtherRemoveKeeps ==
  ASSUME IInv, NEW e \in Entries, OtherRemove(e) PROVE IInv'
<1>1. PICK later : Along(later) /\ Cursor(later)
  BY DEF IInv, OtherRemove, Along
<1>2. TypeOK /\ e \in linked \ {pos} /\ linked \subseteq Entries /\ linked \subseteq Placed
  BY DEF IInv, TypeOK, OtherRemove, Placed
<1>3. /\ Ordered(later, Placed)
      /\ Woven(later, linked, heap[dir], heap[Opposite(dir)])
  BY <1>1 DEF Along
<1>4. heap.next[e] \in Cells /\ heap.prev[e] \in Cells
  BY <1>2, <1>3 DEF Woven, Follows, TypeOK, Opposite, Cells
<1>5. heap \in Heaps /\ e \in Cells /\ dir \in {"next", "prev"}
  BY <1>2 DEF TypeOK, Cells
<1>6. Deleted(heap, e, heap')
  BY <1>4, <1>5, DeletedIs DEF OtherRemove
<1>7. Bypassed(linked, heap[dir], heap[Opposite(dir)], e, heap'[dir], heap'[Opposite(dir)])
  BY <1>2, <1>3, <1>5, <1>6, DeleteBypasses
<1>8. /\ Woven(later, linked \ {e}, heap'[dir], heap'[Opposite(dir)])
  BY <1>2, <1>3, <1>7, HeadIsOff, RemoveKeepsWoven
<1>9. UNCHANGED <<fresh, dir, safe, pc, pos, n, visited>> /\ linked' = linked \ {e}
      /\ pc = "unlocked" /\ stayed' = stayed \ {e}
  BY DEF OtherRemove
<1>10. TypeOK'
  BY <1>2, <1>6, <1>9 DEF TypeOK, Deleted, Placed
<1>11. Placed' = Placed /\ Seen' = Seen /\ History(later)'
  BY <1>1, <1>9 DEF Placed, Seen, History, InFront, Along
<1>12. stayed' \subseteq Seen' \cup Above(later, linked', pos')
  BY <1>1, <1>9, <1>11 DEF Cursor, Above
<1>13. Cursor(later)'
  BY <1>1, <1>2, <1>9, <1>12 DEF Cursor, Above
<1>14. Along(later)'
  BY <1>3, <1>8, <1>9, <1>11, <1>13 DEF Along
<1> QED
  BY <1>9, <1>10, <1>14 DEF IInv

\* Another adds an entry.
LEMMA OtherAddKeeps ==
  ASSUME IInv, NEW new \in Entries, NEW at \in Cells, OtherAdd(new, at) PROVE IInv'
<1>1. PICK later : Along(later) /\ Cursor(later)
  BY DEF IInv, OtherAdd, Along
<1>2. /\ TypeOK /\ new \in fresh /\ new \in Entries \ linked /\ new \notin Placed
      /\ at \in linked \cup {head} /\ linked \subseteq Entries /\ linked \subseteq Placed
  BY DEF IInv, TypeOK, OtherAdd, Placed
<1>3. /\ Ordered(later, Placed)
      /\ Woven(later, linked, heap[dir], heap[Opposite(dir)])
  BY <1>1 DEF Along
<1>4. heap.next[at] \in linked \cup {head}
  BY <1>2, <1>3 DEF Woven, Follows, TypeOK, Opposite
<1>5. heap \in Heaps /\ new \in Cells /\ dir \in {"next", "prev"} /\ new # head
      /\ heap.next[at] \in Cells /\ heap.next[at] # new /\ new # at
  BY <1>2, <1>4, HeadIsOff DEF TypeOK, Cells
<1>6. Added(heap, new, at, heap')
  BY <1>5, AddedIs DEF OtherAdd
<1> DEFINE a == IF dir = "next" THEN at ELSE heap.next[at]
<1>7. LinkedIn(linked, heap[dir], heap[Opposite(dir)], a, new, heap'[dir], heap'[Opposite(dir)])
  BY <1>2, <1>3, <1>5, <1>6, AddLinksIn
<1>8. a \in linked \cup {head} /\ a \in Placed \cup {head}
  BY <1>2, <1>4
<1> HIDE DEF a
<1> PICK ins : ins = Inserted(later, Placed, a, new)
  OBVIOUS
<1>9. Woven(ins, linked \cup {new}, heap'[dir], heap'[Opposite(dir)])
  BY <1>2, <1>3, <1>5, <1>7, <1>8, HeadIsOff, InsertKeepsWoven
<1>10. Ordered(ins, Placed \cup {new})
  BY <1>2, <1>3, <1>8, HeadIsOff, InsertKeepsOrder
<1>11. \A x, y \in Placed : y \in ins[x] <=> y \in later[x]
  BY <1>2, <1>3, InsertedIs
<1>12. UNCHANGED <<stayed, dir, safe, pc, pos, n, visited>> /\ linked' = linked \cup {new}
       /\ pc = "unlocked" /\ fresh' = fresh \ {new}
  BY DEF OtherAdd
<1>13. Placed' = Placed \cup {new} /\ Seen' = Seen
  BY <1>2, <1>12 DEF Placed, Seen
<1>14. TypeOK'
  BY <1>2, <1>6, <1>12, <1>13 DEF TypeOK, Added
<1>15. History(ins)'
  <2>1. \A x, y \in stayed : y \in ins[x] <=> InFront(x, y)
    BY <1>1, <1>2, <1>11 DEF Along, History, TypeOK
  <2>2. \A j \in DOMAIN visited : visited[j] \in Placed
    BY <1>1 DEF Along, History, Seen
  <2>3. \A j, l \in DOMAIN visited : j < l => visited[l] \in ins[visited[j]]
    BY <1>1, <1>11, <2>2 DEF Along, History
  <2>4. Seen \subseteq Placed
    BY <1>1 DEF Along, History
  <2> QED
    BY <1>12, <1>13, <2>1, <2>3, <2>4 DEF History, InFront
<1>16. Cursor(ins)'
  <2>1. pos \in Placed /\ pos # head /\ stayed \subseteq Placed
    BY <1>1, <1>2, <1>12, HeadIsOff DEF Cursor, TypeOK
  <2>2. Above(later, linked, pos) \subseteq Above(ins, linked', pos)
    BY <1>2, <1>11, <1>12, <2>1 DEF Above
  <2>3. stayed' \subseteq Seen' \cup Above(ins, linked', pos')
    BY <1>1, <1>12, <1>13, <2>2 DEF Cursor
  <2> QED
    BY <1>1, <1>12, <2>3 DEF Cursor, Above
<1>17. Along(ins)'
  BY <1>9, <1>10, <1>12, <1>13, <1>15, <1>16 DEF Along
<1> QED
  BY <1>12, <1>14, <1>17 DEF IInv

\* Steps of others.
LEMMA StutterKeeps == ASSUME IInv, UNCHANGED vars PROVE IInv'
BY DEF vars, IInv, TypeOK, Untouched, Along, History, Cursor, Placed, Seen, InFront,
       Follows, Above, From

\* Every step keeps the invariant.
LEMMA NextKeeps == ASSUME IInv, [Next]_vars PROVE IInv'
<1>1. CASE Loop
  BY <1>1, BeginKeeps, AdvanceKeeps, KeepKeeps, RemoveKeeps, RelockKeeps DEF Loop
<1>2. CASE Unlock
  BY <1>2, UnlockKeeps
<1>3. CASE Other
  BY <1>3, OtherRemoveKeeps, OtherAddKeeps DEF Other
<1>4. CASE Stopped \/ UNCHANGED vars
  BY <1>4, StutterKeeps DEF Stopped
<1> QED
  BY <1>1, <1>2, <1>3, <1>4 DEF Next

\* The invariant holds in every run of a loop, whatever its body and the
\* others do to the list.
THEOREM LoopInvariant == Spec => []IInv
<1>1. Init => IInv
  BY InitOK
<1>2. IInv /\ [Next]_vars => IInv'
  BY NextKeeps
<1> QED
  BY <1>1, <1>2, PTL DEF Spec

\* A loop of list.h runs its body for one entry after the other, none twice
\* (list_for_each and its forms, with and without _safe).
THEOREM BodiesRunOnce == Spec => []BodyRunsOnceEach
<1>1. ASSUME IInv PROVE BodyRunsOnceEach
  <2>1. CASE pc = "begin"
    BY <1>1, <2>1 DEF IInv, Untouched, BodyRunsOnceEach
  <2>2. CASE pc # "begin"
    <3>1. PICK later : Along(later)
      BY <1>1, <2>2 DEF IInv
    <3>2. pc = "body" => pos \in linked
      BY <3>1 DEF Along, Cursor
    <3>3. \A j \in DOMAIN visited : j \in Nat /\ visited[j] \in Placed
      BY <1>1, <3>1 DEF IInv, TypeOK, Along, History, Seen
    <3>4. \A j, l \in DOMAIN visited : j < l => visited[j] # visited[l]
      BY <3>1, <3>3 DEF Along, History, Ordered
    <3>5. \A j, l \in DOMAIN visited : visited[j] = visited[l] => j = l
      BY <3>3, <3>4
    <3> QED
      BY <3>2, <3>5 DEF BodyRunsOnceEach
  <2> QED
    BY <2>1, <2>2
<1> QED
  BY <1>1, LoopInvariant, PTL

\* A loop that ends has run its body for every entry that was on the list all
\* the time, in the order they had on it.
THEOREM NobodySkipped == Spec => []NoneSkipped
<1>1. ASSUME IInv PROVE NoneSkipped
  <2> SUFFICES ASSUME pc = "done" PROVE NoneSkipped
    BY DEF NoneSkipped
  <2>1. PICK later : Along(later)
    BY <1>1 DEF IInv
  <2>2. stayed \subseteq Seen
    BY <2>1 DEF Along
  <2>3. \A j, l \in DOMAIN visited :
          j < l /\ {visited[j], visited[l]} \subseteq stayed => InFront(visited[j], visited[l])
    BY <2>1 DEF Along, History
  <2> QED
    BY <2>2, <2>3 DEF NoneSkipped, Seen
<1> QED
  BY <1>1, LoopInvariant, PTL

-----------------------------------------------------------------------------
(* The poller.  What the owner's own loads show is a list in order; what is *)
(* in memory is behind by the stores that wait.                             *)

\* The names of CarefulEmpty for its list.
Ends == Careful!Cells
Fields == Careful!Fields
Polled == Careful!Entries
Stores == [cell : Ends, field : Fields, value : Ends]

\* The stores in st to a pointer, and what is the latest value of it.
Pending(st, c, f) == {j \in DOMAIN st : st[j].cell = c /\ st[j].field = f}

IsLatest(st, mm, c, f, v) ==
  \/ Pending(st, c, f) = {} /\ mm[f][c] = v
  \/ \E j \in Pending(st, c, f) :
       st[j].value = v /\ \A l \in Pending(st, c, f) : l <= j

Shows(st, mm, view) == \A c \in Ends, f \in Fields : IsLatest(st, mm, c, f, view[f][c])

\* What leads an entry to itself is the last that is stored there.
Settles(st, mm, gone) ==
  \A e \in Polled, f \in Fields :
    /\ mm[f][e] = e => e \in gone /\ Pending(st, e, f) = {}
    /\ \A j \in Pending(st, e, f) :
         st[j].value = e => e \in gone /\ \A l \in Pending(st, e, f) : l <= j

\* Where an entry was on the list, from 1.
Rank(e) == CHOOSE j \in DOMAIN PollOrder : PollOrder[j] = e

\* The list without those that are gone.
Ring(gone) == (Polled \ gone) \cup {head}

\* The view is a ring of the others, in their old order.
InOrder(view, gone) ==
  /\ view \in [Fields -> [Ends -> Ends]]
  /\ \A c \in Ring(gone) :
       /\ view["next"][c] \in Ring(gone) /\ view["prev"][view["next"][c]] = c
       /\ view["prev"][c] \in Ring(gone) /\ view["next"][view["prev"][c]] = c
  /\ \A c \in Polled \ gone : view["next"][c] # head => Rank(c) < Rank(view["next"][c])

\* The owner sees a list in order, and memory is on its way there.
OwnerOK == /\ mem \in [Fields -> [Ends -> Ends]] /\ stores \in Seq(Stores) /\ off \subseteq Polled
           /\ \E view : Shows(stores, mem, view) /\ InOrder(view, off)
           /\ Settles(stores, mem, off)

\* What the poller has loaded, and what it was told, is settled.
PollerOK ==
  /\ asked \in Polled \cup {Nothing} /\ loaded \in [Fields -> Ends \cup {Nothing}]
  /\ asked # Nothing => \A f \in Fields : loaded[f] = asked => mem[f][asked] = asked
  /\ mine \subseteq Polled /\ \A e \in mine, f \in Fields : mem[f][e] = e

\* The invariant of the owner and the poller.
PollInv == OwnerOK /\ PollerOK

\* The cells are the entries and the head.
LEMMA EndsAre ==
  /\ Fields = {"next", "prev"} /\ Ends = Polled \cup {head}
  /\ head \notin Polled /\ Nothing \notin Ends
BY CarefulAssumption DEF Careful!CarefulEmptyAssumption, Fields, Ends, Polled,
   Careful!Fields, Careful!Cells

\* Ranks number the entries from 1.
LEMMA RankIs ==
  /\ DOMAIN PollOrder = 1 .. Len(PollOrder) /\ Len(PollOrder) \in Nat
  /\ \A e \in Polled : Rank(e) \in 1 .. Len(PollOrder) /\ PollOrder[Rank(e)] = e
  /\ \A j \in 1 .. Len(PollOrder) : PollOrder[j] \in Polled /\ Rank(PollOrder[j]) = j
<1>1. PollOrder \in Seq(Polled)
      /\ \A j, l \in DOMAIN PollOrder : PollOrder[j] = PollOrder[l] => j = l
  BY CarefulAssumption DEF Careful!CarefulEmptyAssumption, Polled
<1>2. \A e \in Polled : \E j \in DOMAIN PollOrder : PollOrder[j] = e
  BY DEF Polled, Careful!Entries
<1>3. \A e \in Polled : Rank(e) \in DOMAIN PollOrder /\ PollOrder[Rank(e)] = e
  BY <1>2 DEF Rank
<1>4. DOMAIN PollOrder = 1 .. Len(PollOrder) /\ Len(PollOrder) \in Nat
  BY <1>1
<1>5. \A j \in DOMAIN PollOrder : PollOrder[j] \in Polled
  BY <1>1
<1> QED
  BY <1>1, <1>3, <1>4, <1>5

\* The owner's view is unique.
LEMMA OwnIs ==
  ASSUME NEW view, Shows(stores, mem, view), NEW c \in Ends, NEW f \in Fields, stores \in Seq(Stores)
  PROVE  Careful!Own(c, f) = view[f][c]
<1> DEFINE own == {j \in DOMAIN stores : stores[j].cell = c /\ stores[j].field = f}
<1>1. own = Pending(stores, c, f)
  BY DEF Pending
<1>2. Careful!Own(c, f) = IF own = {} THEN mem[f][c]
                          ELSE stores[CHOOSE j \in own : \A l \in own : l <= j].value
  BY DEF Careful!Own
<1>3. own \subseteq Int
  OBVIOUS
<1> HIDE DEF own
<1>4. IsLatest(stores, mem, c, f, view[f][c])
  BY DEF Shows
<1>5. CASE own = {}
  BY <1>1, <1>2, <1>4, <1>5 DEF IsLatest
<1>6. CASE own # {}
  <2>1. PICK j \in own : stores[j].value = view[f][c] /\ \A l \in own : l <= j
    BY <1>1, <1>4, <1>6 DEF IsLatest
  <2> DEFINE k == CHOOSE k \in own : \A l \in own : l <= k
  <2>2. k \in own /\ \A l \in own : l <= k
    BY <2>1
  <2>3. Careful!Own(c, f) = stores[k].value
    BY <1>2, <1>6
  <2> HIDE DEF k
  <2>4. k = j
    BY <1>3, <2>1, <2>2
  <2> QED
    BY <2>1, <2>3, <2>4
<1> QED
  BY <1>5, <1>6

-----------------------------------------------------------------------------
\* more is st with one more store.
Longer(st, s, more) == more = Append(st, s)

\* What a deletion adds to the stores.
Deletion(st, s1, s2, s3, s4) == st \o <<s1, s2, s3, s4>>

\* A deletion is four stores, one after the other.
LEMMA FourAppended ==
  ASSUME NEW st \in Seq(Stores),
         NEW s1 \in Stores, NEW s2 \in Stores, NEW s3 \in Stores, NEW s4 \in Stores,
         NEW t1, Longer(st, s1, t1), NEW t2, Longer(t1, s2, t2), NEW t3, Longer(t2, s3, t3),
         NEW long, long = Deletion(st, s1, s2, s3, s4)
  PROVE  Longer(t3, s4, long)
<1> DEFINE grown == Append(t3, s4)
<1>1. long \in Seq(Stores) /\ grown \in Seq(Stores) /\ Len(long) = Len(grown)
  BY DEF Deletion, Longer
<1>2. \A j \in 1 .. Len(long) : long[j] = grown[j]
  BY DEF Deletion, Longer
<1> HIDE DEF grown
<1>3. long = grown
  BY <1>1, <1>2
<1> QED
  BY <1>3 DEF grown, Longer

\* The view when another store has been made.
Put(view, s) == [view EXCEPT ![s.field] = [@ EXCEPT ![s.cell] = s.value]]

\* more is st with s at its end.
Extended(st, s, more) ==
  /\ more \in Seq(Stores) /\ Len(st) \in Nat /\ more[Len(st) + 1] = s
  /\ \A c, f : \A j \in Pending(st, c, f) : j \in Int /\ j <= Len(st) /\ more[j] = st[j]
  /\ \A c, f : c = s.cell /\ f = s.field =>
                 Pending(more, c, f) = Pending(st, c, f) \cup {Len(st) + 1}
  /\ \A c, f : ~(c = s.cell /\ f = s.field) => Pending(more, c, f) = Pending(st, c, f)

\* A store at the end waits behind all others.
LEMMA AppendExtends ==
  ASSUME NEW st \in Seq(Stores), NEW s \in Stores, NEW more, Longer(st, s, more)
  PROVE  more \in Seq(Stores) /\ Extended(st, s, more)
<1> DEFINE m == Len(st)
<1>1. /\ more \in Seq(Stores) /\ m \in Nat /\ DOMAIN st = 1 .. m /\ DOMAIN more = 1 .. m + 1
      /\ more[m + 1] = s /\ \A j \in 1 .. m : more[j] = st[j]
  BY DEF Longer
<1> HIDE DEF m
<1>2. \A j : j \in DOMAIN more <=> j \in DOMAIN st \/ j = m + 1
  BY <1>1
<1>3. m + 1 \notin DOMAIN st
  BY <1>1
<1>4. ASSUME NEW c, NEW f
      PROVE  \A j : j \in Pending(more, c, f) <=>
               j \in Pending(st, c, f) \/ (j = m + 1 /\ c = s.cell /\ f = s.field)
  BY <1>1, <1>2, <1>3 DEF Pending
<1>5. ASSUME NEW c, NEW f
      PROVE  \A j \in Pending(st, c, f) : j \in Int /\ j <= m /\ more[j] = st[j]
  BY <1>1 DEF Pending
<1>6. ASSUME NEW c, NEW f, c = s.cell /\ f = s.field
      PROVE  Pending(more, c, f) = Pending(st, c, f) \cup {m + 1}
  BY <1>4, <1>6
<1>7. ASSUME NEW c, NEW f, ~(c = s.cell /\ f = s.field)
      PROVE  Pending(more, c, f) = Pending(st, c, f)
  <2>1. \A j : j \in Pending(more, c, f) <=> j \in Pending(st, c, f)
    BY <1>4, <1>7
  <2> QED
    BY <2>1
<1> QED
  BY <1>1, <1>5, <1>6, <1>7 DEF Extended, m

\* A view after one store.
LEMMA PutIs ==
  ASSUME NEW view \in [Fields -> [Ends -> Ends]], NEW s \in Stores
  PROVE  /\ Put(view, s) \in [Fields -> [Ends -> Ends]]
         /\ \A c \in Ends, f \in Fields :
              Put(view, s)[f][c] = IF c = s.cell /\ f = s.field THEN s.value ELSE view[f][c]
BY DEF Put, Stores

\* The owner sees its own store at once.
LEMMA ShowsMore ==
  ASSUME NEW st, NEW s \in Stores, NEW more, Extended(st, s, more), NEW mm,
         NEW view \in [Fields -> [Ends -> Ends]], Shows(st, mm, view)
  PROVE  Shows(more, mm, Put(view, s))
<1> SUFFICES ASSUME NEW c \in Ends, NEW f \in Fields
             PROVE  IsLatest(more, mm, c, f, Put(view, s)[f][c])
  BY DEF Shows
<1>1. IsLatest(st, mm, c, f, view[f][c])
  BY DEF Shows
<1>2. CASE c = s.cell /\ f = s.field
  <2>1. Put(view, s)[f][c] = s.value
    BY <1>2, PutIs
  <2>2. /\ Pending(more, c, f) = Pending(st, c, f) \cup {Len(st) + 1}
        /\ more[Len(st) + 1] = s /\ Len(st) \in Nat
        /\ \A j \in Pending(st, c, f) : j \in Int /\ j <= Len(st)
    BY <1>2 DEF Extended
  <2>3. \A l \in Pending(more, c, f) : l <= Len(st) + 1
    BY <2>2
  <2> QED
    BY <2>1, <2>2, <2>3 DEF IsLatest
<1>3. CASE ~(c = s.cell /\ f = s.field)
  <2>1. Put(view, s)[f][c] = view[f][c]
    BY <1>3, PutIs
  <2>2. /\ Pending(more, c, f) = Pending(st, c, f)
        /\ \A j \in Pending(st, c, f) : more[j] = st[j]
    BY <1>3 DEF Extended
  <2> QED
    BY <1>1, <2>1, <2>2 DEF IsLatest
<1> QED
  BY <1>2, <1>3

\* No store has led this pointer of an entry to the entry itself.
Open(st, mm, c, f) ==
  c \in Polled => mm[f][c] # c /\ \A j \in Pending(st, c, f) : st[j].value # c

\* A store elsewhere.
LEMMA OpenMore ==
  ASSUME NEW st, NEW s, NEW more, Extended(st, s, more), NEW mm, NEW c, NEW f,
         Open(st, mm, c, f), s.cell # c \/ s.field # f
  PROVE  Open(more, mm, c, f)
BY DEF Open, Extended

\* A store to a pointer that no store has settled.
LEMMA SettlesMore ==
  ASSUME NEW st, NEW s, NEW more, Extended(st, s, more),
         NEW mm, NEW gone, Settles(st, mm, gone),
         Open(st, mm, s.cell, s.field), s.value = s.cell => s.cell \in gone \cup {head}
  PROVE  Settles(more, mm, gone)
<1> SUFFICES ASSUME NEW e \in Polled, NEW f \in Fields
             PROVE  /\ mm[f][e] = e => e \in gone /\ Pending(more, e, f) = {}
                    /\ \A j \in Pending(more, e, f) :
                         more[j].value = e =>
                           e \in gone /\ \A l \in Pending(more, e, f) : l <= j
  BY DEF Settles
<1>1. CASE e = s.cell /\ f = s.field
  <2>1. mm[f][e] # e /\ \A j \in Pending(st, e, f) : st[j].value # e
    BY <1>1 DEF Open
  <2>2. /\ Pending(more, e, f) = Pending(st, e, f) \cup {Len(st) + 1}
        /\ more[Len(st) + 1] = s /\ Len(st) \in Nat
        /\ \A j \in Pending(st, e, f) : j \in Int /\ j <= Len(st) /\ more[j] = st[j]
    BY <1>1 DEF Extended
  <2>3. e # head
    BY EndsAre
  <2>4. ASSUME NEW j \in Pending(more, e, f), more[j].value = e
        PROVE  e \in gone /\ \A l \in Pending(more, e, f) : l <= j
    <3>1. j = Len(st) + 1
      BY <2>1, <2>2, <2>4
    <3>2. e \in gone
      BY <1>1, <2>2, <2>3, <2>4, <3>1
    <3> QED
      BY <2>2, <3>1, <3>2
  <2> QED
    BY <2>1, <2>4
<1>2. CASE ~(e = s.cell /\ f = s.field)
  <2>1. /\ Pending(more, e, f) = Pending(st, e, f)
        /\ \A j \in Pending(st, e, f) : more[j] = st[j]
    BY <1>2 DEF Extended
  <2> QED
    BY <2>1 DEF Settles
<1> QED
  BY <1>1, <1>2

\* What is on the list is not settled.
LEMMA OpenBefore ==
  ASSUME NEW st, NEW mm, NEW gone, Settles(st, mm, gone), NEW c, c \notin gone, NEW f \in Fields
  PROVE  Open(st, mm, c, f)
BY DEF Open, Settles

\* More entries gone, and the stores as they were.
LEMMA SettlesGone ==
  ASSUME NEW st, NEW mm, NEW gone, NEW more, gone \subseteq more, Settles(st, mm, gone)
  PROVE  Settles(st, mm, more)
BY DEF Settles

\* An entry taken out of a view.
LEMMA OrderLess ==
  ASSUME NEW gone \in SUBSET Polled, NEW view, InOrder(view, gone), NEW e \in Polled \ gone,
         NEW w \in [Fields -> [Ends -> Ends]],
         \A c \in Ring(gone) \ {e} :
           /\ w["next"][c] = IF view["next"][c] = e THEN view["next"][e] ELSE view["next"][c]
           /\ w["prev"][c] = IF view["prev"][c] = e THEN view["prev"][e] ELSE view["prev"][c]
  PROVE  InOrder(w, gone \cup {e})
<1>1. Ring(gone \cup {e}) = Ring(gone) \ {e} /\ e # head /\ e \in Ring(gone)
  BY EndsAre DEF Ring
<1>2. \A c \in Ring(gone) :
        /\ view["next"][c] \in Ring(gone) /\ view["prev"][view["next"][c]] = c
        /\ view["prev"][c] \in Ring(gone) /\ view["next"][view["prev"][c]] = c
  BY DEF InOrder
<1>3. view["next"][e] # e /\ view["prev"][e] # e
  <2>1. Rank(e) \in Int /\ (view["next"][e] # head => Rank(e) < Rank(view["next"][e]))
    BY RankIs DEF InOrder
  <2>2. view["next"][e] # e
    BY <1>1, <2>1
  <2> QED
    BY <1>1, <1>2, <2>2
<1>4. ASSUME NEW c \in Ring(gone) \ {e}
      PROVE  /\ w["next"][c] \in Ring(gone) \ {e} /\ w["prev"][w["next"][c]] = c
             /\ w["prev"][c] \in Ring(gone) \ {e} /\ w["next"][w["prev"][c]] = c
  <2>1. w["next"][c] \in Ring(gone) \ {e} /\ w["prev"][c] \in Ring(gone) \ {e}
    BY <1>1, <1>2, <1>3
  <2>2. w["prev"][w["next"][c]] = c
    <3>1. CASE view["next"][c] = e
      BY <1>1, <1>2, <1>3, <2>1, <3>1
    <3>2. CASE view["next"][c] # e
      BY <1>1, <1>2, <1>3, <2>1, <3>2
    <3> QED
      BY <3>1, <3>2
  <2>3. w["next"][w["prev"][c]] = c
    <3>1. CASE view["prev"][c] = e
      BY <1>1, <1>2, <1>3, <2>1, <3>1
    <3>2. CASE view["prev"][c] # e
      BY <1>1, <1>2, <1>3, <2>1, <3>2
    <3> QED
      BY <3>1, <3>2
  <2> QED
    BY <2>1, <2>2, <2>3
<1>5. ASSUME NEW c \in Polled \ (gone \cup {e}), w["next"][c] # head
      PROVE  Rank(c) < Rank(w["next"][c])
  <2>1. c \in Ring(gone) \ {e} /\ c \in Polled \ gone /\ Rank(c) \in Int
    BY RankIs, EndsAre DEF Ring
  <2>2. \A x \in Ring(gone) : x # head => x \in Polled \ gone /\ Rank(x) \in Int
    BY RankIs DEF Ring
  <2>3. CASE view["next"][c] = e
    <3>1. Rank(c) < Rank(e) /\ w["next"][c] = view["next"][e]
      BY <1>1, <2>1, <2>3 DEF InOrder
    <3>2. Rank(e) < Rank(view["next"][e]) /\ Rank(view["next"][e]) \in Int
      BY <1>1, <1>2, <1>5, <2>2, <3>1 DEF InOrder
    <3>3. Rank(e) \in Int
      BY RankIs
    <3> QED
      BY <2>1, <3>1, <3>2, <3>3
  <2>4. CASE view["next"][c] # e
    BY <1>5, <2>1, <2>4 DEF InOrder
  <2> QED
    BY <2>3, <2>4
<1> QED
  BY <1>1, <1>4, <1>5 DEF InOrder

\* e lies between a and b in a view of the list.
Between(gone, view, a, e, b) ==
  /\ e \in Ends /\ a \in Ends /\ b \in Ends /\ e \notin gone /\ e # head
  /\ a \notin gone /\ b \notin gone
  /\ a # e /\ b # e /\ (a = b => a = head)
  /\ \A c \in Ring(gone) : (view["next"][c] = e <=> c = a) /\ (view["prev"][c] = e <=> c = b)

\* The neighbours of an entry on the list.
LEMMA NeighboursAre ==
  ASSUME NEW gone \in SUBSET Polled, NEW view, InOrder(view, gone), NEW e \in Polled \ gone,
         NEW a, a = view["prev"][e], NEW b, b = view["next"][e]
  PROVE  Between(gone, view, a, e, b)
<1>1. e \in Ring(gone) /\ e # head /\ e \in Ends /\ head \notin gone
  BY EndsAre DEF Ring
<1>2. \A c \in Ring(gone) :
        /\ view["next"][c] \in Ring(gone) /\ view["prev"][view["next"][c]] = c
        /\ view["prev"][c] \in Ring(gone) /\ view["next"][view["prev"][c]] = c
  BY DEF InOrder
<1>3. \A c \in Ring(gone) : c \in Ends /\ c \notin gone
  BY <1>1, EndsAre DEF Ring
<1>4. b # head => Rank(e) < Rank(b)
  BY DEF InOrder
<1>5. a # head => a \in Polled \ gone /\ Rank(a) < Rank(e)
  <2>1. a \in Ring(gone) /\ view["next"][a] = e
    BY <1>1, <1>2
  <2>2. a # head => a \in Polled \ gone
    BY <2>1 DEF Ring
  <2> QED
    BY <1>1, <2>1, <2>2 DEF InOrder
<1>6. Rank(e) \in Int /\ (a # head => Rank(a) \in Int)
  BY <1>5, RankIs
<1>7. a \in Ring(gone) /\ b \in Ring(gone) /\ view["next"][a] = e /\ view["prev"][b] = e
  BY <1>1, <1>2
<1>8. \A c \in Ring(gone) : (view["next"][c] = e <=> c = a) /\ (view["prev"][c] = e <=> c = b)
  BY <1>2, <1>7
<1>9. a # e /\ b # e /\ (a = b => a = head)
  BY <1>1, <1>4, <1>5, <1>6
<1> QED
  BY <1>1, <1>3, <1>7, <1>8, <1>9 DEF Between

\* The four stores that take an entry off, in a view of the list.
LEMMA DeletionKeeps ==
  ASSUME NEW st \in Seq(Stores), NEW mm, NEW gone \in SUBSET Polled,
         NEW view, Shows(st, mm, view), InOrder(view, gone), Settles(st, mm, gone),
         NEW e \in Polled \ gone, NEW a, a = view["prev"][e], NEW b, b = view["next"][e],
         NEW st1, st1 = Deletion(st, Careful!Store(b, "prev", a), Careful!Store(a, "next", b),
                                     Careful!Store(e, "next", e), Careful!Store(e, "prev", e))
  PROVE  /\ st1 \in Seq(Stores) /\ Settles(st1, mm, gone \cup {e})
         /\ \E w : Shows(st1, mm, w) /\ InOrder(w, gone \cup {e})
<1>1. /\ e \in Ends /\ a \in Ends /\ b \in Ends /\ e \notin gone /\ e # head
      /\ a \notin gone /\ b \notin gone
      /\ a # e /\ b # e /\ (a = b => a = head)
      /\ \A c \in Ring(gone) : (view["next"][c] = e <=> c = a) /\ (view["prev"][c] = e <=> c = b)
  <2>1. Between(gone, view, a, e, b)
    BY NeighboursAre
  <2> QED
    BY <2>1 DEF Between
<1>2. PICK s1, s2, s3, s4 : /\ s1 = Careful!Store(b, "prev", a)
                            /\ s2 = Careful!Store(a, "next", b)
                            /\ s3 = Careful!Store(e, "next", e)
                            /\ s4 = Careful!Store(e, "prev", e)
  OBVIOUS
<1>3. s1 \in Stores /\ s2 \in Stores /\ s3 \in Stores /\ s4 \in Stores
  BY <1>1, <1>2, EndsAre DEF Stores, Careful!Store
<1>4. /\ s1.cell = b /\ s1.field = "prev" /\ s1.value = a
      /\ s2.cell = a /\ s2.field = "next" /\ s2.value = b
      /\ s3.cell = e /\ s3.field = "next" /\ s3.value = e
      /\ s4.cell = e /\ s4.field = "prev" /\ s4.value = e
  BY <1>2 DEF Careful!Store
<1>5. PICK t1, t2, t3 : Longer(st, s1, t1) /\ Longer(t1, s2, t2) /\ Longer(t2, s3, t3)
  BY DEF Longer
<1>6. Longer(t3, s4, st1)
  <2>1. st1 = Deletion(st, s1, s2, s3, s4)
    BY <1>2
  <2> QED
    BY <1>3, <1>5, <2>1, FourAppended
<1>7. t1 \in Seq(Stores) /\ Extended(st, s1, t1)
  BY <1>3, <1>5, AppendExtends
<1>8. t2 \in Seq(Stores) /\ Extended(t1, s2, t2)
  BY <1>3, <1>5, <1>7, AppendExtends
<1>9. t3 \in Seq(Stores) /\ Extended(t2, s3, t3)
  BY <1>3, <1>5, <1>8, AppendExtends
<1>10. st1 \in Seq(Stores) /\ Extended(t3, s4, st1)
  BY <1>3, <1>6, <1>9, AppendExtends
<1> DEFINE more == gone \cup {e}
<1>11. Settles(st1, mm, more)
  <2>1. Settles(st, mm, more)
    BY SettlesGone
  <2>2. Open(st, mm, b, "prev") /\ Open(st, mm, a, "next")
        /\ Open(st, mm, e, "next") /\ Open(st, mm, e, "prev")
    BY <1>1, EndsAre, OpenBefore
  <2>3. Settles(t1, mm, more)
    <3>1. Open(st, mm, s1.cell, s1.field) /\ (s1.value = s1.cell => s1.cell \in more \cup {head})
      BY <1>1, <1>4, <2>2
    <3> QED
      BY <1>7, <2>1, <3>1, SettlesMore
  <2>4. Open(t1, mm, a, "next") /\ Open(t1, mm, e, "next") /\ Open(t1, mm, e, "prev")
    BY <1>1, <1>4, <1>7, <2>2, OpenMore
  <2>5. Settles(t2, mm, more)
    <3>1. Open(t1, mm, s2.cell, s2.field) /\ (s2.value = s2.cell => s2.cell \in more \cup {head})
      BY <1>1, <1>4, <2>4
    <3> QED
      BY <1>8, <2>3, <3>1, SettlesMore
  <2>6. Open(t2, mm, e, "next") /\ Open(t2, mm, e, "prev")
    BY <1>1, <1>4, <1>8, <2>4, OpenMore
  <2>7. Settles(t3, mm, more)
    <3>1. Open(t2, mm, s3.cell, s3.field) /\ (s3.value = s3.cell => s3.cell \in more \cup {head})
      BY <1>1, <1>4, <2>6
    <3> QED
      BY <1>9, <2>5, <3>1, SettlesMore
  <2>8. Open(t3, mm, e, "prev")
    BY <1>1, <1>4, <1>9, <2>6, OpenMore
  <2>9. Open(t3, mm, s4.cell, s4.field) /\ (s4.value = s4.cell => s4.cell \in more \cup {head})
    BY <1>1, <1>4, <2>8
  <2> QED
    BY <1>10, <2>7, <2>9, SettlesMore
<1>12. view \in [Fields -> [Ends -> Ends]]
  BY DEF InOrder
<1>13. PICK v1, v2, v3, w : /\ v1 = Put(view, s1) /\ v2 = Put(v1, s2)
                            /\ v3 = Put(v2, s3) /\ w = Put(v3, s4)
  OBVIOUS
<1>14. /\ v1 \in [Fields -> [Ends -> Ends]]
       /\ \A c \in Ends, f \in Fields :
            v1[f][c] = IF c = s1.cell /\ f = s1.field THEN s1.value ELSE view[f][c]
  BY <1>3, <1>12, <1>13, PutIs
<1>15. /\ v2 \in [Fields -> [Ends -> Ends]]
       /\ \A c \in Ends, f \in Fields :
            v2[f][c] = IF c = s2.cell /\ f = s2.field THEN s2.value ELSE v1[f][c]
  BY <1>3, <1>13, <1>14, PutIs
<1>16. /\ v3 \in [Fields -> [Ends -> Ends]]
       /\ \A c \in Ends, f \in Fields :
            v3[f][c] = IF c = s3.cell /\ f = s3.field THEN s3.value ELSE v2[f][c]
  BY <1>3, <1>13, <1>15, PutIs
<1>17. /\ w \in [Fields -> [Ends -> Ends]]
       /\ \A c \in Ends, f \in Fields :
            w[f][c] = IF c = s4.cell /\ f = s4.field THEN s4.value ELSE v3[f][c]
  BY <1>3, <1>13, <1>16, PutIs
<1>18. Shows(t1, mm, v1)
  BY <1>3, <1>7, <1>12, <1>13, ShowsMore
<1>19. Shows(t2, mm, v2)
  BY <1>3, <1>8, <1>13, <1>14, <1>18, ShowsMore
<1>20. Shows(t3, mm, v3)
  BY <1>3, <1>9, <1>13, <1>15, <1>19, ShowsMore
<1>21. Shows(st1, mm, w)
  BY <1>3, <1>10, <1>13, <1>16, <1>20, ShowsMore
<1>22. ASSUME NEW c \in Ring(gone) \ {e}
       PROVE  /\ w["next"][c] = IF view["next"][c] = e THEN view["next"][e] ELSE view["next"][c]
              /\ w["prev"][c] = IF view["prev"][c] = e THEN view["prev"][e] ELSE view["prev"][c]
  <2>1. c \in Ends /\ c # e /\ c \in Ring(gone)
    BY EndsAre DEF Ring
  <2>2. w["next"][c] = IF c = a THEN b ELSE view["next"][c]
    BY <1>4, <1>14, <1>15, <1>16, <1>17, <2>1, EndsAre
  <2>3. w["prev"][c] = IF c = b THEN a ELSE view["prev"][c]
    BY <1>4, <1>14, <1>15, <1>16, <1>17, <2>1, EndsAre
  <2> QED
    BY <1>1, <2>1, <2>2, <2>3
<1>23. InOrder(w, more)
  BY <1>17, <1>22, OrderLess
<1> QED
  BY <1>10, <1>11, <1>21, <1>23

\* list_del_init keeps the invariant.
LEMMA DeletePollKeeps ==
  ASSUME PollInv, NEW e \in Polled, Careful!list_del_init(e)
  PROVE  PollInv'
<1>1. /\ mem \in [Fields -> [Ends -> Ends]] /\ stores \in Seq(Stores) /\ off \subseteq Polled
      /\ Settles(stores, mem, off) /\ PollerOK
  BY DEF PollInv, OwnerOK
<1>2. PICK view : Shows(stores, mem, view) /\ InOrder(view, off)
  BY DEF PollInv, OwnerOK
<1>3. e \in Ends /\ "next" \in Fields /\ "prev" \in Fields /\ e \notin off
  BY EndsAre DEF Careful!list_del_init
<1>4. PICK a, b : a = view["prev"][e] /\ b = view["next"][e]
  OBVIOUS
<1>5. Careful!Own(e, "prev") = a /\ Careful!Own(e, "next") = b
  BY <1>1, <1>2, <1>3, <1>4, OwnIs
<1>6. /\ stores' = Deletion(stores, Careful!Store(b, "prev", a), Careful!Store(a, "next", b),
                             Careful!Store(e, "next", e), Careful!Store(e, "prev", e))
      /\ off' = off \cup {e} /\ mem' = mem /\ UNCHANGED <<asked, loaded, mine>>
  BY <1>5 DEF Careful!list_del_init, Deletion
<1>7. PICK st1 : st1 = stores'
  OBVIOUS
<1>8. /\ st1 \in Seq(Stores) /\ Settles(st1, mem, off \cup {e})
      /\ \E w : Shows(st1, mem, w) /\ InOrder(w, off \cup {e})
  BY <1>1, <1>2, <1>3, <1>4, <1>6, <1>7, DeletionKeeps
<1>9. OwnerOK'
  BY <1>1, <1>6, <1>7, <1>8 DEF OwnerOK
<1>10. PollerOK'
  BY <1>1, <1>6 DEF PollerOK
<1> QED
  BY <1>9, <1>10 DEF PollInv

-----------------------------------------------------------------------------
\* The stores without the one at j.
Without(st, j, less) ==
  /\ less \in Seq(Stores)
  /\ DOMAIN st = 1 .. Len(st) /\ Len(st) \in Nat
  /\ DOMAIN less = 1 .. Len(st) - 1
  /\ \A l \in 1 .. Len(st) - 1 : less[l] = IF l < j THEN st[l] ELSE st[l + 1]

\* What Arrive leaves of the stores.
LEMMA WithoutIs ==
  ASSUME NEW st \in Seq(Stores), NEW j \in DOMAIN st
  PROVE  Without(st, j, SubSeq(st, 1, j - 1) \o SubSeq(st, j + 1, Len(st)))
<1> DEFINE s1 == SubSeq(st, 1, j - 1)
           s2 == SubSeq(st, j + 1, Len(st))
           less == s1 \o s2
           m == Len(st)
<1>1. m \in Nat /\ DOMAIN st = 1 .. m /\ j \in 1 .. m /\ \A l \in 1 .. m : st[l] \in Stores
  OBVIOUS
<1>2. s1 \in Seq(Stores) /\ Len(s1) = j - 1 /\ \A l \in 1 .. j - 1 : s1[l] = st[l]
  BY <1>1
<1>3. s2 \in Seq(Stores) /\ Len(s2) = m - j /\ \A l \in 1 .. m - j : s2[l] = st[j + l]
  <2>1. j + 1 \in Int /\ m \in Int /\ \A l \in j + 1 .. m : st[l] \in Stores
    BY <1>1
  <2> HIDE DEF m
  <2>2. /\ SubSeq(st, j + 1, m) \in Seq(Stores)
        /\ Len(SubSeq(st, j + 1, m)) = (IF j + 1 <= m THEN m - (j + 1) + 1 ELSE 0)
        /\ \A l \in 1 .. m - (j + 1) + 1 : SubSeq(st, j + 1, m)[l] = st[j + 1 + l - 1]
    BY <2>1, SubSeqProperties
  <2>3. s2 = SubSeq(st, j + 1, m)
    BY DEF m
  <2> HIDE DEF s2
  <2>4. Len(s2) = m - j
    BY <1>1, <2>2, <2>3
  <2>5. \A l \in 1 .. m - j : l \in 1 .. m - (j + 1) + 1 /\ j + 1 + l - 1 = j + l
    BY <1>1
  <2> QED
    BY <2>2, <2>3, <2>4, <2>5
<1> HIDE DEF s1, s2, m
<1>4. /\ less \in Seq(Stores) /\ Len(less) = Len(s1) + Len(s2)
      /\ \A l \in 1 .. Len(s1) + Len(s2) :
           less[l] = IF l <= Len(s1) THEN s1[l] ELSE s2[l - Len(s1)]
  BY <1>2, <1>3, ConcatProperties
<1> HIDE DEF less
<1>5. Len(s1) + Len(s2) = m - 1 /\ DOMAIN less = 1 .. m - 1
  BY <1>1, <1>2, <1>3, <1>4
<1>6. ASSUME NEW l \in 1 .. m - 1
      PROVE  less[l] = IF l < j THEN st[l] ELSE st[l + 1]
  <2>1. less[l] = IF l <= j - 1 THEN s1[l] ELSE s2[l - (j - 1)]
    BY <1>2, <1>4, <1>5
  <2>2. CASE l < j
    BY <1>1, <1>2, <2>1, <2>2
  <2>3. CASE ~(l < j)
    <3>1. l - (j - 1) \in 1 .. m - j /\ j + (l - (j - 1)) = l + 1 /\ ~(l <= j - 1)
      BY <1>1, <2>3
    <3> QED
      BY <1>3, <2>1, <2>3, <3>1
  <2> QED
    BY <2>2, <2>3
<1>7. Without(st, j, less)
  BY <1>1, <1>4, <1>5, <1>6 DEF Without, m
<1> QED
  BY <1>7 DEF less, s1, s2, m

\* Where a store was, and where it is, when the one at j is taken out.
Up(j, l) == IF l < j THEN l ELSE l + 1
Down(j, l) == IF l < j THEN l ELSE l - 1

\* The other stores are those that were.
LEMMA Shifted ==
  ASSUME NEW st, NEW j \in DOMAIN st, NEW less, Without(st, j, less), NEW c, NEW f
  PROVE  /\ \A l \in Pending(less, c, f) : /\ Up(j, l) \in Pending(st, c, f) \ {j}
                                           /\ less[l] = st[Up(j, l)]
         /\ \A l \in Pending(st, c, f) \ {j} : /\ Down(j, l) \in Pending(less, c, f)
                                               /\ less[Down(j, l)] = st[l]
         /\ Pending(less, c, f) \subseteq Int /\ Pending(st, c, f) \subseteq Int /\ j \in Int
<1>1. /\ DOMAIN st = 1 .. Len(st) /\ Len(st) \in Nat /\ j \in 1 .. Len(st)
      /\ DOMAIN less = 1 .. Len(st) - 1
      /\ \A l \in 1 .. Len(st) - 1 : less[l] = IF l < j THEN st[l] ELSE st[l + 1]
  BY DEF Without
<1>2. ASSUME NEW l \in DOMAIN less
      PROVE  Up(j, l) \in DOMAIN st \ {j} /\ less[l] = st[Up(j, l)]
  BY <1>1 DEF Up
<1>3. ASSUME NEW l \in DOMAIN st \ {j}
      PROVE  Down(j, l) \in DOMAIN less /\ less[Down(j, l)] = st[l]
  <2>1. CASE l < j
    BY <1>1, <2>1 DEF Down
  <2>2. CASE ~(l < j)
    <3>1. l - 1 \in 1 .. Len(st) - 1 /\ ~(l - 1 < j) /\ l - 1 + 1 = l
      BY <1>1, <2>2
    <3> QED
      BY <1>1, <2>2, <3>1 DEF Down
  <2> QED
    BY <2>1, <2>2
<1>4. Pending(less, c, f) \subseteq DOMAIN less /\ Pending(st, c, f) \subseteq DOMAIN st
  BY DEF Pending
<1>5. ASSUME NEW l \in Pending(less, c, f)
      PROVE  Up(j, l) \in Pending(st, c, f) \ {j} /\ less[l] = st[Up(j, l)]
  BY <1>2, <1>5 DEF Pending
<1>6. ASSUME NEW l \in Pending(st, c, f) \ {j}
      PROVE  Down(j, l) \in Pending(less, c, f) /\ less[Down(j, l)] = st[l]
  BY <1>3, <1>6 DEF Pending
<1> QED
  BY <1>1, <1>4, <1>5, <1>6

\* The last store to a pointer stays the last.
LEMMA LastShifts ==
  ASSUME NEW st, NEW j \in DOMAIN st, NEW less, Without(st, j, less), NEW c, NEW f,
         NEW k \in Pending(st, c, f) \ {j}, \A l \in Pending(st, c, f) : l <= k
  PROVE  /\ Down(j, k) \in Pending(less, c, f) /\ less[Down(j, k)] = st[k]
         /\ \A l \in Pending(less, c, f) : l <= Down(j, k)
<1>1. Down(j, k) \in Pending(less, c, f) /\ less[Down(j, k)] = st[k]
  BY Shifted
<1>2. ASSUME NEW l \in Pending(less, c, f)
      PROVE  l <= Down(j, k)
  <2>1. Up(j, l) <= k /\ l \in Int /\ k \in Int /\ j \in Int
    BY Shifted
  <2> QED
    BY <2>1 DEF Up, Down
<1> QED
  BY <1>1, <1>2

\* mm when the store at j has arrived there.
Arrived(st, j, mm, m2) ==
  /\ m2 \in [Fields -> [Ends -> Ends]]
  /\ \A c \in Ends, f \in Fields :
       m2[f][c] = IF c = st[j].cell /\ f = st[j].field THEN st[j].value ELSE mm[f][c]

\* No older store to the same pointer waits.
Oldest(st, j) ==
  \A l \in 1 .. j - 1 : <<st[l].cell, st[l].field>> # <<st[j].cell, st[j].field>>

\* It is the first of those to its pointer.
LEMMA OldestIsLeast ==
  ASSUME NEW st \in Seq(Stores), NEW j \in DOMAIN st, Oldest(st, j)
  PROVE  /\ j \in Pending(st, st[j].cell, st[j].field)
         /\ \A l \in Pending(st, st[j].cell, st[j].field) : j <= l
         /\ \A c, f : j \in Pending(st, c, f) => c = st[j].cell /\ f = st[j].field
<1>1. DOMAIN st = 1 .. Len(st) /\ Len(st) \in Nat
  OBVIOUS
<1> QED
  BY <1>1 DEF Pending, Oldest

\* The owner sees what it saw, whether a store waits or has arrived.
LEMMA ArrivalShows ==
  ASSUME NEW st \in Seq(Stores), NEW j \in DOMAIN st, Oldest(st, j),
         NEW less, Without(st, j, less), NEW mm, NEW m2, Arrived(st, j, mm, m2),
         NEW view, Shows(st, mm, view)
  PROVE  Shows(less, m2, view)
<1> SUFFICES ASSUME NEW c \in Ends, NEW f \in Fields
             PROVE  IsLatest(less, m2, c, f, view[f][c])
  BY DEF Shows
<1>1. IsLatest(st, mm, c, f, view[f][c])
  BY DEF Shows
<1>2. ASSUME NEW k \in Pending(st, c, f) \ {j}, \A l \in Pending(st, c, f) : l <= k,
             st[k].value = view[f][c]
      PROVE  IsLatest(less, m2, c, f, view[f][c])
  BY <1>2, LastShifts DEF IsLatest
<1>3. CASE Pending(st, c, f) \ {j} = {}
  <2>1. Pending(less, c, f) = {}
    BY <1>3, Shifted
  <2>2. m2[f][c] = view[f][c]
    <3>1. CASE j \in Pending(st, c, f)
      <4>1. c = st[j].cell /\ f = st[j].field /\ m2[f][c] = st[j].value
        BY <3>1, OldestIsLeast DEF Arrived
      <4>2. st[j].value = view[f][c]
        BY <1>1, <1>3, <3>1 DEF IsLatest
      <4> QED
        BY <4>1, <4>2
    <3>2. CASE j \notin Pending(st, c, f)
      <4>1. ~(c = st[j].cell /\ f = st[j].field)
        BY <3>2, OldestIsLeast
      <4>2. m2[f][c] = mm[f][c]
        BY <4>1 DEF Arrived
      <4> QED
        BY <1>1, <1>3, <3>2, <4>2 DEF IsLatest
    <3> QED
      BY <3>1, <3>2
  <2> QED
    BY <2>1, <2>2 DEF IsLatest
<1>4. CASE Pending(st, c, f) \ {j} # {}
  <2>1. PICK k \in Pending(st, c, f) : st[k].value = view[f][c] /\ \A l \in Pending(st, c, f) : l <= k
    BY <1>1, <1>4 DEF IsLatest
  <2>2. k # j
    <3>1. PICK l \in Pending(st, c, f) : l # j
      BY <1>4
    <3>2. l <= k /\ l \in Int /\ k \in Int /\ j \in Int
      BY <2>1, <3>1, Shifted
    <3>3. j \in Pending(st, c, f) => j <= l
      BY <3>1, OldestIsLeast
    <3> QED
      BY <2>1, <3>1, <3>2, <3>3
  <2> QED
    BY <1>2, <2>1, <2>2
<1> QED
  BY <1>3, <1>4

\* What has arrived last stays.
LEMMA ArrivalSettles ==
  ASSUME NEW st \in Seq(Stores), NEW j \in DOMAIN st, Oldest(st, j),
         NEW less, Without(st, j, less), NEW mm, NEW m2, Arrived(st, j, mm, m2),
         NEW gone, Settles(st, mm, gone)
  PROVE  /\ Settles(less, m2, gone)
         /\ \A e \in Polled, f \in Fields : mm[f][e] = e => m2[f][e] = e
<1> SUFFICES ASSUME NEW e \in Polled, NEW f \in Fields
             PROVE  /\ m2[f][e] = e => e \in gone /\ Pending(less, e, f) = {}
                    /\ \A l \in Pending(less, e, f) :
                         less[l].value = e =>
                           e \in gone /\ \A k \in Pending(less, e, f) : k <= l
                    /\ mm[f][e] = e => m2[f][e] = e
  BY DEF Settles
<1>1. /\ mm[f][e] = e => e \in gone /\ Pending(st, e, f) = {}
      /\ \A l \in Pending(st, e, f) :
           st[l].value = e => e \in gone /\ \A k \in Pending(st, e, f) : k <= l
  BY DEF Settles
<1>2. e \in Ends /\ j \in Int /\ Pending(st, e, f) \subseteq Int
  BY EndsAre, Shifted
<1>3. CASE e = st[j].cell /\ f = st[j].field
  <2>1. j \in Pending(st, e, f) /\ \A l \in Pending(st, e, f) : j <= l
    BY <1>3, OldestIsLeast
  <2>2. m2[f][e] = st[j].value /\ mm[f][e] # e
    BY <1>1, <1>2, <1>3, <2>1 DEF Arrived
  <2>3. ASSUME m2[f][e] = e
        PROVE  e \in gone /\ Pending(less, e, f) = {}
    <3>1. e \in gone /\ \A k \in Pending(st, e, f) : k <= j
      BY <1>1, <2>1, <2>2, <2>3
    <3>2. Pending(st, e, f) \ {j} = {}
      BY <1>2, <2>1, <3>1
    <3> QED
      BY <3>1, <3>2, Shifted
  <2>4. ASSUME NEW l \in Pending(less, e, f), less[l].value = e
        PROVE  e \in gone /\ \A k \in Pending(less, e, f) : k <= l
    <3>1. Up(j, l) \in Pending(st, e, f) /\ st[Up(j, l)].value = e
      BY <2>4, Shifted
    <3>2. e \in gone /\ \A k \in Pending(st, e, f) : k <= Up(j, l)
      BY <1>1, <3>1
    <3>3. ASSUME NEW k \in Pending(less, e, f)
          PROVE  k <= l
      <4>1. Up(j, k) <= Up(j, l) /\ k \in Int /\ l \in Int
        BY <3>2, Shifted
      <4> QED
        BY <1>2, <4>1 DEF Up
    <3> QED
      BY <3>2, <3>3
  <2> QED
    BY <2>2, <2>3, <2>4
<1>4. CASE ~(e = st[j].cell /\ f = st[j].field)
  <2>1. m2[f][e] = mm[f][e]
    BY <1>2, <1>4 DEF Arrived
  <2>2. Pending(st, e, f) = {} => Pending(less, e, f) = {}
    BY Shifted
  <2>4. ASSUME NEW l \in Pending(less, e, f), less[l].value = e
        PROVE  e \in gone /\ \A k \in Pending(less, e, f) : k <= l
    <3>1. Up(j, l) \in Pending(st, e, f) /\ st[Up(j, l)].value = e
      BY <2>4, Shifted
    <3>2. e \in gone /\ \A k \in Pending(st, e, f) : k <= Up(j, l)
      BY <1>1, <3>1
    <3>3. ASSUME NEW k \in Pending(less, e, f)
          PROVE  k <= l
      <4>1. Up(j, k) <= Up(j, l) /\ k \in Int /\ l \in Int
        BY <3>2, Shifted
      <4> QED
        BY <1>2, <4>1 DEF Up
    <3> QED
      BY <3>2, <3>3
  <2> QED
    BY <1>1, <2>1, <2>2, <2>4
<1> QED
  BY <1>3, <1>4

\* A store reaches memory.
LEMMA ArriveKeeps ==
  ASSUME PollInv, NEW j \in DOMAIN stores, Careful!Arrive(j)
  PROVE  PollInv'
<1>1. /\ mem \in [Fields -> [Ends -> Ends]] /\ stores \in Seq(Stores) /\ off \subseteq Polled
      /\ Settles(stores, mem, off) /\ PollerOK
  BY DEF PollInv, OwnerOK
<1>2. PICK view : Shows(stores, mem, view) /\ InOrder(view, off)
  BY DEF PollInv, OwnerOK
<1>3. Oldest(stores, j)
  BY DEF Careful!Arrive, Oldest
<1>4. PICK m2 : m2 = mem'
  OBVIOUS
<1>5. Arrived(stores, j, mem, m2)
  <2>1. stores[j] \in Stores
    BY <1>1
  <2>2. stores[j].cell \in Ends /\ stores[j].field \in Fields /\ stores[j].value \in Ends
    BY <2>1 DEF Stores
  <2>3. m2 = [mem EXCEPT ![stores[j].field][stores[j].cell] = stores[j].value]
    BY <1>4 DEF Careful!Arrive
  <2> QED
    BY <1>1, <2>2, <2>3 DEF Arrived
<1>6. PICK less : less = stores'
  OBVIOUS
<1>7. Without(stores, j, less)
  BY <1>1, <1>6, WithoutIs DEF Careful!Arrive
<1>8. /\ Shows(less, m2, view) /\ Settles(less, m2, off)
      /\ \A e \in Polled, f \in Fields : mem[f][e] = e => m2[f][e] = e
  BY <1>1, <1>2, <1>3, <1>5, <1>7, ArrivalShows, ArrivalSettles
<1>9. less \in Seq(Stores) /\ m2 \in [Fields -> [Ends -> Ends]]
  BY <1>5, <1>7 DEF Without, Arrived
<1>10. UNCHANGED <<off, asked, loaded, mine>>
  BY DEF Careful!Arrive
<1>11. OwnerOK'
  BY <1>1, <1>2, <1>4, <1>6, <1>8, <1>9, <1>10 DEF OwnerOK
<1>12. PollerOK'
  <2>1. asked # Nothing => asked \in Polled
    BY <1>1 DEF PollerOK
  <2> QED
    BY <1>1, <1>4, <1>8, <1>10, <2>1 DEF PollerOK
<1> QED
  BY <1>11, <1>12 DEF PollInv

\* The poller asks, loads and answers.
LEMMA PollKeeps ==
  ASSUME PollInv, Careful!Poll
  PROVE  PollInv'
<1>1. PollerOK /\ OwnerOK
  BY DEF PollInv
<1>2. UNCHANGED <<mem, stores, off>>
  BY DEF Careful!Poll, Careful!Ask, Careful!Load, Careful!list_empty_careful
<1>3. OwnerOK'
  BY <1>1, <1>2 DEF OwnerOK
<1>4. ASSUME NEW e \in Polled, Careful!Ask(e)
      PROVE  PollerOK'
  BY <1>1, <1>4, EndsAre DEF PollerOK, Careful!Ask, Fields
<1>5. ASSUME NEW f \in Fields, Careful!Load(f)
      PROVE  PollerOK'
  BY <1>1, <1>5, EndsAre DEF PollerOK, OwnerOK, Careful!Load
<1>6. CASE Careful!list_empty_careful
  <2>1. mine' \subseteq Polled /\ \A e \in mine', f \in Fields : mem[f][e] = e
    <3>1. CASE Careful!empty
      <4>1. loaded["next"] = asked /\ loaded["prev"] = asked
        BY <3>1 DEF Careful!empty
      <4>2. asked \in Polled /\ \A f \in Fields : mem[f][asked] = asked
        BY <1>1, <1>6, <4>1, EndsAre DEF PollerOK, Careful!list_empty_careful
      <4> QED
        BY <1>1, <1>6, <3>1, <4>2 DEF PollerOK, Careful!list_empty_careful
    <3>2. CASE ~Careful!empty
      BY <1>1, <1>6, <3>2 DEF PollerOK, Careful!list_empty_careful
    <3> QED
      BY <3>1, <3>2
  <2>2. asked' = Nothing /\ loaded' \in [Fields -> Ends \cup {Nothing}]
    BY <1>6 DEF Careful!list_empty_careful, Fields
  <2>3. PollerOK'
    BY <1>2, <2>1, <2>2 DEF PollerOK
  <2> QED
    BY <1>3, <2>3 DEF PollInv
<1> QED
  BY <1>3, <1>4, <1>5, <1>6 DEF PollInv, Careful!Poll, Polled, Fields

\* What is seen when no store is waiting.
LEMMA NothingWaits ==
  ASSUME NEW view, NEW gone,
         \A e \in Polled, f \in Fields : view[f][e] = e => e \in gone
  PROVE  Shows(<<>>, view, view) /\ Settles(<<>>, view, gone) /\ <<>> \in Seq(Stores)
<1>1. \A c, f : Pending(<<>>, c, f) = {}
  BY DEF Pending
<1> QED
  BY <1>1 DEF Shows, Settles, IsLatest

\* list_add_tail leaves a list in order.
LEMMA PollStarts ==
  ASSUME Careful!Init
  PROVE  PollInv
<1> DEFINE cell(j) == IF j \in DOMAIN PollOrder THEN PollOrder[j] ELSE head
           place(c) == IF c = head THEN 0 ELSE Rank(c)
<1>1. mem = [next |-> [c \in Ends |-> cell(place(c) + 1)],
             prev |-> [c \in Ends |-> IF c = head THEN cell(Len(PollOrder))
                                      ELSE cell(place(c) - 1)]]
  BY DEF Careful!Init, Rank, Ends
<1>2. PICK m : m = Len(PollOrder)
  OBVIOUS
<1>3. /\ m \in Nat /\ head \notin Polled /\ Fields = {"next", "prev"} /\ Ends = Polled \cup {head}
      /\ \A c \in Polled : Rank(c) \in 1 .. m /\ cell(Rank(c)) = c
      /\ \A j \in 1 .. m : cell(j) \in Polled /\ Rank(cell(j)) = j
      /\ \A j \in Int : j \notin 1 .. m => cell(j) = head
  BY <1>2, RankIs, EndsAre
<1> HIDE DEF cell
<1>4. \A c \in Ends : /\ mem["next"][c] = cell(place(c) + 1)
                      /\ mem["prev"][c] = IF c = head THEN cell(m) ELSE cell(place(c) - 1)
  BY <1>1, <1>2
<1>5. \A j \in Int : cell(j) \in Ends
  BY <1>3
<1>6. \A c \in Ends : place(c) \in 0 .. m
  BY <1>3
<1>7. mem \in [Fields -> [Ends -> Ends]]
  <2>1. /\ [c \in Ends |-> cell(place(c) + 1)] \in [Ends -> Ends]
        /\ [c \in Ends |-> IF c = head THEN cell(Len(PollOrder)) ELSE cell(place(c) - 1)]
             \in [Ends -> Ends]
    BY <1>2, <1>3, <1>5, <1>6
  <2> QED
    BY <1>1, <1>3, <2>1
<1>8. ASSUME NEW c \in Ends
      PROVE  /\ mem["next"][c] \in Ends /\ mem["prev"][mem["next"][c]] = c
             /\ c # head => mem["next"][c] # c
             /\ c # head /\ mem["next"][c] # head => Rank(c) < Rank(mem["next"][c])
  <2>1. CASE place(c) = m
    <3>1. mem["next"][c] = head
      BY <1>3, <1>4, <2>1
    <3>2. mem["prev"][head] = cell(m)
      BY <1>3, <1>4
    <3>3. cell(m) = c
      BY <1>3, <2>1
    <3> QED
      BY <1>3, <3>1, <3>2, <3>3
  <2>2. CASE place(c) # m
    <3>1. place(c) + 1 \in 1 .. m /\ place(c) + 1 - 1 = place(c) /\ place(c) \in Int
      BY <1>3, <1>6, <2>2
    <3>2. PICK d : d = cell(place(c) + 1)
      OBVIOUS
    <3>3. d \in Polled /\ d # head /\ Rank(d) = place(c) + 1 /\ mem["next"][c] = d
      BY <1>3, <1>4, <3>1, <3>2
    <3>4. mem["prev"][d] = cell(place(c))
      BY <1>3, <1>4, <3>1, <3>3
    <3>5. cell(place(c)) = c
      BY <1>3
    <3>6. c # head => Rank(c) < Rank(d)
      BY <3>1, <3>3
    <3> QED
      BY <1>3, <3>1, <3>3, <3>4, <3>5, <3>6
  <2> QED
    BY <2>1, <2>2
<1>9. ASSUME NEW c \in Ends
      PROVE  /\ mem["prev"][c] \in Ends /\ mem["next"][mem["prev"][c]] = c
             /\ c # head => mem["prev"][c] # c
  <2>1. CASE c = head
    <3>1. cell(m) \in Ends /\ place(cell(m)) = m
      BY <1>3, <1>5
    <3>2. mem["next"][cell(m)] = cell(m + 1) /\ cell(m + 1) = head
      BY <1>3, <1>4, <3>1
    <3>3. mem["prev"][c] = cell(m)
      BY <1>4, <2>1
    <3> QED
      BY <2>1, <3>1, <3>2, <3>3
  <2>2. CASE c # head
    <3>1. place(c) - 1 \in 0 .. m /\ place(c) - 1 + 1 = place(c) /\ place(c) \in 1 .. m
      BY <1>3, <2>2
    <3>2. PICK d : d = cell(place(c) - 1)
      OBVIOUS
    <3>3. d \in Ends /\ place(d) = place(c) - 1 /\ mem["prev"][c] = d
      BY <1>3, <1>4, <1>5, <2>2, <3>1, <3>2
    <3>4. mem["next"][d] = cell(place(c)) /\ cell(place(c)) = c
      BY <1>3, <1>4, <2>2, <3>1, <3>3
    <3>5. d # c
      BY <3>1, <3>3
    <3> QED
      BY <3>3, <3>4, <3>5
  <2> QED
    BY <2>1, <2>2
<1>10. InOrder(mem, {})
  BY <1>3, <1>7, <1>8, <1>9 DEF InOrder, Ring
<1>11. \A e \in Polled, f \in Fields : mem[f][e] = e => e \in {}
  BY <1>3, <1>8, <1>9
<1>12. Shows(<<>>, mem, mem) /\ Settles(<<>>, mem, {}) /\ <<>> \in Seq(Stores)
  BY <1>11, NothingWaits
<1>13. OwnerOK
  BY <1>7, <1>10, <1>12 DEF OwnerOK, Careful!Init
<1>14. PollerOK
  BY DEF PollerOK, Careful!Init, Fields
<1> QED
  BY <1>13, <1>14 DEF PollInv

\* A list all deleted is in order.
LEMMA PollRests ==
  ASSUME PollerAtRest
  PROVE  PollInv
<1>1. mem = [f \in Fields |-> [c \in Ends |-> c]] /\ stores = <<>> /\ off = Polled /\ mine = Polled
  BY DEF PollerAtRest, Fields, Ends, Polled
<1>2. mem \in [Fields -> [Ends -> Ends]] /\ \A c \in Ends, f \in Fields : mem[f][c] = c
  BY <1>1
<1>3. InOrder(mem, Polled)
  <2>1. Ring(Polled) = {head} /\ head \in Ends
    BY EndsAre DEF Ring
  <2> QED
    BY <1>2, <2>1, EndsAre DEF InOrder
<1>4. Shows(<<>>, mem, mem) /\ Settles(<<>>, mem, Polled) /\ <<>> \in Seq(Stores)
  BY NothingWaits
<1>5. OwnerOK
  BY <1>1, <1>2, <1>3, <1>4 DEF OwnerOK
<1>6. PollerOK
  BY <1>1, <1>2, EndsAre DEF PollerOK, PollerAtRest, Fields
<1> QED
  BY <1>5, <1>6 DEF PollInv

\* Every step of the two, and of a loop elsewhere, keeps the invariant.
LEMMA ReadersKeep ==
  ASSUME PollInv, [ReadersNext]_<<part, vars, polling>>
  PROVE  PollInv' /\ (UNCHANGED polling \/ mine \subseteq mine')
<1>1. CASE UNCHANGED polling
  BY <1>1 DEF polling, PollInv, OwnerOK, PollerOK
<1>2. CASE Careful!Next
  <2>1. CASE \E e \in Careful!Entries : Careful!list_del_init(e)
    BY <2>1, DeletePollKeeps DEF Polled, Careful!list_del_init
  <2>2. CASE \E j \in DOMAIN stores : Careful!Arrive(j)
    BY <2>2, ArriveKeeps DEF Careful!Arrive
  <2>3. CASE Careful!Poll
    BY <2>3, PollKeeps DEF Careful!Poll, Careful!Ask, Careful!Load, Careful!list_empty_careful
  <2> QED
    BY <1>2, <2>1, <2>2, <2>3 DEF Careful!Next
<1> QED
  BY <1>1, <1>2 DEF ReadersNext, polling

\* The invariant of the owner and the poller holds throughout.
THEOREM PollInvariant == ReadersSpec => []PollInv
<1>1. ReadersInit => PollInv
  BY PollStarts, PollRests DEF ReadersInit
<1>2. PollInv /\ [ReadersNext]_<<part, vars, polling>> => PollInv'
  BY ReadersKeep
<1> QED
  BY <1>1, <1>2, PTL DEF ReadersSpec

\* list_empty_careful() says yes only of an entry that is deleted, and nothing
\* writes that entry's pointers from then on, in whatever order the stores of
\* list_del_init() reach memory.
THEOREM YesStaysTrue == ReadersSpec => YesIsFinal
<1>1. PollInv /\ PollInv' /\ [ReadersNext]_<<part, vars, polling>> =>
        [/\ mine' \subseteq off'
         /\ \A e \in mine, f \in Careful!Fields : mem'[f][e] = mem[f][e]]_Careful!vars
  <2> SUFFICES ASSUME PollInv, PollInv', [ReadersNext]_<<part, vars, polling>>
               PROVE  \/ UNCHANGED Careful!vars
                      \/ /\ mine' \subseteq off'
                         /\ \A e \in mine, f \in Fields : mem'[f][e] = mem[f][e]
    BY DEF Fields
  <2>1. UNCHANGED polling => UNCHANGED Careful!vars
    BY DEF polling, Careful!vars
  <2>2. PollerOK /\ PollerOK' /\ OwnerOK'
    BY DEF PollInv
  <2>3. mine' \subseteq off'
    <3>1. Settles(stores', mem', off') /\ mine' \subseteq Polled
          /\ \A e \in mine', f \in Fields : mem'[f][e] = e
      BY <2>2 DEF OwnerOK, PollerOK
    <3> QED
      BY <3>1, EndsAre DEF Settles
  <2>4. ASSUME mine \subseteq mine'
        PROVE  \A e \in mine, f \in Fields : mem'[f][e] = mem[f][e]
    BY <2>2, <2>4 DEF PollerOK
  <2> QED
    BY <2>1, <2>3, <2>4, ReadersKeep
<1> QED
  BY <1>1, PollInvariant, PTL DEF ReadersSpec, YesIsFinal, Careful!YesIsFinal
=============================================================================
