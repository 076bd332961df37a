------------------------ MODULE FreezeProtectionProofs ------------------------
(****************************************************************************)
(* A frozen file system has nobody inside, for any finite number of tasks   *)
(* any number of levels and locks that an operation takes, and any of the   *)
(* orders that all tasks may keep to.                                       *)
(****************************************************************************)
EXTENDS FreezeProtection, FiniteSetTheorems, TLAPS

TypeOK ==
  /\ order \in Orders
  /\ frozen \in SB_UNFROZEN .. SB_FREEZE_COMPLETE
  /\ rw_sem \in [Levels -> Int]
  /\ inside \in [Tasks -> Seq(Things)]
  /\ want \in [Tasks -> Things \cup {"nothing"}]
  /\ taken \in [Tasks -> Nat]

\* What a task is inside of is in the order, and so is what it waits for.
Ascends(o, s) == \A i, j \in 1 .. Len(s) : i < j => o[s[i]] < o[s[j]]
Deeper(o, s, x) == \A y \in Range(s) : o[y] < o[x]
Ordered ==
  \A t \in Tasks :
    /\ Ascends(order, inside[t])
    /\ want[t] # "nothing" => Deeper(order, inside[t], want[t])

\* The semaphore of a level has the number of the tasks inside.
At(f, t, l) == \E x \in Range(f[t]) : StartLevel(t, x) = l
InLevel(f, l) == {t \in Tasks : At(f, t, l)}
Counted == \A l \in Levels : rw_sem[l] = Cardinality(InLevel(inside, l))

\* The levels the freezer has been through are empty.
Closed == \A l \in Levels : l < frozen => rw_sem[l] = 0

IInv == TypeOK /\ Ordered /\ Counted /\ Closed
-----------------------------------------------------------------------------
(* The levels, and the order they are in.                                   *)
LEMMA ThingsAre ==
  Things = {"sb_write", "file_write", "s_umount", "i_mutex", "mmap_sem",
            "sb_pagefault", "sb_intwrite"}
BY DEF Things, Outermost, Locks

LEMMA OrderIs ==
  ASSUME NEW o \in Orders
  PROVE  o \in [Things -> Int] /\ o["sb_write"] = o["file_write"]
BY DEF Orders, Outermost

LEMMA LevelsAre == Levels = 1 .. 3
BY DEF Levels, SB_FREEZE_COMPLETE

\* What is left is what was entered, and there is one thing to enter a level by
\* but for the outermost.
LEMMA LevelIs ==
  ASSUME NEW t, NEW x \in Things
  PROVE  /\ StartLevel(t, x) \in 0 .. 3 /\ EndLevel(t, x) = StartLevel(t, x)
         /\ StartLevel(t, x) = 1 => x \in Outermost
         /\ StartLevel(t, x) = 2 => x = "sb_pagefault"
         /\ StartLevel(t, x) = 3 => x = "sb_intwrite"
BY ThingsAre
   DEF StartLevel, EndLevel, Outermost, SB_FREEZE_WRITE, SB_FREEZE_PAGEFAULT, SB_FREEZE_FS

LEMMA OncePerLevel ==
  ASSUME NEW o \in Orders, NEW t, NEW s \in Seq(Things), NEW x \in Things,
         Deeper(o, s, x), NEW y \in Range(s), StartLevel(t, x) \in Levels
  PROVE  StartLevel(t, y) # StartLevel(t, x)
<1>1. y \in Things /\ o[y] < o[x]
  BY DEF Range, Deeper
<1>2. o[y] \in Int /\ o[x] \in Int /\ o[y] # o[x]
  BY <1>1, OrderIs
<1>3. ~(x \in Outermost /\ y \in Outermost)
  BY <1>2, OrderIs DEF Outermost
<1>4. x # y
  BY <1>2
<1> QED
  BY <1>1, <1>3, <1>4, LevelIs, LevelsAre

-----------------------------------------------------------------------------
(* Sequences.                                                               *)
LEMMA AppendIs ==
  ASSUME NEW o, NEW s \in Seq(Things), NEW x \in Things
  PROVE  /\ Append(s, x) \in Seq(Things)
         /\ Range(Append(s, x)) = Range(s) \cup {x}
         /\ Ascends(o, s) /\ Deeper(o, s, x) => Ascends(o, Append(s, x))
<1>1. /\ Append(s, x) \in Seq(Things) /\ Len(Append(s, x)) = Len(s) + 1
      /\ \A i \in 1 .. Len(s) : Append(s, x)[i] = s[i]
      /\ Append(s, x)[Len(s) + 1] = x
      /\ DOMAIN s = 1 .. Len(s) /\ DOMAIN Append(s, x) = 1 .. Len(s) + 1
      /\ Len(s) \in Nat
  OBVIOUS
<1>2. Range(Append(s, x)) = Range(s) \cup {x}
  BY <1>1 DEF Range
<1>3. ASSUME Ascends(o, s), Deeper(o, s, x) PROVE Ascends(o, Append(s, x))
  <2> SUFFICES ASSUME NEW i \in 1 .. Len(s) + 1, NEW j \in 1 .. Len(s) + 1, i < j
               PROVE  o[Append(s, x)[i]] < o[Append(s, x)[j]]
    BY <1>1 DEF Ascends
  <2>1. i \in 1 .. Len(s) /\ s[i] \in Range(s)
    BY <1>1 DEF Range
  <2>2. CASE j = Len(s) + 1
    BY <1>1, <1>3, <2>1, <2>2 DEF Deeper
  <2>3. CASE j # Len(s) + 1
    BY <1>1, <1>3, <2>1, <2>3 DEF Ascends
  <2> QED
    BY <2>2, <2>3
<1> QED
  BY <1>1, <1>2, <1>3

LEMMA FrontIs ==
  ASSUME NEW o, NEW s \in Seq(Things), s # <<>>, Ascends(o, s)
  PROVE  /\ Front(s) \in Seq(Things) /\ Last(s) \in Things
         /\ Range(s) = Range(Front(s)) \cup {Last(s)}
         /\ Ascends(o, Front(s)) /\ Deeper(o, Front(s), Last(s))
<1> DEFINE f == Front(s)
<1>1. Len(s) \in Nat \ {0} /\ DOMAIN s = 1 .. Len(s) /\ \A i \in 1 .. Len(s) : s[i] \in Things
  OBVIOUS
<1>2. /\ f \in Seq(Things) /\ Len(f) = Len(s) - 1 /\ DOMAIN f = 1 .. Len(s) - 1
      /\ \A i \in 1 .. Len(s) - 1 : f[i] = s[i]
  BY <1>1 DEF Front
<1>3. Last(s) = s[Len(s)]
  BY DEF Last
<1> HIDE DEF f
<1>4. Range(s) = Range(f) \cup {s[Len(s)]}
  BY <1>1, <1>2 DEF Range
<1>5. Ascends(o, f)
  BY <1>1, <1>2 DEF Ascends
<1>6. Deeper(o, f, s[Len(s)])
  BY <1>1, <1>2 DEF Ascends, Deeper, Range
<1> QED
  BY <1>1, <1>2, <1>3, <1>4, <1>5, <1>6 DEF f

-----------------------------------------------------------------------------
(* Counting the tasks inside a level.                                       *)
LEMMA InLevelFinite ==
  ASSUME NEW f, NEW l
  PROVE  /\ IsFiniteSet(InLevel(f, l)) /\ Cardinality(InLevel(f, l)) \in Nat
         /\ Cardinality(InLevel(f, l)) = 0 <=> InLevel(f, l) = {}
<1>1. IsFiniteSet(InLevel(f, l))
  BY FreezeAssumption, FS_Subset DEF InLevel
<1> QED
  BY <1>1, FS_CardinalityType, FS_EmptySet

\* g has one thing more than f, the innermost of what task t is inside of.
OneMore(o, f, g, t, x) ==
  /\ o \in Orders /\ f[t] \in Seq(Things) /\ Deeper(o, f[t], x)
  /\ Range(g[t]) = Range(f[t]) \cup {x}
  /\ \A u \in Tasks : u # t => g[u] = f[u]

LEMMA OneMoreCounts ==
  ASSUME NEW o, NEW f, NEW g, NEW t \in Tasks, NEW x \in Things, OneMore(o, f, g, t, x),
         NEW l \in Levels
  PROVE  Cardinality(InLevel(g, l)) =
           IF l = StartLevel(t, x) THEN Cardinality(InLevel(f, l)) + 1
                                   ELSE Cardinality(InLevel(f, l))
<1>1. \A u \in Tasks : u # t => (At(g, u, l) <=> At(f, u, l))
  BY DEF OneMore, At
<1>2. CASE l = StartLevel(t, x)
  <2>1. At(g, t, l)
    BY <1>2 DEF OneMore, At
  <2>2. ~At(f, t, l)
    BY <1>2, OncePerLevel DEF OneMore, At
  <2>3. InLevel(g, l) = InLevel(f, l) \cup {t} /\ t \notin InLevel(f, l)
    BY <1>1, <2>1, <2>2 DEF InLevel
  <2>4. IsFiniteSet(InLevel(f, l))
    BY InLevelFinite
  <2>5. Cardinality(InLevel(f, l) \cup {t}) = Cardinality(InLevel(f, l)) + 1
    BY <2>3, <2>4, FS_AddElement
  <2> QED
    BY <1>2, <2>3, <2>5
<1>3. CASE l # StartLevel(t, x)
  <2>1. At(g, t, l) <=> At(f, t, l)
    BY <1>3 DEF OneMore, At
  <2>2. InLevel(g, l) = InLevel(f, l)
    BY <1>1, <2>1 DEF InLevel
  <2> QED
    BY <1>3, <2>2
<1> QED
  BY <1>2, <1>3

-----------------------------------------------------------------------------
LEMMA InitOK == Init => IInv
<1> SUFFICES ASSUME Init PROVE IInv
  OBVIOUS
<1>1. TypeOK
  BY LevelsAre DEF Init, TypeOK, SB_UNFROZEN, SB_FREEZE_COMPLETE
<1>2. Ordered
  BY DEF Init, Ordered, Ascends
<1>3. \A l \in Levels : InLevel(inside, l) = {}
  BY DEF Init, InLevel, At, Range
<1>4. Counted
  BY <1>3, FS_EmptySet DEF Init, Counted
<1>5. Closed
  BY DEF Init, Closed
<1> QED
  BY <1>1, <1>2, <1>4, <1>5 DEF IInv

\* A task that takes what it may is counted, in a level that is open.
LEMMA PushKeeps ==
  ASSUME IInv, NEW t \in Tasks, NEW x \in Things,
         Deeper(order, inside[t], x), Available(t, x), Push(t, x),
         want' = [want EXCEPT ![t] = "nothing"], UNCHANGED <<order, frozen>>
  PROVE  IInv'
<1>1. inside[t] \in Seq(Things) /\ Ascends(order, inside[t]) /\ frozen \in 0 .. 4
  BY DEF IInv, TypeOK, Ordered, SB_UNFROZEN, SB_FREEZE_COMPLETE
<1>2. /\ inside' = [inside EXCEPT ![t] = Append(@, x)]
      /\ rw_sem' = [m \in Levels |-> IF m = StartLevel(t, x) THEN rw_sem[m] + 1 ELSE rw_sem[m]]
  BY DEF Push, Change
<1>3. /\ Append(inside[t], x) \in Seq(Things) /\ Ascends(order, Append(inside[t], x))
      /\ Range(Append(inside[t], x)) = Range(inside[t]) \cup {x}
  BY <1>1, AppendIs
<1>4. TypeOK'
  <2>1. rw_sem' \in [Levels -> Int]
    BY <1>2 DEF IInv, TypeOK
  <2>2. inside' \in [Tasks -> Seq(Things)]
    BY <1>2, <1>3 DEF IInv, TypeOK
  <2>3. taken' \in [Tasks -> Nat]
    BY DEF IInv, TypeOK, Push
  <2> QED
    BY <2>1, <2>2, <2>3 DEF IInv, TypeOK
<1>5. inside'[t] = Append(inside[t], x) /\ \A u \in Tasks : u # t => inside'[u] = inside[u]
  BY <1>2 DEF IInv, TypeOK
<1>6. want'[t] = "nothing" /\ \A u \in Tasks : u # t => want'[u] = want[u]
  BY DEF IInv, TypeOK
<1>7. Ordered'
  BY <1>3, <1>5, <1>6 DEF IInv, Ordered
<1>8. Counted'
  <2> SUFFICES ASSUME NEW l \in Levels PROVE rw_sem'[l] = Cardinality(InLevel(inside', l))
    BY DEF Counted, InLevel, At
  <2>1. OneMore(order, inside, inside', t, x)
    BY <1>1, <1>3, <1>5 DEF IInv, TypeOK, OneMore
  <2>2. Cardinality(InLevel(inside', l)) =
          IF l = StartLevel(t, x) THEN Cardinality(InLevel(inside, l)) + 1
                                  ELSE Cardinality(InLevel(inside, l))
    BY <2>1, OneMoreCounts
  <2> QED
    BY <2>2, <1>2 DEF IInv, Counted
<1>9. StartLevel(t, x) \in Levels => frozen < StartLevel(t, x)
  BY ThingsAre, LevelsAre DEF Available, Locks, StartLevel
<1>10. Closed'
  BY <1>1, <1>2, <1>9, LevelsAre DEF IInv, Closed
<1> QED
  BY <1>4, <1>7, <1>8, <1>10 DEF IInv

LEMMA StartKeeps ==
  ASSUME IInv, NEW t \in Tasks, NEW x \in Things, Start(t, x)
  PROVE  IInv'
<1>1. /\ want' = [want EXCEPT ![t] = x] /\ Deeper(order, inside[t], x)
      /\ UNCHANGED <<order, frozen, rw_sem, inside, taken>>
  BY DEF Start, MayTake, Deeper
<1>2. TypeOK'
  BY <1>1 DEF IInv, TypeOK
<1>3. Ordered'
  BY <1>1 DEF IInv, TypeOK, Ordered
<1>4. Counted' /\ Closed'
  BY <1>1 DEF IInv, Counted, Closed, InLevel, At
<1> QED
  BY <1>2, <1>3, <1>4 DEF IInv

LEMMA TrylockKeeps ==
  ASSUME IInv, NEW t \in Tasks, NEW x \in Things, Trylock(t, x)
  PROVE  IInv'
<1>1. want' = [want EXCEPT ![t] = "nothing"]
  BY DEF Trylock, IInv, TypeOK
<1>2. Deeper(order, inside[t], x) /\ Available(t, x) /\ Push(t, x) /\ UNCHANGED <<order, frozen>>
  BY DEF Trylock, MayTake, Deeper
<1> QED
  BY <1>1, <1>2, PushKeeps

LEMMA GetKeeps ==
  ASSUME IInv, NEW t \in Tasks, Get(t)
  PROVE  IInv'
<1>1. want[t] \in Things /\ Deeper(order, inside[t], want[t])
  BY DEF Get, IInv, TypeOK, Ordered
<1> QED
  BY <1>1, PushKeeps DEF Get

\* A level a task leaves had it inside, so the freezer has not been through.
LEMMA EndKeeps ==
  ASSUME IInv, NEW t \in Tasks, End(t)
  PROVE  IInv'
<1>1. inside[t] \in Seq(Things) /\ Ascends(order, inside[t]) /\ inside[t] # <<>> /\ want[t] = "nothing"
  BY DEF IInv, TypeOK, Ordered, End
<1>2. PICK x \in Things :
      /\ x = Last(inside[t]) /\ Front(inside[t]) \in Seq(Things)
      /\ Range(inside[t]) = Range(Front(inside[t])) \cup {x}
      /\ Ascends(order, Front(inside[t])) /\ Deeper(order, Front(inside[t]), x)
  BY <1>1, FrontIs
<1>3. EndLevel(t, x) = StartLevel(t, x)
  BY LevelIs
<1>4. /\ inside' = [inside EXCEPT ![t] = Front(@)]
      /\ rw_sem' = [m \in Levels |-> IF m = StartLevel(t, x) THEN rw_sem[m] + (-1) ELSE rw_sem[m]]
      /\ UNCHANGED <<order, frozen, want>>
  BY <1>2, <1>3 DEF End, Change
<1>5. TypeOK'
  <2>1. rw_sem' \in [Levels -> Int]
    BY <1>4 DEF IInv, TypeOK
  <2>2. inside' \in [Tasks -> Seq(Things)]
    BY <1>2, <1>4 DEF IInv, TypeOK
  <2>3. taken' \in [Tasks -> Nat]
    BY DEF IInv, TypeOK, End
  <2> QED
    BY <1>4, <2>1, <2>2, <2>3 DEF IInv, TypeOK
<1>6. inside'[t] = Front(inside[t]) /\ \A u \in Tasks : u # t => inside[u] = inside'[u]
  BY <1>4 DEF IInv, TypeOK
<1>7. Ordered'
  BY <1>1, <1>2, <1>4, <1>6 DEF IInv, Ordered
<1>8. ASSUME NEW l \in Levels
      PROVE  Cardinality(InLevel(inside, l)) =
               IF l = StartLevel(t, x) THEN Cardinality(InLevel(inside', l)) + 1
                                       ELSE Cardinality(InLevel(inside', l))
  <2>1. OneMore(order, inside', inside, t, x)
    BY <1>2, <1>6 DEF IInv, TypeOK, OneMore
  <2> QED
    BY <2>1, OneMoreCounts
<1>9. \A l \in Levels : rw_sem[l] = Cardinality(InLevel(inside, l))
                          /\ Cardinality(InLevel(inside', l)) \in Nat
  BY InLevelFinite DEF IInv, Counted
<1>10. ASSUME NEW l \in Levels PROVE rw_sem'[l] = Cardinality(InLevel(inside', l))
  <2> DEFINE before == Cardinality(InLevel(inside, l))
             after == Cardinality(InLevel(inside', l))
  <2>1. before = (IF l = StartLevel(t, x) THEN after + 1 ELSE after)
    BY <1>8
  <2>2. rw_sem[l] = before /\ after \in Nat
    BY <1>9
  <2>3. rw_sem'[l] = (IF l = StartLevel(t, x) THEN rw_sem[l] + (-1) ELSE rw_sem[l])
    BY <1>4
  <2> HIDE DEF before, after
  <2>4. rw_sem'[l] = after
    BY <2>1, <2>2, <2>3
  <2> QED
    BY <2>4 DEF after
<1>11. Counted'
  BY <1>10 DEF Counted, InLevel, At
<1>12. Closed'
  BY <1>4, <1>8, <1>9, LevelsAre DEF IInv, Closed
<1> QED
  BY <1>5, <1>7, <1>11, <1>12 DEF IInv

\* The freezer leaves a level behind when it is empty.
LEMMA FreezerKeeps ==
  ASSUME IInv, FreezeStart \/ FreezeNext \/ Thaw
  PROVE  IInv'
<1>1. UNCHANGED <<order, rw_sem, inside, want, taken>>
  BY DEF FreezeStart, FreezeNext, Thaw
<1>2. frozen \in 0 .. 4
  BY DEF IInv, TypeOK, SB_UNFROZEN, SB_FREEZE_COMPLETE
<1>3. frozen' \in 0 .. 4 /\ Closed'
  BY <1>1, <1>2, LevelsAre
     DEF IInv, Closed, FreezeStart, FreezeNext, Thaw, SB_UNFROZEN, SB_FREEZE_WRITE
<1>4. TypeOK'
  BY <1>1, <1>3 DEF IInv, TypeOK, SB_UNFROZEN, SB_FREEZE_COMPLETE
<1>5. Ordered' /\ Counted'
  BY <1>1 DEF IInv, Ordered, Counted, InLevel, At
<1> QED
  BY <1>3, <1>4, <1>5 DEF IInv

LEMMA NextKeeps == IInv /\ [Next]_vars => IInv'
<1> SUFFICES ASSUME IInv, [Next]_vars PROVE IInv'
  OBVIOUS
<1>1. ASSUME NEW t \in Tasks,
             (\E x \in Things : Start(t, x) \/ Trylock(t, x)) \/ Get(t) \/ End(t)
      PROVE  IInv'
  BY <1>1, StartKeeps, TrylockKeeps, GetKeeps, EndKeeps
<1>2. CASE FreezeStart \/ FreezeNext \/ Thaw
  BY <1>2, FreezerKeeps
<1>3. CASE UNCHANGED vars
  BY <1>3 DEF IInv, TypeOK, Ordered, Counted, Closed, InLevel, At, vars
<1> QED
  BY <1>1, <1>2, <1>3 DEF Next

\* The inductive invariant: the semaphores count the tasks inside, and those the
\* freezer has been through are at zero.
THEOREM Invariance == Spec => []IInv
BY InitOK, NextKeeps, PTL DEF Spec

\* Once the file system is frozen nobody is inside a level (fs.h:1633), for any
\* tasks, however deeply they nest.
THEOREM FrozenIsEmpty == Spec => []NobodyInFrozen
<1>1. IInv => NobodyInFrozen
  <2> SUFFICES ASSUME IInv, frozen = 4, NEW t \in Tasks, NEW x \in Range(inside[t])
               PROVE  StartLevel(t, x) = 0
    BY DEF NobodyInFrozen, SB_FREEZE_COMPLETE
  <2>1. x \in Things
    BY DEF IInv, TypeOK, Range
  <2>2. \A l \in Levels : InLevel(inside, l) = {}
    BY InLevelFinite, LevelsAre DEF IInv, Counted, Closed
  <2>3. StartLevel(t, x) \notin Levels
    BY <2>2 DEF InLevel, At
  <2> QED
    BY <2>1, <2>3, LevelIs, LevelsAre
<1> QED
  BY <1>1, Invariance, PTL
=============================================================================
