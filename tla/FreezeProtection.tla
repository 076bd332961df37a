--------------------------- MODULE FreezeProtection ---------------------------
(****************************************************************************)
(* include/linux/fs.h: the three levels of protection of a file system      *)
(* against being frozen.  A task enters a level before it changes anything  *)
(* and leaves it behind; inside, it may take locks and enter deeper levels, *)
(* as a write that faults on its buffer does.  The freezer closes the       *)
(* levels from the outermost to the innermost and waits for each to become  *)
(* empty.                                                                   *)
(*                                                                          *)
(* The comments order only some of the levels and locks.  Two tasks that    *)
(* took i_mutex and s_umount in opposite orders would wait for each other   *)
(* for ever, and no comment forbids it.  So two things are ASSUMED beyond   *)
(* the comments: all tasks keep to one order of everything they take, any   *)
(* one that obeys the comments; and a task that takes s_umount, which both  *)
(* freezing and thawing need, is inside the outermost level.                *)
(*                                                                          *)
(* __sb_start_write(), __sb_end_write() and freeze_super() are in           *)
(* fs/super.c, modelled as these functions use them: each level has a       *)
(* semaphore that counts the tasks inside and that the freezer closes.      *)
(****************************************************************************)
EXTENDS Integers, FiniteSets, SequencesExt

CONSTANTS Tasks,
          Regular,  \* the tasks whose file is a regular one
          MaxTaken  \* bound: levels and locks one operation takes

ASSUME FreezeAssumption ==
  IsFiniteSet(Tasks) /\ Regular \subseteq Tasks /\ MaxTaken \in Nat

SB_UNFROZEN == 0
SB_FREEZE_WRITE == 1
SB_FREEZE_PAGEFAULT == 2
SB_FREEZE_FS == 3
SB_FREEZE_COMPLETE == 4
Levels == 1 .. SB_FREEZE_COMPLETE - 1

Outermost == {"sb_write", "file_write"}
Locks == {"s_umount", "i_mutex", "mmap_sem"}
Things == Outermost \cup Locks \cup {"sb_pagefault", "sb_intwrite"}

\* What the comments of sb_start_write, sb_start_pagefault and sb_start_intwrite
\* say: the first of a pair is not taken inside of the second.  "Generally,
\* freeze protection should be the outermost lock."
Before ==
  (Outermost \X (Things \ Outermost))
  \cup {<<"mmap_sem", "sb_pagefault">>, <<"sb_pagefault", "sb_intwrite">>}

\* The orders of all levels and locks that obey the comments.
Orders ==
  {o \in [Things -> 0 .. 5] :
     /\ \A x \in Outermost : o[x] = 0
     /\ \A x, y \in Things \ Outermost : o[x] = o[y] => x = y
     /\ \A p \in Before : o[p[1]] < o[p[2]]}

VARIABLES order,    \* the order that all tasks keep to
          frozen,   \* s_writers.frozen: the levels up to it are closed
          rw_sem,   \* rw_sem[l]: the number of tasks let into level l
          inside,   \* what each task is inside of, the innermost last
          want,     \* what each task waits for, or "nothing"
          taken     \* how many things its operation has taken
vars == <<order, frozen, rw_sem, inside, want, taken>>

Init ==
  /\ order \in Orders
  /\ frozen = SB_UNFROZEN
  /\ rw_sem = [l \in Levels |-> 0]
  /\ inside = [t \in Tasks |-> <<>>]
  /\ want = [t \in Tasks |-> "nothing"]
  /\ taken = [t \in Tasks |-> 0]

\* The level each function names, 0 if none: file_start_write() and
\* file_end_write() return at once unless the file is regular.
StartLevel(t, x) ==
  CASE x = "sb_write" -> SB_FREEZE_WRITE
    [] x = "file_write" -> IF t \in Regular THEN SB_FREEZE_WRITE ELSE 0
    [] x = "sb_pagefault" -> SB_FREEZE_PAGEFAULT
    [] x = "sb_intwrite" -> SB_FREEZE_FS
    [] OTHER -> 0
EndLevel(t, x) ==
  CASE x = "sb_write" -> SB_FREEZE_WRITE
    [] x = "file_write" -> IF t \in Regular THEN SB_FREEZE_WRITE ELSE 0
    [] x = "sb_pagefault" -> SB_FREEZE_PAGEFAULT
    [] x = "sb_intwrite" -> SB_FREEZE_FS
    [] OTHER -> 0

Change(l, d) == rw_sem' = [m \in Levels |-> IF m = l THEN rw_sem[m] + d ELSE rw_sem[m]]

\* The freezer holds s_umount while it closes the two inner levels.
FreezerHas(x) == x = "s_umount" /\ frozen \in {SB_FREEZE_PAGEFAULT, SB_FREEZE_FS}
Free(x) == ~FreezerHas(x) /\ \A t \in Tasks : x \notin Range(inside[t])
Available(t, x) ==
  IF x \in Locks THEN Free(x) ELSE StartLevel(t, x) = 0 \/ frozen < StartLevel(t, x)

\* The two assumptions.
MayTake(t, x) ==
  /\ taken[t] < MaxTaken
  /\ \A y \in Range(inside[t]) : order[y] < order[x]
  /\ x = "s_umount" => \E y \in Range(inside[t]) : StartLevel(t, y) = SB_FREEZE_WRITE

Push(t, x) ==
  /\ inside' = [inside EXCEPT ![t] = Append(@, x)]
  /\ taken' = [taken EXCEPT ![t] = @ + 1]
  /\ Change(StartLevel(t, x), 1)
-----------------------------------------------------------------------------
\* sb_start_write(), sb_start_pagefault(), sb_start_intwrite() and
\* file_start_write() wait for the level to be open.
Start(t, x) ==
  /\ want[t] = "nothing" /\ MayTake(t, x)
  /\ want' = [want EXCEPT ![t] = x]
  /\ UNCHANGED <<order, frozen, rw_sem, inside, taken>>
Get(t) ==
  /\ want[t] # "nothing" /\ Available(t, want[t])
  /\ Push(t, want[t]) /\ want' = [want EXCEPT ![t] = "nothing"]
  /\ UNCHANGED <<order, frozen>>

\* As if the trylock were a lock that is always had.
TrylockAlways(t, x) ==
  /\ want[t] = "nothing" /\ MayTake(t, x)
  /\ x \in {"sb_write", "file_write", "sb_intwrite"}
  /\ Push(t, x) /\ UNCHANGED <<order, frozen, want>>

\* The trylock forms go on without the level if it is closed.
Trylock(t, x) ==
  /\ want[t] = "nothing" /\ MayTake(t, x)
  /\ x \in {"sb_write", "file_write", "sb_intwrite"} /\ Available(t, x)
  /\ Push(t, x) /\ UNCHANGED <<order, frozen, want>>

End(t) ==
  /\ want[t] = "nothing" /\ inside[t] # <<>>
  /\ inside' = [inside EXCEPT ![t] = Front(@)]
  /\ taken' = [taken EXCEPT ![t] = IF Len(inside[t]) = 1 THEN 0 ELSE @]
  /\ Change(EndLevel(t, Last(inside[t])), -1)
  /\ UNCHANGED <<order, frozen, want>>
-----------------------------------------------------------------------------
FreezeStart ==
  /\ frozen = SB_UNFROZEN /\ Free("s_umount")
  /\ frozen' = SB_FREEZE_WRITE /\ UNCHANGED <<order, rw_sem, inside, want, taken>>
FreezeNext ==
  /\ frozen \in Levels /\ rw_sem[frozen] = 0
  /\ frozen = SB_FREEZE_WRITE => Free("s_umount")
  /\ frozen' = frozen + 1 /\ UNCHANGED <<order, rw_sem, inside, want, taken>>
Thaw ==
  /\ frozen = SB_FREEZE_COMPLETE /\ Free("s_umount")
  /\ frozen' = SB_UNFROZEN /\ UNCHANGED <<order, rw_sem, inside, want, taken>>

Next ==
  \/ \E t \in Tasks :
       \/ \E x \in Things : Start(t, x) \/ Trylock(t, x)
       \/ Get(t) \/ End(t)
  \/ FreezeStart \/ FreezeNext \/ Thaw

\* Semaphores are given to those who wait, and what a task does ends.
Fairness ==
  /\ WF_vars(FreezeNext)
  /\ \A t \in Tasks : SF_vars(Get(t)) /\ WF_vars(End(t))
Spec == Init /\ [][Next]_vars /\ Fairness
-----------------------------------------------------------------------------
(* "Exclusion against file system freezing" (fs.h:1633): once the file      *)
(* system is frozen no task is inside any level, however deeply it was      *)
(* nested and whichever function it came in by.                             *)
NobodyInFrozen ==
  frozen = SB_FREEZE_COMPLETE =>
    \A t \in Tasks : \A x \in Range(inside[t]) : StartLevel(t, x) = 0

(* A freeze that has started comes to its end, whichever order obeying the  *)
(* comments all tasks keep to ("users have to preserve ordering of freeze   *)
(* protection and other filesystem locks", fs.h:1639): the freezer, which   *)
(* closes the levels from without and takes s_umount in between, and the    *)
(* tasks never wait for each other.                                         *)
FreezeEnds == (frozen = SB_FREEZE_WRITE) ~> (frozen = SB_FREEZE_COMPLETE)
=============================================================================
