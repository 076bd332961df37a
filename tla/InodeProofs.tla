------------------------------ MODULE InodeProofs ------------------------------
(****************************************************************************)
(* Proofs about the functions of fs.h that race on an inode, for any        *)
(* numbers of tasks and any size of a word: no lease goes unnoticed, a size *)
(* that is read is one the file had, who has drained finds quiet, and the   *)
(* counters of writers count one side and implement the two sides.          *)
(****************************************************************************)
EXTENDS MCInode, MCWriteAccess, FiniteSetTheorems, TLAPS

(* Leases. *)

\* Who has loaded anything, or is through, is counted; who is closed is not.
CountedFirst ==
  \A o \in Openers :
    /\ pc[o] \in {"opened", "__break_lease"} => o \in counted
    /\ pc[o] = "closed" => o \notin counted
    /\ pc[o] = "break" /\ o \notin counted => DOMAIN seen[o] = {}

\* The list has the leases that are set, and the pointers of its head lead to
\* one that is granted.
Visible ==
  \A h \in Setters :
    /\ h \in flc_lease <=> lease[h] # "none"
    /\ h \in flc_lease => i_flctx
    /\ lease[h] = "granted" => \A p \in Pointers : link[p]

\* What a task has loaded does not hide a lease.
Sees(o) == \A p \in DOMAIN seen[o] : seen[o][p]

\* A task that is counted while a lease is in its way is on its way to
\* __break_lease().
Watched ==
  \A h \in Setters, o \in Openers :
    lease[h] = "granted" /\ Conflict(h, o) /\ o \in counted =>
      pc[o] = "__break_lease" \/ (pc[o] = "break" /\ Sees(o))

IInv == TypeOK /\ CountedFirst /\ Visible /\ Watched

LEMMA ViewIs ==
  ASSUME NEW f
  PROVE  f \in Views <=> /\ DOMAIN f \subseteq Pointers \cup {"i_flctx"}
                         /\ f \in [DOMAIN f -> BOOLEAN]
BY DEF Views

LEMMA InitOK == Init => IInv
<1> SUFFICES ASSUME Init PROVE IInv
  OBVIOUS
<1>1. [p \in {} |-> FALSE] \in Views
  BY DEF Views
<1>2. TypeOK
  BY <1>1 DEF Init, TypeOK
<1>3. CountedFirst /\ Visible /\ Watched
  BY DEF Init, CountedFirst, Visible, Watched
<1> QED
  BY <1>2, <1>3 DEF IInv

-----------------------------------------------------------------------------
\* A step of an opener leaves the list and the setters alone.
LEMMA VisibleKept == ASSUME Visible, UNCHANGED setting PROVE Visible'
BY DEF Visible, setting

LEMMA CallKeeps ==
  ASSUME IInv, NEW o \in Openers, Call(o)
  PROVE  IInv'
<1>1. [p \in {} |-> FALSE] \in Views
  BY DEF Views
<1>2. TypeOK'
  BY <1>1 DEF IInv, TypeOK, Call, setting
<1>3. CountedFirst'
  BY DEF IInv, TypeOK, CountedFirst, Call
<1>4. Visible'
  BY VisibleKept DEF IInv, Call
<1>5. Watched'
  BY DEF IInv, TypeOK, CountedFirst, Watched, Sees, Conflict, Call, setting
<1> QED
  BY <1>2, <1>3, <1>4, <1>5 DEF IInv

LEMMA CountKeeps ==
  ASSUME IInv, NEW o \in Openers, Count(o)
  PROVE  IInv'
<1>1. TypeOK'
  BY DEF IInv, TypeOK, Count, setting
<1>2. CountedFirst'
  BY DEF IInv, TypeOK, CountedFirst, Count
<1>3. Visible'
  BY VisibleKept DEF IInv, Count
<1>4. Watched'
  BY DEF IInv, TypeOK, CountedFirst, Watched, Sees, Conflict, Count, setting
<1> QED
  BY <1>1, <1>2, <1>3, <1>4 DEF IInv

\* A load that finds what there is.
LEMMA LoadKeeps ==
  ASSUME IInv, NEW o \in Openers, NEW p \in Pointers \cup {"i_flctx"},
         NEW v \in BOOLEAN, Load(o, p, v),
         \A h \in Setters : lease[h] = "granted" => v
  PROVE  IInv'
<1> DEFINE new == [q \in DOMAIN seen[o] \cup {p} |-> IF q = p THEN v ELSE seen[o][q]]
<1>1. /\ seen[o] \in Views /\ seen' = [seen EXCEPT ![o] = new]
      /\ pc[o] = "break" /\ o \in counted
      /\ UNCHANGED <<setting, pc, counted>>
  BY DEF IInv, TypeOK, Load, Barrier
<1>2. DOMAIN new = DOMAIN seen[o] \cup {p} /\ new \in [DOMAIN new -> BOOLEAN]
  BY <1>1, ViewIs
<1>3. new \in Views
  BY <1>1, <1>2, ViewIs
<1>4. (\A q \in DOMAIN seen[o] : seen[o][q]) /\ v => \A q \in DOMAIN new : new[q]
  OBVIOUS
<1> HIDE DEF new
<1>5. TypeOK'
  BY <1>1, <1>3 DEF IInv, TypeOK, setting
<1>6. CountedFirst'
  BY <1>1 DEF IInv, TypeOK, CountedFirst
<1>7. Visible'
  BY <1>1, VisibleKept DEF IInv
<1>8. Watched'
  <2> SUFFICES ASSUME NEW h \in Setters, NEW r \in Openers,
                      lease[h] = "granted", Conflict(h, r), r \in counted
               PROVE  pc[r] = "__break_lease" \/ (pc[r] = "break" /\ Sees(r)')
    BY <1>1 DEF Watched, Conflict, setting
  <2>1. pc[r] = "__break_lease" \/ (pc[r] = "break" /\ Sees(r))
    BY DEF IInv, Watched
  <2>2. CASE r = o
    BY <2>1, <2>2, <1>1, <1>4 DEF Sees, IInv, TypeOK
  <2>3. CASE r # o
    BY <2>1, <2>3, <1>1 DEF Sees, IInv, TypeOK
  <2> QED
    BY <2>2, <2>3
<1> QED
  BY <1>5, <1>6, <1>7, <1>8 DEF IInv

LEMMA LoadsKeep ==
  ASSUME IInv, NEW o \in Openers,
         LoadContext(o) \/ \E p \in Pointers : LoadPointer(o, p)
  PROVE  IInv'
<1>1. i_flctx \in BOOLEAN /\ \A p \in Pointers : link[p] \in BOOLEAN
  BY DEF IInv, TypeOK
<1>2. \A h \in Setters : lease[h] = "granted" => i_flctx /\ \A p \in Pointers : link[p]
  BY DEF IInv, Visible
<1>3. CASE LoadContext(o)
  BY <1>1, <1>2, <1>3, LoadKeeps DEF LoadContext
<1>4. ASSUME NEW p \in Pointers, LoadPointer(o, p) PROVE IInv'
  BY <1>1, <1>2, <1>4, LoadKeeps DEF LoadPointer
<1> QED
  BY <1>3, <1>4

\* A lease in the way is found.
LEMMA DecideKeeps ==
  ASSUME IInv, NEW o \in Openers, Decide(o)
  PROVE  IInv'
<1>1. /\ pc[o] = "break" /\ o \in counted
      /\ pc' \in {[pc EXCEPT ![o] = "opened"], [pc EXCEPT ![o] = "__break_lease"]}
      /\ UNCHANGED <<setting, counted, seen>>
  BY DEF Decide
<1>2. Sees(o) => pc' = [pc EXCEPT ![o] = "__break_lease"]
  BY DEF Decide, FoundNone, Sees, Loaded, Pointers
<1>3. TypeOK'
  BY <1>1 DEF IInv, TypeOK, setting
<1>4. CountedFirst'
  BY <1>1 DEF IInv, TypeOK, CountedFirst
<1>5. Visible'
  BY <1>1, VisibleKept DEF IInv
<1>6. Watched'
  <2> SUFFICES ASSUME NEW h \in Setters, NEW r \in Openers,
                      lease[h] = "granted", Conflict(h, r), r \in counted
               PROVE  pc'[r] = "__break_lease" \/ (pc'[r] = "break" /\ Sees(r))
    BY <1>1 DEF Watched, Conflict, setting, Sees
  <2>1. pc[r] = "__break_lease" \/ (pc[r] = "break" /\ Sees(r))
    BY DEF IInv, Watched
  <2> QED
    BY <2>1, <1>1, <1>2 DEF IInv, TypeOK
<1> QED
  BY <1>3, <1>4, <1>5, <1>6 DEF IInv

LEMMA LeavingKeeps ==
  ASSUME IInv, NEW o \in Openers, WouldBlock(o) \/ Close(o)
  PROVE  IInv'
<1>1. /\ pc[o] \in {"__break_lease", "opened"}
      /\ pc' = [pc EXCEPT ![o] = "closed"] /\ counted' = counted \ {o}
      /\ UNCHANGED <<setting, seen>>
  BY DEF WouldBlock, Close
<1>2. TypeOK'
  BY <1>1 DEF IInv, TypeOK, setting
<1>3. CountedFirst'
  BY <1>1 DEF IInv, TypeOK, CountedFirst
<1>4. Visible'
  BY <1>1, VisibleKept DEF IInv
<1>5. Watched'
  BY <1>1 DEF IInv, TypeOK, Watched, Sees, Conflict, setting
<1> QED
  BY <1>2, <1>3, <1>4, <1>5 DEF IInv

LEMMA BrokenKeeps ==
  ASSUME IInv, NEW o \in Openers, Broken(o)
  PROVE  IInv'
<1>1. TypeOK'
  BY DEF IInv, TypeOK, Broken, setting
<1>2. CountedFirst'
  BY DEF IInv, TypeOK, CountedFirst, Broken
<1>3. Visible'
  BY VisibleKept DEF IInv, Broken
<1>4. \A h \in Setters : lease[h] = "granted" => ~Conflict(h, o)
  BY DEF IInv, Visible, Broken, InTheWay
<1>5. Watched'
  BY <1>4 DEF IInv, TypeOK, Watched, Sees, Conflict, Broken, setting
<1> QED
  BY <1>1, <1>2, <1>3, <1>5 DEF IInv
-----------------------------------------------------------------------------
\* A step of a setter leaves the openers alone: Watched can only be disturbed
\* by a lease that was not granted before.
LEMMA WatchedKept ==
  ASSUME Watched, UNCHANGED opening,
         \A h \in Setters : lease'[h] = "granted" => lease[h] = "granted" /\ kind'[h] = kind[h]
  PROVE  Watched'
BY DEF Watched, Sees, Conflict, opening

LEMMA CountedKept == ASSUME CountedFirst, UNCHANGED opening PROVE CountedFirst'
BY DEF CountedFirst, opening

LEMMA SetLeaseKeeps ==
  ASSUME IInv, NEW h \in Setters, NEW k \in {"read", "write"}, SetLease(h, k)
  PROVE  IInv'
<1>1. TypeOK'
  BY DEF IInv, TypeOK, SetLease, opening
<1>2. CountedFirst'
  BY CountedKept DEF IInv, SetLease
<1>3. Visible'
  BY DEF IInv, TypeOK, Visible, SetLease
<1>4. Watched'
  BY WatchedKept DEF IInv, TypeOK, SetLease
<1> QED
  BY <1>1, <1>2, <1>3, <1>4 DEF IInv

\* The head's pointers move only when nothing granted is on the list, or to it.
LEMMA StoreKeeps ==
  ASSUME IInv, NEW p \in Pointers, Store(p)
  PROVE  IInv'
<1>1. TypeOK'
  BY DEF IInv, TypeOK, Store, opening
<1>2. CountedFirst'
  BY CountedKept DEF IInv, Store
<1>3. \A h \in Setters : lease[h] # "granted"
  BY DEF IInv, TypeOK, Visible, Store, Stored
<1>4. Visible'
  BY <1>3 DEF IInv, Visible, Store
<1>5. Watched'
  BY WatchedKept DEF IInv, Store
<1> QED
  BY <1>1, <1>2, <1>4, <1>5 DEF IInv

LEMMA CheckOpenersKeeps ==
  ASSUME IInv, NEW h \in Setters, CheckOpeners(h)
  PROVE  IInv'
<1>1. h \in flc_lease /\ \A p \in Pointers : link[p]
  BY DEF IInv, TypeOK, Visible, CheckOpeners, Stored
<1>2. TypeOK'
  BY DEF IInv, TypeOK, CheckOpeners, opening
<1>3. CountedFirst'
  BY CountedKept DEF IInv, CheckOpeners
<1>4. Visible'
  BY <1>1 DEF IInv, TypeOK, Visible, CheckOpeners
<1>5. Watched'
  <2>1. CASE \E o \in counted : Conflict(h, o)
    BY <2>1, WatchedKept DEF IInv, TypeOK, CheckOpeners
  <2>2. CASE ~\E o \in counted : Conflict(h, o)
    BY <2>2 DEF IInv, TypeOK, Watched, Sees, Conflict, CheckOpeners, opening
  <2> QED
    BY <2>1, <2>2
<1> QED
  BY <1>2, <1>3, <1>4, <1>5 DEF IInv

LEMMA UnlockKeeps ==
  ASSUME IInv, NEW h \in Setters, Unlock(h)
  PROVE  IInv'
<1>1. TypeOK'
  BY DEF IInv, TypeOK, Unlock, opening
<1>2. CountedFirst'
  BY CountedKept DEF IInv, Unlock
<1>3. Visible'
  BY DEF IInv, Visible, Unlock
<1>4. Watched'
  BY WatchedKept DEF IInv, Unlock
<1> QED
  BY <1>1, <1>2, <1>3, <1>4 DEF IInv

LEMMA GiveUpKeeps ==
  ASSUME IInv, NEW h \in Setters, GiveUp(h)
  PROVE  IInv'
<1>1. TypeOK'
  BY DEF IInv, TypeOK, GiveUp, opening
<1>2. CountedFirst'
  BY CountedKept DEF IInv, GiveUp
<1>3. Visible'
  BY DEF IInv, TypeOK, Visible, GiveUp
<1>4. Watched'
  BY WatchedKept DEF IInv, TypeOK, GiveUp
<1> QED
  BY <1>1, <1>2, <1>3, <1>4 DEF IInv

-----------------------------------------------------------------------------
LEMMA NextKeeps == IInv /\ [Next]_vars => IInv'
<1> SUFFICES ASSUME IInv, [Next]_vars PROVE IInv'
  OBVIOUS
<1>1. ASSUME NEW o \in Openers, break_lease(o) \/ Close(o) PROVE IInv'
  BY <1>1, CallKeeps, CountKeeps, LoadsKeep, DecideKeeps, BrokenKeeps, LeavingKeeps
     DEF break_lease
<1>2. ASSUME NEW h \in Setters,
             \/ \E k \in {"read", "write"} : SetLease(h, k)
             \/ CheckOpeners(h) \/ Unlock(h) \/ GiveUp(h)
      PROVE  IInv'
  BY <1>2, SetLeaseKeeps, CheckOpenersKeeps, UnlockKeeps, GiveUpKeeps
<1>3. ASSUME NEW p \in Pointers, Store(p) PROVE IInv'
  BY <1>3, StoreKeeps
<1>4. CASE UNCHANGED vars
  BY <1>4 DEF IInv, TypeOK, CountedFirst, Visible, Watched, Sees, Conflict, vars
<1> QED
  BY <1>1, <1>2, <1>3, <1>4 DEF Next

\* The inductive invariant: an opener is counted before it has loaded anything,
\* and a granted lease can be seen by who is counted.
THEOREM Invariance == Spec => []IInv
BY InitOK, NextKeeps, PTL DEF Spec

\* A granted lease and an open that was let through never conflict (the comment
\* at fs.h:2439), for any numbers of openers and setters.
THEOREM LeasesNoticed == Spec => []NoLeaseUnnoticed
<1>1. IInv => NoLeaseUnnoticed
  BY DEF IInv, TypeOK, CountedFirst, Watched, NoLeaseUnnoticed
<1> QED
  BY <1>1, Invariance, PTL

-----------------------------------------------------------------------------
(* Direct I/O. *)

\* The requests that i_dio_count stands for.
Flight == Dio!InFlight

\* Who has the lock shared.
Sharing == {t \in Submitters : dio_pc[t] \in {"locked shared", "begun"}}

\* Where a task has the lock alone.
Locking == {"locked", "look", "asleep", "flush", "changing", "written"}
Places == {"idle", "locked shared", "begun", "in flight", "wake"} \cup Locking

\* The count is that of the requests in flight.
DioCounted ==
  /\ dio_pc \in [Dio!Tasks -> Places] /\ dirty \in BOOLEAN
  /\ i_dio_count = Cardinality(Flight)

\* The lock is held alone by who is behind it, and then by nobody else.
DioLocked ==
  /\ shared = Sharing /\ (alone # Nobody => shared = {})
  /\ \A t \in Changers : dio_pc[t] \in Locking => alone = t

\* Who has seen a count of zero finds it so until the lock is given back.
Drained ==
  \A t \in Changers :
    /\ dio_pc[t] \in {"flush", "changing"} => Flight = {}
    /\ dio_pc[t] = "changing" => ~dirty

\* The invariant of direct I/O.
DioInv == DioCounted /\ DioLocked /\ Drained

\* Finitely many tasks submit finitely many requests.
LEMMA FlightIsFinite == IsFiniteSet(Flight)
<1>1. IsFiniteSet(Submitters)
  BY InodeAssumption DEF Dio!DirectIoAssumption, Dio!IsFiniteSet, IsFiniteSet
<1>2. Flight \in SUBSET Submitters
  BY DEF Flight, Dio!InFlight
<1> QED
  BY <1>1, <1>2, FS_Subset

\* Who is a task.
LEMMA TasksAre == /\ Submitters \subseteq Dio!Tasks /\ Changers \subseteq Dio!Tasks
                  /\ Nobody \notin Changers
BY InodeAssumption DEF Dio!Tasks, Dio!DirectIoAssumption

\* A task goes from one place to another.
LEMMA Moves ==
  ASSUME DioCounted, NEW t \in Dio!Tasks, NEW from, NEW to \in Places, Dio!Go(t, from, to)
  PROVE  /\ dio_pc[t] = from /\ dio_pc' \in [Dio!Tasks -> Places]
         /\ dio_pc'[t] = to /\ \A s \in Dio!Tasks : s # t => dio_pc'[s] = dio_pc[s]
BY DEF DioCounted, Dio!Go

\* At first nothing is in flight.
LEMMA DioInit == ASSUME Dio!Init PROVE DioInv
<1>1. /\ dio_pc = [t \in Dio!Tasks |-> "idle"]
      /\ shared = {} /\ alone = Nobody /\ i_dio_count = 0 /\ dirty = FALSE
  BY DEF Dio!Init
<1>2. Flight = {} /\ Sharing = {}
  BY <1>1, TasksAre DEF Flight, Dio!InFlight, Sharing
<1>3. dio_pc \in [Dio!Tasks -> Places]
  BY <1>1 DEF Places
<1>4. \A t \in Changers : dio_pc[t] = "idle"
  BY <1>1, TasksAre
<1> QED
  BY <1>1, <1>2, <1>3, <1>4, FS_EmptySet DEF DioInv, DioCounted, DioLocked, Drained, Locking

\* A submitter's step.
LEMMA SubmitKeeps ==
  ASSUME DioInv, NEW t \in Submitters,
         \/ Dio!inode_lock_shared(t) \/ Dio!inode_dio_begin(t) \/ Dio!inode_unlock_shared(t)
         \/ Dio!Finish(t)
  PROVE  DioInv'
<1>1. DioCounted /\ DioLocked /\ Drained /\ t \in Dio!Tasks /\ IsFiniteSet(Flight)
  BY TasksAre, FlightIsFinite DEF DioInv
<1>2. Cardinality(Flight) \in Nat
  BY <1>1, FS_CardinalityType
<1>3. CASE Dio!inode_lock_shared(t)
  <2>1. /\ dio_pc[t] = "idle" /\ dio_pc' \in [Dio!Tasks -> Places]
        /\ dio_pc'[t] = "locked shared" /\ \A s \in Dio!Tasks : s # t => dio_pc'[s] = dio_pc[s]
    BY <1>1, <1>3, Moves DEF Dio!inode_lock_shared, Places
  <2>2. alone = Nobody /\ shared' = shared \cup {t} /\ UNCHANGED <<alone, i_dio_count, dirty>>
    BY <1>3 DEF Dio!inode_lock_shared
  <2>3. Flight' = Flight /\ Sharing' = Sharing \cup {t}
    BY <2>1, TasksAre DEF Flight, Dio!InFlight, Sharing
  <2>4. \A c \in Changers : dio_pc[c] \notin Locking
    BY <1>1, <2>2, TasksAre DEF DioLocked
  <2>5. \A c \in Changers : dio_pc'[c] \notin Locking
    BY <2>1, <2>4, TasksAre DEF Locking
  <2> QED
    BY <1>1, <2>1, <2>2, <2>3, <2>5 DEF DioInv, DioCounted, DioLocked, Drained, Locking
<1>4. CASE Dio!inode_dio_begin(t)
  <2>1. /\ dio_pc[t] = "locked shared" /\ dio_pc' \in [Dio!Tasks -> Places]
        /\ dio_pc'[t] = "begun" /\ \A s \in Dio!Tasks : s # t => dio_pc'[s] = dio_pc[s]
    BY <1>1, <1>4, Moves DEF Dio!inode_dio_begin, Places
  <2>2. i_dio_count' = i_dio_count + 1 /\ UNCHANGED <<shared, alone, dirty>>
    BY <1>4 DEF Dio!inode_dio_begin
  <2>3. Flight' = Flight \cup {t} /\ t \notin Flight /\ Sharing' = Sharing /\ t \in Sharing
    BY <2>1, TasksAre DEF Flight, Dio!InFlight, Sharing
  <2>4. Cardinality(Flight') = Cardinality(Flight) + 1
    BY <1>1, <2>3, FS_AddElement
  <2>5. alone = Nobody
    BY <1>1, <2>3 DEF DioLocked
  <2>6. \A c \in Changers : dio_pc[c] \notin Locking
    BY <1>1, <2>5, TasksAre DEF DioLocked
  <2>7. \A c \in Changers : dio_pc'[c] \notin Locking
    BY <2>1, <2>6, TasksAre DEF Locking
  <2> QED
    BY <1>1, <2>1, <2>2, <2>3, <2>4, <2>7 DEF DioInv, DioCounted, DioLocked, Drained, Locking
<1>5. CASE Dio!inode_unlock_shared(t)
  <2>1. /\ dio_pc[t] = "begun" /\ dio_pc' \in [Dio!Tasks -> Places]
        /\ dio_pc'[t] = "in flight" /\ \A s \in Dio!Tasks : s # t => dio_pc'[s] = dio_pc[s]
    BY <1>1, <1>5, Moves DEF Dio!inode_unlock_shared, Places
  <2>2. shared' = shared \ {t} /\ UNCHANGED <<alone, i_dio_count, dirty>>
    BY <1>5 DEF Dio!inode_unlock_shared
  <2>3. Flight' = Flight /\ Sharing' = Sharing \ {t}
    BY <2>1, TasksAre DEF Flight, Dio!InFlight, Sharing
  <2>4. \A c \in Changers : dio_pc'[c] \in Locking => dio_pc'[c] = dio_pc[c]
    BY <2>1, TasksAre DEF Locking
  <2> QED
    BY <1>1, <2>1, <2>2, <2>3, <2>4 DEF DioInv, DioCounted, DioLocked, Drained, Locking
<1>6. CASE Dio!inode_dio_end(t)
  <2>1. PICK to \in {"wake", "idle"} : Dio!Go(t, "in flight", to)
    BY <1>6 DEF Dio!inode_dio_end
  <2>2. /\ dio_pc[t] = "in flight" /\ dio_pc' \in [Dio!Tasks -> Places]
        /\ dio_pc'[t] = to /\ \A s \in Dio!Tasks : s # t => dio_pc'[s] = dio_pc[s]
    BY <1>1, <2>1, Moves DEF Places
  <2>3. i_dio_count' = i_dio_count - 1 /\ UNCHANGED <<shared, alone, dirty>>
    BY <1>6 DEF Dio!inode_dio_end
  <2>4. Flight' = Flight \ {t} /\ t \in Flight /\ Sharing' = Sharing
    BY <2>2, TasksAre DEF Flight, Dio!InFlight, Sharing
  <2>5. Cardinality(Flight') = Cardinality(Flight) - 1
    BY <1>1, <2>4, FS_RemoveElement
  <2>6. \A c \in Changers : dio_pc'[c] \in Locking => dio_pc'[c] = dio_pc[c]
    BY <2>2, TasksAre DEF Locking
  <2> QED
    BY <1>1, <2>2, <2>3, <2>4, <2>5, <2>6 DEF DioInv, DioCounted, DioLocked, Drained, Locking
<1>7. CASE Dio!wake_up_bit(t)
  <2>1. /\ dio_pc[t] = "wake" /\ dio_pc' \in [Dio!Tasks -> Places]
        /\ dio_pc'[t] = "idle" /\ \A s \in Dio!Tasks : s # t => dio_pc'[s] = dio_pc[s]
    BY <1>1, <1>7, Moves DEF Dio!wake_up_bit, Places
  <2>2. UNCHANGED <<shared, alone, i_dio_count, dirty>>
    BY <1>7 DEF Dio!wake_up_bit
  <2>3. Flight' = Flight /\ Sharing' = Sharing
    BY <2>1, TasksAre DEF Flight, Dio!InFlight, Sharing
  <2>4. \A c \in Changers : dio_pc'[c] \in Locking => dio_pc'[c] = dio_pc[c]
    BY <2>1, TasksAre DEF Locking
  <2> QED
    BY <1>1, <2>1, <2>2, <2>3, <2>4 DEF DioInv, DioCounted, DioLocked, Drained, Locking
<1> QED
  BY <1>3, <1>4, <1>5, <1>6, <1>7 DEF Dio!Finish

\* A step of a task that holds the lock, or takes it.
LEMMA ChangeKeeps ==
  ASSUME DioInv, NEW t \in Changers,
         \/ Dio!inode_lock(t) \/ Dio!WritePages(t) \/ Dio!inode_drain_writes(t)
         \/ Dio!Drain(t) \/ Dio!inode_unlock(t)
  PROVE  DioInv'
<1>1. DioCounted /\ DioLocked /\ Drained /\ t \in Dio!Tasks
  BY TasksAre DEF DioInv
<1> DEFINE At(from, to) ==
             /\ dio_pc[t] = from /\ dio_pc' \in [Dio!Tasks -> Places]
             /\ dio_pc'[t] = to /\ \A s \in Dio!Tasks : s # t => dio_pc'[s] = dio_pc[s]
<1>2. ASSUME NEW from, NEW to \in Places, Dio!Go(t, from, to)
      PROVE  At(from, to)
  BY <1>1, <1>2, Moves
<1>3. ASSUME NEW from \in {"idle"} \cup Locking, NEW to \in {"idle"} \cup Locking, At(from, to)
      PROVE  Flight' = Flight /\ Sharing' = Sharing
  BY <1>3, TasksAre DEF Flight, Dio!InFlight, Sharing, Locking
\* The lock holder is alone in what it does.
<1>4. ASSUME NEW from \in Locking, NEW to \in {"idle"} \cup Locking, At(from, to),
             UNCHANGED <<shared, i_dio_count>>, dirty' \in BOOLEAN,
             IF to = "idle" THEN alone' = Nobody ELSE alone' = alone,
             to \in {"flush", "changing"} => Flight = {},
             to = "changing" => ~dirty'
      PROVE  DioInv'
  <2>1. Flight' = Flight /\ Sharing' = Sharing
    BY <1>3, <1>4
  <2>2. alone = t /\ \A c \in Changers : c # t => dio_pc[c] \notin Locking
    BY <1>1, <1>4 DEF DioLocked
  <2>3. \A c \in Changers : c # t => dio_pc'[c] \notin Locking
    BY <1>4, <2>2, TasksAre
  <2>4. "idle" \notin Locking /\ {"flush", "changing"} \subseteq Locking
    BY DEF Locking
  <2>5. DioCounted'
    BY <1>1, <1>4, <2>1 DEF DioCounted
  <2>6. DioLocked'
    BY <1>1, <1>4, <2>1, <2>2, <2>3, <2>4, TasksAre DEF DioLocked
  <2>7. Drained'
    BY <1>4, <2>1, <2>3, <2>4 DEF Drained
  <2> QED
    BY <2>5, <2>6, <2>7 DEF DioInv
<1>5. CASE Dio!inode_lock(t)
  <2>1. At("idle", "locked")
    BY <1>2, <1>5 DEF Dio!inode_lock, Places, Locking
  <2>2. /\ alone = Nobody /\ shared = {} /\ alone' = t
        /\ UNCHANGED <<shared, i_dio_count, dirty>>
    BY <1>5 DEF Dio!inode_lock
  <2>3. Flight' = Flight /\ Sharing' = Sharing
    BY <1>3, <2>1 DEF Locking
  <2>4. \A c \in Changers : dio_pc[c] \notin Locking
    BY <1>1, <2>2, TasksAre DEF DioLocked
  <2>5. \A c \in Changers : c # t => dio_pc'[c] \notin Locking
    BY <2>1, <2>4, TasksAre
  <2>6. {"flush", "changing"} \subseteq Locking /\ "locked" \notin {"flush", "changing"}
    BY DEF Locking
  <2>7. DioCounted'
    BY <1>1, <2>1, <2>2, <2>3 DEF DioCounted
  <2>8. DioLocked'
    BY <1>1, <2>2, <2>3, <2>5 DEF DioLocked
  <2>9. Drained'
    BY <2>1, <2>5, <2>6 DEF Drained
  <2> QED
    BY <2>7, <2>8, <2>9 DEF DioInv
<1>6. CASE Dio!WritePages(t)
  <2>1. At("locked", "written")
    BY <1>2, <1>6 DEF Dio!WritePages, Places, Locking
  <2> QED
    BY <1>4, <1>6, <2>1 DEF Dio!WritePages, Locking
<1>7. CASE Dio!inode_drain_writes(t)
  <2>1. At("locked", "look")
    BY <1>2, <1>7 DEF Dio!inode_drain_writes, Places, Locking
  <2> QED
    BY <1>1, <1>4, <1>7, <2>1 DEF Dio!inode_drain_writes, Locking, DioCounted
<1>8. CASE Dio!Look(t)
  <2>1. CASE i_dio_count = 0
    <3>1. At("look", "flush")
      BY <1>2, <1>8, <2>1 DEF Dio!Look, Places, Locking
    <3>2. Flight = {}
      BY <1>1, <2>1, FlightIsFinite, FS_EmptySet DEF DioCounted
    <3> QED
      BY <1>1, <1>4, <1>8, <3>1, <3>2 DEF Dio!Look, Locking, DioCounted
  <2>2. CASE i_dio_count # 0
    <3>1. At("look", "asleep")
      BY <1>2, <1>8, <2>2 DEF Dio!Look, Places, Locking
    <3> QED
      BY <1>1, <1>4, <1>8, <3>1 DEF Dio!Look, Locking, DioCounted
  <2> QED
    BY <2>1, <2>2
<1>9. CASE Dio!Awake(t)
  <2>1. At("asleep", "look")
    BY <1>2, <1>9 DEF Dio!Awake, Places, Locking
  <2> QED
    BY <1>1, <1>4, <1>9, <2>1 DEF Dio!Awake, Locking, DioCounted
<1>10. CASE Dio!Flush(t)
  <2>1. CASE Dio!Go(t, "flush", "changing") /\ dirty' = FALSE
    <3>1. At("flush", "changing")
      BY <1>2, <2>1 DEF Places, Locking
    <3>2. Flight = {}
      BY <1>1, <3>1 DEF Drained
    <3> QED
      BY <1>4, <1>10, <2>1, <3>1, <3>2 DEF Dio!Flush, Locking
  <2>2. CASE Dio!Go(t, "flush", "written") /\ UNCHANGED dirty
    <3>1. At("flush", "written")
      BY <1>2, <2>2 DEF Places, Locking
    <3> QED
      BY <1>1, <1>4, <1>10, <2>2, <3>1 DEF Dio!Flush, Locking, DioCounted
  <2> QED
    BY <1>10, <2>1, <2>2 DEF Dio!Flush
<1>11. CASE Dio!inode_unlock(t)
  <2>1. PICK from \in {"changing", "written"} : Dio!Go(t, from, "idle")
    BY <1>11 DEF Dio!inode_unlock
  <2>2. At(from, "idle")
    BY <1>2, <2>1 DEF Places
  <2> QED
    BY <1>1, <1>4, <1>11, <2>2 DEF Dio!inode_unlock, Locking, DioCounted
<1> QED
  BY <1>5, <1>6, <1>7, <1>8, <1>9, <1>10, <1>11 DEF Dio!Drain

\* i_dio_count is the number of requests in flight, and while inode_drain_writes()
\* has the inode locked none is added.
THEOREM RequestsCounted == InodeSpec => []DioInv
<1>1. InodeInit => DioInv
  BY DioInit DEF InodeInit
<1>2. DioInv /\ [InodeNext]_<<part, vars, sizing, submitting>> => DioInv'
  <2> SUFFICES ASSUME DioInv, [InodeNext]_<<part, vars, sizing, submitting>> PROVE DioInv'
    OBVIOUS
  <2>1. CASE UNCHANGED submitting
    BY <2>1 DEF submitting, DioInv, DioCounted, DioLocked, Drained, Flight, Dio!InFlight, Sharing
  <2>2. CASE Dio!Next
    BY <2>2, SubmitKeeps, ChangeKeeps DEF Dio!Next
  <2> QED
    BY <2>1, <2>2 DEF InodeNext
<1> QED
  BY <1>1, <1>2, PTL DEF InodeSpec

\* Once inode_drain_writes() has succeeded, nothing is in flight or submitted and
\* no page is dirty until the lock is given back.
THEOREM NothingInFlight == InodeSpec => []DrainedIsQuiet
<1>1. DioInv => DrainedIsQuiet
  <2> SUFFICES ASSUME DioInv, NEW t \in Changers, dio_pc[t] = "changing"
               PROVE  Flight = {} /\ shared = {} /\ ~dirty
    BY DEF DrainedIsQuiet, Dio!DrainedIsQuiet, Flight
  <2>1. Flight = {} /\ ~dirty
    BY DEF DioInv, Drained
  <2>2. alone = t /\ t # Nobody
    BY TasksAre DEF DioInv, DioLocked, Locking
  <2> QED
    BY <2>1, <2>2 DEF DioInv, DioLocked
<1> QED
  BY <1>1, RequestsCounted, PTL

-----------------------------------------------------------------------------
(* The size. *)

\* The words and the sizes of InodeSize.
Words == ISize!Words
Sizes == ISize!Sizes

\* What a word holds.
Low == 0 .. Base - 1

\* Where a writer has made the count odd.
OddAt == {"store", "load_end", "end"}

\* What is known of a writer.
WriterTypes == [at : {"idle", "load", "begin"} \cup OddAt, size : Sizes, seq : Nat,
                stored : SUBSET Words]

\* What is known of a reader, and what it may have loaded.
Loads == UNION {[S -> Low] : S \in SUBSET Words}
ReaderTypes == [at : {"idle", "begin", "load", "done"}, seq : Nat, loaded : Loads, size : Sizes]

\* The types of the variables of the size.
Typed ==
  /\ seq \in Nat /\ i_size \in [Words -> Low] /\ current \in Sizes
  /\ writer \in [SizeWriters -> WriterTypes]
  /\ reader \in [SizeReaders -> ReaderTypes] /\ valid \in [SizeReaders -> SUBSET Sizes]

\* One writer at a time, and the count is odd while it stores.
Writing ==
  /\ \A p \in SizeWriters : writer[p].at # "idle" => i_mutex = p
  /\ i_mutex = Nobody => seq % 2 = 0
  /\ \A p \in SizeWriters : writer[p].at # "idle" =>
       /\ (seq % 2 = 1) <=> (writer[p].at \in OddAt)
       /\ writer[p].at \in {"begin", "end"} => writer[p].seq = seq

\* The words are those of the current size, but for what a writer has stored.
Whole ==
  \A w \in Words :
    \/ i_size[w] = ISize!Word(current, w)
    \/ \E p \in SizeWriters : writer[p].at = "store"

Halfway ==
  \A p \in SizeWriters :
    /\ writer[p].at \in {"load", "begin"} => writer[p].stored = {}
    /\ writer[p].at = "store" =>
         /\ writer[p].stored # Words
         /\ \A w \in Words : i_size[w] = IF w \in writer[p].stored
                                         THEN ISize!Word(writer[p].size, w)
                                         ELSE ISize!Word(current, w)

\* What was loaded is of the current size, if the count has not moved since.
ReaderAt(r) ==
  /\ reader[r].at # "idle" => current \in valid[r]
  /\ reader[r].at = "load" =>
       /\ reader[r].seq % 2 = 0 /\ reader[r].seq <= seq
       /\ reader[r].seq = seq =>
            \A w \in DOMAIN reader[r].loaded : reader[r].loaded[w] = ISize!Word(current, w)
  /\ reader[r].at = "done" => reader[r].size \in valid[r]

\* The invariant of the size.
SizeInv == Typed /\ Writing /\ Whole /\ Halfway /\ \A r \in SizeReaders : ReaderAt(r)

\* A number is made of its two words again.
LEMMA WordsMakeSize ==
  ASSUME NEW k \in Sizes
  PROVE  /\ ISize!Word(k, "high") \in Low /\ ISize!Word(k, "low") \in Low
         /\ ISize!Word(k, "high") * Base + ISize!Word(k, "low") = k
<1>1. Base \in Nat /\ Base > 0
  BY InodeAssumption DEF ISize!InodeSizeAssumption
<1>2. k \in Nat /\ k < Base * Base
  BY <1>1 DEF Sizes, ISize!Sizes
<1>3. ISize!Word(k, "high") = k \div Base /\ ISize!Word(k, "low") = k % Base
  BY DEF ISize!Word
<1>4. k % Base \in 0 .. Base - 1 /\ k \div Base \in Nat
  BY <1>1, <1>2
<1>5. k = Base * (k \div Base) + (k % Base)
  BY <1>1, <1>2
<1>6. k \div Base < Base
  BY <1>1, <1>2, <1>4, <1>5
<1> QED
  BY <1>1, <1>3, <1>4, <1>5, <1>6 DEF Low

\* The words of a size make that size.
LEMMA SizeIs ==
  ASSUME NEW k \in Sizes, NEW l, DOMAIN l = Words, \A w \in DOMAIN l : l[w] = ISize!Word(k, w)
  PROVE  ISize!Size(l) = k
<1>1. l["high"] = ISize!Word(k, "high") /\ l["low"] = ISize!Word(k, "low")
  BY DEF Words, ISize!Words
<1> QED
  BY <1>1, WordsMakeSize DEF ISize!Size

\* Nothing loaded.
LEMMA NoneIs == ISize!None \in Loads /\ DOMAIN ISize!None = {}
<1>1. ISize!None \in [{} -> Low] /\ DOMAIN ISize!None = {}
  BY DEF ISize!None
<1>2. {} \in SUBSET Words
  OBVIOUS
<1> QED
  BY <1>1, <1>2 DEF Loads

\* more is what was loaded, and word w with it.
LoadedToo(old, w, k, more) ==
  /\ more \in Loads /\ DOMAIN more = DOMAIN old \cup {w} /\ more[w] = k
  /\ \A v \in DOMAIN old : v # w => more[v] = old[v]

\* One word more.
LEMMA AddIs ==
  ASSUME NEW old \in Loads, NEW w \in Words, NEW k \in Low,
         NEW more, more = ISize!Add(old, w, k)
  PROVE  LoadedToo(old, w, k, more)
<1>1. PICK S \in SUBSET Words : old \in [S -> Low]
  BY DEF Loads
<1>2. /\ more \in [S \cup {w} -> Low] /\ more[w] = k
      /\ \A v \in DOMAIN old : v # w => more[v] = old[v]
  BY <1>1 DEF ISize!Add
<1>3. S \cup {w} \in SUBSET Words
  OBVIOUS
<1> QED
  BY <1>1, <1>2, <1>3 DEF Loads, LoadedToo

\* At first the size is 0.
LEMMA SizeStarts == ASSUME ISize!Init PROVE SizeInv
<1>1. Base \in Nat /\ Base > 0 /\ Nobody \notin SizeWriters
  BY InodeAssumption DEF ISize!InodeSizeAssumption
<1>2. 0 \in Sizes /\ 0 \in Low
  BY <1>1 DEF Sizes, ISize!Sizes, Low
<1>3. ISize!Word(0, "high") = 0 /\ ISize!Word(0, "low") = 0
  BY <1>1 DEF ISize!Word
<1>4. /\ seq = 0 /\ i_size = [w \in Words |-> 0] /\ current = 0 /\ i_mutex = Nobody
      /\ writer = [p \in SizeWriters |-> [at |-> "idle", size |-> 0, seq |-> 0, stored |-> {}]]
      /\ reader = [r \in SizeReaders |->
                     [at |-> "idle", seq |-> 0, loaded |-> ISize!None, size |-> 0]]
      /\ valid = [r \in SizeReaders |-> {}]
  BY DEF ISize!Init, Words
<1>5. writer \in [SizeWriters -> WriterTypes]
  BY <1>2, <1>4 DEF WriterTypes
<1>6. reader \in [SizeReaders -> ReaderTypes]
  BY <1>2, <1>4, NoneIs DEF ReaderTypes
<1>7. Typed
  BY <1>2, <1>4, <1>5, <1>6 DEF Typed
<1>8. Writing /\ Halfway
  BY <1>4 DEF Writing, Halfway
<1>9. Whole
  BY <1>3, <1>4 DEF Whole, Words, ISize!Words
<1>10. \A r \in SizeReaders : ReaderAt(r)
  BY <1>4 DEF ReaderAt
<1> QED
  BY <1>7, <1>8, <1>9, <1>10 DEF SizeInv

\* Writers hold the lock.
LEMMA OnlyOneWrites ==
  ASSUME SizeInv, NEW p \in SizeWriters, i_mutex = p \/ i_mutex = Nobody
  PROVE  \A q \in SizeWriters : q # p => writer[q].at = "idle"
<1>1. Nobody \notin SizeWriters
  BY InodeAssumption DEF ISize!InodeSizeAssumption
<1> QED
  BY <1>1 DEF SizeInv, Writing

\* A writer goes on from one record to another.
WriterGoes(p, to) ==
  /\ to \in WriterTypes /\ writer' \in [SizeWriters -> WriterTypes]
  /\ writer'[p] = to /\ \A q \in SizeWriters : q # p => writer'[q] = writer[q]

\* What an assignment to one writer does.
LEMMA WriterMoves ==
  ASSUME SizeInv, NEW p \in SizeWriters, NEW to \in WriterTypes,
         writer' = [writer EXCEPT ![p] = to]
  PROVE  WriterGoes(p, to)
BY DEF SizeInv, Typed, WriterGoes

\* What readers know stays right in a writer's step.
LEMMA ReadersKept ==
  ASSUME SizeInv, reader' = reader, seq' \in Nat, seq' >= seq,
         \A r \in SizeReaders : valid[r] \subseteq valid'[r],
         current' # current => seq % 2 = 1 /\ \A r \in SizeReaders : current' \in valid'[r]
  PROVE  \A r \in SizeReaders : ReaderAt(r)'
<1> SUFFICES ASSUME NEW r \in SizeReaders PROVE ReaderAt(r)'
  OBVIOUS
<1>1. /\ reader[r] \in ReaderTypes /\ seq \in Nat /\ ReaderAt(r)
  BY DEF SizeInv, Typed
<1>2. reader[r].seq \in Nat
  BY <1>1 DEF ReaderTypes
<1>3. reader[r].at # "idle" => current' \in valid'[r]
  BY <1>1 DEF ReaderAt
<1>4. reader[r].at = "done" => reader[r].size \in valid'[r]
  BY <1>1 DEF ReaderAt
<1>5. ASSUME reader[r].at = "load"
      PROVE  /\ reader[r].seq % 2 = 0 /\ reader[r].seq <= seq'
             /\ reader[r].seq = seq' =>
                  \A w \in DOMAIN reader[r].loaded :
                    reader[r].loaded[w] = ISize!Word(current', w)
  <2>1. /\ reader[r].seq % 2 = 0 /\ reader[r].seq <= seq
        /\ reader[r].seq = seq =>
             \A w \in DOMAIN reader[r].loaded : reader[r].loaded[w] = ISize!Word(current, w)
    BY <1>1, <1>5 DEF ReaderAt
  <2>2. reader[r].seq <= seq' /\ (reader[r].seq = seq' => reader[r].seq = seq)
    BY <1>1, <1>2, <2>1
  <2>3. reader[r].seq = seq => current' = current
    BY <2>1
  <2> QED
    BY <2>1, <2>2, <2>3
<1> QED
  BY <1>3, <1>4, <1>5 DEF ReaderAt, ISize!Word

\* i_size_write() is called with the lock.
LEMMA LockKeeps ==
  ASSUME SizeInv, NEW p \in SizeWriters, ISize!Lock(p)
  PROVE  SizeInv'
<1>1. PICK k \in Sizes : writer' = [writer EXCEPT ![p] =
        [at |-> "load", size |-> k, seq |-> 0, stored |-> {}]]
  BY DEF ISize!Lock, Sizes
<1>2. PICK to : to = [at |-> "load", size |-> k, seq |-> 0, stored |-> {}]
  OBVIOUS
<1>3. to \in WriterTypes /\ to.at = "load" /\ to.stored = {}
  BY <1>2 DEF WriterTypes
<1>4. WriterGoes(p, to)
  BY <1>1, <1>2, <1>3, WriterMoves
<1>5. /\ writer[p].at = "idle" /\ i_mutex = Nobody /\ i_mutex' = p
      /\ UNCHANGED <<seq, i_size, current, reader, valid>>
  BY DEF ISize!Lock, ISize!reading
<1>6. \A q \in SizeWriters : writer[q].at = "idle"
  BY <1>5, OnlyOneWrites
<1>7. /\ p # Nobody /\ seq % 2 = 0
  BY <1>5, InodeAssumption DEF SizeInv, Writing, ISize!InodeSizeAssumption
<1>8. \A q \in SizeWriters : q # p => writer'[q].at = "idle"
  BY <1>4, <1>6 DEF WriterGoes
<1>9. Typed'
  BY <1>4, <1>5 DEF SizeInv, Typed, WriterGoes
<1>10. Writing'
  BY <1>3, <1>4, <1>5, <1>7, <1>8 DEF Writing, WriterGoes, OddAt
<1>11. Whole'
  BY <1>5, <1>6 DEF SizeInv, Whole, ISize!Word
<1>12. Halfway'
  BY <1>3, <1>4, <1>8 DEF Halfway, WriterGoes
<1>13. \A r \in SizeReaders : ReaderAt(r)'
  <2>1. seq \in Nat /\ seq >= seq
    BY DEF SizeInv, Typed
  <2> QED
    BY <1>5, <2>1, ReadersKept
<1> QED
  BY <1>9, <1>10, <1>11, <1>12, <1>13 DEF SizeInv

\* A writer that has the lock.
LEMMA LoadSeqKeeps ==
  ASSUME SizeInv, NEW p \in SizeWriters, ISize!LoadSeq(p)
  PROVE  SizeInv'
<1>1. /\ writer \in [SizeWriters -> WriterTypes] /\ writer[p] \in WriterTypes /\ seq \in Nat
      /\ writer[p].at \in {"load", "load_end"}
      /\ UNCHANGED <<seq, i_size, i_mutex, current, reader, valid>>
  BY DEF SizeInv, Typed, ISize!LoadSeq, ISize!reading
<1>2. PICK to : to = [writer[p] EXCEPT !.seq = seq,
                                       !.at = IF @ = "load" THEN "begin" ELSE "end"]
  OBVIOUS
<1>3. /\ to \in WriterTypes /\ to.seq = seq /\ to.stored = writer[p].stored
      /\ to.size = writer[p].size
      /\ to.at = IF writer[p].at = "load" THEN "begin" ELSE "end"
  BY <1>1, <1>2 DEF WriterTypes, OddAt
<1>4. writer' = [writer EXCEPT ![p] = to]
  BY <1>1, <1>2 DEF ISize!LoadSeq, WriterTypes
<1>5. WriterGoes(p, to)
  BY <1>3, <1>4, WriterMoves
<1>6. i_mutex = p
  BY <1>1 DEF SizeInv, Writing
<1>7. \A q \in SizeWriters : q # p => writer[q].at = "idle" /\ writer'[q].at = "idle"
  BY <1>5, <1>6, OnlyOneWrites DEF WriterGoes
<1>8. Typed'
  BY <1>1, <1>5 DEF SizeInv, Typed, WriterGoes
<1>9. Writing'
  BY <1>1, <1>3, <1>5, <1>6, <1>7, InodeAssumption
     DEF SizeInv, Writing, WriterGoes, OddAt, ISize!InodeSizeAssumption
<1>10. Whole'
  BY <1>1, <1>7 DEF SizeInv, Whole, ISize!Word
<1>11. Halfway'
  BY <1>1, <1>3, <1>5, <1>7 DEF SizeInv, Halfway, WriterGoes
<1>12. \A r \in SizeReaders : ReaderAt(r)'
  <2>1. seq >= seq
    BY <1>1
  <2> QED
    BY <1>1, <2>1, ReadersKept
<1> QED
  BY <1>8, <1>9, <1>10, <1>11, <1>12 DEF SizeInv

\* The count gets odd: what readers have loaded is void.
LEMMA BeginSizeKeeps ==
  ASSUME SizeInv, NEW p \in SizeWriters, ISize!Begin(p)
  PROVE  SizeInv'
<1>1. /\ writer \in [SizeWriters -> WriterTypes] /\ writer[p] \in WriterTypes /\ seq \in Nat
      /\ writer[p].at = "begin" /\ seq' = writer[p].seq + 1
      /\ UNCHANGED <<i_size, i_mutex, current, reader, valid>>
  BY DEF SizeInv, Typed, ISize!Begin, ISize!reading
<1>2. PICK to : to = [writer[p] EXCEPT !.at = "store"]
  OBVIOUS
<1>3. /\ to \in WriterTypes /\ to.at = "store" /\ to.stored = writer[p].stored
      /\ to.size = writer[p].size
  BY <1>1, <1>2 DEF WriterTypes, OddAt
<1>4. writer' = [writer EXCEPT ![p] = to]
  BY <1>1, <1>2 DEF ISize!Begin, WriterTypes
<1>5. WriterGoes(p, to)
  BY <1>3, <1>4, WriterMoves
<1>6. i_mutex = p /\ seq' = seq + 1 /\ seq % 2 = 0
  BY <1>1 DEF SizeInv, Writing, OddAt
<1>7. \A q \in SizeWriters : q # p => writer[q].at = "idle" /\ writer'[q].at = "idle"
  BY <1>5, <1>6, OnlyOneWrites DEF WriterGoes
<1>8. Typed'
  BY <1>1, <1>5, <1>6 DEF SizeInv, Typed, WriterGoes
<1>9. Writing'
  BY <1>1, <1>3, <1>5, <1>6, <1>7, InodeAssumption
     DEF SizeInv, Writing, WriterGoes, OddAt, ISize!InodeSizeAssumption
<1>10. Whole'
  BY <1>3, <1>5 DEF Whole, WriterGoes
<1>11. Halfway'
  <2>1. writer[p].stored = {} /\ Words # {}
    BY <1>1 DEF SizeInv, Halfway, Words, ISize!Words
  <2>2. \A w \in Words : i_size[w] = ISize!Word(current, w)
    BY <1>1, <1>7 DEF SizeInv, Whole
  <2> QED
    BY <1>1, <1>3, <1>5, <1>7, <2>1, <2>2 DEF Halfway, WriterGoes, ISize!Word
<1>12. \A r \in SizeReaders : ReaderAt(r)'
  BY <1>1, <1>6, ReadersKept
<1> QED
  BY <1>8, <1>9, <1>10, <1>11, <1>12 DEF SizeInv

\* The count gets even again, and is one nobody has seen.
LEMMA EndKeeps ==
  ASSUME SizeInv, NEW p \in SizeWriters, ISize!End(p)
  PROVE  SizeInv'
<1>1. /\ writer \in [SizeWriters -> WriterTypes] /\ writer[p] \in WriterTypes /\ seq \in Nat
      /\ writer[p].at = "end" /\ seq' = writer[p].seq + 1 /\ i_mutex' = Nobody
      /\ UNCHANGED <<i_size, current, reader, valid>>
  BY DEF SizeInv, Typed, ISize!End, ISize!reading
<1>2. PICK to : to = [writer[p] EXCEPT !.at = "idle"]
  OBVIOUS
<1>3. to \in WriterTypes /\ to.at = "idle"
  BY <1>1, <1>2 DEF WriterTypes, OddAt
<1>4. writer' = [writer EXCEPT ![p] = to]
  BY <1>1, <1>2 DEF ISize!End, WriterTypes
<1>5. WriterGoes(p, to)
  BY <1>3, <1>4, WriterMoves
<1>6. i_mutex = p /\ seq' = seq + 1 /\ seq % 2 = 1
  BY <1>1 DEF SizeInv, Writing, OddAt
<1>7. \A q \in SizeWriters : (q # p => writer[q].at = "idle") /\ writer'[q].at = "idle"
  BY <1>3, <1>5, <1>6, OnlyOneWrites DEF WriterGoes
<1>8. Typed'
  BY <1>1, <1>5, <1>6 DEF SizeInv, Typed, WriterGoes
<1>9. Writing'
  BY <1>1, <1>6, <1>7 DEF Writing
<1>10. Whole'
  BY <1>1, <1>7 DEF SizeInv, Whole, ISize!Word
<1>11. Halfway'
  BY <1>7 DEF Halfway
<1>12. \A r \in SizeReaders : ReaderAt(r)'
  BY <1>1, <1>6, ReadersKept
<1> QED
  BY <1>8, <1>9, <1>10, <1>11, <1>12 DEF SizeInv

\* A word is stored; with the last one the file has the new size.
LEMMA StoreWordKeeps ==
  ASSUME SizeInv, NEW p \in SizeWriters, NEW w \in Words, ISize!StoreWord(p, w)
  PROVE  SizeInv'
<1>1. /\ writer \in [SizeWriters -> WriterTypes] /\ writer[p] \in WriterTypes /\ seq \in Nat
      /\ i_size \in [Words -> Low] /\ current \in Sizes
      /\ valid \in [SizeReaders -> SUBSET Sizes]
      /\ writer[p].at = "store" /\ w \notin writer[p].stored
      /\ UNCHANGED <<seq, i_mutex, reader>>
  BY DEF SizeInv, Typed, ISize!StoreWord
<1>2. PICK stored : stored = writer[p].stored \cup {w}
  OBVIOUS
<1>3. PICK to : to = [writer[p] EXCEPT !.stored = stored,
                                       !.at = IF stored = Words THEN "load_end" ELSE @]
  OBVIOUS
<1>4. /\ to \in WriterTypes /\ to.stored = stored /\ to.size = writer[p].size
      /\ to.at = IF stored = Words THEN "load_end" ELSE "store"
  BY <1>1, <1>2, <1>3 DEF WriterTypes, OddAt
<1>5. writer' = [writer EXCEPT ![p] = to]
  BY <1>1, <1>2, <1>3 DEF ISize!StoreWord, WriterTypes, Words
<1>6. WriterGoes(p, to)
  BY <1>4, <1>5, WriterMoves
<1>7. i_mutex = p /\ seq % 2 = 1
  BY <1>1 DEF SizeInv, Writing, OddAt
<1>8. \A q \in SizeWriters : q # p => writer[q].at = "idle" /\ writer'[q].at = "idle"
  BY <1>6, <1>7, OnlyOneWrites DEF WriterGoes
<1>9. PICK size \in Sizes : size = writer[p].size
  BY <1>1 DEF WriterTypes
<1>10. \A v \in Words : ISize!Word(size, v) \in Low
  BY <1>9, WordsMakeSize DEF Words, ISize!Words
<1>11. /\ i_size' \in [Words -> Low] /\ i_size'[w] = ISize!Word(size, w)
       /\ \A v \in Words : v # w => i_size'[v] = i_size[v]
  <2>1. i_size' = [i_size EXCEPT ![w] = ISize!Word(size, w)]
    BY <1>9 DEF ISize!StoreWord
  <2> QED
    BY <1>1, <1>10, <2>1
<1>12. \A v \in Words : i_size[v] = IF v \in writer[p].stored THEN ISize!Word(size, v)
                                    ELSE ISize!Word(current, v)
  BY <1>1, <1>9 DEF SizeInv, Halfway
<1>13. \A v \in Words : i_size'[v] = IF v \in stored THEN ISize!Word(size, v)
                                     ELSE ISize!Word(current, v)
  BY <1>2, <1>11, <1>12
<1>14. CASE stored = Words
  <2>1. current' = size /\ valid' = [r \in SizeReaders |-> valid[r] \cup {size}]
    BY <1>2, <1>9, <1>14 DEF ISize!StoreWord, Words
  <2>2. to.at = "load_end"
    BY <1>4, <1>14
  <2>3. Typed'
    BY <1>1, <1>6, <1>9, <1>11, <2>1 DEF SizeInv, Typed, WriterGoes
  <2>4. Writing'
    BY <1>1, <1>6, <1>7, <1>8, <2>2, InodeAssumption
       DEF SizeInv, Writing, WriterGoes, OddAt, ISize!InodeSizeAssumption
  <2>5. Whole'
    <3>1. \A v \in Words : i_size'[v] = ISize!Word(current', v)
      BY <1>13, <1>14, <2>1
    <3> QED
      BY <3>1 DEF Whole, ISize!Word
  <2>6. Halfway'
    BY <1>6, <1>8, <2>2 DEF Halfway, WriterGoes
  <2>7. \A r \in SizeReaders : ReaderAt(r)'
    <3>1. seq' \in Nat /\ seq' >= seq
      BY <1>1
    <3>2. \A r \in SizeReaders : valid[r] \subseteq valid'[r] /\ current' \in valid'[r]
      BY <2>1
    <3> QED
      BY <1>1, <1>7, <3>1, <3>2, ReadersKept
  <2> QED
    BY <2>3, <2>4, <2>5, <2>6, <2>7 DEF SizeInv
<1>15. CASE stored # Words
  <2>1. UNCHANGED <<current, valid>>
    BY <1>2, <1>15 DEF ISize!StoreWord, Words
  <2>2. to.at = "store"
    BY <1>4, <1>15
  <2>3. Typed'
    BY <1>1, <1>6, <1>11, <2>1 DEF SizeInv, Typed, WriterGoes
  <2>4. Writing'
    BY <1>1, <1>6, <1>7, <1>8, <2>2, InodeAssumption
       DEF SizeInv, Writing, WriterGoes, OddAt, ISize!InodeSizeAssumption
  <2>5. Whole'
    BY <1>6, <2>2 DEF Whole, WriterGoes
  <2>6. Halfway'
    BY <1>4, <1>6, <1>8, <1>9, <1>13, <1>15, <2>1, <2>2 DEF Halfway, WriterGoes, ISize!Word
  <2>7. \A r \in SizeReaders : ReaderAt(r)'
    <3>1. seq' \in Nat /\ seq' >= seq
      BY <1>1
    <3>2. \A r \in SizeReaders : valid[r] \subseteq valid'[r]
      BY <2>1
    <3> QED
      BY <1>1, <2>1, <3>1, <3>2, ReadersKept
  <2> QED
    BY <2>3, <2>4, <2>5, <2>6, <2>7 DEF SizeInv
<1> QED
  BY <1>14, <1>15

-----------------------------------------------------------------------------
\* A step of one reader leaves the rest as it is.
LEMMA ReaderKeeps ==
  ASSUME SizeInv, NEW r \in SizeReaders, NEW to \in ReaderTypes,
         reader' = [reader EXCEPT ![r] = to],
         UNCHANGED <<seq, i_size, i_mutex, writer, current>>,
         valid' \in [SizeReaders -> SUBSET Sizes],
         \A s \in SizeReaders : s # r => valid'[s] = valid[s],
         ReaderAt(r)'
  PROVE  SizeInv'
<1>1. /\ reader' \in [SizeReaders -> ReaderTypes]
      /\ \A s \in SizeReaders : s # r => reader'[s] = reader[s]
  BY DEF SizeInv, Typed
<1>2. Typed'
  BY <1>1 DEF SizeInv, Typed
<1>3. Writing' /\ Whole' /\ Halfway'
  BY DEF SizeInv, Writing, Whole, Halfway, ISize!Word
<1>4. ASSUME NEW s \in SizeReaders, s # r PROVE ReaderAt(s)'
  BY <1>1, <1>4 DEF SizeInv, ReaderAt, ISize!Word
<1> QED
  BY <1>2, <1>3, <1>4 DEF SizeInv

\* i_size_read(): a word loaded while the count is the even one seen is whole.
LEMMA ReadKeeps ==
  ASSUME SizeInv, NEW r \in SizeReaders, ISize!Call(r) \/ ISize!i_size_read(r)
  PROVE  SizeInv'
<1>1. /\ reader \in [SizeReaders -> ReaderTypes] /\ reader[r] \in ReaderTypes /\ ReaderAt(r)
      /\ seq \in Nat /\ valid \in [SizeReaders -> SUBSET Sizes] /\ current \in Sizes
      /\ i_size \in [Words -> Low]
  BY DEF SizeInv, Typed
<1>2. reader[r].seq \in Nat /\ reader[r].loaded \in Loads /\ reader[r].size \in Sizes
  BY <1>1 DEF ReaderTypes
<1>3. CASE ISize!Call(r)
  <2>1. PICK to : to = [reader[r] EXCEPT !.at = "begin", !.size = 0]
    OBVIOUS
  <2>2. 0 \in Sizes
    BY InodeAssumption DEF Sizes, ISize!Sizes, ISize!InodeSizeAssumption
  <2>3. to \in ReaderTypes /\ to.at = "begin"
    BY <1>1, <2>1, <2>2 DEF ReaderTypes
  <2>4. reader' = [reader EXCEPT ![r] = to]
    BY <1>1, <1>3, <2>1 DEF ISize!Call, ReaderTypes
  <2>5. /\ UNCHANGED <<seq, i_size, i_mutex, writer, current>>
        /\ valid' = [valid EXCEPT ![r] = {current}]
    BY <1>3 DEF ISize!Call
  <2>6. ReaderAt(r)'
    BY <1>1, <2>3, <2>4, <2>5 DEF ReaderAt
  <2>7. /\ valid' \in [SizeReaders -> SUBSET Sizes]
        /\ \A s \in SizeReaders : s # r => valid'[s] = valid[s]
    BY <1>1, <2>5
  <2> QED
    BY <2>3, <2>4, <2>5, <2>6, <2>7, ReaderKeeps
<1>4. CASE ISize!ReadBegin(r)
  <2>1. PICK to : to = [reader[r] EXCEPT !.at = "load", !.seq = seq, !.loaded = ISize!None]
    OBVIOUS
  <2>2. to \in ReaderTypes /\ to.at = "load" /\ to.seq = seq /\ DOMAIN to.loaded = {}
    BY <1>1, <2>1, NoneIs DEF ReaderTypes
  <2>3. reader' = [reader EXCEPT ![r] = to]
    BY <1>1, <1>4, <2>1 DEF ISize!ReadBegin, ReaderTypes
  <2>4. /\ UNCHANGED <<seq, i_size, i_mutex, writer, current, valid>>
        /\ reader[r].at = "begin" /\ seq % 2 = 0
    BY <1>4 DEF ISize!ReadBegin
  <2>5. reader'[r] = to
    BY <1>1, <2>3
  <2>6. ReaderAt(r)'
    BY <1>1, <2>2, <2>4, <2>5 DEF ReaderAt
  <2> QED
    BY <1>1, <2>2, <2>3, <2>4, <2>6, ReaderKeeps
<1>5. ASSUME NEW w \in Words, ISize!LoadWord(r, w)
      PROVE  SizeInv'
  <2>1. PICK loaded : loaded = ISize!Add(reader[r].loaded, w, i_size[w])
    OBVIOUS
  <2>2. /\ loaded \in Loads /\ DOMAIN loaded = DOMAIN reader[r].loaded \cup {w}
        /\ loaded[w] = i_size[w]
        /\ \A v \in DOMAIN reader[r].loaded : v # w => loaded[v] = reader[r].loaded[v]
    <3>1. i_size[w] \in Low
      BY <1>1
    <3>2. PICK old \in Loads, k \in Low : old = reader[r].loaded /\ k = i_size[w]
      BY <1>2, <3>1
    <3>3. loaded = ISize!Add(old, w, k)
      BY <2>1, <3>2
    <3>4. LoadedToo(old, w, k, loaded)
      BY <3>3, AddIs
    <3> QED
      BY <3>2, <3>4 DEF LoadedToo
  <2>3. PICK to : to = [reader[r] EXCEPT !.loaded = loaded]
    OBVIOUS
  <2>4. to \in ReaderTypes /\ to.at = reader[r].at /\ to.seq = reader[r].seq /\ to.loaded = loaded
        /\ to.size = reader[r].size
    BY <1>1, <2>2, <2>3 DEF ReaderTypes
  <2>5. reader' = [reader EXCEPT ![r] = to]
    BY <1>1, <1>5, <2>1, <2>3 DEF ISize!LoadWord, ReaderTypes
  <2>6. UNCHANGED <<seq, i_size, i_mutex, writer, current, valid>> /\ reader[r].at = "load"
    BY <1>5 DEF ISize!LoadWord
  <2>7. reader'[r] = to
    BY <1>1, <2>5
  <2>8. reader[r].seq % 2 = 0 /\ reader[r].seq <= seq /\ current \in valid[r]
    BY <1>1, <2>6 DEF ReaderAt
  <2>9. ASSUME reader[r].seq = seq
        PROVE  \A v \in DOMAIN loaded : loaded[v] = ISize!Word(current, v)
    <3>1. \A p \in SizeWriters : writer[p].at # "store"
      <4>1. seq % 2 = 0
        BY <2>8, <2>9
      <4> QED
        BY <1>1, <4>1 DEF SizeInv, Writing, OddAt
    <3>2. i_size[w] = ISize!Word(current, w)
      BY <3>1 DEF SizeInv, Whole
    <3>3. \A v \in DOMAIN reader[r].loaded : reader[r].loaded[v] = ISize!Word(current, v)
      BY <1>1, <2>6, <2>9 DEF ReaderAt
    <3> QED
      BY <2>2, <3>2, <3>3
  <2>10. ReaderAt(r)'
    <3>1. reader'[r].at = "load" /\ reader'[r].seq = reader[r].seq /\ reader'[r].loaded = loaded
      BY <2>4, <2>6, <2>7
    <3> QED
      BY <2>6, <2>8, <2>9, <3>1 DEF ReaderAt, ISize!Word
  <2> QED
    BY <1>1, <2>4, <2>5, <2>6, <2>10, ReaderKeeps
<1>6. CASE ISize!Retry(r)
  <2>1. /\ UNCHANGED <<seq, i_size, i_mutex, writer, current, valid>>
        /\ reader[r].at = "load" /\ DOMAIN reader[r].loaded = Words
    BY <1>6 DEF ISize!Retry, Words
  <2>2. CASE seq = reader[r].seq
    <3>1. current \in valid[r] /\ \A w \in DOMAIN reader[r].loaded :
                                    reader[r].loaded[w] = ISize!Word(current, w)
      BY <1>1, <2>1, <2>2 DEF ReaderAt
    <3>2. ISize!Size(reader[r].loaded) = current
      BY <1>1, <2>1, <3>1, SizeIs
    <3>3. PICK to : to = [reader[r] EXCEPT !.at = "done", !.size = current]
      OBVIOUS
    <3>4. to \in ReaderTypes /\ to.at = "done" /\ to.size = current
      BY <1>1, <3>3 DEF ReaderTypes
    <3>5. reader' = [reader EXCEPT ![r] = to]
      BY <1>1, <1>6, <2>2, <3>2, <3>3 DEF ISize!Retry, ReaderTypes
    <3>6. ReaderAt(r)'
      BY <1>1, <2>1, <3>1, <3>4, <3>5 DEF ReaderAt
    <3> QED
      BY <1>1, <2>1, <3>4, <3>5, <3>6, ReaderKeeps
  <2>3. CASE seq # reader[r].seq
    <3>1. PICK to : to = [reader[r] EXCEPT !.at = "begin"]
      OBVIOUS
    <3>2. to \in ReaderTypes /\ to.at = "begin"
      BY <1>1, <3>1 DEF ReaderTypes
    <3>3. reader' = [reader EXCEPT ![r] = to]
      BY <1>1, <1>6, <2>3, <3>1 DEF ISize!Retry, ReaderTypes
    <3>4. ReaderAt(r)'
      BY <1>1, <2>1, <3>2, <3>3 DEF ReaderAt
    <3> QED
      BY <1>1, <2>1, <3>2, <3>3, <3>4, ReaderKeeps
  <2> QED
    BY <2>2, <2>3
<1> QED
  BY <1>3, <1>4, <1>5, <1>6 DEF ISize!i_size_read, Words

\* The sequence count is odd while a size is written, and what a reader has loaded
\* under the count that still stands is of one size.
THEOREM SizeInvariant == InodeSpec => []SizeInv
<1>1. InodeInit => SizeInv
  BY SizeStarts DEF InodeInit
<1>2. SizeInv /\ [InodeNext]_<<part, vars, sizing, submitting>> => SizeInv'
  <2> SUFFICES ASSUME SizeInv, [InodeNext]_<<part, vars, sizing, submitting>> PROVE SizeInv'
    OBVIOUS
  <2>1. CASE UNCHANGED sizing
    <3>1. UNCHANGED <<seq, i_size, i_mutex, writer, reader, current, valid>>
      BY <2>1 DEF sizing
    <3> QED
      BY <3>1 DEF SizeInv, Typed, Writing, Whole, Halfway, ReaderAt, ISize!Word
  <2>2. CASE ISize!Next
    BY <2>2, LockKeeps, LoadSeqKeeps, BeginSizeKeeps, StoreWordKeeps, EndKeeps, ReadKeeps
       DEF ISize!Next, ISize!i_size_write, Words
  <2> QED
    BY <2>1, <2>2 DEF InodeNext
<1> QED
  BY <1>1, <1>2, PTL DEF InodeSpec

\* i_size_read() returns a size that the file has had since the call.
THEOREM OneSizeRead == InodeSpec => []SizeIsOne
<1>1. SizeInv => SizeIsOne
  BY DEF SizeInv, ReaderAt, SizeIsOne, ISize!SizeIsOne
<1> QED
  BY <1>1, SizeInvariant, PTL

-----------------------------------------------------------------------------
(* The counters of writers.                                                 *)

\* The sides that users may be on, and who is on one.
Holding == [Users -> Access!SideNames \cup {"none"}]
Holders(h, s) == {u \in Users : h[u] = s}

\* CountsOneSide, of one counter.
OneSide(v, h) ==
  \/ Holders(h, "down") = {} /\ v = Cardinality(Holders(h, "up"))
  \/ Holders(h, "up") = {} /\ v = -Cardinality(Holders(h, "down"))

\* A user in a call has seen a value that does not refuse it, and holds nothing.
CallsAllowed ==
  \A u \in Users :
    call[u] # Access!NoCall =>
      /\ ~Access!Refused(call[u].side, call[u].seen)
      /\ held[call[u].counter][u] = "none"

AccessInv == Access!TypeOK /\ CallsAllowed /\ CountsOneSide

\* The module's count and this one's are the same.
LEMMA CountedTheSame ==
  /\ IsFiniteSet(Users)
  /\ \A S : Access!Cardinality(S) = Cardinality(S)
<1>1. IsFiniteSet(Users)
  BY AccessAssumption DEF Access!WriteAccessAssumption, Access!IsFiniteSet, IsFiniteSet
<1>2. \A S : Access!Cardinality(S) = Cardinality(S)
  BY DEF Access!Cardinality, Cardinality, Access!IsFiniteSet, IsFiniteSet
<1> QED
  BY <1>1, <1>2

\* CountsOneSide, one counter at a time.
LEMMA CountsOneSideIs == CountsOneSide <=> \A c \in Access!Counters : OneSide(value[c], held[c])
BY CountedTheSame DEF CountsOneSide, Access!CountsOneSide, OneSide, Holders, Access!On

LEMMA HoldersCounted ==
  ASSUME NEW h, NEW s
  PROVE  /\ IsFiniteSet(Holders(h, s)) /\ Cardinality(Holders(h, s)) \in Nat
         /\ Cardinality(Holders(h, s)) = 0 <=> Holders(h, s) = {}
<1>1. IsFiniteSet(Holders(h, s))
  BY CountedTheSame, FS_Subset DEF Holders
<1> QED
  BY <1>1, FS_CardinalityType, FS_EmptySet

\* Who the value does not refuse finds nobody on the other side.
LEMMA AllowedIsFree ==
  ASSUME NEW v \in Int, NEW h, OneSide(v, h), NEW s \in Access!SideNames
  PROVE  Access!Refused(s, v) <=> Holders(h, TwoSides!Other(s)) # {}
BY HoldersCounted DEF OneSide, Access!Refused, Access!SideNames, TwoSides!Other

\* A user who joins a side that is free keeps the count right.
LEMMA Joins ==
  ASSUME NEW v \in Int, NEW h \in Holding, OneSide(v, h),
         NEW u \in Users, h[u] = "none",
         NEW s \in Access!SideNames, Holders(h, TwoSides!Other(s)) = {}
  PROVE  OneSide(v + Access!Delta(s), [h EXCEPT ![u] = s])
<1> DEFINE g == [h EXCEPT ![u] = s]
<1>1. Holders(g, s) = Holders(h, s) \cup {u} /\ u \notin Holders(h, s)
  BY DEF Holders, Holding, Access!SideNames
<1>2. Holders(g, TwoSides!Other(s)) = {}
  BY DEF Holders, Holding, Access!SideNames, TwoSides!Other
<1>3. Cardinality(Holders(g, s)) = Cardinality(Holders(h, s)) + 1
  BY <1>1, FS_AddElement, HoldersCounted
<1> HIDE DEF g
<1>4. s = "up" => OneSide(v + Access!Delta(s), g)
  BY <1>2, <1>3, HoldersCounted DEF OneSide, Access!Delta, TwoSides!Other
<1>5. s = "down" => OneSide(v + Access!Delta(s), g)
  BY <1>2, <1>3, HoldersCounted DEF OneSide, Access!Delta, TwoSides!Other
<1> QED
  BY <1>4, <1>5 DEF Access!SideNames, g

\* A user who leaves keeps it right, too.
LEMMA Leaves ==
  ASSUME NEW v \in Int, NEW h \in Holding, OneSide(v, h),
         NEW u \in Users, NEW s \in Access!SideNames, h[u] = s
  PROVE  OneSide(v - Access!Delta(s), [h EXCEPT ![u] = "none"])
<1> DEFINE g == [h EXCEPT ![u] = "none"]
<1>1. Holders(g, s) = Holders(h, s) \ {u} /\ u \in Holders(h, s)
  BY DEF Holders, Holding, Access!SideNames
<1>2. Holders(g, TwoSides!Other(s)) = Holders(h, TwoSides!Other(s))
  BY DEF Holders, Holding, Access!SideNames, TwoSides!Other
<1>3. Cardinality(Holders(g, s)) = Cardinality(Holders(h, s)) - 1
  <2>1. IsFiniteSet(Holders(h, s))
    BY HoldersCounted
  <2>2. Cardinality(Holders(h, s) \ {u}) = Cardinality(Holders(h, s)) - 1
    BY <1>1, <2>1, FS_RemoveElement
  <2> QED
    BY <1>1, <2>2
<1> HIDE DEF g
<1>4. s = "up" => OneSide(v - Access!Delta(s), g)
  BY <1>1, <1>2, <1>3, HoldersCounted DEF OneSide, Access!Delta, TwoSides!Other
<1>5. s = "down" => OneSide(v - Access!Delta(s), g)
  <2> SUFFICES ASSUME s = "down" PROVE OneSide(v - Access!Delta(s), g)
    OBVIOUS
  <2>1. Holders(h, "up") = {} /\ v = -Cardinality(Holders(h, "down"))
    BY <1>1 DEF OneSide
  <2>2. Holders(g, "up") = {} /\ v + 1 = -Cardinality(Holders(g, "down"))
    BY <2>1, <1>2, <1>3, HoldersCounted DEF TwoSides!Other
  <2> QED
    BY <2>2 DEF OneSide, Access!Delta
<1> QED
  BY <1>4, <1>5 DEF Access!SideNames, g

-----------------------------------------------------------------------------
(* What a step does to value and held: nothing, a user joins a side that is *)
(* free, or one leaves.                                                     *)
Quiet == UNCHANGED <<value, held>>
Takes(c, u, s) ==
  /\ held[c][u] = "none" /\ Access!On(c, TwoSides!Other(s)) = {}
  /\ value' = [value EXCEPT ![c] = @ + Access!Delta(s)]
  /\ held' = [held EXCEPT ![c][u] = s]
Gives(c, u, s) ==
  /\ held[c][u] = s
  /\ value' = [value EXCEPT ![c] = @ - Access!Delta(s)]
  /\ held' = [held EXCEPT ![c][u] = "none"]

LEMMA QuietCounts == ASSUME CountsOneSide, Quiet PROVE CountsOneSide'
BY DEF CountsOneSide, Access!CountsOneSide, Quiet, Access!On

LEMMA TakesCounts ==
  ASSUME Access!TypeOK, CountsOneSide, NEW c \in Access!Counters, NEW u \in Users,
         NEW s \in Access!SideNames, Takes(c, u, s)
  PROVE  CountsOneSide'
<1>1. value[c] \in Int /\ held[c] \in Holding /\ OneSide(value[c], held[c])
  BY CountsOneSideIs DEF Access!TypeOK, Holding
<1>2. Holders(held[c], TwoSides!Other(s)) = {} /\ held[c][u] = "none"
  BY DEF Takes, Access!On, Holders
<1>3. OneSide(value[c] + Access!Delta(s), [held[c] EXCEPT ![u] = s])
  BY <1>1, <1>2, Joins
<1>4. \A d \in Access!Counters :
        /\ value'[d] = IF d = c THEN value[c] + Access!Delta(s) ELSE value[d]
        /\ held'[d] = IF d = c THEN [held[c] EXCEPT ![u] = s] ELSE held[d]
  BY DEF Takes, Access!TypeOK
<1>5. \A d \in Access!Counters : OneSide(value'[d], held'[d])
  BY <1>3, <1>4, CountsOneSideIs
<1> QED
  BY <1>5, CountedTheSame DEF CountsOneSide, Access!CountsOneSide, OneSide, Holders, Access!On

LEMMA GivesCounts ==
  ASSUME Access!TypeOK, CountsOneSide, NEW c \in Access!Counters, NEW u \in Users,
         NEW s \in Access!SideNames, Gives(c, u, s)
  PROVE  CountsOneSide'
<1>1. value[c] \in Int /\ held[c] \in Holding /\ OneSide(value[c], held[c])
  BY CountsOneSideIs DEF Access!TypeOK, Holding
<1>2. OneSide(value[c] - Access!Delta(s), [held[c] EXCEPT ![u] = "none"])
  BY <1>1, Leaves DEF Gives
<1>3. \A d \in Access!Counters :
        /\ value'[d] = IF d = c THEN value[c] - Access!Delta(s) ELSE value[d]
        /\ held'[d] = IF d = c THEN [held[c] EXCEPT ![u] = "none"] ELSE held[d]
  BY DEF Gives, Access!TypeOK
<1>4. \A d \in Access!Counters : OneSide(value'[d], held'[d])
  BY <1>2, <1>3, CountsOneSideIs
<1> QED
  BY <1>4, CountedTheSame DEF CountsOneSide, Access!CountsOneSide, OneSide, Holders, Access!On

\* The answer that the sign of a counter gives is about who is on its sides.
LEMMA SignTells ==
  ASSUME Access!TypeOK, CountsOneSide, NEW c \in Access!Counters, NEW s \in Access!SideNames
  PROVE  /\ Access!Refused(s, value[c]) <=> Access!On(c, TwoSides!Other(s)) # {}
         /\ value[c] > 0 <=> Access!On(c, "up") # {}
<1>1. value[c] \in Int /\ OneSide(value[c], held[c])
  BY CountsOneSideIs DEF Access!TypeOK
<1>2. \A r \in Access!SideNames :
        Access!Refused(r, value[c]) <=> Holders(held[c], TwoSides!Other(r)) # {}
  BY <1>1, AllowedIsFree
<1>3. \A r : Holders(held[c], r) = Access!On(c, r)
  BY DEF Holders, Access!On
<1>4. Access!Refused("down", value[c]) <=> Access!On(c, "up") # {}
  BY <1>2, <1>3 DEF Access!SideNames, TwoSides!Other
<1> QED
  BY <1>2, <1>3, <1>4 DEF Access!Refused

-----------------------------------------------------------------------------
LEMMA AccessStarts == Access!Init => AccessInv
<1> SUFFICES ASSUME Access!Init PROVE AccessInv
  OBVIOUS
<1>1. Access!TypeOK
  BY DEF Access!Init, Access!TypeOK
<1>2. CallsAllowed
  BY DEF Access!Init, CallsAllowed
<1>3. \A c \in Access!Counters, s \in Access!SideNames : Access!On(c, s) = {}
  BY DEF Access!Init, Access!On, Access!SideNames
<1>4. CountsOneSide
  BY <1>3, CountedTheSame, FS_EmptySet DEF Access!Init, CountsOneSide, Access!CountsOneSide,
     Access!SideNames
<1> QED
  BY <1>1, <1>2, <1>4 DEF AccessInv

\* A conditional operation that looks at the counter is refused, or is in a call.
LEMMA LookKeeps ==
  ASSUME AccessInv, NEW u \in Users, NEW c \in Access!Counters, NEW s \in Access!SideNames,
         held[c][u] = "none", Access!Look(u, c, s)
  PROVE  Access!TypeOK' /\ CallsAllowed' /\ Quiet
<1> DEFINE new == [counter |-> c, side |-> s, seen |-> value[c]]
<1>1. new \in Access!Calls
  BY DEF AccessInv, Access!TypeOK, Access!Calls
<1>2. Quiet
  BY DEF Access!Look, Quiet
<1>3. CASE Access!Refused(s, value[c])
  <2>1. call' = [call EXCEPT ![u] = Access!NoCall] /\ answer' = [answer EXCEPT ![u] = "refused"]
    BY <1>3 DEF Access!Look, Access!Return
  <2>2. Access!TypeOK'
    BY <2>1, <1>2 DEF AccessInv, Access!TypeOK, Quiet
  <2>3. CallsAllowed'
    BY <2>1, <1>2 DEF AccessInv, Access!TypeOK, CallsAllowed, Quiet
  <2> QED
    BY <1>2, <2>2, <2>3
<1>4. CASE ~Access!Refused(s, value[c])
  <2>1. call' = [call EXCEPT ![u] = new] /\ answer' = answer
    BY <1>4 DEF Access!Look
  <2>2. Access!TypeOK'
    BY <2>1, <1>1, <1>2 DEF AccessInv, Access!TypeOK, Quiet
  <2>3. ~Access!Refused(new.side, new.seen) /\ held[new.counter][u] = "none"
    BY <1>4
  <2> HIDE DEF new
  <2>4. CallsAllowed'
    BY <2>1, <2>3, <1>2 DEF AccessInv, Access!TypeOK, CallsAllowed, Quiet
  <2> QED
    BY <1>2, <2>2, <2>4
<1> QED
  BY <1>3, <1>4

\* So that it is refused if the other side is held, and else waits for its turn.
LEMMA LookAnswers ==
  ASSUME AccessInv, NEW u \in Users, NEW c \in Access!Counters, NEW s \in Access!SideNames,
         Access!Look(u, c, s)
  PROVE  TwoSides!Refuse(c, u, s) \/ UNCHANGED <<held, answer>>
<1>1. Access!TypeOK /\ CountsOneSide
  BY DEF AccessInv
<1>2. Access!Refused(s, value[c]) <=> Access!On(c, TwoSides!Other(s)) # {}
  BY <1>1, SignTells
<1> QED
  BY <1>2 DEF Access!Look, Access!Return, TwoSides!Refuse, TwoSides!Answer, TwoSides!On, Access!On

LEMMA ConditionalKeeps ==
  ASSUME AccessInv, NEW u \in Users, NEW c \in Access!Counters, NEW s \in Access!SideNames,
         Access!Conditional(u, c, s)
  PROVE  /\ Access!TypeOK' /\ CallsAllowed' /\ Quiet
         /\ TwoSides!Refuse(c, u, s) \/ UNCHANGED <<held, answer>>
BY LookKeeps, LookAnswers DEF Access!Conditional

\* The exchange is done with the value that was seen, which refuses nobody here.
LEMMA ExchangeKeeps ==
  ASSUME AccessInv, NEW u \in Users, Access!CompareAndExchange(u)
  PROVE  /\ Access!TypeOK' /\ CallsAllowed' /\ CountsOneSide'
         /\ TwoSides!Next \/ UNCHANGED <<held, answer>>
<1> DEFINE c == call[u].counter
           s == call[u].side
<1>1. /\ call[u] # Access!NoCall /\ call[u] \in Access!Calls
      /\ c \in Access!Counters /\ s \in Access!SideNames
      /\ ~Access!Refused(s, call[u].seen) /\ held[c][u] = "none"
      /\ Access!TypeOK /\ CountsOneSide
  BY DEF Access!CompareAndExchange, AccessInv, Access!TypeOK, Access!Calls, CallsAllowed
<1>2. CASE Access!Look(u, c, s)
  <2>1. Access!TypeOK' /\ CallsAllowed' /\ Quiet
    BY <1>1, <1>2, LookKeeps
  <2>2. CountsOneSide'
    BY <1>1, <2>1, QuietCounts
  <2>3. TwoSides!Refuse(c, u, s) \/ UNCHANGED <<held, answer>>
    BY <1>1, <1>2, LookAnswers
  <2> QED
    BY <2>1, <2>2, <2>3, <1>1 DEF TwoSides!Next, Access!SideNames, TwoSides!SideNames
<1>3. CASE /\ value[c] = call[u].seen
           /\ value' = [value EXCEPT ![c] = @ + Access!Delta(s)]
           /\ held' = [held EXCEPT ![c][u] = s]
           /\ Access!Return(u, "granted")
  <2>1. Access!On(c, TwoSides!Other(s)) = {}
    BY <1>1, <1>3, SignTells
  <2>2. Takes(c, u, s)
    BY <1>1, <1>3, <2>1 DEF Takes
  <2>3. CountsOneSide'
    BY <1>1, <2>2, TakesCounts
  <2>4. Access!Delta(s) \in Int
    BY DEF Access!Delta
  <2>5. Access!TypeOK'
    BY <1>1, <1>3, <2>4 DEF Access!TypeOK, Access!Return
  <2>6. CallsAllowed'
    <3> SUFFICES ASSUME NEW w \in Users, call'[w] # Access!NoCall
                 PROVE  /\ ~Access!Refused(call'[w].side, call'[w].seen)
                        /\ held'[call'[w].counter][w] = "none"
      BY DEF CallsAllowed
    <3>1. w # u /\ call'[w] = call[w] /\ call[w] \in Access!Calls
      BY <1>1, <1>3 DEF Access!Return, Access!TypeOK
    <3>2. ~Access!Refused(call[w].side, call[w].seen) /\ held[call[w].counter][w] = "none"
      BY <3>1 DEF AccessInv, CallsAllowed
    <3>3. held'[call[w].counter][w] = held[call[w].counter][w]
      BY <1>1, <1>3, <3>1 DEF Access!TypeOK, Access!Calls
    <3> QED
      BY <3>1, <3>2, <3>3
  <2>7. TwoSides!Enter(c, u, s)
    BY <1>1, <1>3, <2>1 DEF TwoSides!Enter, TwoSides!On, Access!On, TwoSides!Hold,
       TwoSides!Answer, Access!Return
  <2> QED
    BY <2>3, <2>5, <2>6, <2>7, <1>1 DEF TwoSides!Next, Access!SideNames, TwoSides!SideNames
<1> QED
  BY <1>2, <1>3 DEF Access!CompareAndExchange

\* An access is given back by the operation that goes the other way.
LEMMA PlainKeeps ==
  ASSUME AccessInv, NEW u \in Users, NEW c \in Access!Counters, NEW s \in Access!SideNames,
         Access!Plain(u, c, s, -Access!Delta(s))
  PROVE  /\ Access!TypeOK' /\ CallsAllowed' /\ CountsOneSide'
         /\ TwoSides!Leave(c, u)
<1>1. Access!TypeOK /\ CountsOneSide /\ Access!Delta(s) \in Int
  BY DEF AccessInv, Access!Delta
<1>2. /\ held[c][u] = s /\ call[u] = Access!NoCall /\ call' = call /\ answer' = answer
      /\ value' = [value EXCEPT ![c] = @ - Access!Delta(s)]
      /\ held' = [held EXCEPT ![c][u] = "none"]
  BY <1>1 DEF Access!Plain, Access!TypeOK
<1>3. CountsOneSide'
  BY <1>1, <1>2, GivesCounts DEF Gives
<1>4. Access!TypeOK'
  BY <1>1, <1>2 DEF Access!TypeOK
<1>5. CallsAllowed'
  BY <1>1, <1>2 DEF AccessInv, CallsAllowed, Access!TypeOK, Access!Calls
<1>6. TwoSides!Leave(c, u)
  BY <1>2 DEF TwoSides!Leave, TwoSides!Hold, Access!SideNames
<1> QED
  BY <1>3, <1>4, <1>5, <1>6

\* A copy is of an access on a side that is held, so that the other is free.
LEMMA CopyKeeps ==
  ASSUME AccessInv, NEW u \in Users, NEW v \in Users, NEW c \in Access!Counters,
         NEW s \in Access!SideNames, Access!Copy(u, v, c, s)
  PROVE  /\ Access!TypeOK' /\ CallsAllowed' /\ CountsOneSide'
         /\ TwoSides!Enter(c, v, s)
<1>1. Access!TypeOK /\ CountsOneSide /\ Access!Delta(s) \in Int
  BY DEF AccessInv, Access!Delta
<1>2. u \in Access!On(c, s)
  BY DEF Access!Copy, Access!On
<1>3. Access!On(c, TwoSides!Other(s)) = {}
  BY <1>1, <1>2 DEF CountsOneSide, Access!CountsOneSide, Access!SideNames, TwoSides!Other
<1>4. Takes(c, v, s)
  BY <1>3 DEF Access!Copy, Takes
<1>5. CountsOneSide'
  BY <1>1, <1>4, TakesCounts
<1>6. Access!TypeOK'
  BY <1>1 DEF Access!Copy, Access!TypeOK
<1>7. CallsAllowed'
  BY <1>1 DEF Access!Copy, AccessInv, CallsAllowed, Access!TypeOK, Access!Calls
<1>8. TwoSides!Enter(c, v, s)
  BY <1>3 DEF Access!Copy, TwoSides!Enter, TwoSides!On, Access!On, TwoSides!Hold, TwoSides!Answer
<1> QED
  BY <1>5, <1>6, <1>7, <1>8

LEMMA PositiveKeeps ==
  ASSUME AccessInv, NEW u \in Users, NEW c \in Access!Counters, Access!Positive(u, c)
  PROVE  Access!TypeOK' /\ CallsAllowed' /\ Quiet /\ TwoSides!Ask(c, u)
<1>1. Access!TypeOK /\ CountsOneSide
  BY DEF AccessInv
<1>2. value[c] > 0 <=> Access!On(c, "up") # {}
  BY <1>1, SignTells DEF Access!SideNames
<1>3. TwoSides!Ask(c, u)
  BY <1>2 DEF Access!Positive, TwoSides!Ask, TwoSides!Answer, TwoSides!On, Access!On
<1>4. Access!TypeOK'
  BY <1>1 DEF Access!Positive, Access!TypeOK
<1>5. CallsAllowed' /\ Quiet
  BY DEF Access!Positive, AccessInv, CallsAllowed, Quiet
<1> QED
  BY <1>3, <1>4, <1>5

-----------------------------------------------------------------------------
\* Every step keeps the invariant, and is a step of the two sides or none.
LEMMA AccessKeeps ==
  ASSUME AccessInv, [Access!Next]_Access!vars
  PROVE  AccessInv' /\ [TwoSides!Next]_<<held, answer>>
<1> DEFINE Good == AccessInv' /\ [TwoSides!Next]_<<held, answer>>
<1>1. Access!TypeOK /\ CountsOneSide
  BY DEF AccessInv
<1>2. CASE UNCHANGED Access!vars
  <2>1. Access!TypeOK' /\ CallsAllowed' /\ Quiet
    BY <1>2 DEF AccessInv, Access!vars, Access!TypeOK, CallsAllowed, Quiet
  <2>2. CountsOneSide'
    BY <1>1, <2>1, QuietCounts
  <2> QED
    BY <1>2, <2>1, <2>2 DEF AccessInv, Access!vars
<1>3. ASSUME NEW u \in Users, NEW c \in Access!Counters, NEW s \in Access!SideNames,
             Access!Conditional(u, c, s)
      PROVE  Good
  <2>1. /\ Access!TypeOK' /\ CallsAllowed' /\ Quiet
        /\ TwoSides!Refuse(c, u, s) \/ UNCHANGED <<held, answer>>
    BY <1>3, ConditionalKeeps
  <2>2. CountsOneSide'
    BY <1>1, <2>1, QuietCounts
  <2> QED
    BY <2>1, <2>2 DEF AccessInv, TwoSides!Next, Access!SideNames, TwoSides!SideNames
<1>4. ASSUME NEW u \in Users, NEW c \in Access!Counters, NEW s \in Access!SideNames,
             Access!Plain(u, c, s, -Access!Delta(s))
      PROVE  Good
  <2>1. Access!TypeOK' /\ CallsAllowed' /\ CountsOneSide' /\ TwoSides!Leave(c, u)
    BY <1>4, PlainKeeps
  <2> QED
    BY <2>1 DEF AccessInv, TwoSides!Next
<1>5. ASSUME NEW u \in Users, NEW c \in Access!Counters, Access!Positive(u, c)
      PROVE  Good
  <2>1. Access!TypeOK' /\ CallsAllowed' /\ Quiet /\ TwoSides!Ask(c, u)
    BY <1>5, PositiveKeeps
  <2>2. CountsOneSide'
    BY <1>1, <2>1, QuietCounts
  <2> QED
    BY <2>1, <2>2 DEF AccessInv, TwoSides!Next
<1>6. ASSUME NEW u \in Users, Access!CompareAndExchange(u)
      PROVE  Good
  <2>1. /\ Access!TypeOK' /\ CallsAllowed' /\ CountsOneSide'
        /\ TwoSides!Next \/ UNCHANGED <<held, answer>>
    BY <1>6, ExchangeKeeps
  <2> QED
    BY <2>1 DEF AccessInv
<1>7. ASSUME NEW u \in Users, NEW v \in Users, NEW c \in Access!Counters,
             NEW s \in Access!SideNames,
             Access!Copy(u, v, c, s)
      PROVE  Good
  <2>1. Access!TypeOK' /\ CallsAllowed' /\ CountsOneSide' /\ TwoSides!Enter(c, v, s)
    BY <1>7, CopyKeeps
  <2> QED
    BY <2>1 DEF AccessInv, TwoSides!Next, Access!SideNames, TwoSides!SideNames
<1>8. /\ {"i_writecount", "i_mmap_writable"} \subseteq Access!Counters
      /\ {"up", "down"} \subseteq Access!SideNames
  BY DEF Access!Counters, Access!SideNames
<1> HIDE DEF Good
<1>9. -Access!Delta("up") = -1
  BY DEF Access!Delta
<1>10. -Access!Delta("down") = 1
  <2>1. Access!Delta("down") = -1
    BY DEF Access!Delta
  <2> QED
    BY <2>1
<1>11. ASSUME NEW u \in Users
      PROVE  /\ Access!get_write_access(u) \/ Access!deny_write_access(u) => Good
             /\ Access!mapping_map_writable(u) \/ Access!mapping_deny_writable(u) => Good
  BY <1>3, <1>8 DEF Access!get_write_access, Access!deny_write_access,
     Access!mapping_map_writable, Access!mapping_deny_writable
<1>12. ASSUME NEW u \in Users
       PROVE  /\ Access!put_write_access(u) \/ Access!allow_write_access(u) => Good
              /\ Access!mapping_unmap_writable(u) \/ Access!mapping_allow_writable(u) => Good
  BY <1>4, <1>8, <1>9, <1>10 DEF Access!put_write_access, Access!allow_write_access,
     Access!mapping_unmap_writable, Access!mapping_allow_writable
<1>13. ASSUME NEW u \in Users
       PROVE  Access!inode_is_open_for_write(u) \/ Access!mapping_writably_mapped(u) => Good
  BY <1>5, <1>8 DEF Access!inode_is_open_for_write, Access!mapping_writably_mapped
<1> QED
  BY <1>2, <1>6, <1>7, <1>11, <1>12, <1>13 DEF Access!Next, Good

(* What every step keeps.                                                   *)
THEOREM AccessInvariance == AccessSpec => []AccessInv
BY AccessStarts, AccessKeeps, PTL DEF AccessSpec, Access!Spec

(* The counters of fs.h:2922 count one side, for any number of users.       *)
THEOREM OneSideCounted == AccessSpec => []CountsOneSide
<1>1. AccessInv => CountsOneSide
  BY DEF AccessInv
<1> QED
  BY <1>1, AccessInvariance, PTL

(* The two counters, each updated without a lock by a read and a            *)
(* compare-and-exchange, implement two sides that exclude each other.       *)
THEOREM Refinement == AccessSpec => ImplementsSides
<1>1. Access!Init => TwoSides!Init
  BY DEF Access!Init, TwoSides!Init
<1>2. AccessInv /\ [Access!Next]_Access!vars => [TwoSides!Next]_<<held, answer>>
  BY AccessKeeps
<1>3. AccessSpec => []AccessInv
  BY AccessInvariance
<1> QED
  BY <1>1, <1>2, <1>3, PTL DEF AccessSpec, Access!Spec, ImplementsSides, TwoSides!Spec,
     TwoSides!vars
=============================================================================
