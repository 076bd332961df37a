------------------------------ MODULE LeaseBreak ------------------------------
(****************************************************************************)
(* include/linux/fs.h: break_lease(), break_deleg() and break_layout() look *)
(* at the list of leases without its lock, while other tasks set leases on  *)
(* the file.  The opener counts itself in i_writecount or i_readcount       *)
(* first; the setter links its lease first and then looks at these counts,  *)
(* so that one of the two must see the other.                               *)
(*                                                                          *)
(* Loads of one CPU are performed in any order that neither a barrier nor   *)
(* an address dependency forbids, and so are its stores.  Setting leases    *)
(* and breaking them is fs/locks.c, modelled as these functions need it.    *)
(****************************************************************************)
CONSTANTS Readers, Writers,   \* tasks that open the file, by how they open it
          Setters,            \* tasks that set leases on it
          Nobody

ASSUME LeaseBreakAssumption ==
  Readers \cap Writers = {} /\ Nobody \notin Setters

VARIABLES i_flctx,    \* whether the inode has a lock context yet
          flc_lease,  \* the tasks with a lease on the list
          link,       \* do the list head's next and prev lead to a lease?
          flc_lock,   \* the task that holds the spinlock, or Nobody
          lease,      \* per setter: "none", "adding" or "granted"
          kind,       \* per setter: "read" or "write" lease
          pc,         \* per opener
          counted,    \* the openers counted in i_writecount and i_readcount
          seen        \* what each opener has loaded: a function of the place
vars == <<i_flctx, flc_lease, link, flc_lock, lease, kind, pc, counted, seen>>

Openers == Readers \cup Writers
Pointers == {"next", "prev"}
Views == UNION {[D -> BOOLEAN] : D \in SUBSET (Pointers \cup {"i_flctx"})}

Init ==
  /\ i_flctx = FALSE /\ flc_lease = {} /\ flc_lock = Nobody
  /\ link = [p \in Pointers |-> FALSE]
  /\ lease = [h \in Setters |-> "none"] /\ kind \in [Setters -> {"read", "write"}]
  /\ pc = [o \in Openers |-> "closed"] /\ counted = {}
  /\ seen = [o \in Openers |-> [p \in {} |-> FALSE]]

\* A write lease is for a file nobody else has open, a read lease for one that
\* nobody writes.
Conflict(h, o) == kind[h] = "write" \/ o \in Writers
setting == <<i_flctx, flc_lease, link, flc_lock, lease, kind>>
opening == <<pc, counted, seen>>
-----------------------------------------------------------------------------
Call(o) ==
  /\ pc[o] = "closed"
  /\ pc' = [pc EXCEPT ![o] = "break"]
  /\ seen' = [seen EXCEPT ![o] = [p \in {} |-> FALSE]]
  /\ UNCHANGED <<setting, counted>>

Count(o) ==
  /\ pc[o] = "break" /\ o \notin counted
  /\ counted' = counted \cup {o}
  /\ UNCHANGED <<setting, pc, seen>>

\* Without it, loads may be performed before the store of the count.
BarrierMissing(o) == TRUE

\* smp_mb(): no load before the count has been made visible.
Barrier(o) == o \in counted

Loaded(o, p) == p \in DOMAIN seen[o]
Load(o, p, v) ==
  /\ pc[o] = "break" /\ Barrier(o) /\ ~Loaded(o, p)
  /\ seen' = [seen EXCEPT ![o] =
                [q \in DOMAIN seen[o] \cup {p} |-> IF q = p THEN v ELSE seen[o][q]]]
  /\ UNCHANGED <<setting, pc, counted>>

LoadContext(o) == Load(o, "i_flctx", i_flctx)

\* The loads of list_empty_careful(), through the pointer just loaded.
LoadPointer(o, p) ==
  /\ Loaded(o, "i_flctx") /\ seen[o]["i_flctx"]
  /\ Load(o, p, link[p])

\* The condition of the if: a context, and a list that is not found empty.
FoundNone(o) ==
  /\ Loaded(o, "i_flctx")
  /\ \/ ~seen[o]["i_flctx"]
     \/ \A p \in Pointers : Loaded(o, p) /\ ~seen[o][p]
FoundSome(o) == \E p \in Pointers : Loaded(o, p) /\ seen[o][p]

Decide(o) ==
  /\ pc[o] = "break" /\ o \in counted
  /\ \/ FoundNone(o) /\ pc' = [pc EXCEPT ![o] = "opened"]
     \/ FoundSome(o) /\ pc' = [pc EXCEPT ![o] = "__break_lease"]
  /\ UNCHANGED <<setting, counted, seen>>

\* __break_lease(), with the lock: it waits for the leases in the way to be
\* given up, or, with O_NONBLOCK, fails.
InTheWay(o) == \E h \in flc_lease : Conflict(h, o)
Broken(o) ==
  /\ pc[o] = "__break_lease" /\ flc_lock = Nobody /\ ~InTheWay(o)
  /\ pc' = [pc EXCEPT ![o] = "opened"]
  /\ UNCHANGED <<setting, counted, seen>>
WouldBlock(o) ==
  /\ pc[o] = "__break_lease" /\ flc_lock = Nobody /\ InTheWay(o)
  /\ pc' = [pc EXCEPT ![o] = "closed"] /\ counted' = counted \ {o}
  /\ UNCHANGED <<setting, seen>>

Close(o) ==
  /\ pc[o] = "opened"
  /\ pc' = [pc EXCEPT ![o] = "closed"] /\ counted' = counted \ {o}
  /\ UNCHANGED <<setting, seen>>
-----------------------------------------------------------------------------
\* The pointers of the list head follow the list, each by a store of its own.
Stored(p) == link[p] <=> flc_lease # {}

SetLease(h, k) ==
  /\ lease[h] = "none" /\ flc_lock = Nobody
  /\ flc_lock' = h /\ i_flctx' = TRUE
  /\ flc_lease' = flc_lease \cup {h}
  /\ lease' = [lease EXCEPT ![h] = "adding"] /\ kind' = [kind EXCEPT ![h] = k]
  /\ UNCHANGED <<opening, link>>

Store(p) ==
  /\ flc_lock # Nobody /\ ~Stored(p)
  /\ link' = [link EXCEPT ![p] = ~link[p]]
  /\ UNCHANGED <<opening, i_flctx, flc_lease, flc_lock, lease, kind>>

\* After a barrier of its own the setter looks at the counts.
CheckOpeners(h) ==
  /\ lease[h] = "adding" /\ \A p \in Pointers : Stored(p)
  /\ IF \E o \in counted : Conflict(h, o)
     THEN /\ flc_lease' = flc_lease \ {h}
          /\ lease' = [lease EXCEPT ![h] = "none"]
     ELSE /\ lease' = [lease EXCEPT ![h] = "granted"]
          /\ UNCHANGED flc_lease
  /\ UNCHANGED <<opening, i_flctx, link, flc_lock, kind>>

Unlock(h) ==
  /\ flc_lock = h /\ lease[h] # "adding" /\ \A p \in Pointers : Stored(p)
  /\ flc_lock' = Nobody
  /\ UNCHANGED <<opening, i_flctx, flc_lease, link, lease, kind>>

GiveUp(h) ==
  /\ lease[h] = "granted" /\ flc_lock = Nobody
  /\ flc_lock' = h
  /\ flc_lease' = flc_lease \ {h} /\ lease' = [lease EXCEPT ![h] = "none"]
  /\ UNCHANGED <<opening, i_flctx, link, kind>>
-----------------------------------------------------------------------------
break_lease(o) ==
  \/ Call(o) \/ Count(o) \/ LoadContext(o)
  \/ \E p \in Pointers : LoadPointer(o, p)
  \/ Decide(o) \/ Broken(o) \/ WouldBlock(o)

Next ==
  \/ \E o \in Openers : break_lease(o) \/ Close(o)
  \/ \E h \in Setters :
       \/ \E k \in {"read", "write"} : SetLease(h, k)
       \/ CheckOpeners(h) \/ Unlock(h) \/ GiveUp(h)
  \/ \E p \in Pointers : Store(p)

Spec == Init /\ [][Next]_vars
-----------------------------------------------------------------------------
TypeOK ==
  /\ i_flctx \in BOOLEAN /\ flc_lease \subseteq Setters
  /\ link \in [Pointers -> BOOLEAN] /\ flc_lock \in Setters \cup {Nobody}
  /\ lease \in [Setters -> {"none", "adding", "granted"}]
  /\ kind \in [Setters -> {"read", "write"}]
  /\ pc \in [Openers -> {"closed", "break", "__break_lease", "opened"}]
  /\ counted \subseteq Openers
  /\ seen \in [Openers -> Views]

(* The comment at fs.h:2439: no race with tasks trying to set a new lease.  *)
(* A lease granted and an open that break_lease() let through never         *)
(* conflict, although the list was looked at without its lock.              *)
NoLeaseUnnoticed ==
  \A h \in Setters, o \in Openers :
    lease[h] = "granted" /\ pc[o] = "opened" => ~Conflict(h, o)
=============================================================================
