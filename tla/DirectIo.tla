------------------------------- MODULE DirectIo -------------------------------
(****************************************************************************)
(* include/linux/fs.h: direct I/O on an inode, and inode_drain_writes().  A *)
(* request is submitted with the inode locked shared, is in flight when the *)
(* lock is long given back, and ends in an interrupt.  A task that is to    *)
(* change the inode's flags locks it alone and waits until i_dio_count says *)
(* that nothing is in flight and the dirty pages are written.               *)
(*                                                                          *)
(* i_rwsem, inode_dio_wait(), wake_up_bit() and filemap_write_and_wait()    *)
(* are elsewhere in the kernel, modelled as these functions use them.       *)
(****************************************************************************)
EXTENDS Integers, FiniteSets

CONSTANTS Submitters, Changers, Nobody

DirectIoAssumption == IsFiniteSet(Submitters) /\ Nobody \notin Changers

VARIABLES shared,       \* who has i_rwsem shared
          alone,        \* who has it alone, or Nobody
          i_dio_count,
          dirty,        \* are there dirty pages?
          queue,        \* the tasks on the wait queue of __I_DIO_WAKEUP
          pc
vars == <<shared, alone, i_dio_count, dirty, queue, pc>>

Tasks == Submitters \cup Changers

Init ==
  /\ shared = {} /\ alone = Nobody /\ i_dio_count = 0 /\ dirty = FALSE
  /\ queue = {} /\ pc = [t \in Tasks |-> "idle"]

Go(t, from, to) == pc[t] = from /\ pc' = [pc EXCEPT ![t] = to]
-----------------------------------------------------------------------------
(* The lock got although a task holds it alone.                             *)
inode_lock_sharedAlways(t) ==
  /\ Go(t, "idle", "locked shared")
  /\ shared' = shared \cup {t}
  /\ UNCHANGED <<alone, i_dio_count, dirty, queue>>

(* A submitter.  With the trylock form, for IOCB_NOWAIT, it gives up at     *)
(* once where this one waits, and nothing has happened.                     *)
inode_lock_shared(t) ==
  /\ Go(t, "idle", "locked shared") /\ alone = Nobody
  /\ shared' = shared \cup {t}
  /\ UNCHANGED <<alone, i_dio_count, dirty, queue>>

inode_dio_begin(t) ==
  /\ Go(t, "locked shared", "begun")
  /\ i_dio_count' = i_dio_count + 1
  /\ UNCHANGED <<shared, alone, dirty, queue>>

inode_unlock_shared(t) ==
  /\ Go(t, "begun", "in flight")
  /\ shared' = shared \ {t}
  /\ UNCHANGED <<alone, i_dio_count, dirty, queue>>

\* The request that was the last one wakes those who wait, in a step of its own.
inode_dio_end(t) ==
  /\ Go(t, "in flight", IF i_dio_count = 1 THEN "wake" ELSE "idle")
  /\ i_dio_count' = i_dio_count - 1
  /\ UNCHANGED <<shared, alone, dirty, queue>>

wake_up_bit(t) ==
  /\ Go(t, "wake", "idle")
  /\ queue' = {}
  /\ UNCHANGED <<shared, alone, i_dio_count, dirty>>
-----------------------------------------------------------------------------
(* A task that writes pages or changes the inode.                           *)
inode_lock(t) ==
  /\ Go(t, "idle", "locked") /\ alone = Nobody /\ shared = {}
  /\ alone' = t
  /\ UNCHANGED <<shared, i_dio_count, dirty, queue>>

WritePages(t) ==
  /\ Go(t, "locked", "written")
  /\ dirty' = TRUE
  /\ UNCHANGED <<shared, alone, i_dio_count, queue>>

\* Without inode_dio_wait().
inode_drain_writesBare(t) ==
  /\ Go(t, "locked", "flush")
  /\ UNCHANGED <<shared, alone, i_dio_count, dirty, queue>>

\* inode_dio_wait(): on the queue first, and then a look at the count.
inode_drain_writes(t) ==
  /\ Go(t, "locked", "look")
  /\ queue' = queue \cup {t}
  /\ UNCHANGED <<shared, alone, i_dio_count, dirty>>

Look(t) ==
  /\ Go(t, "look", IF i_dio_count = 0 THEN "flush" ELSE "asleep")
  /\ queue' = IF i_dio_count = 0 THEN queue \ {t} ELSE queue
  /\ UNCHANGED <<shared, alone, i_dio_count, dirty>>

\* Woken up, it puts itself on the queue again and looks again.
Awake(t) ==
  /\ Go(t, "asleep", "look") /\ t \notin queue
  /\ queue' = queue \cup {t}
  /\ UNCHANGED <<shared, alone, i_dio_count, dirty>>

\* filemap_write_and_wait(): with an error the change is given up.
Flush(t) ==
  /\ \/ Go(t, "flush", "changing") /\ dirty' = FALSE
     \/ Go(t, "flush", "written") /\ UNCHANGED dirty
  /\ UNCHANGED <<shared, alone, i_dio_count, queue>>

inode_unlock(t) ==
  /\ Go(t, "changing", "idle") \/ Go(t, "written", "idle")
  /\ alone' = Nobody
  /\ UNCHANGED <<shared, i_dio_count, dirty, queue>>
-----------------------------------------------------------------------------
Finish(t) == inode_dio_end(t) \/ wake_up_bit(t)
Drain(t) == Look(t) \/ Awake(t) \/ Flush(t)

Next ==
  \/ \E t \in Submitters :
       inode_lock_shared(t) \/ inode_dio_begin(t) \/ inode_unlock_shared(t) \/ Finish(t)
  \/ \E t \in Changers :
       inode_lock(t) \/ WritePages(t) \/ inode_drain_writes(t) \/ Drain(t) \/ inode_unlock(t)

\* Requests in flight end, and a task that can run does.
Fairness ==
  /\ \A t \in Submitters : WF_vars(Finish(t))
  /\ \A t \in Changers : WF_vars(Drain(t))
Spec == Init /\ [][Next]_vars /\ Fairness
-----------------------------------------------------------------------------
InFlight == {t \in Submitters : pc[t] \in {"begun", "in flight"}}

(* The comment at fs.h:3643: no further writes until we're done setting     *)
(* flags.  Until the lock is given back nothing is in flight or being       *)
(* submitted, although requests run without the lock, and no page is dirty. *)
DrainedIsQuiet ==
  \A t \in Changers : pc[t] = "changing" => InFlight = {} /\ shared = {} /\ ~dirty

(* Whoever drains is not left asleep: the last request's wake-up cannot be  *)
(* missed, and no new request comes in between.                             *)
DrainEnds ==
  \A t \in Changers : (pc[t] = "look") ~> (pc[t] \in {"changing", "written"})
=============================================================================
