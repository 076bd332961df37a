------------------------------ MODULE WriteAccess ------------------------------
(****************************************************************************)
(* include/linux/fs.h: i_writecount, which is positive while a file is open *)
(* for writing and negative while a VM_DENYWRITE mapping forbids it, and    *)
(* i_mmap_writable, which is positive while writable mappings exist and     *)
(* negative while they are forbidden.  No lock is held around either.       *)
(*                                                                          *)
(* The conditional atomic operations are a read and a loop of               *)
(* compare-and-exchange, so that other CPUs come between.                   *)
(****************************************************************************)
EXTENDS Integers, FiniteSets

CONSTANTS Users   \* open files and mappings; each holds an access at most once

WriteAccessAssumption == IsFiniteSet(Users)

VARIABLES value,   \* value[c]: i_writecount and i_mmap_writable
          held,    \* held[c][u]: the access user u holds through counter c
          call,    \* the conditional operation each user is in
          answer   \* what the last call of each user returned
vars == <<value, held, call, answer>>

Counters == {"i_writecount", "i_mmap_writable"}
SideNames == {"up", "down"}
NoCall == [counter |-> "none"]
Calls == [counter : Counters, side : SideNames, seen : Int]

On(c, s) == {u \in Users : held[c][u] = s}

\* atomic_inc goes up, atomic_dec goes down.
Delta(s) == IF s = "up" THEN 1 ELSE -1

\* The sign that atomic_inc_unless_negative and atomic_dec_unless_positive refuse.
Refused(s, seen) == IF s = "up" THEN seen < 0 ELSE seen > 0

Init ==
  /\ value = [c \in Counters |-> 0]
  /\ held = [c \in Counters |-> [u \in Users |-> "none"]]
  /\ call = [u \in Users |-> NoCall]
  /\ answer = [u \in Users |-> "none"]

Return(u, a) ==
  /\ call' = [call EXCEPT ![u] = NoCall]
  /\ answer' = [answer EXCEPT ![u] = a]

\* The counter is read: a value of the wrong sign ends the call.
Look(u, c, s) ==
  /\ UNCHANGED <<value, held>>
  /\ IF Refused(s, value[c])
     THEN Return(u, "refused")
     ELSE /\ call' = [call EXCEPT ![u] = [counter |-> c, side |-> s, seen |-> value[c]]]
          /\ UNCHANGED answer

Conditional(u, c, s) ==
  /\ call[u] = NoCall /\ held[c][u] = "none"
  /\ Look(u, c, s)

\* The exchange: done if the counter still has the value seen, else look again.
CompareAndExchange(u) ==
  /\ call[u] # NoCall
  /\ LET c == call[u].counter
         s == call[u].side
     IN  \/ /\ value[c] = call[u].seen
            /\ value' = [value EXCEPT ![c] = @ + Delta(s)]
            /\ held' = [held EXCEPT ![c][u] = s]
            /\ Return(u, "granted")
         \/ /\ value[c] # call[u].seen
            /\ Look(u, c, s)

\* An access held is given back by the opposite operation, without a test.
Plain(u, c, s, d) ==
  /\ call[u] = NoCall /\ held[c][u] = s
  /\ value' = [value EXCEPT ![c] = @ + d]
  /\ held' = [held EXCEPT ![c][u] = "none"]
  /\ UNCHANGED <<call, answer>>

\* A mapping copied by fork takes a second access, without a test.
Copy(u, v, c, s) ==
  /\ call[u] = NoCall /\ call[v] = NoCall
  /\ held[c][u] = s /\ held[c][v] = "none"
  /\ value' = [value EXCEPT ![c] = @ + Delta(s)]
  /\ held' = [held EXCEPT ![c][v] = s]
  /\ answer' = [answer EXCEPT ![v] = "granted"]
  /\ UNCHANGED call

\* For a negative counter as well.
PositiveAny(u, c) ==
  /\ call[u] = NoCall
  /\ answer' = [answer EXCEPT ![u] = IF value[c] # 0 THEN "yes" ELSE "no"]
  /\ UNCHANGED <<value, held, call>>

Positive(u, c) ==
  /\ call[u] = NoCall
  /\ answer' = [answer EXCEPT ![u] = IF value[c] > 0 THEN "yes" ELSE "no"]
  /\ UNCHANGED <<value, held, call>>
-----------------------------------------------------------------------------
get_write_access(u) == Conditional(u, "i_writecount", "up")
deny_write_access(u) == Conditional(u, "i_writecount", "down")
put_write_access(u) == Plain(u, "i_writecount", "up", -1)
allow_write_access(u) == Plain(u, "i_writecount", "down", 1)
inode_is_open_for_write(u) == Positive(u, "i_writecount")

mapping_map_writable(u) == Conditional(u, "i_mmap_writable", "up")
mapping_deny_writable(u) == Conditional(u, "i_mmap_writable", "down")
mapping_unmap_writable(u) == Plain(u, "i_mmap_writable", "up", -1)
mapping_allow_writableDown(u) == Plain(u, "i_mmap_writable", "down", -1)
mapping_allow_writable(u) == Plain(u, "i_mmap_writable", "down", 1)
mapping_writably_mapped(u) == Positive(u, "i_mmap_writable")

Next ==
  \E u \in Users :
    \/ get_write_access(u) \/ deny_write_access(u)
    \/ put_write_access(u) \/ allow_write_access(u)
    \/ inode_is_open_for_write(u)
    \/ mapping_map_writable(u) \/ mapping_deny_writable(u)
    \/ mapping_unmap_writable(u) \/ mapping_allow_writable(u)
    \/ mapping_writably_mapped(u)
    \/ CompareAndExchange(u)
    \/ \E v \in Users, c \in Counters, s \in SideNames : Copy(u, v, c, s)

Spec == Init /\ [][Next]_vars
-----------------------------------------------------------------------------
TypeOK ==
  /\ value \in [Counters -> Int]
  /\ held \in [Counters -> [Users -> SideNames \cup {"none"}]]
  /\ call \in [Users -> Calls \cup {NoCall}]
  /\ answer \in [Users -> {"none", "granted", "refused", "yes", "no"}]

(* The comment at fs.h:2922: positive, the counter is the number of users   *)
(* writing; negative, the number of mappings that deny it; and never are    *)
(* there both, although neither is decided under a lock.                    *)
CountsOneSide ==
  \A c \in Counters :
    \/ On(c, "down") = {} /\ value[c] = Cardinality(On(c, "up"))
    \/ On(c, "up") = {} /\ value[c] = -Cardinality(On(c, "down"))
=============================================================================
