----------------------------- MODULE MCListReaders -----------------------------
(* Those who read a list while it changes: a loop of SafeIteration, or the    *)
(* poller of CarefulEmpty, in a list of its own.  Four entries for the loop:  *)
(* the one it is at, its neighbours on both sides, and one more to be added   *)
(* or removed beyond them.  Three for the poller: an inner one, whose         *)
(* neighbours are deleted before, with or after it.                           *)
EXTENDS SafeIteration

CONSTANTS e1, e2, e3, e4,
          PollOrder, Nothing   \* Order and Nothing of CarefulEmpty

MCOrder == <<e1, e2, e3, e4>>
MCPollOrder == <<e1, e2, e3>>

VARIABLES part, mem, stores, off, asked, loaded, mine
polling == <<mem, stores, off, asked, loaded, mine>>

Careful == INSTANCE CarefulEmpty WITH Order <- PollOrder

ASSUME CarefulAssumption == Careful!CarefulEmptyAssumption

\* At rest: a loop that was over an empty list, and a list all deleted and seen.
LoopAtRest ==
  /\ heap = Listed(0) /\ linked = {} /\ stayed = {} /\ fresh = {}
  /\ dir = "next" /\ safe = FALSE
  /\ pc = "done" /\ pos = head /\ n = head /\ visited = <<>>

PollerAtRest ==
  /\ mem = [f \in Careful!Fields |-> [c \in Careful!Cells |-> c]] /\ stores = <<>>
  /\ off = Careful!Entries /\ mine = off
  /\ asked = Nothing /\ loaded = [f \in Careful!Fields |-> Nothing]

ReadersInit ==
  \/ part = "loop" /\ Init /\ PollerAtRest
  \/ part = "poll" /\ Careful!Init /\ LoopAtRest

ReadersNext ==
  /\ UNCHANGED part
  /\ \/ part = "loop" /\ Next /\ UNCHANGED polling
     \/ part = "poll" /\ Careful!Next /\ UNCHANGED vars

ReadersSpec ==
  /\ ReadersInit /\ [][ReadersNext]_<<part, vars, polling>>
  /\ Fairness /\ Careful!Fairness

YesIsFinal == Careful!YesIsFinal
DeletionIsSeen == Careful!DeletionIsSeen
=============================================================================
