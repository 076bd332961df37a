--------------------------------- MODULE Sides ---------------------------------
(****************************************************************************)
(* What the signed counters of include/linux/fs.h promise: several users    *)
(* may be on one side of a resource, or several on the other, never both;   *)
(* a user is only turned away while the other side is held.                 *)
(****************************************************************************)
CONSTANTS Users,
          Resources

VARIABLES held,    \* held[c][u]: the side of c that u is on, or "none"
          answer   \* what the last call of each user returned
vars == <<held, answer>>

SideNames == {"up", "down"}
Other(s) == IF s = "up" THEN "down" ELSE "up"
On(c, s) == {u \in Users : held[c][u] = s}

Init ==
  /\ held = [c \in Resources |-> [u \in Users |-> "none"]]
  /\ answer = [u \in Users |-> "none"]

Answer(u, a) == answer' = [answer EXCEPT ![u] = a]
Hold(c, u, s) == held' = [held EXCEPT ![c][u] = s]

Enter(c, u, s) ==
  /\ held[c][u] = "none" /\ On(c, Other(s)) = {}
  /\ Hold(c, u, s) /\ Answer(u, "granted")

Refuse(c, u, s) ==
  /\ On(c, Other(s)) # {}
  /\ Answer(u, "refused") /\ UNCHANGED held

Leave(c, u) ==
  /\ held[c][u] # "none"
  /\ Hold(c, u, "none") /\ UNCHANGED answer

\* Is anyone on the up side, that is, writing?
Ask(c, u) ==
  /\ Answer(u, IF On(c, "up") # {} THEN "yes" ELSE "no")
  /\ UNCHANGED held

Next ==
  \E c \in Resources, u \in Users :
    \/ \E s \in SideNames : Enter(c, u, s) \/ Refuse(c, u, s)
    \/ Leave(c, u)
    \/ Ask(c, u)

Spec == Init /\ [][Next]_vars
=============================================================================
