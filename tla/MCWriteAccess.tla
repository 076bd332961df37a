----------------------------- MODULE MCWriteAccess -----------------------------
(* Three users, so that two hold one side, or two race, while a third one     *)
(* comes between; and the sides that the two counters implement.              *)
EXTENDS Integers, TLC

CONSTANTS Users
VARIABLES value, held, call, answer

Access == INSTANCE WriteAccess
TwoSides == INSTANCE Sides WITH Resources <- Access!Counters

ASSUME AccessAssumption == Access!WriteAccessAssumption

Interchangeable == Permutations(Users)

AccessSpec == Access!Spec
-----------------------------------------------------------------------------
CountsOneSide == Access!CountsOneSide

\* The calls that return -ETXTBSY, -EPERM or -EBUSY, and the tests, answer for
\* what is held at that moment: the counters implement the two sides.
ImplementsSides == TwoSides!Spec
=============================================================================
