----------------------------- MODULE MCKernelList -----------------------------
(* Three entries and two lists: enough for a list that is empty, has one     *)
(* entry, has two that are neighbours both ways, and has an inner entry.     *)
EXTENDS KernelListProperties, TLC

CONSTANTS e1, e2, e3, h1, h2

MCEntries == {e1, e2, e3}
MCHeads   == {h1, h2}

Symmetry == Permutations(MCEntries) \cup Permutations(MCHeads)
=============================================================================
