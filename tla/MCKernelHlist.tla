---------------------------- MODULE MCKernelHlist ----------------------------
(* Four nodes and two heads: first, inner and last nodes, and a list to move *)
(* to another head while a node is fake or unhashed.                         *)
EXTENDS KernelHlistProperties

CONSTANTS n1, n2, n3, n4, h1, h2

MCNodes == {n1, n2, n3, n4}
MCHeads == {h1, h2}
=============================================================================
