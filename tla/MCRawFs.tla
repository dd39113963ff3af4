------------------------------ MODULE MCRawFs ------------------------------
(***************************************************************************)
(* A small instance of RawFs: three blocks, two names, two processes.      *)
(***************************************************************************)
EXTENDS RawFs

CONSTANTS b1, b2, b3, n1, n2, p1, p2

\* malloc may give any block and the kernel any id.
Symmetry == Permutations(Block) \cup Permutations(Pid) \cup Permutations(Name)
=============================================================================
