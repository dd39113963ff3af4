----------------------------- MODULE MCPrograms -----------------------------
(***************************************************************************)
(* A small instance of Programs: one program, two descriptors.           *)
(***************************************************************************)
EXTENDS Programs

CONSTANTS p1, p2

SomePATH == <<"proc", "user">>
=============================================================================
