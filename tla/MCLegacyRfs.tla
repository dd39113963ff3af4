---------------------------- MODULE MCLegacyRfs ----------------------------
(***************************************************************************)
(* A small instance of LegacyRfs: an image of two files of one name, the   *)
(* other one empty.                                                        *)
(***************************************************************************)
EXTENDS LegacyRfs, TLC

CONSTANTS c1, c2

Abs(comps) == [abs |-> TRUE, comps |-> comps]
Rel(comps) == [abs |-> FALSE, comps |-> comps]

SomeImage == <<[name |-> "a", size |-> 2], [name |-> "a", size |-> 1], [name |-> "b", size |-> 0]>>

\* A file of the image, with memory and without, one that is not there yet, in
\* directories that are not there either and below a file, a directory, a path that
\* ends with '/', one without '/', which is a text, and the empty path.
SomePaths ==
  {Abs(<<"boot", "a">>), Abs(<<"boot", "b">>), Abs(<<"sys", "x", "y">>),
   Abs(<<"boot">>), Abs(<<"boot", "">>), Rel(<<"sys">>), Rel(<<"">>)}

Clients == Permutations({c1, c2})
=============================================================================
