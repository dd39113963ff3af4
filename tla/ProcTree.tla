------------------------------ MODULE ProcTree ------------------------------
(***************************************************************************)
(* Path resolution of the proc server (proc/proc.c), on paths cut at '/'.  *)
(*                                                                         *)
(* A path string is the sequence of its components after one optional      *)
(* leading '/': "/boot/ls" and "boot/ls" are <<"boot","ls">>, "" is <<>>,  *)
(* "/" is <<"">>, "/boot/" is <<"boot","">>.  A directory is named by its  *)
(* path from the root and the tree is the set of these names; the root is  *)
(* <<>>.  Module PathWalk checks this view against the pointer loop of     *)
(* ProcPathResolve, character by character.                                *)
(***************************************************************************)
EXTENDS Naturals, Sequences, SequencesExt

CONSTANT NoName   \* the name without characters, between two '/' or after the last

(***************************************************************************)
(* How many components ProcPathResolve consumes: it descends while the     *)
(* next component names a subdirectory of the directory it is in.          *)
(***************************************************************************)
Resolved(dirs, path) ==
  CHOOSE k \in 0..Len(path) :
    /\ \A i \in 0..k : SubSeq(path, 1, i) \in dirs
    /\ k < Len(path) => SubSeq(path, 1, k + 1) \notin dirs

\* ProcPathResolve leaves *remaining == NULL: the whole path is a directory.
Consumed(dirs, path) == Resolved(dirs, path) = Len(path)

\* The directories ProcPathResolve goes through, the one it returns included.
Walked(dirs, path) == {SubSeq(path, 1, i) : i \in 0..Resolved(dirs, path)}

\* "Last character has to be different from '/'" (ProcFileGet, ProcFileCreate).
EndsInSlash(path) == path # <<>> /\ Last(path) = NoName

\* Mutant: the name is searched in the root, wherever it is.
LeavesOneName(dirs, path) == path # <<>> /\ Resolved(dirs, path) = 0

\* Exactly one component is left, the one a file of the parent may have.
LeavesFileName(dirs, path) ==
  /\ path # <<>>
  /\ ~EndsInSlash(path)
  /\ Resolved(dirs, path) = Len(path) - 1

\* Mutant: the file's own directory is left out.
WithGrandparents(dirs, path) == dirs \cup {SubSeq(path, 1, i) : i \in 0..(Len(path) - 2)}

\* ProcFileCreate creates the missing directories on the way to the file.
WithParents(dirs, path) == dirs \cup {SubSeq(path, 1, i) : i \in 0..(Len(path) - 1)}

\* A tree: it has the root, and the parent of each directory but the root.
IsTree(dirs) == <<>> \in dirs /\ \A d \in dirs : d # <<>> => Front(d) \in dirs
=============================================================================
