------------------------------ MODULE PathWalk ------------------------------
(***************************************************************************)
(* The pointer loops of proc.c on one path string: ProcPathResolve, then   *)
(* what ProcFileGet or ProcFileCreate make of the parent and the remaining *)
(* characters it returns.  One step is one turn of a loop.  The results    *)
(* must be those of module ProcTree, which works on the components.        *)
(*                                                                         *)
(* Offsets into the string stand for the pointers.                         *)
(***************************************************************************)
EXTENDS Integers, Sequences, SequencesExt

CONSTANTS
  Chars,         \* the characters of paths, '/' among them
  PathStrings,   \* the paths walked
  Trees          \* the directory trees walked in

\* A name is a string without '/' or NUL; between "//" it has no characters.
INSTANCE ProcTree WITH NoName <- <<>>

NUL == ""

ASSUME PathAssumption ==
  /\ NUL \notin Chars
  /\ PathStrings \subseteq Seq(Chars)
  /\ \A t \in Trees : IsTree(t)

Unset == -2      \* an uninitialised char* remaining
NULL  == -1

VARIABLES
  path,       \* the string
  op,         \* "get" for ProcFileGet, "create" for ProcFileCreate
  tree,       \* the directories before the call
  dirs,       \* the directories now
  parent,     \* directory reached
  ptr,        \* ProcPathResolve's cursor
  remaining,  \* where the unresolved part begins
  pc,         \* "check", "resolve", "create" or how the call ended
  name        \* the file name left at the end

vars == <<path, op, tree, dirs, parent, ptr, remaining, pc, name>>

\* path[i], up to the terminating NUL.
Char(i) == IF i < Len(path) THEN path[i + 1] ELSE NUL

\* The length of the name at i: up to the next '/' or NUL.
NameLen(i) ==
  CHOOSE n \in 0..(Len(path) - i) :
    /\ Char(i + n) \in {NUL, "/"}
    /\ \A k \in 0..(n - 1) : Char(i + k) \notin {NUL, "/"}

NameAt(i) == SubSeq(path, i + 1, i + NameLen(i))

Init ==
  /\ path \in PathStrings
  /\ op \in {"get", "create"}
  /\ tree \in Trees
  /\ dirs = tree
  /\ parent = <<>>
  /\ ptr = 0
  /\ remaining = Unset
  /\ pc = "check"
  /\ name = <<>>

\* Mutant: the last character is not looked at.
CheckNothing ==
  /\ pc = "check"
  /\ pc' = "resolve"
  /\ UNCHANGED <<path, op, tree, dirs, parent, ptr, remaining, name>>

\* "Last character has to be different from '/'"; for "" the character read is
\* the one before the buffer and may be anything.
Check ==
  /\ pc = "check"
  /\ \/ path = <<>> /\ pc' \in {"none", "resolve"}
     \/ path # <<>> /\ pc' = IF Char(Len(path) - 1) = "/" THEN "none" ELSE "resolve"
  /\ UNCHANGED <<path, op, tree, dirs, parent, ptr, remaining, name>>

\* How the caller goes on from the remaining pointer.
Resume(rest) ==
  IF rest = NULL THEN IF op = "create" THEN "fault" ELSE "none"
  ELSE IF op = "create" THEN IF Char(rest) = NUL THEN "none" ELSE "create"
  ELSE IF \E i \in rest..(Len(path) - 1) : Char(i) = "/" THEN "none" ELSE "file"

Leave(rest) ==
  /\ remaining' = rest
  /\ pc' = Resume(rest)
  /\ name' = IF pc' = "file" THEN SubSeq(path, rest + 1, Len(path)) ELSE <<>>
  /\ UNCHANGED <<parent, ptr>>

\* Mutant: the '/' before a name is not skipped.
ResolveUnskipped ==
  /\ pc = "resolve"
  /\ LET child == Append(parent, NameAt(ptr))
     IN  \/ Char(ptr) = NUL /\ Leave(NULL)
         \/ /\ Char(ptr) # NUL /\ child \in dirs
            /\ parent' = child
            /\ ptr' = ptr + NameLen(ptr)
            /\ UNCHANGED <<remaining, pc, name>>
         \/ Char(ptr) # NUL /\ child \notin dirs /\ Leave(ptr)
  /\ UNCHANGED <<path, op, tree, dirs>>

\* One turn of the while of ProcPathResolve.
Resolve ==
  /\ pc = "resolve"
  /\ LET at    == IF Char(ptr) = "/" THEN ptr + 1 ELSE ptr
         stuck == Char(ptr) \notin {NUL, "/"} /\ ptr # 0
         child == Append(parent, NameAt(at))
     IN  \/ Char(ptr) = NUL /\ Leave(NULL)
         \/ /\ Char(ptr) # NUL /\ ~stuck /\ child \in dirs
            /\ parent' = child
            /\ ptr' = at + NameLen(at)
            /\ UNCHANGED <<remaining, pc, name>>
         \/ /\ stuck \/ (Char(ptr) # NUL /\ child \notin dirs)
            /\ Leave(IF stuck THEN ptr ELSE at)
  /\ UNCHANGED <<path, op, tree, dirs>>

\* Mutant: parent = current left out of the loop of ProcFileCreate.
CreateInPlace ==
  /\ pc = "create"
  /\ LET end == remaining + NameLen(remaining)
     IN  \/ /\ Char(end) = NUL
            /\ pc' = "file" /\ name' = NameAt(remaining)
            /\ UNCHANGED <<dirs, parent, remaining>>
         \/ /\ Char(end) = "/"
            /\ dirs' = dirs \cup {Append(parent, NameAt(remaining))}
            /\ remaining' = end + 1
            /\ UNCHANGED <<parent, pc, name>>
  /\ UNCHANGED <<path, op, tree, ptr>>

\* Mutant: a directory without a name is not made, and its '/' not passed.
CreateNamedOnly ==
  /\ pc = "create"
  /\ LET end == remaining + NameLen(remaining)
     IN  \/ /\ Char(end) = NUL
            /\ pc' = "file" /\ name' = NameAt(remaining)
            /\ UNCHANGED <<dirs, parent, remaining>>
         \/ /\ Char(end) = "/" /\ end # remaining
            /\ parent' = Append(parent, NameAt(remaining))
            /\ dirs' = dirs \cup {parent'}
            /\ remaining' = end + 1
            /\ UNCHANGED <<pc, name>>
         \/ /\ Char(end) = "/" /\ end = remaining
            /\ UNCHANGED <<dirs, parent, remaining, pc, name>>
  /\ UNCHANGED <<path, op, tree, ptr>>

\* One turn of the while of ProcFileCreate, a call of ProcDirectoryCreate.
Create ==
  /\ pc = "create"
  /\ LET end == remaining + NameLen(remaining)
     IN  \/ /\ Char(end) = NUL
            /\ pc' = "file" /\ name' = NameAt(remaining)
            /\ UNCHANGED <<dirs, parent, remaining>>
         \/ /\ Char(end) = "/"
            /\ parent' = Append(parent, NameAt(remaining))
            /\ dirs' = dirs \cup {parent'}
            /\ remaining' = end + 1
            /\ UNCHANGED <<pc, name>>
  /\ UNCHANGED <<path, op, tree, ptr>>

Ended == pc \in {"none", "file", "fault"}

Next == Check \/ Resolve \/ Create

\* The call runs in the server's only task and nothing blocks it.
Spec == Init /\ [][Next]_vars /\ WF_vars(Next)
-----------------------------------------------------------------------------
\* The path without a leading '/', cut at each '/': the k-th entry has the names
\* of the first k characters, of which the last may go on.
Body(string) == IF string # <<>> /\ string[1] = "/" THEN Tail(string) ELSE string

Split(string) ==
  LET names[k \in 0..Len(string)] ==
        IF k = 0 THEN << <<>> >>
        ELSE IF string[k] = "/" THEN Append(names[k - 1], <<>>)
        ELSE Append(Front(names[k - 1]), Append(Last(names[k - 1]), string[k]))
  IN  names

\* The components of a path string, as ProcTree has them.
Components(string) ==
  IF string = <<>> THEN <<>> ELSE Split(Body(string))[Len(Body(string))]

\* The names of the first i characters, from where the body starts.
Start(string) == Len(string) - Len(Body(string))

Cut(string, i) == Split(Body(string))[i - Start(string)]

\* proc.c:186-244 and 312-323: the directory the loops stand in exists, and its
\* names are those of the characters before the cursor: all of them where
\* ProcPathResolve looks, and all but the name about to begin where
\* ProcFileCreate does.  A parent that lags behind its cursor, or runs ahead of
\* it, puts a file in another directory than its path says.
WalkFollowsComponents ==
  /\ pc \in {"resolve", "create"} => parent \in dirs
  /\ pc = "resolve" => parent = IF ptr = 0 THEN <<>> ELSE Cut(path, ptr)
  /\ pc = "create" => Append(parent, <<>>) = Cut(path, remaining)

\* proc.c:246-287: ProcFileGet searches a file name in a directory exactly when
\* ProcTree says that one component is left, and it is that name, there.
GetAgrees ==
  Ended /\ op = "get" =>
    LET names == Components(path)
    IN  /\ pc = "file" <=> LeavesFileName(tree, names)
        /\ pc = "file" => Append(parent, name) = names

\* proc.c:289-327: ProcFileCreate makes the directories and the file name that
\* ProcTree says, makes nothing for a path that ends in '/', and reads through
\* a NULL pointer exactly for a path that is a directory.  The empty path is one
\* too, unless the byte before it happens to be a '/'.
CreateAgrees ==
  Ended /\ op = "create" =>
    LET names == Components(path)
    IN  /\ path # <<>> => (pc = "fault" <=> Consumed(tree, names) /\ ~EndsInSlash(names))
        /\ pc = "file" <=> names # <<>> /\ ~EndsInSlash(names) /\ ~Consumed(tree, names)
        /\ dirs = IF pc = "file" THEN WithParents(tree, names) ELSE tree
        /\ pc = "file" => Append(parent, name) = names

\* proc.c:121-143 and 204-236: each turn of a loop moves its cursor on, and never
\* past the terminating NUL.
TurnsAdvance ==
  [][ /\ pc' # "check"
      /\ pc' = "resolve" => \/ pc = "check"
                            \/ pc = "resolve" /\ ptr < ptr' /\ ptr' <= Len(path)
      /\ pc' = "create" => \/ pc = "resolve"
                           \/ pc = "create" /\ remaining < remaining' /\ remaining' <= Len(path) ]_vars

\* proc.c:204-236 and 312-323: no path keeps the loops turning for ever.
WalkEnds == <>Ended
=============================================================================
