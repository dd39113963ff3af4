------------------------------- MODULE RawFs -------------------------------
(***************************************************************************)
(* rawfs (rawfs/main.c): a shell that keeps files in a doubly linked list, *)
(* loads them from the terminal and runs them.  It is one task: a command  *)
(* is one step, but for the wait of exec, during which processes end.      *)
(***************************************************************************)
EXTENDS Naturals, Sequences, FiniteSets, SequencesExt

CONSTANTS
  Block,     \* addresses malloc may give a file_t
  Null,      \* the NULL pointer
  Name,      \* names of files (bounds the commands)
  Size,      \* sizes of files (bounds the commands)
  Pid,       \* ids of processes
  MaxLoads   \* bound on the counter of files, which nothing counts down

ASSUME RawFsAssumption ==
  /\ IsFiniteSet(Block) /\ Null \notin Block \cup Pid
  /\ Size \subseteq Nat
  /\ MaxLoads \in Nat

VARIABLES
  files,        \* fileSystem.files
  first, last,  \* fileSystem.first and last
  file,         \* file_t of each block: Null when it is not allocated
  data,         \* the blocks whose data is mapped
  running,      \* processes
  waiting,      \* the process exec waits for, or Null
  said,         \* what the last command came to
  shell         \* "prompt", "wait", "exit", or "aborted"

fileSystem == <<files, first, last>>
store == <<fileSystem, file, data>>
vars == <<store, running, waiting, said, shell>>

Init ==
  /\ files = 0 /\ first = Null /\ last = Null
  /\ file = [b \in Block |-> Null] /\ data = {}
  /\ running = {} /\ waiting = Null
  /\ said = [cmd |-> "none", ret |-> "none", size |-> 0]
  /\ shell = "prompt"

Say(cmd, ret, size) == said' = [cmd |-> cmd, ret |-> ret, size |-> size]

(***************************************************************************)
(* The list.                                                               *)
(***************************************************************************)
Allocated == {b \in Block : file[b] # Null}

\* The blocks met from at on, until NULL or every block has had its turn.
Chain(at, link) ==
  LET hop[n \in 1..Cardinality(Block)] ==
        IF n = 1 THEN at ELSE IF hop[n - 1] = Null THEN Null ELSE link[hop[n - 1]]
  IN  SubSeq(hop, 1, Cardinality({n \in 1..Cardinality(Block) : hop[n] # Null}))

Forward  == Chain(first, [b \in Allocated |-> file[b].next])
Backward == Chain(last, [b \in Allocated |-> file[b].prev])

\* Mutant: the newest file of the name is found.
SearchNewest(name) ==
  LET found == SelectLastInSeq(Forward, LAMBDA b : file[b].name = name)
  IN  IF files = 0 \/ found = 0 THEN Null ELSE Forward[found]

\* FsSearchFile: the first file of that name, if any was ever added.
FsSearchFile(name) ==
  LET found == SelectInSeq(Forward, LAMBDA b : file[b].name = name)
  IN  IF files = 0 \/ found = 0 THEN Null ELSE Forward[found]

\* Mutant: the new file does not point back.
AddForward(b, new) ==
  /\ files' = files + 1
  /\ last' = b
  /\ first' = IF first = Null THEN b ELSE first
  /\ file' = IF first = Null THEN [file EXCEPT ![b] = new]
             ELSE [file EXCEPT ![last].next = b, ![b] = new]

\* FsAddFile: at the end.
FsAddFile(b, new) ==
  /\ files' = files + 1
  /\ last' = b
  /\ IF first = Null
     THEN first' = b /\ file' = [file EXCEPT ![b] = new]
     ELSE /\ file' = [file EXCEPT ![last].next = b, ![b] = [new EXCEPT !.prev = last]]
          /\ UNCHANGED first

\* Mutant: the file after the removed one keeps pointing back to it.
RemoveForward(b) ==
  LET f == file[b]
  IN  /\ first' = IF b = first THEN f.next ELSE first
      /\ last' = IF b = last THEN f.prev ELSE last
      /\ file' = [a \in Block |->
                    IF a = b THEN Null
                    ELSE IF b # first /\ a = f.prev THEN [file[a] EXCEPT !.next = f.next]
                    ELSE file[a]]
      /\ UNCHANGED files

\* FsRemoveFile of a file that is there, and DestroyFile's free.  The counter
\* is not counted down.
FsRemoveFile(b) ==
  LET f == file[b]
  IN  /\ first' = IF b = first THEN f.next ELSE first
      /\ last' = IF b = last THEN f.prev ELSE last
      /\ file' = [a \in Block |->
                    IF a = b THEN Null
                    ELSE IF b # first /\ a = f.prev THEN [file[a] EXCEPT !.next = f.next]
                    ELSE IF b # last /\ a = f.next THEN [file[a] EXCEPT !.prev = f.prev]
                    ELSE file[a]]
      /\ UNCHANGED files

(***************************************************************************)
(* Commands.                                                               *)
(***************************************************************************)
Prompt == shell = "prompt"

\* Mutant: a file of no bytes is loaded.
ValidAny(size) == TRUE

Valid(size) == size # 0

\* Mutant: the block is kept.
FreeNot(taken, b) == taken

Free(taken, b) == [taken EXCEPT ![b] = Null]

\* LoadFile.  The size is what strtoul makes of the text after the name, which
\* is an earlier command's when this one gives none: it may be any.  A size of
\* 0 is refused, and malloc may fail; when mmap fails the block that malloc gave
\* is freed.  SerialLoad always returns E_OK, so that the branch that would
\* leave a file unlisted is never taken, and a name that exists is loaded again.
LoadFile(name, size) ==
  /\ Prompt
  /\ \/ Say("load", "E_ERROR", 0) /\ UNCHANGED store
     \/ /\ Valid(size)
        /\ \E b \in Block :
             /\ file[b] = Null
             /\ LET new == [name |-> name, size |-> size, next |-> Null, prev |-> Null]
                IN  file' = Free([file EXCEPT ![b] = new], b)
        /\ Say("load", "E_ERROR", 0) /\ UNCHANGED <<fileSystem, data>>
     \/ /\ Valid(size) /\ files < MaxLoads
        /\ \E b \in Block :
             /\ file[b] = Null
             /\ FsAddFile(b, [name |-> name, size |-> size, next |-> Null, prev |-> Null])
             /\ data' = data \cup {b}
        /\ Say("load", "E_OK", size)
  /\ UNCHANGED <<running, waiting, shell>>

\* Mutant: the data stays mapped.
DestroyBlock(b) == UNCHANGED data

DestroyFile(b) == data' = data \ {b}

DeleteFile(name) ==
  /\ Prompt
  /\ LET b == FsSearchFile(name)
     IN  \/ b = Null /\ Say("delete", "E_ERROR", 0) /\ UNCHANGED store
         \/ /\ b # Null
            /\ FsRemoveFile(b) /\ DestroyFile(b)
            /\ Say("delete", "E_OK", file[b].size)
  /\ UNCHANGED <<running, waiting, shell>>

ListFiles ==
  /\ Prompt
  /\ Say("ls", "E_OK", 0)
  /\ UNCHANGED <<store, running, waiting, shell>>

ListFile(name) ==
  /\ Prompt
  /\ LET b == FsSearchFile(name)
     IN  \/ b = Null /\ Say("ls", "E_ERROR", 0)
         \/ b # Null /\ Say("ls", "E_OK", file[b].size)
  /\ UNCHANGED <<store, running, waiting, shell>>

\* Exec.  wait is whether the command ends without '&'.  The file may be missing
\* and Spawn may fail.
Exec(name, wait) ==
  /\ Prompt
  /\ LET b == FsSearchFile(name)
     IN  \/ /\ Say("exec", "E_ERROR", 0)
            /\ UNCHANGED <<running, waiting, shell>>
         \/ /\ b # Null
            /\ \E pid \in Pid \ running :
                 /\ running' = running \cup {pid}
                 /\ waiting' = IF wait THEN pid ELSE Null
            /\ shell' = IF wait THEN "wait" ELSE "prompt"
            /\ Say("exec", "E_OK", file[b].size)
  /\ UNCHANGED store

\* WaitPid returns.
Waited ==
  /\ shell = "wait" /\ waiting \notin running
  /\ shell' = "prompt" /\ waiting' = Null
  /\ UNCHANGED <<store, running, said>>

ProcessEnds(pid) ==
  /\ pid \in running
  /\ running' = running \ {pid}
  /\ UNCHANGED <<store, waiting, said, shell>>

KillPid(pid) ==
  /\ Prompt
  /\ running' = running \ {pid}
  /\ Say("other", "E_OK", 0)
  /\ UNCHANGED <<store, waiting, shell>>

\* info, sleep, search (which has no handler), and a word that is no command.
OtherCommand ==
  /\ Prompt
  /\ Say("other", "E_OK", 0)
  /\ UNCHANGED <<store, running, waiting, shell>>

\* exit, abort, and a memtest beyond the stack.
Leave ==
  /\ Prompt
  /\ shell' \in {"exit", "aborted"}
  /\ UNCHANGED <<store, running, waiting, said>>

Next ==
  \/ \E name \in Name, size \in Size : LoadFile(name, size)
  \/ \E name \in Name : DeleteFile(name) \/ ListFile(name)
  \/ \E name \in Name, wait \in BOOLEAN : Exec(name, wait)
  \/ ListFiles \/ OtherCommand \/ Leave \/ Waited
  \/ \E pid \in Pid : ProcessEnds(pid) \/ KillPid(pid)

Spec == Init /\ [][Next]_vars
-----------------------------------------------------------------------------
File == [name : Name, size : Size \ {0}, next : Block \cup {Null}, prev : Block \cup {Null}]

ASSUME NullAssumption == Null \notin File

\* Type correctness of every variable.
TypeOK ==
  /\ files \in 0..MaxLoads
  /\ first \in Block \cup {Null} /\ last \in Block \cup {Null}
  /\ file \in [Block -> File \cup {Null}] /\ data \subseteq Block
  /\ running \subseteq Pid /\ waiting \in Pid \cup {Null}
  /\ said \in [cmd : {"none", "load", "delete", "ls", "exec", "other"},
               ret : {"none", "E_OK", "E_ERROR"}, size : Size \cup {0}]
  /\ shell \in {"prompt", "wait", "exit", "aborted"}

\* rawfs/main.c:74-135: whatever is loaded and deleted, the list read from last
\* to first is the list read from first to last.
LinksAgree == Backward = Reverse(Forward)

\* rawfs/main.c:22-64, 236: memory is held for the files that are listed and for
\* no other: what could not be loaded and what was deleted is given back.
NoLeak == Allocated = ToSet(Forward) /\ data = Allocated

Promise == INSTANCE Listing WITH
  listing <- [i \in DOMAIN Forward |->
                [name |-> file[Forward[i]].name, size |-> file[Forward[i]].size]]

\* rawfs/main.c: through blocks, links and the counter, each command does to the
\* files what it promises, and finds the oldest file of a name.
ImplementsListing == Promise!Spec
=============================================================================
