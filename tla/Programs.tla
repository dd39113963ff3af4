------------------------------ MODULE Programs ------------------------------
(***************************************************************************)
(* The programs that use the files of /proc: the shell (cmd/main.c), which *)
(* looks a program up in PATH and starts it, and the loader (sloader/      *)
(* main.c), which it may start and which writes programs.                  *)
(*                                                                         *)
(* Each call of a server is a step; other programs come between two of     *)
(* them.  The tasks that main of the shell starts to try calls of the      *)
(* kernel out touch none of this.  Of the server there is what ProcServer  *)
(* shows of it: a file stays while somebody holds it, an open with O_CREAT *)
(* makes it, and a directory of a file's path hides it from every open.    *)
(* Any call may fail besides, also the open of a file that is there.       *)
(***************************************************************************)
EXTENDS Naturals, Sequences

CONSTANTS
  PATH,      \* directories of PATH, in order
  Name,      \* names of programs (bounds the commands)
  Empty,     \* the first word of an empty line, which names no file
  Long,      \* first words of lines that outgrow cmd[32] or the buffer
  MaxFd,     \* descriptors a process may have
  Pid,       \* ids of processes
  Null       \* no file, no descriptor, no process

\* /proc/user/test, which a command that ends with '>' sends its output to.
Output == <<"user", "test">>

Dirs  == {PATH[i] : i \in DOMAIN PATH}
Files == (Dirs \X Name) \cup {Output}

\* The first words of lines.
Words == Name \cup Long \cup {Empty}

ASSUME ProgramsAssumption ==
  /\ PATH \in Seq(STRING) /\ Len(PATH) > 0 /\ Output[1] \in Dirs
  /\ MaxFd \in Nat /\ Empty \notin Name
  /\ Null \notin Pid \cup Nat \cup Files
  /\ Null \notin [name : Words, wait : BOOLEAN, redirect : BOOLEAN]

VARIABLES
  exists,   \* files there are
  hidden,   \* paths of files that are directories' too
  table,    \* the shell's descriptors: the file behind each number, or Null
  pc,       \* where the shell is
  cmd,      \* its command, [name, wait, redirect]
  turn,     \* the directory of PATH it tries
  fd, r_fd, \* Exec's descriptors, Null for -1
  said,     \* what the last command came to
  steady,   \* history: directories that have shown the program since the search began
  refused,  \* history: directories of the search where an open failed all the same
  outputs,  \* history: numbers that redirections have opened
  running,  \* processes
  child,    \* the process the shell waits for, or Null
  loader,   \* where the loader is
  loading   \* the file it holds, or Null

files  == <<exists, hidden>>
shell  == <<table, pc, cmd, turn, fd, r_fd, said, steady, refused, outputs, running, child>>
load   == <<loader, loading>>
vars   == <<files, shell, load>>

Init ==
  /\ exists \in {{}, {<<PATH[1], n>> : n \in Name}} /\ hidden = {}
  /\ table = [n \in 1..MaxFd |-> Null]
  /\ pc = "prompt" /\ cmd = Null /\ turn = 1
  /\ fd = Null /\ r_fd = Null
  /\ said = "none" /\ steady = {} /\ refused = {} /\ outputs = {}
  /\ running = {} /\ child = Null
  /\ loader = "idle" /\ loading = Null

(***************************************************************************)
(* Exec and main of the shell.                                             *)
(***************************************************************************)
\* open gives a number that is free, whichever.
Free == {n \in 1..MaxFd : table[n] = Null}

\* close of a number that is not open does nothing.
Closed(n) == [table EXCEPT ![n] = Null]

\* What the server finds at a path.
Shown == exists \ hidden

Has(name) == {d \in Dirs : <<d, name>> \in Shown}

\* A line that is no command of the shell: '&' and '>' exclude each other.  Those of
\* an empty line are read, and cut off, before the buffer; a long first word is
\* copied past the end of cmd: the shell may die of either.
Command(word, wait, redirect) ==
  /\ pc = "prompt" /\ (redirect => wait)
  /\ \/ pc' = "search"
     \/ /\ word \in Long \/ (word = Empty /\ (redirect \/ ~wait))
        /\ pc' = "fault"
  /\ turn' = 1
  /\ cmd' = [name |-> word, wait |-> wait, redirect |-> redirect]
  /\ steady' = Has(word) /\ refused' = {}
  /\ fd' = Null /\ r_fd' = Null /\ said' = "none"
  /\ UNCHANGED <<files, load, table, outputs, running, child>>

KillPid(pid) ==
  /\ pc = "prompt"
  /\ running' = running \ {pid}
  /\ UNCHANGED <<files, load, table, pc, cmd, turn, fd, r_fd, said, steady, refused, outputs, child>>

Exit ==
  /\ pc = "prompt" /\ pc' = "exit"
  /\ UNCHANGED <<files, load, table, cmd, turn, fd, r_fd, said, steady, refused, outputs, running, child>>

Return(ret) == pc' = "prompt" /\ said' = ret

\* Mutant: the last directory is left out.
LastTurnEarly == turn >= Len(PATH) - 1

\* PathGen answers -1 with the last directory.
LastTurn == turn = Len(PATH)

\* open of the path PathGen makes: it may fail whatever there is.
Search ==
  /\ pc = "search"
  /\ LET f == <<PATH[turn], cmd.name>>
     IN  \/ /\ f \in Shown
            /\ \E n \in Free : fd' = n /\ table' = [table EXCEPT ![n] = f]
            /\ pc' = "seek"
            /\ UNCHANGED <<turn, said, refused>>
         \/ /\ refused' = IF f \in Shown THEN refused \cup {PATH[turn]} ELSE refused
            /\ \/ LastTurn /\ Return("not_found") /\ UNCHANGED turn
               \/ ~LastTurn /\ turn' = turn + 1 /\ UNCHANGED <<pc, said>>
            /\ UNCHANGED <<fd, table>>
  /\ UNCHANGED <<files, load, cmd, r_fd, steady, outputs, running, child>>

GiveUp(ret) == Return(ret) /\ table' = Closed(fd)

\* lseek to the end, for the size.
Seek ==
  /\ pc = "seek"
  /\ \/ pc' = "mmap" /\ UNCHANGED <<table, said>>
     \/ GiveUp("not_valid")
  /\ UNCHANGED <<files, load, cmd, turn, fd, r_fd, steady, refused, outputs, running, child>>

MapElf ==
  /\ pc = "mmap"
  /\ \/ /\ pc' = IF cmd.redirect THEN "redirect" ELSE "spawn"
        /\ UNCHANGED <<table, said>>
     \/ GiveUp("not_loaded")
  /\ UNCHANGED <<files, load, cmd, turn, fd, r_fd, steady, refused, outputs, running, child>>

\* The outcome of this open is not looked at, but that of the first.  One that
\* fails may have made the file.
Redirect ==
  /\ pc = "redirect" /\ pc' = "truncate"
  /\ \/ /\ Output \notin hidden
        /\ \E n \in Free :
             /\ r_fd' = n /\ table' = [table EXCEPT ![n] = Output]
             /\ outputs' = outputs \cup {n}
        /\ exists' = exists \cup {Output}
     \/ /\ r_fd' = Null
        /\ exists' \in {exists, exists \cup {Output}}
        /\ UNCHANGED <<table, outputs>>
  /\ UNCHANGED <<hidden, load, cmd, turn, fd, said, steady, refused, running, child>>

\* Mutant: when it fails, the file is opened again.
TruncateRetry ==
  /\ pc = "truncate"
  /\ \/ r_fd # Null /\ pc' = "spawn"
     \/ r_fd = Null /\ pc' = "redirect"
  /\ UNCHANGED <<files, load, table, cmd, turn, fd, r_fd, said, steady, refused, outputs, running, child>>

\* When it fails, the program's descriptor is closed, and Exec goes on.
Truncate ==
  /\ pc = "truncate" /\ pc' = "spawn"
  /\ \/ r_fd # Null /\ UNCHANGED table
     \/ table' = Closed(fd)
  /\ UNCHANGED <<files, load, cmd, turn, fd, r_fd, said, steady, refused, outputs, running, child>>

\* Mutant: whatever Exec opened last is closed.
SpawnClosingLast ==
  /\ pc = "spawn"
  /\ table' = Closed(IF r_fd # Null THEN r_fd ELSE fd)
  /\ Return("not_executed")
  /\ UNCHANGED <<files, load, cmd, turn, fd, r_fd, steady, refused, outputs, running, child>>

\* Spawn, and the close of the program, which may be closed already.
Spawn ==
  /\ pc = "spawn"
  /\ table' = Closed(fd)
  /\ \/ Return("not_executed") /\ UNCHANGED <<running, child>>
     \/ \E pid \in Pid \ running :
          /\ running' = running \cup {pid}
          /\ \/ cmd.wait /\ child' = pid /\ pc' = "wait" /\ UNCHANGED said
             \/ ~cmd.wait /\ Return("created") /\ UNCHANGED child
  /\ UNCHANGED <<files, load, cmd, turn, fd, r_fd, steady, refused, outputs>>

\* WaitPid returns.
Waited ==
  /\ pc = "wait" /\ child \notin running
  /\ Return("created") /\ child' = Null
  /\ UNCHANGED <<files, load, table, cmd, turn, fd, r_fd, steady, refused, outputs, running>>

ProcessEnds(pid) ==
  /\ pid \in running
  /\ running' = running \ {pid}
  /\ UNCHANGED <<files, load, table, pc, cmd, turn, fd, r_fd, said, steady, refused, outputs, child>>

Exec == Search \/ Seek \/ MapElf \/ Redirect \/ Truncate \/ Spawn \/ Waited

(***************************************************************************)
(* The loader: LoadFile.                                                   *)
(***************************************************************************)
\* main and LoaderTask, in a process of its own, come to open(O_CREAT).
LoadOpen(f) ==
  /\ loader = "idle" /\ f \notin hidden
  /\ loader' = "truncate" /\ loading' = f
  /\ exists' = exists \cup {f}
  /\ UNCHANGED <<hidden, shell>>

\* ftruncate, mmap, and the read of the terminal; each step may fail, and
\* whatever comes of it the file is closed.
LoadStep ==
  /\ loader \in {"truncate", "mmap", "read"}
  /\ \/ /\ loader' = CASE loader = "truncate" -> "mmap"
                       [] loader = "mmap" -> "read"
                       [] loader = "read" -> "idle"
        /\ loading' = IF loader = "read" THEN Null ELSE loading
     \/ /\ loader # "read"
        /\ loader' = "idle" /\ loading' = Null
  /\ UNCHANGED <<files, shell>>

(***************************************************************************)
(* The other programs.                                                     *)
(***************************************************************************)
Create(f) ==
  /\ f \notin hidden
  /\ exists' = exists \cup {f}
  /\ UNCHANGED <<hidden, shell, load>>

\* The program goes, or out of sight.
Missed(f) == steady' = IF cmd # Null /\ f[2] = cmd.name THEN steady \ {f[1]} ELSE steady

\* A file is made below f, whether f is there or not: f is a directory from then on.
CreateBelow(f) ==
  /\ hidden' = hidden \cup {f}
  /\ Missed(f)
  /\ UNCHANGED <<exists, load, table, pc, cmd, turn, fd, r_fd, said, refused, outputs, running, child>>

\* The server refuses to delete a file that the shell or the loader holds.
Delete(f) ==
  /\ f \in exists /\ f # loading
  /\ \A n \in 1..MaxFd : table[n] # f
  /\ exists' = exists \ {f}
  /\ Missed(f)
  /\ UNCHANGED <<hidden, load, table, pc, cmd, turn, fd, r_fd, said, refused, outputs, running, child>>

Next ==
  \/ Exec \/ Exit \/ LoadStep
  \/ \E word \in Words, wait, redirect \in BOOLEAN : Command(word, wait, redirect)
  \/ \E pid \in Pid : KillPid(pid) \/ ProcessEnds(pid)
  \/ \E f \in Files : LoadOpen(f) \/ Create(f) \/ CreateBelow(f) \/ Delete(f)

\* The shell is scheduled; of a program that it starts nothing is known.
Spec == Init /\ [][Next]_vars /\ WF_vars(Exec)
-----------------------------------------------------------------------------
\* cmd/main.c:113-178: at the prompt, of all the descriptors that Exec opens the
\* shell has those of its redirections and no other: whatever call failed, each
\* program is closed, and closing one twice closes nothing else.
TableAtPrompt ==
  pc = "prompt" =>
    /\ {n \in 1..MaxFd : table[n] # Null} = outputs
    /\ \A n \in outputs : table[n] = Output

\* cmd/main.c:116-132: "File %s not found" is said of a program only after each
\* directory of PATH, at some moment of this search, lacked it, had a directory of
\* its path in front of it, or had it and the open at its turn failed all the same.
NotFoundMeansNone ==
  pc = "prompt" /\ said = "not_found" => steady \subseteq refused

\* The shell waits for a process that has not ended.
Waiting == pc = "wait" /\ child \in running

\* cmd/main.c:90-194, 392-418: whatever calls fail, a command comes back to the
\* prompt, or to waiting for a process, for as long as that one runs.
PromptReturns == pc # "prompt" ~> pc \in {"prompt", "exit", "fault"} \/ Waiting
=============================================================================
