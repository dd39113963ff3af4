--------------------------- MODULE ProgramsProofs ---------------------------
(***************************************************************************)
(* Proofs that the shell loses no descriptor but those of its              *)
(* redirections, and that it gives a program up only after every directory *)
(* of PATH has failed it, for any PATH, any number of descriptors and any  *)
(* other programs.                                                         *)
(***************************************************************************)
EXTENDS Programs, TLAPS

\* Exec has opened the program, and has not closed it for the last time...
Holding == pc \in {"seek", "mmap", "redirect", "truncate", "spawn"}

\* ... nor at all.
Opened == pc \in {"seek", "mmap", "redirect"}

TableTyped ==
  /\ DOMAIN table = 1..MaxFd
  /\ turn \in DOMAIN PATH
  /\ exists \subseteq Files
  /\ outputs \subseteq 1..MaxFd
  /\ Holding => fd \in 1..MaxFd

OutputsOpen == \A n \in outputs : table[n] = Output

\* What is open is an output, or the program while Exec is at it.
OthersClosed == \A n \in 1..MaxFd : table[n] # Null => n \in outputs \/ (Holding /\ n = fd)

\* The program's number is nobody else's: closing it, even twice, is harmless.
ProgramApart ==
  /\ Holding => fd \notin outputs
  /\ Opened => table[fd] # Null

\* The inductive invariant.
TableInv == TableTyped /\ OutputsOpen /\ OthersClosed /\ ProgramApart

LEMMA TableInit == Init => TableInv
<1> SUFFICES ASSUME Init PROVE TableInv
  OBVIOUS
<1>1. 1 \in DOMAIN PATH
  BY ProgramsAssumption
<1>2. exists \subseteq Files
  BY <1>1 DEF Init, Files, Dirs
<1> QED
  BY <1>1, <1>2, ProgramsAssumption
     DEF Init, TableInv, TableTyped, OutputsOpen, OthersClosed, ProgramApart, Holding, Opened

USE DEF Holding, Opened, TableTyped, OutputsOpen, OthersClosed, ProgramApart, TableInv

LEMMA SearchKeeps == TableInv /\ Search => TableInv'
<1> SUFFICES ASSUME TableInv, Search PROVE TableInv'
  OBVIOUS
<1> DEFINE f == <<PATH[turn], cmd.name>>
<1>1. Output # Null /\ pc = "search" /\ UNCHANGED exists
  BY ProgramsAssumption DEF Search, Files, files
<1>2. CASE \E n \in Free : fd' = n /\ table' = [table EXCEPT ![n] = f] /\ pc' = "seek"
           /\ UNCHANGED <<turn, cmd, outputs>> /\ f \in Shown
  <2> PICK n \in Free : fd' = n /\ table' = [table EXCEPT ![n] = f]
    BY <1>2
  <2>1. f # Null
    BY <1>2, ProgramsAssumption DEF Shown
  <2> QED
    BY <1>1, <1>2, <2>1 DEF Free
<1>3. CASE UNCHANGED <<table, cmd, outputs>> /\ turn' \in DOMAIN PATH /\ pc' \in {"prompt", "search"}
  BY <1>1, <1>3
<1>4. LastTurn \/ turn + 1 \in DOMAIN PATH
  BY ProgramsAssumption DEF LastTurn
<1> QED
  BY <1>1, <1>2, <1>3, <1>4 DEF Search, Return

LEMMA SeekKeeps == TableInv /\ (Seek \/ MapElf) => TableInv'
  BY DEF Seek, MapElf, GiveUp, Return, Closed, files

LEMMA RedirectKeeps == TableInv /\ Redirect => TableInv'
<1> SUFFICES ASSUME TableInv, Redirect PROVE TableInv'
  OBVIOUS
<1>1. Output # Null /\ exists' \subseteq Files
  BY ProgramsAssumption DEF Files, Redirect
<1>2. ASSUME NEW n \in Free, table' = [table EXCEPT ![n] = Output], outputs' = outputs \cup {n}
      PROVE  TableInv'
  BY <1>1, <1>2 DEF Redirect, Free
<1>3. CASE UNCHANGED <<table, outputs>>
  BY <1>1, <1>3 DEF Redirect
<1> QED
  BY <1>2, <1>3 DEF Redirect

LEMMA TruncateKeeps == TableInv /\ Truncate => TableInv'
  BY DEF Truncate, Closed, files

LEMMA SpawnKeeps == TableInv /\ Spawn => TableInv'
  BY DEF Spawn, Closed, Return, files

\* The other steps leave the table alone.
LEMMA OthersKeep ==
  ASSUME TableInv,
         UNCHANGED <<table, outputs, fd, turn>>, exists' \subseteq Files,
         pc' = pc \/ (~Holding /\ pc' \in {"exit", "prompt"})
  PROVE  TableInv'
  OBVIOUS

LEMMA CommandKeeps ==
  ASSUME TableInv, NEW word \in Words, NEW wait, NEW redirect, Command(word, wait, redirect)
  PROVE  TableInv'
  BY ProgramsAssumption DEF Command, files

LEMMA TableStep == TableInv /\ [Next]_vars => TableInv'
<1> SUFFICES ASSUME TableInv, [Next]_vars PROVE TableInv'
  OBVIOUS
<1>1. CASE Exec
  BY <1>1, SearchKeeps, SeekKeeps, RedirectKeeps, TruncateKeeps, SpawnKeeps, OthersKeep
     DEF Exec, Waited, Return, files
<1>2. CASE \E word \in Words, wait, redirect \in BOOLEAN : Command(word, wait, redirect)
  BY <1>2, CommandKeeps
<1>3. CASE Exit \/ LoadStep
  BY <1>3, OthersKeep DEF Exit, LoadStep, shell, files
<1>4. CASE \E pid \in Pid : KillPid(pid) \/ ProcessEnds(pid)
  BY <1>4, OthersKeep DEF KillPid, ProcessEnds, files
<1>5. CASE \E g \in Files : LoadOpen(g) \/ Create(g) \/ CreateBelow(g) \/ Delete(g)
  BY <1>5, OthersKeep DEF LoadOpen, Create, CreateBelow, Delete, shell
<1>6. CASE UNCHANGED vars
  BY <1>6, OthersKeep DEF vars, shell, files
<1> QED
  BY <1>1, <1>2, <1>3, <1>4, <1>5, <1>6 DEF Next

\* Exec (cmd/main.c:90-194): whatever fails, whoever else runs and however many
\* descriptors there are, at the prompt those of redirections are open, and no other.
THEOREM TableKept == Spec => []TableAtPrompt
<1>1. TableInv => TableAtPrompt
  BY ProgramsAssumption DEF TableAtPrompt, Files
<1>2. Spec => []TableInv
  BY TableInit, TableStep, PTL DEF Spec
<1> QED
  BY <1>1, <1>2, PTL
-----------------------------------------------------------------------------
SearchTyped ==
  /\ steady \subseteq Dirs
  /\ pc = "search" =>
       /\ turn \in 1..Len(PATH)
       /\ cmd \in [name : Words, wait : BOOLEAN, redirect : BOOLEAN]
       /\ steady \subseteq Has(cmd.name)

\* The directories the search has been through did not show the program when it
\* came to them, or refused it.
PassedLack == pc = "search" => \A i \in 1..(turn - 1) : PATH[i] \in steady => PATH[i] \in refused

\* The inductive invariant.
SearchInv == SearchTyped /\ PassedLack /\ NotFoundMeansNone

USE DEF SearchTyped, PassedLack, SearchInv, NotFoundMeansNone

LEMMA PathIndices ==
  /\ Len(PATH) \in Nat /\ Len(PATH) > 0
  /\ \A d \in Dirs : \E i \in 1..Len(PATH) : d = PATH[i]
  BY ProgramsAssumption DEF Dirs

LEMMA SearchInit == Init => SearchInv
  BY DEF Init

LEMMA CommandSearches ==
  ASSUME SearchInv, NEW word \in Words, NEW wait \in BOOLEAN, NEW redirect \in BOOLEAN,
         Command(word, wait, redirect)
  PROVE  SearchInv'
<1>1. 1 \in 1..Len(PATH)
  BY PathIndices
<1>2. word = cmd'.name /\ cmd' \in [name : Words, wait : BOOLEAN, redirect : BOOLEAN]
  BY DEF Command
<1>3. steady' \subseteq Has(cmd.name)' /\ steady' \subseteq Dirs
  BY <1>2 DEF Command, Has, Shown, files
<1>4. turn' = 1 /\ pc' # "prompt"
  BY DEF Command
<1> QED
  BY <1>1, <1>2, <1>3, <1>4

LEMMA SearchSearches == SearchInv /\ Search => SearchInv'
<1> SUFFICES ASSUME SearchInv, Search PROVE SearchInv'
  OBVIOUS
<1> DEFINE f == <<PATH[turn], cmd.name>>
<1>1. CASE pc' = "seek"
  BY <1>1 DEF Search
<1>2. CASE refused' = IF f \in Shown THEN refused \cup {PATH[turn]} ELSE refused
  <2>1. PATH[turn] \in steady => PATH[turn] \in refused'
    BY <1>2 DEF Search, Has
  <2>2. \A i \in 1..turn : PATH[i] \in steady => PATH[i] \in refused'
    <3>1. turn \in Nat /\ turn >= 1 /\ pc = "search" /\ refused \subseteq refused'
      BY <1>2, PathIndices DEF Search
    <3>2. SUFFICES ASSUME NEW i \in 1..turn, PATH[i] \in steady PROVE PATH[i] \in refused'
      OBVIOUS
    <3>3. CASE i = turn
      BY <2>1, <3>2, <3>3
    <3>4. CASE i # turn
      <4>1. i \in 1..(turn - 1)
        BY <3>1, <3>4
      <4> QED
        BY <3>1, <3>2, <4>1
    <3> QED
      BY <3>3, <3>4
  <2>3. CASE ~LastTurn /\ turn' = turn + 1 /\ UNCHANGED <<pc, said>>
    <3>1. turn \in Nat /\ turn >= 1 /\ turn < Len(PATH) /\ pc = "search" /\ pc' = "search"
      BY <2>3, PathIndices DEF Search, LastTurn
    <3>2. turn' \in 1..Len(PATH) /\ 1..(turn' - 1) = 1..turn
      BY <2>3, <3>1, PathIndices
    <3>3. PassedLack'
      BY <2>2, <2>3, <3>2 DEF Search
    <3> QED
      BY <2>3, <3>1, <3>2, <3>3 DEF Search, Has, Shown, files
  <2>4. CASE LastTurn /\ Return("not_found")
    <3>1. steady \subseteq refused'
      BY <2>2, <2>4, PathIndices DEF LastTurn
    <3> QED
      BY <3>1, <2>4 DEF Search, Return
  <2> QED
    BY <1>1, <1>2, <2>3, <2>4 DEF Search
<1> QED
  BY <1>1, <1>2 DEF Search

\* Exec's other steps leave with another word, or stay out of the search.
LEMMA ExecSearches ==
  SearchInv /\ (Seek \/ MapElf \/ Redirect \/ Truncate \/ Spawn \/ Waited) => SearchInv'
  BY DEF Seek, MapElf, Redirect, Truncate, Spawn, Waited, GiveUp, Return, Has, Shown, files

\* Files that are made disturb nothing.
LEMMA MakeSearches ==
  ASSUME SearchInv, exists \subseteq exists', UNCHANGED <<hidden, table, turn, cmd, steady, refused>>,
         UNCHANGED <<pc, said>> \/ pc' = "exit"
  PROVE  SearchInv'
  BY DEF Has, Shown

\* A program that goes, or is hidden, is no longer counted on.
LEMMA MissedSearches ==
  ASSUME SearchInv, NEW f \in Files, Shown \ {f} \subseteq Shown', Missed(f),
         UNCHANGED <<pc, said, turn, cmd, refused>>
  PROVE  SearchInv'
<1>1. ASSUME pc = "search" PROVE steady' \subseteq Has(cmd.name)'
  <2> SUFFICES ASSUME NEW d \in steady' PROVE d \in Dirs /\ <<d, cmd.name>> \in Shown'
    BY <1>1 DEF Has
  <2>1. d \in steady /\ d \in Dirs /\ <<d, cmd.name>> \in Shown
    BY <1>1 DEF Missed, Has
  <2>2. f # <<d, cmd.name>>
    <3>1. cmd # Null
      BY <1>1, ProgramsAssumption
    <3> QED
      BY <2>1, <3>1 DEF Missed
  <2> QED
    BY <2>1, <2>2
<1>2. steady' \subseteq steady
  BY DEF Missed
<1> QED
  BY <1>1, <1>2

LEMMA SearchStep == SearchInv /\ [Next]_vars => SearchInv'
<1> SUFFICES ASSUME SearchInv, [Next]_vars PROVE SearchInv'
  OBVIOUS
<1>1. CASE Exec
  BY <1>1, SearchSearches, ExecSearches DEF Exec
<1>2. CASE \E word \in Words, wait, redirect \in BOOLEAN : Command(word, wait, redirect)
  BY <1>2, CommandSearches
<1>3. CASE Exit \/ LoadStep
  BY <1>3, MakeSearches DEF Exit, LoadStep, shell, files
<1>4. CASE \E pid \in Pid : KillPid(pid) \/ ProcessEnds(pid)
  BY <1>4, MakeSearches DEF KillPid, ProcessEnds, files
<1>5. CASE \E g \in Files : LoadOpen(g) \/ Create(g)
  BY <1>5, MakeSearches DEF LoadOpen, Create, shell
<1>6. CASE \E g \in Files : CreateBelow(g) \/ Delete(g)
  BY <1>6, MissedSearches DEF CreateBelow, Delete, Shown
<1>7. CASE UNCHANGED vars
  BY <1>7, MakeSearches DEF vars, shell, files
<1> QED
  BY <1>1, <1>2, <1>3, <1>4, <1>5, <1>6, <1>7 DEF Next

\* Exec (cmd/main.c:116-132): a program is given up only after every directory of
\* PATH has lacked it, hidden it or refused it during the search.
THEOREM GivenUpEverywhere == Spec => []NotFoundMeansNone
<1>1. Spec => []SearchInv
  BY SearchInit, SearchStep, PTL DEF Spec
<1>2. SearchInv => NotFoundMeansNone
  OBVIOUS
<1> QED
  BY <1>1, <1>2, PTL
=============================================================================
