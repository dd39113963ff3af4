-------------------------- MODULE LegacyRfsProofs --------------------------
(***************************************************************************)
(* Proofs about the legacy server, for any boot image, any paths and any   *)
(* clients: the state of a connection tells the truth but for the share a  *)
(* refused open strikes from it, the directories are closed, and the sessions are those of FileSessions.                 *)
(***************************************************************************)
EXTENDS LegacyRfs, SequenceTheorems, TLAPS

\* The provers take no word for a string.
Component == STRING \cup {"sys", "devices", "boot"}

\* What the connections are made of, and the files and directories.
Typed ==
  /\ conn \in [Scoid -> Connection \cup {Null}]
  /\ DOMAIN file \subseteq Files
  /\ \A f \in DOMAIN file : file[f].size \in Nat
  /\ built \in Nat
  /\ dirs \subseteq Seq(Component)
  /\ shared \subseteq Scoid

\* Nobody is connected while main builds the tree.
NobodyYet == boot # "serving" => \A c \in Scoid : conn[c] = Null

\* The inductive invariant.
LegacyInv == Typed /\ NobodyYet /\ StateTellsTrue /\ TreeClosed

USE DEF LegacyInv, Typed

LEMMA ImageFiles ==
  ASSUME NEW i \in DOMAIN Image
  PROVE  Image[i].name \in STRING /\ Image[i].size \in Nat
<1>1. i \in 1..Len(Image)
  BY LegacyAssumption
<1>2. Image[i] \in [name : STRING, size : Nat]
  BY <1>1, ElementOfSeq, LegacyAssumption
<1> QED
  BY <1>2

LEMMA FilesAreSequences == Files \subseteq Seq(Component)
<1>1. ASSUME NEW p \in Paths PROVE p.comps \in Seq(Component)
  BY LegacyAssumption DEF Component
<1>2. ASSUME NEW a \in Component, NEW b \in Component
      PROVE  <<a>> \in Seq(Component) /\ <<a, b>> \in Seq(Component)
  OBVIOUS
<1>3. <<"sys">> \in Seq(Component) /\ <<"devices">> \in Seq(Component)
  BY <1>2 DEF Component
<1>4. ASSUME NEW i \in DOMAIN Image PROVE <<"boot", Image[i].name>> \in Seq(Component)
  BY <1>2, ImageFiles DEF Component
<1> QED
  BY <1>1, <1>3, <1>4 DEF Files

(***************************************************************************)
(* The tree.                                                               *)
(***************************************************************************)
\* The directories before a path are sequences of names that lie in one another.
LEMMA PrefixesClosed ==
  ASSUME NEW f \in Seq(Component), NEW g \in Prefixes(f)
  PROVE  g \in Seq(Component) /\ Prefixes(g) \subseteq Prefixes(f)
<1>1. PICK j \in 0..(Len(f) - 1) : g = SubSeq(f, 1, j)
  BY DEF Prefixes
<1>2. Len(f) \in Nat /\ g \in Seq(Component) /\ Len(g) = j
  BY <1>1, SubSeqProperties
<1>3. ASSUME NEW k \in 0..(Len(g) - 1)
      PROVE  SubSeq(g, 1, k) = SubSeq(f, 1, k)
  BY <1>1, <1>2, <1>3, SubSeqOfSubSeq
<1> QED
  BY <1>2, <1>3 DEF Prefixes

\* CreateFile leaves no file and no directory without the one it lies in.
LEMMA CreateKeepsTree ==
  ASSUME LegacyInv, NEW f \in Files, NEW size \in Nat, NEW room, CreateFile(f, size, room)
  PROVE  /\ TreeClosed' /\ DOMAIN file' = DOMAIN file \cup {f} /\ dirs' \subseteq Seq(Component)
         /\ \A g \in DOMAIN file' : file'[g].size \in Nat
<1>1. f \in Seq(Component) /\ Prefixes(f) \subseteq dirs' /\ dirs \subseteq dirs'
  BY FilesAreSequences DEF CreateFile
<1>2. \A g \in Prefixes(f) : g \in Seq(Component) /\ Prefixes(g) \subseteq Prefixes(f)
  BY <1>1, PrefixesClosed
<1>3. DOMAIN file' = DOMAIN file \cup {f}
  BY DEF CreateFile
<1>4. \A g \in DOMAIN file' : file'[g].size \in Nat
  BY <1>3 DEF CreateFile
<1> QED
  BY <1>1, <1>2, <1>3, <1>4 DEF CreateFile, TreeClosed

\* A path that a file is found at is the file's.
LEMMA GetFileFinds ==
  ASSUME NEW p \in Paths, GetFile(p) # Null
  PROVE  GetFile(p) = p.comps /\ p.comps \in DOMAIN file
  BY DEF GetFile

\* A path that leads to no file and is no directory is not a file's: the
\* directories a file lies in are there, and its path resolves up to them.
LEMMA FreshFile ==
  ASSUME LegacyInv, NEW p \in Paths, p.abs, ~Trailing(p), ~WholePath(p), GetFile(p) = Null
  PROVE  p.comps \in Files \ DOMAIN file
<1> DEFINE S == {k \in 0..Len(p.comps) : \A j \in 0..k : SubSeq(p.comps, 1, j) \in dirs}
<1>1. p.comps \in Files /\ p.comps \in Seq(Component) /\ Len(p.comps) \in Nat \ {0}
  <2>1. p.comps \in Seq(STRING) \ {<<>>}
    BY LegacyAssumption
  <2> QED
    BY <2>1, FilesAreSequences DEF Files
<1>2. SUFFICES ASSUME p.comps \in DOMAIN file PROVE FALSE
  BY <1>1
<1>3. Prefixes(p.comps) \subseteq dirs
  BY <1>2 DEF TreeClosed
<1>4. Len(p.comps) - 1 \in S
  <2>1. \A j \in 0..(Len(p.comps) - 1) : SubSeq(p.comps, 1, j) \in dirs
    BY <1>3 DEF Prefixes
  <2>2. Len(p.comps) - 1 \in 0..Len(p.comps)
    BY <1>1
  <2> QED
    BY <2>1, <2>2
<1>5. Resolved(p) = Max(S)
  BY DEF Resolved
<1>6. S \subseteq Int /\ \A k \in S : k =< Len(p.comps)
  BY <1>1
<1> HIDE DEF S
<1>7. \E x \in S : \A y \in S : x >= y
  <2>1. CASE Len(p.comps) \in S
    BY <1>1, <1>6, <2>1
  <2>2. CASE Len(p.comps) \notin S
    BY <1>1, <1>4, <1>6, <2>2
  <2> QED
    BY <2>1, <2>2
<1>8. Max(S) = CHOOSE x \in S : \A y \in S : x >= y
  BY DEF Max
<1>9. Max(S) \in S /\ \A y \in S : Max(S) >= y
  BY <1>7, <1>8, Zenon
<1>10. Resolved(p) = Len(p.comps) \/ Resolved(p) = Len(p.comps) - 1
  <2>1. Max(S) \in Int /\ Max(S) >= Len(p.comps) - 1 /\ Max(S) =< Len(p.comps)
    BY <1>4, <1>6, <1>9
  <2> QED
    BY <1>1, <1>5, <2>1
<1>11. Resolved(p) # Len(p.comps)
  BY DEF WholePath
<1>12. GetFile(p) = p.comps
  BY <1>2, <1>10, <1>11 DEF GetFile
<1>13. p.comps # Null
  BY <1>1, LegacyAssumption
<1> QED
  BY <1>12, <1>13

(***************************************************************************)
(* The inductive invariant.                                                *)
(***************************************************************************)
LEMMA LegacyInit == Init => LegacyInv
<1> SUFFICES ASSUME Init PROVE LegacyInv
  OBVIOUS
<1>1. Prefixes(<<>>) = {}
  BY DEF Prefixes
<1> QED
  BY <1>1 DEF Init, NobodyYet, StateTellsTrue, TreeClosed

\* Both steps that build the tree make one file, or the server dies.
LEMMA BuildsFile ==
  ASSUME LegacyInv, BuildTexts \/ BuildBootFile
  PROVE  \/ NoMemory
         \/ /\ \E f \in Files, size \in Nat, room \in Nat : CreateFile(f, size, room)
            /\ boot' # "serving" /\ boot # "serving" /\ built' \in Nat
            /\ UNCHANGED <<conn, shares>>
<1>1. CASE BuildTexts
  BY <1>1, LegacyAssumption DEF BuildTexts, Files
<1>2. CASE BuildBootFile /\ ~NoMemory
  <2>1. built' \in DOMAIN Image
    BY <1>2, LegacyAssumption DEF BuildBootFile
  <2>2. <<"boot", Image[built'].name>> \in Files
    BY <2>1 DEF Files
  <2> QED
    BY <1>2, <2>1, <2>2, ImageFiles DEF BuildBootFile
<1> QED
  BY <1>1, <1>2

\* A step that neither the tree nor a connection takes part in.
LEMMA QuietKeeps ==
  ASSUME LegacyInv, UNCHANGED <<boot, built, tree, conn, shares>>
  PROVE  LegacyInv'
  BY DEF tree, shares, NobodyYet, StateTellsTrue, InUse, TreeClosed

LEMMA BootKeeps == LegacyInv /\ Boot => LegacyInv'
<1> SUFFICES ASSUME LegacyInv, Boot PROVE LegacyInv'
  OBVIOUS
<1>1. CASE RfsInit \/ RfsParse \/ ServerStart
  BY <1>1 DEF RfsInit, RfsParse, ServerStart, tree, shares, NobodyYet, StateTellsTrue, InUse, TreeClosed
<1>2. CASE BuildTexts \/ BuildBootFile
  <2>1. CASE NoMemory
    BY <2>1, QuietKeeps DEF NoMemory
  <2>2. CASE ~NoMemory
    <3>1. PICK f \in Files, size \in Nat, room \in Nat : CreateFile(f, size, room)
      BY <1>2, <2>2, BuildsFile
    <3>2. UNCHANGED <<conn, shares>> /\ built' \in Nat /\ boot # "serving"
      BY <1>2, <2>2, BuildsFile
    <3>3. \A c \in Scoid : conn[c] = Null
      BY <3>2 DEF NobodyYet
    <3>4. NobodyYet' /\ StateTellsTrue'
      BY <3>2, <3>3 DEF NobodyYet, StateTellsTrue, shares
    <3> QED
      BY <3>1, <3>2, <3>4, CreateKeepsTree DEF shares
  <2> QED
    BY <2>1, <2>2
<1> QED
  BY <1>1, <1>2 DEF Boot

\* What StateTellsTrue says of one connection, with the files there are and the
\* shares, known and lost.
Told(c, new, files, known, gone) ==
  /\ new # Null =>
       /\ new.state \in {CONNECT_OPEN, CONNECT_SHARED} <=> new.file # Null
       /\ new.file # Null => new.file \in DOMAIN files
       /\ new.state = CONNECT_SHARED => c \in known \/ files[new.file].room = 0
  /\ c \in known \ gone => new # Null /\ new.state = CONNECT_SHARED

LEMMA ToldEach ==
  ASSUME Typed PROVE StateTellsTrue <=> \A c \in Scoid : Told(c, conn[c], file, shared, lost)
  BY DEF StateTellsTrue, Told, InUse

\* The shares of the others stay.
OthersShares(c) == shared' \ {c} = shared \ {c} /\ lost' \ {c} = lost \ {c}

\* A handler that changes one connection, and makes a file at most.
LEMMA ConnectionKeeps ==
  ASSUME LegacyInv, NEW c \in Scoid, NEW new \in Connection \cup {Null},
         conn' = [conn EXCEPT ![c] = new], Told(c, new, file', shared', lost'),
         boot = "serving", UNCHANGED <<boot, built>>, OthersShares(c),
         UNCHANGED tree \/ \E f \in Files \ DOMAIN file, room \in Nat : CreateFile(f, Default, room)
  PROVE  LegacyInv'
<1>1. /\ TreeClosed' /\ DOMAIN file \subseteq DOMAIN file' /\ DOMAIN file' \subseteq Files
      /\ dirs' \subseteq Seq(Component)
      /\ \A f \in DOMAIN file' : file'[f].size \in Nat
      /\ \A f \in DOMAIN file : file'[f] = file[f]
  <2>1. CASE UNCHANGED tree
    BY <2>1 DEF tree, TreeClosed
  <2>2. CASE \E f \in Files \ DOMAIN file, room \in Nat : CreateFile(f, Default, room)
    <3>1. PICK f \in Files \ DOMAIN file, room \in Nat : CreateFile(f, Default, room)
      BY <2>2
    <3>2. \A g \in DOMAIN file : file'[g] = file[g]
      BY <3>1 DEF CreateFile
    <3> QED
      BY <3>1, <3>2, CreateKeepsTree, LegacyAssumption
  <2> QED
    BY <2>1, <2>2
<1>2. conn' \in [Scoid -> Connection \cup {Null}] /\ built' \in Nat /\ shared' \subseteq Scoid
  BY DEF OthersShares
<1>3. conn'[c] = new /\ \A d \in Scoid \ {c} : conn'[d] = conn[d]
  OBVIOUS
<1>4. Typed'
  BY <1>1, <1>2
<1>5. \A d \in Scoid \ {c} : Told(d, conn'[d], file', shared', lost')
  <2> TAKE d \in Scoid \ {c}
  <2>1. Told(d, conn[d], file, shared, lost)
    BY ToldEach
  <2>2. (d \in shared' <=> d \in shared) /\ (d \in lost' <=> d \in lost)
    BY DEF OthersShares
  <2> QED
    BY <1>1, <1>3, <2>1, <2>2 DEF Told
<1>6. StateTellsTrue'
  <2>1. \A d \in Scoid : Told(d, conn'[d], file', shared', lost')
    BY <1>3, <1>5
  <2> QED
    BY <1>4, <2>1 DEF StateTellsTrue, Told, InUse
<1> QED
  BY <1>1, <1>4, <1>6 DEF NobodyYet

\* What an attached client's connection is, field by field.
LEMMA ConnectionFields ==
  ASSUME LegacyInv, NEW c \in Scoid, conn[c] # Null
  PROVE  conn[c] \in Connection
  OBVIOUS

LEMMA AttachKeeps ==
  ASSUME LegacyInv, NEW c \in Scoid, ConnectionAttachHandler(c)
  PROVE  LegacyInv'
<1> DEFINE new == [file |-> Null, access |-> CONNECT_NO_ACCESS,
                   state |-> CONNECT_INVALID, seek |-> 0]
<1>1. CASE NoMemory
  BY <1>1, QuietKeeps DEF NoMemory
<1>2. CASE conn' = [conn EXCEPT ![c] = new] /\ UNCHANGED <<boot, built, tree, shares>>
  <2>1. new \in Connection /\ new.file = Null /\ new.state = -1
    BY DEF Connection, CONNECT_NO_ACCESS, CONNECT_INVALID
  <2>2. boot = "serving" /\ conn[c] = Null
    BY DEF ConnectionAttachHandler, Serving
  <2>3. c \notin shared' \ lost'
    BY <1>2, <2>2 DEF StateTellsTrue, shares
  <2> HIDE DEF new
  <2>4. Told(c, new, file', shared', lost') /\ OthersShares(c)
    BY <1>2, <2>1, <2>3 DEF Told, OthersShares, shares, CONNECT_OPEN, CONNECT_SHARED
  <2> QED
    BY <1>2, <2>1, <2>2, <2>4, ConnectionKeeps
<1> QED
  BY <1>1, <1>2 DEF ConnectionAttachHandler

\* A client that leaves its file leaves no share but one the state has lost.
LEMMA UnshareTells ==
  ASSUME LegacyInv, NEW c \in Scoid, conn[c] # Null, Unshare(c)
  PROVE  c \notin shared' \ lost' /\ OthersShares(c)
  BY DEF Unshare, OthersShares, StateTellsTrue

LEMMA DetachKeeps ==
  ASSUME LegacyInv, NEW c \in Scoid, ConnectionDetachHandler(c)
  PROVE  LegacyInv'
<1>1. conn' = [conn EXCEPT ![c] = Null] /\ boot = "serving" /\ UNCHANGED <<boot, built, tree>>
  BY DEF ConnectionDetachHandler, Request, Serving
<1>2. c \notin shared' \ lost' /\ OthersShares(c)
  BY UnshareTells DEF ConnectionDetachHandler, Request
<1>3. Told(c, Null, file', shared', lost')
  BY <1>2 DEF Told
<1> QED
  BY <1>1, <1>2, <1>3, ConnectionKeeps

LEMMA CloseKeeps ==
  ASSUME LegacyInv, NEW c \in Scoid, FsClose(c)
  PROVE  LegacyInv'
<1> DEFINE new == [file |-> Null, access |-> CONNECT_NO_ACCESS,
                   state |-> CONNECT_CLOSE, seek |-> 0]
<1>1. new \in Connection /\ new.file = Null /\ new.state = 0
  BY DEF Connection, CONNECT_NO_ACCESS, CONNECT_CLOSE
<1>2. conn' = [conn EXCEPT ![c] = new] /\ boot = "serving" /\ UNCHANGED <<boot, built, tree>>
  BY DEF FsClose, Request, Serving
<1>3. c \notin shared' \ lost' /\ OthersShares(c)
  BY UnshareTells DEF FsClose, Request
<1> HIDE DEF new
<1>4. Told(c, new, file', shared', lost')
  BY <1>1, <1>3 DEF Told, CONNECT_OPEN, CONNECT_SHARED
<1> QED
  BY <1>1, <1>2, <1>3, <1>4, ConnectionKeeps

\* Requests that change a position at most.
LEMMA MoveKeeps ==
  ASSUME LegacyInv, NEW c \in Scoid, conn[c] # Null, boot = "serving",
         UNCHANGED <<boot, tree, built, shares>>,
         conn' = conn \/ \E n \in Int : conn' = [conn EXCEPT ![c].seek = n]
  PROVE  LegacyInv'
<1>1. CASE conn' = conn
  BY <1>1, QuietKeeps
<1>2. ASSUME NEW n \in Int, conn' = [conn EXCEPT ![c].seek = n] PROVE LegacyInv'
  <2> DEFINE new == [conn[c] EXCEPT !.seek = n]
  <2>1. conn[c] \in Connection
    BY ConnectionFields
  <2>2. new \in Connection /\ new.state = conn[c].state /\ new.file = conn[c].file
    BY <2>1 DEF Connection
  <2>3. conn' = [conn EXCEPT ![c] = new]
    BY <1>2
  <2>4. Told(c, conn[c], file, shared, lost)
    BY ToldEach
  <2> HIDE DEF new
  <2>5. new # Null
    BY <2>2, LegacyAssumption
  <2>6. Told(c, new, file', shared', lost') /\ OthersShares(c)
    BY <2>2, <2>4, <2>5 DEF Told, OthersShares, shares, tree
  <2> QED
    BY <2>2, <2>3, <2>6, ConnectionKeeps
<1> QED
  BY <1>1, <1>2

\* The smaller one of two numbers is one of them.
LEMMA MinOfTwo == ASSUME NEW m \in Nat, NEW n \in Nat PROVE Min({m, n}) \in {m, n}
<1>1. \E x \in {m, n} : \A y \in {m, n} : x =< y
  OBVIOUS
<1>2. Min({m, n}) = CHOOSE x \in {m, n} : \A y \in {m, n} : x =< y
  BY DEF Min
<1> QED
  BY <1>1, <1>2, Zenon

\* Reads, writes and seeks move the position or nothing.
LEMMA TransferMoves ==
  ASSUME LegacyInv, NEW c \in Scoid,
         \/ \E size \in Sizes : FsRead(c, size) \/ FsWrite(c, size)
         \/ \E off \in Seeks : FsSeek(c, off)
  PROVE  /\ conn[c] # Null /\ boot = "serving" /\ UNCHANGED <<boot, tree, built, shares>>
         /\ conn' = conn \/ \E n \in Int : conn' = [conn EXCEPT ![c].seek = n]
<1> DEFINE Moved == conn' = conn \/ \E n \in Int : conn' = [conn EXCEPT ![c].seek = n]
<1>1. conn[c] # Null /\ boot = "serving" /\ UNCHANGED <<boot, tree, built, shares>>
  BY DEF FsRead, FsWrite, FsSeek, Request, Serving
<1>2. conn[c].seek \in Int
  BY <1>1, ConnectionFields DEF Connection
<1>3. ASSUME NEW size \in Int, Move(c, size) PROVE Moved
  <2>1. conn[c].seek + size \in Int
    BY <1>2
  <2>2. conn' = conn \/ conn' = [conn EXCEPT ![c].seek = conn[c].seek + size]
    BY <1>3 DEF Move
  <2> QED
    BY <2>1, <2>2
<1>4. ASSUME NEW size \in Sizes, FsRead(c, size) PROVE Moved
  <2>1. CASE InUse(c) /\ Move(c, Min({size, file[conn[c].file].size}))
    <3>1. size \in Nat /\ file[conn[c].file].size \in Nat
      BY <1>1, <2>1, LegacyAssumption DEF StateTellsTrue
    <3>2. Min({size, file[conn[c].file].size}) \in Int
      BY <3>1, MinOfTwo
    <3> QED
      BY <1>3, <2>1, <3>2
  <2> QED
    BY <1>4, <2>1 DEF FsRead
<1>5. ASSUME NEW size \in Sizes, FsWrite(c, size) PROVE Moved
  BY <1>3, <1>5, LegacyAssumption DEF FsWrite
<1>6. ASSUME NEW off \in Seeks, FsSeek(c, off) PROVE Moved
  BY <1>6, LegacyAssumption DEF FsSeek
<1> QED
  BY <1>1, <1>4, <1>5, <1>6

LEMMA TransferKeeps ==
  ASSUME LegacyInv, NEW c \in Scoid,
         \/ \E size \in Sizes : FsRead(c, size) \/ FsWrite(c, size)
         \/ \E off \in Seeks : FsSeek(c, off)
  PROVE  LegacyInv'
  BY TransferMoves, MoveKeeps

\* The client has the file open, with the access it asked for.
LEMMA OpenedKeeps ==
  ASSUME LegacyInv, NEW c \in Scoid, conn[c] # Null, ~Busy(c), boot = "serving",
         NEW f \in Files, NEW access \in Modes,
         conn' = Opened(c, f, access), f \in DOMAIN file', UNCHANGED <<boot, built, shares>>,
         UNCHANGED tree \/ \E g \in Files \ DOMAIN file, room \in Nat : CreateFile(g, Default, room)
  PROVE  LegacyInv'
<1> DEFINE new == [file |-> f, access |-> access, state |-> CONNECT_OPEN, seek |-> conn[c].seek]
<1>1. conn[c].seek \in Int /\ access \in Int /\ f # Null
  BY ConnectionFields, LegacyAssumption DEF Connection
<1>2. new \in Connection /\ new.state = CONNECT_OPEN /\ new.file = f
  BY <1>1 DEF Connection, CONNECT_OPEN
<1>3. conn' = [conn EXCEPT ![c] = new]
  BY DEF Opened
<1>4. c \notin shared' \ lost' /\ OthersShares(c)
  BY DEF StateTellsTrue, InUse, Busy, OthersShares, shares
<1> HIDE DEF new
<1>5. Told(c, new, file', shared', lost')
  BY <1>1, <1>2, <1>4 DEF Told, CONNECT_OPEN, CONNECT_SHARED
<1> QED
  BY <1>2, <1>3, <1>4, <1>5, ConnectionKeeps

\* The state alone changes, of a client that has a file.
LEMMA StateKeeps ==
  ASSUME LegacyInv, NEW c \in Scoid, conn[c] # Null, conn[c].file # Null, boot = "serving",
         NEW state \in {CONNECT_OPEN, CONNECT_SHARED},
         conn' = [conn EXCEPT ![c].state = state],
         state = CONNECT_SHARED => c \in shared' \/ file[conn[c].file].room = 0,
         c \in shared' \ lost' => state = CONNECT_SHARED,
         UNCHANGED <<boot, tree, built>>, OthersShares(c)
  PROVE  LegacyInv'
<1> DEFINE new == [conn[c] EXCEPT !.state = state]
<1>1. conn[c] \in Connection /\ state \in Int
  BY ConnectionFields DEF CONNECT_OPEN, CONNECT_SHARED
<1>2. new \in Connection /\ new.state = state /\ new.file = conn[c].file
  BY <1>1 DEF Connection
<1>3. conn' = [conn EXCEPT ![c] = new]
  OBVIOUS
<1> HIDE DEF new
<1>4. new # Null /\ file' = file /\ conn[c].file \in DOMAIN file
  BY <1>2, LegacyAssumption DEF StateTellsTrue, tree
<1>5. Told(c, new, file', shared', lost')
  BY <1>2, <1>4 DEF Told
<1> QED
  BY <1>2, <1>3, <1>5, ConnectionKeeps

LEMMA OpenKeeps ==
  ASSUME LegacyInv, NEW c \in Scoid, NEW p \in Paths, NEW access \in Modes,
         NEW create \in BOOLEAN, FsOpen(c, p, access, create)
  PROVE  LegacyInv'
<1>1. conn[c] # Null /\ boot = "serving" /\ UNCHANGED <<boot, built, shared>> /\ p.comps \in Files
  BY DEF FsOpen, Request, Serving, Files
<1>2. ASSUME Busy(c), conn' = [conn EXCEPT ![c].state = CONNECT_OPEN], UNCHANGED tree,
             lost' = IF conn[c].state = CONNECT_SHARED THEN lost \cup ({c} \cap shared) ELSE lost
      PROVE  LegacyInv'
  <2>1. CONNECT_OPEN # CONNECT_SHARED
    BY DEF CONNECT_OPEN, CONNECT_SHARED
  <2>2. conn[c].file # Null /\ OthersShares(c)
    BY <1>1, <1>2 DEF Busy, OthersShares
  <2>3. c \notin shared' \ lost'
    BY <1>1, <1>2 DEF StateTellsTrue
  <2> QED
    BY <1>1, <1>2, <2>1, <2>2, <2>3, StateKeeps
<1>3. ASSUME ~Busy(c), GetFile(p) # Null, conn' = Opened(c, GetFile(p), access), UNCHANGED <<tree, lost>>
      PROVE  LegacyInv'
  <2>1. GetFile(p) \in Files /\ GetFile(p) \in DOMAIN file'
    BY <1>1, <1>3, GetFileFinds DEF tree
  <2> QED
    BY <1>1, <1>3, <2>1, OpenedKeeps DEF shares
<1>4. CASE UNCHANGED <<tree, conn, lost>>
  BY <1>1, <1>4, QuietKeeps DEF shares
<1>5. ASSUME NEW room \in {0, Default}, ~Busy(c), GetFile(p) = Null, UNCHANGED lost,
             OpenNew(c, p, access, room)
      PROVE  LegacyInv'
  <2>1. CASE UNCHANGED <<tree, conn>>
    BY <1>4, <1>5, <2>1
  <2>2. CASE /\ p.abs /\ ~Trailing(p) /\ ~WholePath(p)
             /\ CreateFile(p.comps, Default, room) /\ conn' = Opened(c, p.comps, access)
    <3>1. p.comps \in Files \ DOMAIN file /\ p.comps \in DOMAIN file' /\ room \in Nat
      BY <1>5, <2>2, FreshFile, LegacyAssumption DEF CreateFile
    <3> QED
      BY <1>1, <1>5, <2>2, <3>1, OpenedKeeps DEF shares
  <2> QED
    BY <1>5, <2>1, <2>2 DEF OpenNew
<1> QED
  BY <1>2, <1>3, <1>4, <1>5 DEF FsOpen

LEMMA ShareKeeps ==
  ASSUME LegacyInv, NEW c \in Scoid, FsShare(c)
  PROVE  LegacyInv'
<1>1. conn[c] # Null /\ boot = "serving" /\ UNCHANGED <<boot, tree, built, lost>>
  BY DEF FsShare, Request, Serving
<1>2. CASE UNCHANGED <<conn, shared>>
  BY <1>1, <1>2, QuietKeeps DEF shares
<1>3. CASE /\ conn[c].state = CONNECT_OPEN
           /\ shared' = shared \cup {c} \/ (file[conn[c].file].room = 0 /\ UNCHANGED shared)
           /\ conn' = [conn EXCEPT ![c].state = CONNECT_SHARED]
  <2>1. conn[c].file # Null /\ OthersShares(c)
    BY <1>1, <1>3 DEF StateTellsTrue, InUse, OthersShares
  <2> QED
    BY <1>1, <1>3, <2>1, StateKeeps
<1> QED
  BY <1>2, <1>3 DEF FsShare

LEMMA LegacyStep == LegacyInv /\ [Next]_vars => LegacyInv'
<1> SUFFICES ASSUME LegacyInv, [Next]_vars PROVE LegacyInv'
  OBVIOUS
<1>1. CASE Boot
  BY <1>1, BootKeeps
<1>2. ASSUME NEW c \in Scoid, Handle(c) PROVE LegacyInv'
  BY <1>2, AttachKeeps, DetachKeeps, OpenKeeps, CloseKeeps, ShareKeeps, TransferKeeps DEF Handle
<1>3. CASE UNCHANGED <<boot, built, tree, conn, shares>>
  BY <1>3, QuietKeeps
<1> QED
  BY <1>1, <1>2, <1>3 DEF Next, ls, vars

\* rfs/main.c:128-267: for any requests in any order, a request uses a file only
\* where the client has one, and the only share the server does not know of is the
\* one an open that is refused strikes from the state.
THEOREM LegacyInductive == Spec => []LegacyInv
  BY LegacyInit, LegacyStep, PTL DEF Spec

\* The state of a connection agrees with its file, and with the share the kernel
\* made in both directions, but for a file without memory and a lost share.
THEOREM StateTold == Spec => []StateTellsTrue
<1>1. LegacyInv => StateTellsTrue
  OBVIOUS
<1> QED
  BY <1>1, LegacyInductive, PTL

\* rfs/fs.c:9-140: each file and each directory is reached from the root.
THEOREM TreeStaysClosed == Spec => []TreeClosed
<1>1. LegacyInv => TreeClosed
  OBVIOUS
<1> QED
  BY <1>1, LegacyInductive, PTL

(***************************************************************************)
(* The sessions.                                                           *)
(***************************************************************************)
\* The clients connected and the files held, after one connection has changed.
LEMMA OneConnection ==
  ASSUME LegacyInv, NEW c \in Scoid, NEW new, conn' = [conn EXCEPT ![c] = new]
  PROVE  /\ new # Null => Connected' = Connected \cup {c} /\ Held(c)' = new.file
         /\ new = Null => Connected' = Connected \ {c} /\ Held(c)' = Null
         /\ \A d \in Scoid \ {c} : Held(d)' = Held(d)
<1>1. conn'[c] = new /\ \A d \in Scoid \ {c} : conn'[d] = conn[d]
  OBVIOUS
<1> QED
  BY <1>1 DEF Connected, Held

LEMMA NothingSeen ==
  ASSUME Connected' = Connected, \A d \in Scoid : Held(d)' = Held(d), DOMAIN file' = DOMAIN file
  PROVE  UNCHANGED Sessions!vars
  BY DEF Sessions!vars

LEMMA QuietSessions ==
  ASSUME UNCHANGED <<conn, tree>>
  PROVE  UNCHANGED Sessions!vars
  BY NothingSeen DEF Connected, Held, tree

LEMMA BootSessions == LegacyInv /\ Boot => [Sessions!Next]_(Sessions!vars)
<1> SUFFICES ASSUME LegacyInv, Boot PROVE [Sessions!Next]_(Sessions!vars)
  OBVIOUS
<1>1. CASE RfsInit \/ RfsParse \/ ServerStart
  BY <1>1, QuietSessions DEF RfsInit, RfsParse, ServerStart
<1>2. CASE BuildTexts \/ BuildBootFile
  <2> SUFFICES ASSUME ~NoMemory PROVE [Sessions!Next]_(Sessions!vars)
    BY QuietSessions DEF NoMemory
  <2>1. PICK f \in Files, size \in Nat, room \in Nat : CreateFile(f, size, room)
    BY <1>2, BuildsFile
  <2>2. DOMAIN file' = DOMAIN file \cup {f} /\ UNCHANGED conn
    BY <1>2, <2>1, BuildsFile DEF CreateFile
  <2>3. Connected' = Connected /\ \A d \in Scoid : Held(d)' = Held(d)
    BY <2>2 DEF Connected, Held
  <2>4. CASE f \in DOMAIN file
    BY <2>2, <2>3, <2>4, NothingSeen
  <2>5. CASE f \notin DOMAIN file
    BY <2>2, <2>3, <2>5 DEF Sessions!Next, Sessions!Create
  <2> QED
    BY <2>4, <2>5
<1> QED
  BY <1>1, <1>2 DEF Boot

LEMMA AttachSessions ==
  ASSUME LegacyInv, NEW c \in Scoid, ConnectionAttachHandler(c), ~NoMemory
  PROVE  Sessions!Connect(c)
<1> DEFINE new == [file |-> Null, access |-> CONNECT_NO_ACCESS,
                   state |-> CONNECT_INVALID, seek |-> 0]
<1>1. new \in Connection /\ new.file = Null
  BY DEF Connection, CONNECT_NO_ACCESS, CONNECT_INVALID
<1>2. conn' = [conn EXCEPT ![c] = new] /\ conn[c] = Null /\ UNCHANGED file
  BY DEF ConnectionAttachHandler, tree
<1>3. new # Null
  BY <1>1, LegacyAssumption
<1> HIDE DEF new
<1>4. c \notin Connected /\ Connected' = Connected \cup {c}
  BY <1>2, <1>3, OneConnection DEF Connected
<1>5. \A d \in Scoid : Held(d)' = Held(d)
  BY <1>1, <1>2, <1>3, OneConnection DEF Held
<1> QED
  BY <1>2, <1>4, <1>5 DEF Sessions!Connect

LEMMA DetachSessions ==
  ASSUME LegacyInv, NEW c \in Scoid, ConnectionDetachHandler(c)
  PROVE  Sessions!Disconnect(c)
<1>1. conn' = [conn EXCEPT ![c] = Null] /\ c \in Connected /\ UNCHANGED file
  BY DEF ConnectionDetachHandler, Request, Connected, tree
<1> QED
  BY <1>1, OneConnection DEF Sessions!Disconnect

LEMMA CloseSessions ==
  ASSUME LegacyInv, NEW c \in Scoid, FsClose(c)
  PROVE  [Sessions!Next]_(Sessions!vars)
<1> DEFINE new == [file |-> Null, access |-> CONNECT_NO_ACCESS,
                   state |-> CONNECT_CLOSE, seek |-> 0]
<1>1. new \in Connection /\ new.file = Null
  BY DEF Connection, CONNECT_NO_ACCESS, CONNECT_CLOSE
<1>2. conn' = [conn EXCEPT ![c] = new] /\ c \in Connected /\ UNCHANGED file
  BY DEF FsClose, Request, Connected, tree
<1>3. new # Null
  BY <1>1, LegacyAssumption
<1> HIDE DEF new
<1>4. Connected' = Connected /\ Held(c)' = Null /\ \A d \in Scoid \ {c} : Held(d)' = Held(d)
  <2>1. Connected = Connected \cup {c}
    BY <1>2
  <2> QED
    BY <1>1, <1>2, <1>3, <2>1, OneConnection
<1>5. CASE Held(c) = Null
  BY <1>2, <1>4, <1>5, NothingSeen
<1>6. CASE Held(c) # Null
  BY <1>2, <1>4, <1>6 DEF Sessions!Next, Sessions!Close
<1> QED
  BY <1>5, <1>6

\* A position or a state may change, the file does not.
LEMMA SameFile ==
  ASSUME LegacyInv, NEW c \in Scoid, conn[c] # Null,
         NEW new \in Connection, new.file = conn[c].file,
         conn' = [conn EXCEPT ![c] = new], UNCHANGED file
  PROVE  UNCHANGED Sessions!vars
<1>1. new # Null /\ c \in Connected
  BY LegacyAssumption DEF Connected
<1>2. Connected = Connected \cup {c} /\ Held(c) = new.file
  BY <1>1 DEF Held
<1>3. Connected' = Connected \cup {c} /\ Held(c)' = new.file
      /\ \A d \in Scoid \ {c} : Held(d)' = Held(d)
  BY <1>1, OneConnection
<1>4. DOMAIN file' = DOMAIN file
  OBVIOUS
<1> QED
  BY <1>2, <1>3, <1>4, NothingSeen

LEMMA TransferSessions ==
  ASSUME LegacyInv, NEW c \in Scoid,
         \/ \E size \in Sizes : FsRead(c, size) \/ FsWrite(c, size)
         \/ \E off \in Seeks : FsSeek(c, off)
  PROVE  UNCHANGED Sessions!vars
<1>1. /\ conn[c] # Null /\ UNCHANGED tree
      /\ conn' = conn \/ \E n \in Int : conn' = [conn EXCEPT ![c].seek = n]
  BY TransferMoves
<1>2. CASE conn' = conn
  BY <1>1, <1>2, QuietSessions
<1>3. ASSUME NEW n \in Int, conn' = [conn EXCEPT ![c].seek = n] PROVE UNCHANGED Sessions!vars
  <2> DEFINE new == [conn[c] EXCEPT !.seek = n]
  <2>1. conn[c] \in Connection
    BY <1>1, ConnectionFields
  <2>2. new \in Connection /\ new.file = conn[c].file
    BY <2>1 DEF Connection
  <2>3. conn' = [conn EXCEPT ![c] = new]
    BY <1>3
  <2> HIDE DEF new
  <2> QED
    BY <1>1, <2>2, <2>3, SameFile DEF tree
<1> QED
  BY <1>1, <1>2, <1>3

\* The state changes, the file does not.
LEMMA StateSessions ==
  ASSUME LegacyInv, NEW c \in Scoid, conn[c] # Null, NEW state \in Int,
         conn' = [conn EXCEPT ![c].state = state], UNCHANGED file
  PROVE  UNCHANGED Sessions!vars
<1> DEFINE new == [conn[c] EXCEPT !.state = state]
<1>1. conn[c] \in Connection
  BY ConnectionFields
<1>2. new \in Connection /\ new.file = conn[c].file
  BY <1>1 DEF Connection
<1>3. conn' = [conn EXCEPT ![c] = new]
  OBVIOUS
<1> HIDE DEF new
<1> QED
  BY <1>2, <1>3, SameFile

LEMMA ShareSessions ==
  ASSUME LegacyInv, NEW c \in Scoid, FsShare(c)
  PROVE  UNCHANGED Sessions!vars
<1>1. conn[c] # Null /\ UNCHANGED tree
  BY DEF FsShare, Request
<1>2. CASE UNCHANGED conn
  BY <1>1, <1>2, QuietSessions
<1>3. CASE conn' = [conn EXCEPT ![c].state = CONNECT_SHARED]
  <2>1. CONNECT_SHARED \in Int
    BY DEF CONNECT_SHARED
  <2> QED
    BY <1>1, <1>3, <2>1, StateSessions DEF tree
<1> QED
  BY <1>2, <1>3 DEF FsShare

\* An open that succeeds makes the file if it is not there.
LEMMA OpenedSessions ==
  ASSUME LegacyInv, NEW c \in Scoid, conn[c] # Null, conn[c].file = Null,
         NEW f \in Files, NEW access \in Modes,
         conn' = Opened(c, f, access), DOMAIN file' = DOMAIN file \cup {f}
  PROVE  Sessions!Open(c, f)
<1> DEFINE new == [file |-> f, access |-> access, state |-> CONNECT_OPEN, seek |-> conn[c].seek]
<1>1. conn[c].seek \in Int /\ access \in Int
  BY ConnectionFields, LegacyAssumption DEF Connection
<1>2. new \in Connection /\ new.file = f
  BY <1>1 DEF Connection, CONNECT_OPEN
<1>3. new # Null /\ conn' = [conn EXCEPT ![c] = new]
  BY <1>2, LegacyAssumption DEF Opened
<1> HIDE DEF new
<1>4. Held(c) = Null /\ c \in Connected /\ Connected = Connected \cup {c}
  BY DEF Held, Connected
<1>5. Connected' = Connected /\ Held(c)' = f /\ \A d \in Scoid \ {c} : Held(d)' = Held(d)
  BY <1>2, <1>3, <1>4, OneConnection
<1> QED
  BY <1>4, <1>5 DEF Sessions!Open

LEMMA OpenSessions ==
  ASSUME LegacyInv, NEW c \in Scoid, NEW p \in Paths, NEW access \in Modes,
         NEW create \in BOOLEAN, FsOpen(c, p, access, create)
  PROVE  [Sessions!Next]_(Sessions!vars)
<1>1. conn[c] # Null /\ p.comps \in Files
  BY DEF FsOpen, Request, Files
<1>2. CASE Busy(c) /\ conn' = [conn EXCEPT ![c].state = CONNECT_OPEN] /\ UNCHANGED tree
  <2>1. CONNECT_OPEN \in Int
    BY DEF CONNECT_OPEN
  <2> QED
    BY <1>1, <1>2, <2>1, StateSessions DEF tree
<1>3. CASE UNCHANGED <<tree, conn>>
  BY <1>3, QuietSessions
<1>4. ASSUME ~Busy(c), NEW f \in Files, conn' = Opened(c, f, access),
             DOMAIN file' = DOMAIN file \cup {f}
      PROVE  Sessions!Next
  BY <1>1, <1>4, OpenedSessions DEF Busy, Sessions!Next
<1>5. CASE ~Busy(c) /\ GetFile(p) # Null /\ conn' = Opened(c, GetFile(p), access) /\ UNCHANGED tree
  <2>1. GetFile(p) \in Files /\ DOMAIN file' = DOMAIN file \cup {GetFile(p)}
    BY <1>1, <1>5, GetFileFinds DEF tree
  <2> QED
    BY <1>4, <1>5, <2>1
<1>6. ASSUME NEW room, ~Busy(c), OpenNew(c, p, access, room)
      PROVE  [Sessions!Next]_(Sessions!vars)
  <2>1. CASE CreateFile(p.comps, Default, room) /\ conn' = Opened(c, p.comps, access)
    <3>1. DOMAIN file' = DOMAIN file \cup {p.comps}
      BY <2>1 DEF CreateFile
    <3> QED
      BY <1>1, <1>4, <1>6, <2>1, <3>1
  <2> QED
    BY <1>3, <1>6, <2>1 DEF OpenNew
<1> QED
  BY <1>2, <1>3, <1>5, <1>6 DEF FsOpen

LEMMA SessionsStep == LegacyInv /\ [Next]_vars => [Sessions!Next]_(Sessions!vars)
<1> SUFFICES ASSUME LegacyInv, [Next]_vars PROVE [Sessions!Next]_(Sessions!vars)
  OBVIOUS
<1>1. CASE Boot
  BY <1>1, BootSessions
<1>2. ASSUME NEW c \in Scoid, Handle(c) PROVE [Sessions!Next]_(Sessions!vars)
  <2> SUFFICES ASSUME ~NoMemory PROVE [Sessions!Next]_(Sessions!vars)
    BY QuietSessions DEF NoMemory
  <2>1. CASE ConnectionAttachHandler(c) \/ ConnectionDetachHandler(c)
    BY <2>1, AttachSessions, DetachSessions DEF Sessions!Next
  <2>2. CASE \E p \in Paths, access \in Modes, create \in BOOLEAN : FsOpen(c, p, access, create)
    BY <2>2, OpenSessions
  <2>3. CASE FsClose(c)
    BY <2>3, CloseSessions
  <2>4. CASE FsShare(c)
    BY <2>4, ShareSessions
  <2>5. CASE \/ \E size \in Sizes : FsRead(c, size) \/ FsWrite(c, size)
             \/ \E off \in Seeks : FsSeek(c, off)
    BY <2>5, TransferSessions
  <2> QED
    BY <1>2, <2>1, <2>2, <2>3, <2>4, <2>5 DEF Handle
<1>3. CASE UNCHANGED <<tree, conn>>
  BY <1>3, QuietSessions
<1> QED
  BY <1>1, <1>2, <1>3 DEF Next, ls, vars

\* rfs/main.c:128-187: each client holds the file of its last successful open until
\* its close or its disconnection, and a file that is there stays.
THEOREM LegacySessions == Spec => ImplementsSessions
<1>1. Init => Sessions!Init
  BY DEF Init, Sessions!Init, Connected, Held
<1> QED
  BY <1>1, SessionsStep, LegacyInductive, PTL DEF Spec, ImplementsSessions, Sessions!Spec
=============================================================================
