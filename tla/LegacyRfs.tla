----------------------------- MODULE LegacyRfs -----------------------------
(***************************************************************************)
(* rfs, the server of /proc before proc (rfs/main.c, fs.c, connections.c,  *)
(* rfs.c): it reads the boot image, builds a tree of files from it and     *)
(* serves them.  main.c:272 asks for one dispatcher task, so a handler is  *)
(* one step.                                                               *)
(*                                                                         *)
(* A path is a record: whether it begins with '/', and its components; a   *)
(* path that ends with '/' has "" for its last one.  A file or a directory *)
(* is named by its components.  Nothing reads the counter of references of *)
(* a file, which is left out.  room is the memory behind a file, 0 where   *)
(* its data is NULL: mmap gave nothing.                                    *)
(***************************************************************************)
EXTENDS Integers, Sequences, FiniteSetsExt

CONSTANTS
  Scoid,     \* connection ids
  Null,      \* the NULL pointer
  Image,     \* the files of the boot image, a sequence of [name, size]
  Paths,     \* paths asked for (bounds the requests)
  Modes,     \* access modes of opens: O_RDONLY 0, O_WRONLY 1, O_RDWR 2
  Seeks,     \* positions sought (bounds the requests)
  Sizes,     \* bytes read or written at a time (bounds the requests)
  MaxSeek,   \* bound on a client's position: a uint32_t that is only added to
  Default,   \* FILE_DEFAULT_SIZE, 4096
  Text,      \* bytes of the texts of /sys and /devices
  Huge       \* a negative difference of pointers as a size_t

CONNECT_NO_ACCESS == -1
CONNECT_INVALID   == -1
CONNECT_CLOSE     == 0
CONNECT_OPEN      == 1
CONNECT_SHARED    == 2
O_RDWR            == 2

\* The files there may be.
Files ==
  {p.comps : p \in Paths} \cup {<<"sys">>, <<"devices">>}
    \cup {<<"boot", Image[i].name>> : i \in DOMAIN Image}

Connection == [file : Files \cup {Null}, access : Int, state : Int, seek : Int]

ASSUME LegacyAssumption ==
  /\ Image \in Seq([name : STRING, size : Nat])
  /\ Paths \subseteq [abs : BOOLEAN, comps : Seq(STRING) \ {<<>>}]
  /\ Modes \cup Seeks \cup Sizes \cup {Default, Text, Huge} \subseteq Nat
  /\ Null \notin Files \cup Connection

VARIABLES
  boot,    \* how far main is, or "ended"
  built,   \* files of the image that are built
  image,   \* the image is mapped
  dirs,    \* directories there are
  file,    \* files there are: a function to [size, room]
  conn,    \* connection_t of each connection: Null when there is none
  shared,  \* clients the kernel has mapped a file for
  lost,    \* history: clients whose share a refused open has struck from the state
  orphan,  \* memory made for a file that was not made then
  reply,   \* the last response
  fault    \* why the server died, or "none"

tree == <<dirs, file>>
shares == <<shared, lost>>
vars == <<boot, built, image, tree, conn, shares, orphan, reply, fault>>

Init ==
  /\ boot = "start" /\ built = 0 /\ image = FALSE
  /\ dirs = {<<>>} /\ file = [f \in {} |-> Null]
  /\ conn = [c \in Scoid |-> Null] /\ shared = {} /\ lost = {} /\ orphan = FALSE
  /\ reply = "none" /\ fault = "none"

Respond(ret) == reply' = ret /\ UNCHANGED fault
Die(why) == fault' = why /\ UNCHANGED reply

(***************************************************************************)
(* The tree.                                                               *)
(***************************************************************************)
Trailing(p) == p.comps[Len(p.comps)] = ""
Empty(p)    == ~p.abs /\ p.comps = <<"">>

\* PathResolve: the components that are directories, from the first on.
Resolved(p) ==
  IF p.abs THEN Max({k \in 0..Len(p.comps) : \A j \in 0..k : SubSeq(p.comps, 1, j) \in dirs})
           ELSE 0

\* ... which leaves nothing.
WholePath(p) == Empty(p) \/ (p.abs /\ Resolved(p) = Len(p.comps))

\* GetFile: the last component is a file of the directory before it.  A path
\* without '/' is looked up in the root.
GetFile(p) ==
  IF ~Trailing(p) /\ Resolved(p) = Len(p.comps) - 1 /\ p.comps \in DOMAIN file
  THEN p.comps ELSE Null

Prefixes(f) == {SubSeq(f, 1, j) : j \in 0..(Len(f) - 1)}

\* Mutant: one directory is made.
CreateShallow(f, size, room) ==
  /\ dirs' = dirs \cup {SubSeq(f, 1, Len(f) - 1)}
  /\ file' = [g \in DOMAIN file \cup {f} |-> IF g = f THEN [size |-> size, room |-> room] ELSE file[g]]

\* CreateFile where it gets through: the directories that lack are made.
CreateFile(f, size, room) ==
  /\ dirs' = dirs \cup Prefixes(f)
  /\ file' = [g \in DOMAIN file \cup {f} |-> IF g = f THEN [size |-> size, room |-> room] ELSE file[g]]

(***************************************************************************)
(* main and the boot image.                                                *)
(***************************************************************************)
RfsInit ==
  /\ boot = "start"
  /\ \/ boot' = "parse" /\ image' = TRUE
     \/ boot' = "ended" /\ UNCHANGED image
  /\ UNCHANGED <<built, tree, conn, shares, orphan, reply, fault>>

\* An image of another type is given back.
RfsParse ==
  /\ boot = "parse"
  /\ \/ boot' = "sys" /\ UNCHANGED image
     \/ boot' = "ended" /\ image' = FALSE
  /\ UNCHANGED <<built, tree, conn, shares, orphan, reply, fault>>

\* No allocation is looked at: where there is no memory, the server dies of it.
NoMemory ==
  /\ Die("out_of_memory")
  /\ UNCHANGED <<boot, built, image, tree, conn, shares, orphan>>

\* BuildFileSystem: /sys, then /devices, whose size is computed the wrong way
\* round...
BuildTexts ==
  /\ boot \in {"sys", "devices"} /\ fault = "none"
  /\ \/ /\ boot = "sys" /\ boot' = "devices"
        /\ CreateFile(<<"sys">>, Text, Text)
        /\ UNCHANGED <<built, image, conn, shares, orphan, reply, fault>>
     \/ /\ boot = "devices" /\ boot' = "files"
        /\ CreateFile(<<"devices">>, Huge, Text)
        /\ UNCHANGED <<built, image, conn, shares, orphan, reply, fault>>
     \/ NoMemory

\* ... then a copy of each file of the image under /boot.  An empty file has no
\* memory, and nothing is copied to it.
BuildBootFile ==
  /\ boot = "files" /\ built < Len(Image) /\ fault = "none"
  /\ \/ /\ built' = built + 1
        /\ CreateFile(<<"boot", Image[built'].name>>, Image[built'].size, Image[built'].size)
        /\ UNCHANGED <<boot, image, conn, shares, orphan, reply, fault>>
     \/ NoMemory

\* RfsDelete and ServerStart.
ServerStart ==
  /\ boot = "files" /\ built = Len(Image) /\ fault = "none"
  /\ boot' = "serving" /\ image' = FALSE
  /\ UNCHANGED <<built, tree, conn, shares, orphan, reply, fault>>

(***************************************************************************)
(* Connections.                                                            *)
(***************************************************************************)
Serving == boot = "serving" /\ fault = "none"
Request(c) == Serving /\ conn[c] # Null

ConnectionAttachHandler(c) ==
  /\ Serving /\ conn[c] = Null
  /\ \/ /\ conn' = [conn EXCEPT ![c] = [file |-> Null, access |-> CONNECT_NO_ACCESS,
                                        state |-> CONNECT_INVALID, seek |-> 0]]
        /\ UNCHANGED <<boot, built, image, tree, shares, orphan, reply, fault>>
     \/ NoMemory

\* UnshareObject, for a client in the shared state.
Unshare(c) ==
  LET ended == IF conn[c].state = CONNECT_SHARED THEN {c} ELSE {}
  IN shared' = shared \ ended /\ lost' = lost \ ended

ConnectionDetachHandler(c) ==
  /\ Request(c)
  /\ Unshare(c)
  /\ conn' = [conn EXCEPT ![c] = Null]
  /\ UNCHANGED <<boot, built, image, tree, orphan, reply, fault>>

(***************************************************************************)
(* Requests.                                                               *)
(***************************************************************************)
\* Mutant: the busy check asks for the open state alone.
BusyIfOpen(c) == conn[c].state = CONNECT_OPEN

Busy(c) == conn[c].file # Null

Opened(c, f, access) ==
  [conn EXCEPT ![c] = [file |-> f, access |-> access, state |-> CONNECT_OPEN, seek |-> @.seek]]

\* CreateFile of an open, with room bytes of memory or, 0, with none: what mmap
\* answers is not looked at, and where no file is made its memory stays behind.
\* A path that is a directory makes CreateFile read through NULL.
OpenNew(c, p, access, room) ==
  \/ /\ ~p.abs \/ Trailing(p)
     /\ orphan' = (orphan \/ room # 0)
     /\ Respond("E_ERROR") /\ UNCHANGED <<tree, conn>>
  \/ /\ p.abs /\ ~Trailing(p) /\ WholePath(p)
     /\ Die("read_through_NULL") /\ UNCHANGED <<tree, conn, orphan>>
  \/ /\ p.abs /\ ~Trailing(p) /\ ~WholePath(p)
     /\ \/ /\ CreateFile(p.comps, Default, room)
           /\ conn' = Opened(c, p.comps, access)
           /\ Respond("E_OK")
        \/ Die("out_of_memory") /\ UNCHANGED <<tree, conn>>
     /\ UNCHANGED orphan

\* The busy check assigns: state =! CONNECT_CLOSE leaves CONNECT_OPEN, also of a
\* client that had shared its file.
FsOpen(c, p, access, create) ==
  /\ Request(c)
  /\ \/ /\ Busy(c)
        /\ conn' = [conn EXCEPT ![c].state = CONNECT_OPEN]
        /\ lost' = IF conn[c].state = CONNECT_SHARED THEN lost \cup ({c} \cap shared) ELSE lost
        /\ Respond("E_BUSY") /\ UNCHANGED <<tree, orphan>>
     \/ /\ ~Busy(c) /\ GetFile(p) # Null
        /\ conn' = Opened(c, GetFile(p), access)
        /\ Respond("E_OK") /\ UNCHANGED <<tree, lost, orphan>>
     \/ /\ ~Busy(c) /\ GetFile(p) = Null /\ ~create
        /\ Respond("E_NO_RES") /\ UNCHANGED <<tree, conn, lost, orphan>>
     \/ /\ ~Busy(c) /\ GetFile(p) = Null /\ create
        /\ \E room \in {0, Default} : OpenNew(c, p, access, room)
        /\ UNCHANGED lost
  /\ UNCHANGED <<boot, built, image, shared>>

FsClose(c) ==
  /\ Request(c)
  /\ Unshare(c)
  /\ conn' = [conn EXCEPT ![c] = [file |-> Null, access |-> CONNECT_NO_ACCESS,
                                  state |-> CONNECT_CLOSE, seek |-> 0]]
  /\ Respond("E_OK")
  /\ UNCHANGED <<boot, built, image, tree, orphan>>

InUse(c) == conn[c].state \in {CONNECT_OPEN, CONNECT_SHARED}

\* size bytes at the client's position, which may lie past the memory behind
\* the file, or there is none: then the server may die of it.
Move(c, size) ==
  \/ /\ conn[c].seek + size <= MaxSeek
     /\ conn' = [conn EXCEPT ![c].seek = @ + size]
     /\ Respond("size")
  \/ /\ size > 0 /\ conn[c].seek + size > file[conn[c].file].room
     /\ Die("outside_the_file") /\ UNCHANGED conn

\* The size read is bounded by the file's, whatever the position.
FsRead(c, rbytes) ==
  /\ Request(c)
  /\ \/ /\ ~InUse(c) \/ conn[c].access = CONNECT_NO_ACCESS
        /\ Respond("E_ERROR") /\ UNCHANGED conn
     \/ /\ InUse(c) /\ conn[c].access # CONNECT_NO_ACCESS
        /\ Move(c, Min({rbytes, file[conn[c].file].size}))
  /\ UNCHANGED <<boot, built, image, tree, shares, orphan>>

\* A client that opened for writing only may not write.
FsWrite(c, sbytes) ==
  /\ Request(c)
  /\ \/ /\ ~InUse(c) \/ conn[c].access # O_RDWR
        /\ Respond("E_ERROR") /\ UNCHANGED conn
     \/ /\ InUse(c) /\ conn[c].access = O_RDWR
        /\ Move(c, sbytes)
  /\ UNCHANGED <<boot, built, image, tree, shares, orphan>>

FsSeek(c, off) ==
  /\ Request(c)
  /\ \/ ~InUse(c) /\ Respond("E_ERROR") /\ UNCHANGED conn
     \/ InUse(c) /\ conn' = [conn EXCEPT ![c].seek = off] /\ Respond("E_OK")
  /\ UNCHANGED <<boot, built, image, tree, shares, orphan>>

\* Mutant: the state says so before the kernel does.
ShareUnheard(c) ==
  /\ Request(c)
  /\ \/ conn[c].state = CONNECT_SHARED /\ Respond("E_OK") /\ UNCHANGED <<conn, shared>>
     \/ ~InUse(c) /\ Respond("E_INVAL") /\ UNCHANGED <<conn, shared>>
     \/ /\ conn[c].state = CONNECT_OPEN
        /\ conn' = [conn EXCEPT ![c].state = CONNECT_SHARED]
        /\ \/ shared' = shared \cup {c} /\ Respond("E_OK")
           \/ UNCHANGED shared /\ Respond("E_ERROR")
  /\ UNCHANGED <<boot, built, image, tree, lost, orphan>>

\* The address ShareObject gives is compared with the file's, and NULL is what it
\* gives when it fails: a file without memory is called shared, which it is not.
FsShare(c) ==
  /\ Request(c)
  /\ \/ conn[c].state = CONNECT_SHARED /\ Respond("E_OK") /\ UNCHANGED <<conn, shared>>
     \/ ~InUse(c) /\ Respond("E_INVAL") /\ UNCHANGED <<conn, shared>>
     \/ /\ conn[c].state = CONNECT_OPEN
        /\ \/ /\ file[conn[c].file].room # 0
              /\ shared' = shared \cup {c}
              /\ conn' = [conn EXCEPT ![c].state = CONNECT_SHARED]
              /\ Respond("E_OK")
           \/ /\ file[conn[c].file].room # 0
              /\ Respond("E_ERROR") /\ UNCHANGED <<conn, shared>>
           \/ /\ file[conn[c].file].room = 0
              /\ conn' = [conn EXCEPT ![c].state = CONNECT_SHARED]
              /\ Respond("E_OK") /\ UNCHANGED shared
  /\ UNCHANGED <<boot, built, image, tree, lost, orphan>>

\* A listing of a directory that its path leads to exactly.
ls(p, code) ==
  /\ Serving
  /\ \/ (code # "INFO_LIST_ALL" \/ ~WholePath(p)) /\ Respond("E_INVAL")
     \/ code = "INFO_LIST_ALL" /\ WholePath(p) /\ Respond("E_OK")
  /\ UNCHANGED <<boot, built, image, tree, conn, shares, orphan>>

Boot == RfsInit \/ RfsParse \/ BuildTexts \/ BuildBootFile \/ ServerStart

Handle(c) ==
  \/ ConnectionAttachHandler(c) \/ ConnectionDetachHandler(c)
  \/ \E p \in Paths, access \in Modes, create \in BOOLEAN : FsOpen(c, p, access, create)
  \/ FsClose(c) \/ FsShare(c)
  \/ \E size \in Sizes : FsRead(c, size) \/ FsWrite(c, size)
  \/ \E off \in Seeks : FsSeek(c, off)

Next ==
  \/ Boot
  \/ \E c \in Scoid : Handle(c)
  \/ \E p \in Paths, code \in {"INFO_LIST_ALL", "other"} : ls(p, code)

Spec == Init /\ [][Next]_vars
-----------------------------------------------------------------------------
\* rfs/main.c:132, 193, 213, 233, 259: a state that lets a request use the client's
\* file has a file to use.  One that says shared has the kernel's mapping, except
\* of a file without memory, and the kernel maps nothing for a client whose state
\* does not say so, except what an open refused as busy has struck from the state.
StateTellsTrue ==
  /\ \A c \in Scoid : conn[c] # Null =>
       /\ InUse(c) <=> conn[c].file # Null
       /\ conn[c].file # Null => conn[c].file \in DOMAIN file
       /\ conn[c].state = CONNECT_SHARED => c \in shared \/ file[conn[c].file].room = 0
  /\ \A c \in shared \ lost : conn[c] # Null /\ conn[c].state = CONNECT_SHARED

\* rfs/fs.c:9-140: each file and each directory lies in a directory, up to the root.
TreeClosed == \A f \in dirs \cup DOMAIN file : Prefixes(f) \subseteq dirs

Connected == {c \in Scoid : conn[c] # Null}
Held(c)   == IF conn[c] = Null THEN Null ELSE conn[c].file

Sessions == INSTANCE FileSessions WITH
  Client <- Scoid, File <- Files, None <- Null, Closes <- TRUE,
  connected <- Connected, holds <- [c \in Scoid |-> Held(c)], exists <- DOMAIN file

\* rfs/main.c:128-187: each client holds the file of its last successful open
\* until its close or its disconnection.
ImplementsSessions == Sessions!Spec
=============================================================================
