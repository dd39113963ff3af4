----------------------------- MODULE ProcServer -----------------------------
(***************************************************************************)
(* The proc file server (proc/): the connection table of connection.c, the *)
(* file tree of proc.c and the request handlers of proc_io.c.              *)
(*                                                                         *)
(* main.c:18 runs ONE dispatcher task, so a handler, from the request to   *)
(* its MsgRespond, is one atomic step; the interleaving is that of the     *)
(* clients' requests and of the kernel's attach and detach notifications.  *)
(* The kernel and the libraries (notifications, ShareObject, mmap) are not *)
(* in the repository: they are modelled from how the handlers use them.    *)
(***************************************************************************)
EXTENDS Naturals, Sequences, SequencesExt

INSTANCE ProcTree WITH NoName <- ""

CONSTANTS
  Scoid,          \* server-side connection ids the kernel hands out
  FileId,         \* file_t blocks (bounds the number of files alive)
  Obj,            \* memory objects: mmap'ed regions and malloc'ed texts
  Null,           \* the NULL pointer / an absent entry
  BootPaths,      \* paths of the boot image's files, /boot/<name>
  Boots,          \* what may be built at boot: sets of paths
  BootBlock,      \* the file_t block each file built at boot gets
  BootObj,        \* the memory each file built at boot gets
  BootText,       \* contents of a boot file
  SysText,        \* contents of the generated /sys and /devices texts
  Byte,           \* byte values, 0 among them
  PageSize,       \* 4096 in the code
  WordSize,       \* 2^32 in the code: uint32_t, size_t and off_t wrap
  RefLimit,       \* 2^16 in the code: file_t.refs is a uint16_t
  Name,           \* components of paths
  Paths,          \* requested paths (bounds the requests)
  Modes,          \* requested access modes, sets of bits
  ReadSizes,      \* requested read sizes
  Payloads,       \* written byte strings
  Offsets,        \* requested seek offsets, words
  TruncateSizes   \* requested truncate sizes, words

\* Mode words as sets of bits: fcntl.h's O_RDONLY is 0, O_WRONLY 1, O_RDWR 2.
O_RDONLY == {}
O_WRONLY == {0}
O_RDWR   == {1}

\* proc.h:47-48
FILE_EXEC_PERMISSION == 0
FILE_MAP_PERMISSION  == 1

Bit == {0, 1}
Word == 0..(WordSize - 1)
AccessWord == SUBSET Bit

\* Mutant: aligned without the wrap.
AlignUpUnbounded(m) == ((m + PageSize - 1) \div PageSize) * PageSize

\* ALIGN_UP(m, 4096), proc_io.c:29, in 32-bit arithmetic.
AlignUp(m) == (((m + PageSize - 1) % WordSize) \div PageSize) * PageSize

SysPaths == {<<"sys">>, <<"devices">>}

ASSUME WidthAssumption ==
  /\ RefLimit \in Nat \ {0}
  /\ PageSize \in Nat \ {0}
  /\ WordSize \in Nat \ {0}
  /\ WordSize % PageSize = 0

ASSUME InputAssumption ==
  /\ IsFiniteSet(Scoid)
  /\ 0 \in Byte
  /\ BootText \in Seq(Byte) /\ SysText \in Seq(Byte)
  /\ BootText # <<>> /\ SysText # <<>>
  /\ Len(BootText) \in Word /\ Len(SysText) \in Word
  /\ Paths \subseteq Seq(Name)
  /\ Modes \subseteq AccessWord
  /\ Payloads \subseteq Seq(Byte)
  /\ ReadSizes \subseteq Word /\ Offsets \subseteq Word /\ TruncateSizes \subseteq Word

\* The image names its files apart, none below another or below a text.
ASSUME BootAssumption ==
  /\ {"sys", "devices"} \subseteq Name
  /\ BootPaths \subseteq Seq(Name) /\ BootPaths \cap SysPaths = {}
  /\ \A p \in BootPaths : p # <<>> /\ Last(p) # ""
  /\ \A p \in BootPaths, q \in BootPaths \cup SysPaths : ~IsStrictPrefix(q, p)
  /\ Boots \subseteq {{}} \cup {SysPaths \cup image : image \in SUBSET BootPaths}
  /\ BootBlock \in Injection(BootPaths \cup SysPaths, FileId)
  /\ BootObj \in Injection(BootPaths \cup SysPaths, Obj)

\* connect_t, connection.h:19-26
Connection == [state   : {"CLOSE", "OPEN", "MAP"},
               access  : AccessWord,
               seek    : Word,
               handler : FileId \cup {Null}]

\* file_t, proc.h:32-43: owner and name as the path from the root.
File == [path       : Seq(Name),
         data       : Obj \cup {Null},
         size       : Word,
         refs       : 0..(RefLimit - 1),
         access     : AccessWord,
         permission : AccessWord]

ASSUME NullAssumption == Null \notin FileId \cup Obj \cup Connection \cup File

Response == [op   : {"none", "open", "close", "read", "write", "seek", "truncate",
                     "share", "info"},
             con  : Scoid \cup {Null},
             ret  : {"none", "E_OK", "E_BUSY", "E_NO_RES", "E_ERROR", "E_INVAL", "FAIL"},
             n    : Nat,
             data : Seq(Byte)]

Fault == {"none", "create on directory", "read past the object",
          "write past the object", "out of memory"}

VARIABLES
  con,      \* connections: Null for a scoid that is not attached
  dirs,     \* the directory tree under root
  file,     \* file_t blocks in the tree: Null for a block not allocated
  mapped,   \* objects the server holds from mmap and has not munmap'ed
  share,    \* the object the kernel shares over each connection, or Null
  mem,      \* contents of the objects; <<>> for one nobody holds
  reply,    \* the last response: who, to what, how, and its data
  fault     \* why the server died, or "none"

table == <<con>>
tree  == <<dirs, file>>
store == <<mapped, share, mem>>
vars  == <<con, dirs, file, mapped, share, mem, reply, fault>>

Live == {f \in FileId : file[f] # Null}
Attached == {c \in Scoid : con[c] # Null}

Closed(c) == con[c].handler = Null \/ con[c].state = "CLOSE"

(***************************************************************************)
(* Boot.  ProcFileSystemBuild either builds the whole tree or, when the    *)
(* image is not found or does not parse, nothing: main ignores its result  *)
(* and starts the server all the same (main.c:35), so {} is one of Boots.  *)
(***************************************************************************)
BootFile(path, obj) ==
  IF path \in SysPaths
  THEN [path |-> path, data |-> obj, size |-> Len(SysText), refs |-> 0,
        access |-> O_RDONLY, permission |-> {}]
  ELSE [path |-> path, data |-> obj, size |-> Len(BootText), refs |-> 0,
        access |-> O_RDWR, permission |-> {FILE_MAP_PERMISSION, FILE_EXEC_PERMISSION}]

Zeros(n) == [i \in 1..n |-> 0]

\* An object backs its file by whole pages: mmap rounds up and zero-fills.
Paged(text) == text \o Zeros(AlignUp(Len(text)) - Len(text))

Built(paths) ==
  /\ file = [f \in FileId |->
               IF \E p \in paths : BootBlock[p] = f
               THEN LET p == CHOOSE q \in paths : BootBlock[q] = f
                    IN  BootFile(p, BootObj[p])
               ELSE Null]
  /\ mapped = {BootObj[p] : p \in paths \ SysPaths}
  /\ mem = [o \in Obj |->
              IF o \in mapped THEN Paged(BootText)
              ELSE IF \E p \in paths : BootObj[p] = o THEN SysText ELSE <<>>]
  /\ dirs = {<<>>} \cup UNION {WithParents({}, p) : p \in paths}

Init ==
  /\ \E paths \in Boots : Built(paths)
  /\ con = [c \in Scoid |-> Null]
  /\ share = [c \in Scoid |-> Null]
  /\ reply = [op |-> "none", con |-> Null, ret |-> "none", n |-> 0, data |-> <<>>]
  /\ fault = "none"

(***************************************************************************)
(* The only ways out of a handler: a response (MsgRespond), or the death   *)
(* of the server, after which nothing is served.  A handler that runs into *)
(* undefined behaviour the hardware may catch dies in this model, and what *)
(* follows it is not explored.                                             *)
(***************************************************************************)
RespondWith(op, c, ret, n, data) ==
  /\ reply' = [op |-> op, con |-> c, ret |-> ret, n |-> n, data |-> data]
  /\ UNCHANGED fault

Respond(op, c, ret) == RespondWith(op, c, ret, 0, <<>>)

Die(why) == fault' = why /\ UNCHANGED <<con, dirs, file, mapped, share, mem, reply>>

\* A request comes from an attached connection, to a living server.
Request(c) == c \in Attached /\ fault = "none"

\* Memory no process holds has no contents (see Truncate and Detach).
Keep(contents, held) == [o \in Obj |-> IF o \in held THEN contents[o] ELSE <<>>]

DataOf(files) == {files[f].data : f \in {g \in FileId : files[g] # Null}} \ {Null}

FreeObj == Obj \ (mapped \cup DataOf(file) \cup {share[c] : c \in Scoid})

(***************************************************************************)
(* Kernel notifications.                                                   *)
(***************************************************************************)
\* ConnectionAttach: "Nested connection are not supported".
Attach(c) ==
  /\ fault = "none"
  /\ \/ /\ con[c] = Null
        /\ con' = [con EXCEPT ![c] = [state |-> "CLOSE", access |-> O_RDONLY,
                                      seek |-> 0, handler |-> Null]]
        /\ UNCHANGED <<dirs, file, store, reply, fault>>
     \/ con[c] # Null /\ UNCHANGED vars

\* ProcFileClose: --file->refs, on 16 bits.
ProcFileClose(f) ==
  file' = [file EXCEPT ![f].refs = (@ + RefLimit - 1) % RefLimit]

\* Mutant: a mapped connection is unshared and its file forgotten.
CloseOrUnshare(c) ==
  IF con[c].state = "MAP"
  THEN share' = [share EXCEPT ![c] = Null] /\ UNCHANGED file
  ELSE ProcFileClose(con[c].handler) /\ UNCHANGED share

\* Mutant: the file is given back, the share stays.
CloseWithoutUnshare(c) == ProcFileClose(con[c].handler) /\ UNCHANGED share

\* _io_CloseCallBack on the connection ConnectionDetach has just taken out of
\* the table: unshare if it is mapped, give the file back if it has one.
CloseCallBack(c) ==
  /\ IF con[c].state = "MAP"
     THEN share' = [share EXCEPT ![c] = Null]
     ELSE UNCHANGED share
  /\ IF con[c].handler # Null
     THEN ProcFileClose(con[c].handler)
     ELSE UNCHANGED file

Detach(c) ==
  /\ fault = "none"
  /\ \/ /\ con[c] # Null
        /\ IF con[c].state # "CLOSE"
           THEN CloseCallBack(c)
           ELSE UNCHANGED <<file, share>>
        /\ con' = [con EXCEPT ![c] = Null]
        /\ mem' = Keep(mem, mapped \cup DataOf(file) \cup {share'[d] : d \in Scoid})
        /\ UNCHANGED <<dirs, mapped, reply, fault>>
     \/ con[c] = Null /\ UNCHANGED vars

(***************************************************************************)
(* _io_FileOpen.                                                           *)
(***************************************************************************)
\* Mutant: names are looked up in the root only.
FileGetInRoot(path) == {f \in Live : Len(path) = 1 /\ file[f].path = path}

\* ProcFileGet: the live file the path names, as a set of at most one.
FileGet(path) ==
  IF LeavesFileName(dirs, path) THEN {f \in Live : file[f].path = path} ELSE {}

\* Mutant: access | mode for access & mode.
AdmitsEither(rec, mode) == mode = O_RDONLY \/ rec.access \cup mode # {}

\* ProcFileOpen: read-only always, otherwise one of the mode's bits suffices.
Admits(rec, mode) == mode = O_RDONLY \/ rec.access \cap mode # {}

\* Mutant: ConnectionSetState left out.
OpenWithoutState(c, f, mode) ==
  con' = [con EXCEPT ![c] = [state |-> "CLOSE", access |-> mode,
                             seek |-> 0, handler |-> f]]

OpenConnection(c, f, mode) ==
  con' = [con EXCEPT ![c] = [state |-> "OPEN", access |-> mode,
                             seek |-> 0, handler |-> f]]

\* A connection opens one file at a time.
OpenBusy(c) ==
  /\ con[c].handler # Null \/ con[c].state # "CLOSE"
  /\ Respond("open", c, "E_BUSY")
  /\ UNCHANGED <<con, tree, store>>

\* Mutant: opened again without the busy check.
OpenAgain(c, path, mode) ==
  /\ \E f \in FileGet(path) :
       /\ Admits(file[f], mode)
       /\ file' = [file EXCEPT ![f].refs = (@ + 1) % RefLimit]
       /\ OpenConnection(c, f, mode)
       /\ Respond("open", c, "E_OK")
  /\ UNCHANGED <<dirs, store>>

OpenExisting(c, path, mode) ==
  /\ con[c].handler = Null /\ con[c].state = "CLOSE"
  /\ \E f \in FileGet(path) :
       \/ /\ Admits(file[f], mode)
          /\ file' = [file EXCEPT ![f].refs = (@ + 1) % RefLimit]
          /\ OpenConnection(c, f, mode)
          /\ Respond("open", c, "E_OK")
       \/ /\ ~Admits(file[f], mode)
          /\ Respond("open", c, "E_INVAL")
          /\ UNCHANGED <<con, file>>
  /\ UNCHANGED <<dirs, store>>

\* No file, and none is made: O_CREAT is not asked, or the path ends in '/'.
\* ("" reads path[-1]: it may look like a path that ends in '/'.)
OpenMissing(c, path, creat) ==
  /\ con[c].handler = Null /\ con[c].state = "CLOSE"
  /\ FileGet(path) = {}
  /\ \/ ~creat /\ Respond("open", c, "E_NO_RES")
     \/ creat /\ (EndsInSlash(path) \/ path = <<>>) /\ Respond("open", c, "E_ERROR")
  /\ UNCHANGED <<con, tree, store>>

\* The whole path is a directory: ProcFileCreate reads through the NULL
\* remaining that ProcPathResolve left (proc.c:306).
OpenCreateOnDirectory(c, path, creat) ==
  /\ con[c].handler = Null /\ con[c].state = "CLOSE"
  /\ FileGet(path) = {}
  /\ creat /\ ~EndsInSlash(path) /\ Consumed(dirs, path)
  /\ Die("create on directory")

\* ProcFileCreate links the new file, with its missing directories, before
\* ProcFileOpen judges the mode: a refused mode leaves the file behind.
OpenCreated(c, path, mode, creat) ==
  /\ con[c].handler = Null /\ con[c].state = "CLOSE"
  /\ FileGet(path) = {}
  /\ creat /\ path # <<>> /\ ~EndsInSlash(path) /\ ~Consumed(dirs, path)
  /\ dirs' = WithParents(dirs, path)
  /\ \E f \in FileId \ Live :
       LET new == [path |-> path, data |-> Null, size |-> 0, refs |-> 0,
                   access |-> O_RDWR, permission |-> {FILE_MAP_PERMISSION}]
       IN  \/ /\ Admits(new, mode)
              /\ file' = [file EXCEPT ![f] = [new EXCEPT !.refs = 1 % RefLimit]]
              /\ OpenConnection(c, f, mode)
              /\ Respond("open", c, "E_OK")
           \/ /\ ~Admits(new, mode)
              /\ file' = [file EXCEPT ![f] = new]
              /\ Respond("open", c, "E_INVAL")
              /\ UNCHANGED con
  /\ UNCHANGED store

FileOpen(c, path, mode, creat) ==
  /\ Request(c)
  /\ \/ OpenBusy(c)
     \/ OpenExisting(c, path, mode)
     \/ OpenMissing(c, path, creat)
     \/ OpenCreateOnDirectory(c, path, creat)
     \/ OpenCreated(c, path, mode, creat)

\* _io_FileClose: HANDLE_CLOSE_IO is not defined, the handler only answers; the
\* connection is closed by its detach.
FileClose(c) ==
  /\ Request(c)
  /\ Respond("close", c, "E_OK")
  /\ UNCHANGED <<con, tree, store>>

(***************************************************************************)
(* _io_FileRead, _io_FileWrite, _io_FileSeek.                              *)
(***************************************************************************)
\* The size both handlers compute for a request of n bytes at position pos of
\* a file of the given size; the sum wraps.
TransferSize(n, pos, size) == IF (n + pos) % WordSize < size THEN n ELSE size - pos

\* What the memory of a file holds.
Contents(f) == IF file[f].data = Null THEN <<>> ELSE mem[file[f].data]

FileRead(c, n) ==
  /\ Request(c)
  /\ LET f    == con[c].handler
         pos  == con[c].seek
         size == TransferSize(n, pos, file[f].size)
     IN  \/ /\ Closed(c)
            /\ Respond("read", c, "FAIL")
            /\ UNCHANGED <<con, tree, store>>
         \/ /\ ~Closed(c) /\ pos >= file[f].size
            /\ Respond("read", c, "E_OK")
            /\ UNCHANGED <<con, tree, store>>
         \/ /\ ~Closed(c) /\ pos < file[f].size
            /\ pos + size <= Len(Contents(f))
            /\ con' = [con EXCEPT ![c].seek = (@ + size) % WordSize]
            /\ RespondWith("read", c, "E_OK", size, SubSeq(Contents(f), pos + 1, pos + size))
            /\ UNCHANGED <<tree, store>>
         \/ /\ ~Closed(c) /\ pos < file[f].size
            /\ pos + size > Len(Contents(f))
            /\ Die("read past the object")

\* Mutant: the position is ignored.
OverwriteStart(old, pos, bytes) ==
  [i \in 1..Len(old) |-> IF i <= Len(bytes) THEN bytes[i] ELSE old[i]]

\* memcpy copies all the bytes of the request, not the size just computed.
Overwrite(old, pos, bytes) ==
  [i \in 1..Len(old) |->
     IF i \in (pos + 1)..(pos + Len(bytes)) THEN bytes[i - pos] ELSE old[i]]

FileWrite(c, bytes) ==
  /\ Request(c)
  /\ LET f    == con[c].handler
         pos  == con[c].seek
         size == TransferSize(Len(bytes), pos, file[f].size)
     IN  \/ /\ Closed(c) \/ con[c].access = O_RDONLY
            /\ Respond("write", c, "FAIL")
            /\ UNCHANGED <<con, tree, store>>
         \/ /\ ~Closed(c) /\ con[c].access # O_RDONLY /\ pos >= file[f].size
            /\ Respond("write", c, "E_OK")
            /\ UNCHANGED <<con, tree, store>>
         \/ /\ ~Closed(c) /\ con[c].access # O_RDONLY /\ pos < file[f].size
            /\ pos + Len(bytes) <= Len(Contents(f))
            /\ con' = [con EXCEPT ![c].seek = (@ + size) % WordSize]
            /\ mem' = [mem EXCEPT ![file[f].data] = Overwrite(@, pos, bytes)]
            /\ RespondWith("write", c, "E_OK", size, <<>>)
            /\ UNCHANGED <<tree, mapped, share>>
         \/ /\ ~Closed(c) /\ con[c].access # O_RDONLY /\ pos < file[f].size
            /\ pos + Len(bytes) > Len(Contents(f))
            /\ Die("write past the object")

\* Any word may be asked and is stored as it is; other whences are refused.
FileSeek(c, whence, offset) ==
  /\ Request(c)
  /\ LET base == CASE whence = "SEEK_SET" -> 0
                   [] whence = "SEEK_CUR" -> con[c].seek
                   [] OTHER               -> file[con[c].handler].size
         seek == (base + offset) % WordSize
     IN  \/ /\ Closed(c)
            /\ Respond("seek", c, "E_ERROR")
            /\ UNCHANGED <<con, tree, store>>
         \/ /\ ~Closed(c) /\ whence \notin {"SEEK_SET", "SEEK_CUR", "SEEK_END"}
            /\ Respond("seek", c, "E_INVAL")
            /\ UNCHANGED <<con, tree, store>>
         \/ /\ ~Closed(c) /\ whence \in {"SEEK_SET", "SEEK_CUR", "SEEK_END"}
            /\ con' = [con EXCEPT ![c].seek = seek]
            /\ RespondWith("seek", c, "E_OK", seek, <<>>)
            /\ UNCHANGED <<tree, store>>

(***************************************************************************)
(* _io_FileTruncate, _io_FileShare, _io_ProcInfo.                          *)
(***************************************************************************)
\* Mutant: nothing after the old bytes.
ResizedUnfilled(old, size) == SubSeq(old, 1, IF size < Len(old) THEN size ELSE Len(old))

\* The first bytes of the old memory, zeros after them (memcpy, memset).
Resized(old, size) == [i \in 1..size |-> IF i <= Len(old) THEN old[i] ELSE 0]

\* Mutant: munmap left out.
RemapOnly(old, new) == mapped' = mapped \cup ({new} \ {Null})

\* mmap of the new memory, munmap of the old.
Remap(old, new) == mapped' = (mapped \ {old}) \cup ({new} \ {Null})

\* Any opened connection may truncate, whatever its access mode; the file always
\* moves to fresh memory, even when its size stays the same.
Truncate(c, request) ==
  LET f    == con[c].handler
      size == AlignUp(request)
      old  == SubSeq(Contents(f), 1, file[f].size)
      Move(obj) ==
        /\ Remap(file[f].data, obj)
        /\ file' = [file EXCEPT ![f].size = size, ![f].data = obj]
        /\ mem' = Keep([o \in Obj |-> IF o = obj THEN Resized(old, size) ELSE mem[o]],
                       mapped' \cup DataOf(file') \cup {share[d] : d \in Scoid})
        /\ Respond("truncate", c, "E_OK")
        /\ UNCHANGED <<con, dirs, share>>
  IN  \/ size > 0 /\ \E obj \in FreeObj : Move(obj)
      \/ size = 0 /\ Move(Null)
      \/ size > 0 /\ Die("out of memory")    \* the result of mmap is not checked

FileTruncate(c, request) ==
  /\ Request(c)
  /\ \/ /\ Closed(c)
        /\ Respond("truncate", c, "E_ERROR")
        /\ UNCHANGED <<con, tree, store>>
     \/ /\ ~Closed(c) /\ FILE_MAP_PERMISSION \notin file[con[c].handler].permission
        /\ Respond("truncate", c, "E_ERROR")
        /\ UNCHANGED <<con, tree, store>>
     \/ /\ ~Closed(c) /\ FILE_MAP_PERMISSION \in file[con[c].handler].permission
        /\ Truncate(c, request)

\* ConnectionSetState(con, CONNECTION_MAP) comes before ShareObject, and stays
\* when ShareObject fails.  A file with no memory compares NULL with NULL: a
\* failed share of it is answered with E_OK.
FileShare(c) ==
  /\ Request(c)
  /\ \/ /\ con[c].state = "MAP"
        /\ Respond("share", c, "E_OK")
        /\ UNCHANGED <<con, share>>
     \/ /\ con[c].state = "CLOSE"
        /\ Respond("share", c, "E_INVAL")
        /\ UNCHANGED <<con, share>>
     \/ /\ con[c].state = "OPEN"
        /\ con' = [con EXCEPT ![c].state = "MAP"]
        /\ LET data == file[con[c].handler].data
           IN  \/ /\ data # Null
                  /\ share' = [share EXCEPT ![c] = data]
                  /\ Respond("share", c, "E_OK")
               \/ /\ Respond("share", c, "E_ERROR")
                  /\ UNCHANGED share
               \/ /\ data = Null
                  /\ Respond("share", c, "E_OK")
                  /\ UNCHANGED share
  /\ UNCHANGED <<tree, mapped, mem>>

\* Listing: any path that is a directory, on any connection.
ProcInfo(c, path, listAll) ==
  /\ Request(c)
  /\ Respond("info", c, IF listAll /\ Consumed(dirs, path) THEN "E_OK" ELSE "E_INVAL")
  /\ UNCHANGED <<con, tree, store>>

(***************************************************************************)
(* The other side of a share: the client stores into the memory it maps.   *)
(***************************************************************************)
ClientStore(c) ==
  /\ fault = "none" /\ share[c] # Null
  /\ \E i \in 1..Len(mem[share[c]]), b \in Byte :
       mem' = [mem EXCEPT ![share[c]][i] = b]
  /\ UNCHANGED <<con, dirs, file, mapped, share, reply, fault>>

Handler(c) ==
  \/ \E path \in Paths, mode \in Modes, creat \in BOOLEAN : FileOpen(c, path, mode, creat)
  \/ FileClose(c)
  \/ \E n \in ReadSizes : FileRead(c, n)
  \/ \E bytes \in Payloads : FileWrite(c, bytes)
  \/ \E whence \in {"SEEK_SET", "SEEK_CUR", "SEEK_END", "other"}, offset \in Offsets :
       FileSeek(c, whence, offset)
  \/ \E request \in TruncateSizes : FileTruncate(c, request)
  \/ FileShare(c)
  \/ \E path \in Paths, listAll \in BOOLEAN : ProcInfo(c, path, listAll)

Next == \E c \in Scoid : Attach(c) \/ Detach(c) \/ Handler(c) \/ ClientStore(c)

Spec == Init /\ [][Next]_vars

(***************************************************************************)
(* ProcFileDelete is exported by proc.h but no handler calls it yet.  The  *)
(* Api specification adds it as an operation of the server's own, to check *)
(* that the reference counts are what it needs.                            *)
(***************************************************************************)
\* Mutant: the reference count is not looked at.
DeleteAnyway(f) ==
  /\ fault = "none" /\ f \in Live
  /\ file' = [file EXCEPT ![f] = Null]
  /\ UNCHANGED <<con, dirs, store, reply, fault>>

ProcFileDelete(f) ==
  /\ fault = "none" /\ f \in Live
  /\ file[f].refs = 0                    \* otherwise E_BUSY
  /\ file' = [file EXCEPT ![f] = Null]
  /\ UNCHANGED <<con, dirs, store, reply, fault>>

ApiNext == Next \/ \E f \in FileId : ProcFileDelete(f)

ApiSpec == Init /\ [][ApiNext]_vars
-----------------------------------------------------------------------------
(***************************************************************************)
(* Type correctness of every variable.                                     *)
(***************************************************************************)
TypeOK ==
  /\ con \in [Scoid -> Connection \cup {Null}]
  /\ dirs \subseteq Seq(Name)
  /\ file \in [FileId -> File \cup {Null}]
  /\ mapped \subseteq Obj
  /\ share \in [Scoid -> Obj \cup {Null}]
  /\ mem \in [Obj -> Seq(Byte)]
  /\ reply \in Response
  /\ fault \in Fault

Openers(f) == {c \in Attached : con[c].handler = f}

\* proc.c:365-379 against proc_io.c and connection.c: however connections open,
\* are refused, share, retry and vanish, the reference count of a file is the
\* number of connections that have it open, cut to its 16 bits.
RefsCountOpeners ==
  \A f \in Live : file[f].refs = Cardinality(Openers(f)) % RefLimit

\* proc_io.c:353 "This check shouldn't be required!": a connection has a file
\* exactly when it is not closed, so neither check of a handler can differ.
OpenIffHandler ==
  \A c \in Attached : con[c].state = "CLOSE" <=> con[c].handler = Null

\* proc.c:331 with proc_io.c: a connection's handler never outlives its file,
\* deletions included; it holds while fewer than RefLimit connections exist.
NoDanglingHandle ==
  \A c \in Attached : con[c].handler # Null => con[c].handler \in Live

\* proc_io.c:130-136: a connection that may write has the file's own leave, the
\* one ProcFileOpen looked for, for as long as it stays open.
AccessGranted ==
  \A c \in Attached :
    con[c].access # O_RDONLY =>
      con[c].handler # Null /\ file[con[c].handler].access \cap con[c].access # {}

\* proc.c:246-327: no two files answer to one path, whatever order creations,
\* implicit directories and lookups come in.
UniquePaths ==
  \A f, g \in Live : file[f].path = file[g].path => f = g

\* proc.c:121-161: directories form one tree and every file hangs in it.
TreeWellFormed ==
  /\ IsTree(dirs)
  /\ \A f \in Live : file[f].path # <<>> /\ Front(file[f].path) \in dirs

\* proc.c:186-287: every file is found under its path again, except behind a
\* directory that was created later with the same path.
FilesReachable ==
  \A f \in Live : file[f].path \notin dirs => FileGet(file[f].path) = {f}

\* proc_io.c:310-363 and connection.c:159-183: memory is shared only over a live
\* connection in state MAP; no share is left when the connection is gone, or
\* found on a scoid that is attached again.
SharesOnlyMapped ==
  \A c \in Scoid : share[c] # Null => c \in Attached /\ con[c].state = "MAP"

\* proc_io.c:289-305: what the server has mapped is the memory of its mappable
\* files, each its own; truncation neither leaks a region nor leaves a file
\* on one it gave back.
NoMappingLeak ==
  /\ mapped = {file[f].data : f \in {g \in Live : FILE_MAP_PERMISSION \in file[g].permission}}
                \ {Null}
  /\ \A f, g \in Live : f # g /\ file[f].data # Null => file[f].data # file[g].data

\* proc_io.c:190-233: the size of a file never exceeds the memory behind it, so
\* that seek < size is enough to read and write in bounds.
SizeBacked == \A f \in Live : file[f].size <= Len(Contents(f))

\* proc_io.c:190-308 and proc.c:39-84: as long as no client has it mapped, a text
\* of /sys or /devices, in the server's heap, is not changed, shrunk or moved by
\* any step: its access word keeps writers out and its permission word truncation.
\* (_io_FileShare does not look at the permission; a text that is mapped may be
\* stored into, and of that nothing is said here.)
SysTextsConstant ==
  [][\A f \in Live :
       file[f].permission = {} /\ (\A c \in Scoid : share[c] # file[f].data) =>
         /\ file'[f] # Null /\ file'[f] = [file[f] EXCEPT !.refs = file'[f].refs]
         /\ mem'[file[f].data] = mem[file[f].data]]_vars
-----------------------------------------------------------------------------
(***************************************************************************)
(* What comments of the code say and the code does not do: each of the     *)
(* three is violated by a run of its own.                                  *)
(***************************************************************************)
\* proc.c:304-305 "If we consumed the whole path there is nothing more to be
\* registered... The path is invalid": creating on a directory is answered.
CreateOnDirectoryAnswered == fault # "create on directory"

\* proc_io.c:317 "File is only shared once per connection" and 347 "If connection
\* was shared (mapped) we have to unshare it": MAP says that the file is shared.
MapMeansShared == \A c \in Attached : con[c].state = "MAP" => share[c] # Null

\* proc_io.c:226 "Compute write size": the size computed is what is written, and
\* a write at a position inside the file stays in the file's memory.
WriteWithinObject == fault # "write past the object"
-----------------------------------------------------------------------------
(***************************************************************************)
(* The abstract specifications this one implements.                        *)
(***************************************************************************)
Handle(c) == IF con[c] = Null THEN Null ELSE con[c].handler

Sessions == INSTANCE FileSessions WITH
  Client <- Scoid, File <- FileId, None <- Null, Closes <- FALSE,
  connected <- Attached,
  holds <- [c \in Scoid |-> Handle(c)],
  exists <- Live

\* proc_io.c and connection.c with ProcFileDelete: a file is held from the open
\* that succeeds to the detach, and is never deleted while it is held.
ImplementsSessions == Sessions!Spec

Store == INSTANCE FileStore WITH
  Client <- Scoid, File <- FileId, None <- Null, Byte <- Byte,
  Position <- Word, Unit <- PageSize,
  text <- [f \in FileId |-> IF f \in Live THEN SubSeq(Contents(f), 1, file[f].size) ELSE <<>>],
  holds <- [c \in Scoid |-> Handle(c)],
  writers <- {c \in Attached : con[c].access # O_RDONLY},
  at <- [c \in Scoid |-> IF con[c] = Null THEN 0 ELSE con[c].seek],
  got <- reply.data

\* proc_io.c:178-337: reads, writes, seeks, truncations and shares, from several
\* connections on the same files, are those of byte strings with positions.
ImplementsStore == Store!Spec
=============================================================================
