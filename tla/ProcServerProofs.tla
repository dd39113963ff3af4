-------------------------- MODULE ProcServerProofs --------------------------
(***************************************************************************)
(* Proofs about the proc server, for every value of the constants.         *)
(*                                                                         *)
(* First part: type correctness and the safety of the sessions.  The       *)
(* inductive invariant IInv joins what none of its parts keeps alone: a    *)
(* counter is right when a connection closes because closed means no       *)
(* handler (OpenIffHandler) and the handler is a file (NoDanglingHandle);  *)
(* a deletion leaves no handler dangling because the counter is exact      *)
(* (RefsCountOpeners); a transfer stays typed because memory backs the     *)
(* size (SizeBacked).                                                      *)
(*                                                                         *)
(* Second part: the tree, the access modes and the memory.  On top of IInv:*)
(*                                                                         *)
(*   TreeInv    every path to a directory or a file goes through           *)
(*              directories, so that what FileGet does not find is not     *)
(*              there, and a creation gives no path twice;                 *)
(*   ShareInv   a share goes with the state MAP, a mode with a file that   *)
(*              admits it;                                                 *)
(*   MemoryInv  the regions are those of the mappable files, and the texts *)
(*              of /sys and /devices can be neither written nor truncated; *)
(*   StoreInv   objects are shorter than a word counts, a connection has a *)
(*              position only with a file, and the memory of a file is     *)
(*              shared only with clients that hold the file.               *)
(*                                                                         *)
(* With all of them the server implements FileStore: each step maps to a   *)
(* step on texts and positions, or to a stutter.                           *)
(***************************************************************************)
EXTENDS ProcServer, FiniteSetTheorems, SequenceTheorems, TLAPS

(***************************************************************************)
(* Remainders: counting up and down modulo R.                              *)
(***************************************************************************)
\* A quotient and a remainder determine the remainder.
LEMMA DivUnique ==
  ASSUME NEW R \in Nat \ {0}, NEW q \in Int, NEW r \in 0..(R - 1)
  PROVE  (R * q + r) % R = r
  OBVIOUS

\* Every integer has a quotient and a remainder.
LEMMA DivExists ==
  \A R \in Nat \ {0}, n \in Int : \E q \in Int, r \in 0..(R - 1) : n = R * q + r
<1> SUFFICES ASSUME NEW R \in Nat \ {0}, NEW n \in Int
             PROVE  \E q \in Int, r \in 0..(R - 1) : n = R * q + r
  OBVIOUS
<1>1. n \div R \in Int /\ n % R \in 0..(R - 1)
  OBVIOUS
<1>2. n = R * (n \div R) + (n % R)
  OBVIOUS
<1> QED BY <1>1, <1>2

\* Counting up on a counter that wraps counts up what it stands for (++refs).
LEMMA ModInc ==
  ASSUME NEW R \in Nat \ {0}, NEW n \in Nat
  PROVE  ((n % R) + 1) % R = (n + 1) % R
<1>1. PICK q \in Int, r \in 0..(R - 1) : n = R * q + r
  <2>1. n \in Int
    OBVIOUS
  <2> QED BY <2>1, DivExists, Zenon
<1>2. n % R = r
  BY <1>1, DivUnique
<1>3. CASE r + 1 < R
  <2>1. n + 1 = R * q + (r + 1) /\ r + 1 \in 0..(R - 1)
    BY <1>1, <1>3
  <2>2. (n + 1) % R = r + 1
    BY <2>1, DivUnique
  <2>3. (r + 1) % R = r + 1
    BY <1>3
  <2> QED BY <2>2, <2>3, <1>2
<1>4. CASE r + 1 = R
  <2>1. n + 1 = R * (q + 1) + 0 /\ 0 \in 0..(R - 1) /\ q + 1 \in Int
    BY <1>1, <1>4
  <2>2. (n + 1) % R = 0
    BY <2>1, DivUnique
  <2>3. (r + 1) % R = 0
    BY <1>4, R = R * 1 + 0, DivUnique
  <2> QED BY <2>2, <2>3, <1>2
<1> QED BY <1>3, <1>4, r + 1 <= R

\* Counting down on a counter that wraps undoes counting up (--refs).
LEMMA ModDec ==
  ASSUME NEW R \in Nat \ {0}, NEW n \in Nat
  PROVE  (((n + 1) % R) + R - 1) % R = n % R
<1>1. PICK q \in Int, r \in 0..(R - 1) : n = R * q + r
  <2>1. n \in Int
    OBVIOUS
  <2> QED BY <2>1, DivExists, Zenon
<1>2. n % R = r
  BY <1>1, DivUnique
<1>3. CASE r + 1 < R
  <2>1. n + 1 = R * q + (r + 1) /\ r + 1 \in 0..(R - 1)
    BY <1>1, <1>3
  <2>2. (n + 1) % R = r + 1
    BY <2>1, DivUnique
  <2>3. (r + 1) + R - 1 = R * 1 + r
    OBVIOUS
  <2>4. ((r + 1) + R - 1) % R = r
    BY <2>3, DivUnique
  <2> QED BY <2>2, <2>4, <1>2
<1>4. CASE r + 1 = R
  <2>1. n + 1 = R * (q + 1) + 0 /\ 0 \in 0..(R - 1) /\ q + 1 \in Int
    BY <1>1, <1>4
  <2>2. (n + 1) % R = 0
    BY <2>1, DivUnique
  <2>3. 0 + R - 1 = R * 0 + r
    BY <1>4
  <2>4. (0 + R - 1) % R = r
    BY <2>3, DivUnique
  <2> QED BY <2>2, <2>4, <1>2
<1> QED BY <1>3, <1>4, r + 1 <= R

(***************************************************************************)
(* The inductive invariant.                                                *)
(***************************************************************************)
IInv ==
  /\ TypeOK
  /\ OpenIffHandler
  /\ NoDanglingHandle
  /\ RefsCountOpeners
  /\ SizeBacked

\* A step that only answers, or dies, keeps the invariant.
LEMMA QuietStep ==
  ASSUME IInv, UNCHANGED <<con, tree, store>>,
         reply' \in Response,
         fault' \in Fault
  PROVE  IInv'
<1> USE DEF IInv, tree, store
<1>1. TypeOK'
  BY DEF TypeOK
<1>2. OpenIffHandler'
  BY DEF OpenIffHandler, Attached
<1>3. NoDanglingHandle'
  BY DEF NoDanglingHandle, Attached, Live
<1>4. RefsCountOpeners'
  BY DEF RefsCountOpeners, Attached, Live, Openers
<1>5. SizeBacked'
  BY DEF SizeBacked, Live, Contents
<1> QED BY <1>1, <1>2, <1>3, <1>4, <1>5

\* A handler that only responds keeps the invariant.
LEMMA ResponseStep ==
  ASSUME IInv, UNCHANGED <<con, tree, store>>, NEW c \in Scoid,
         NEW op, NEW ret, [op |-> op, con |-> c, ret |-> ret, n |-> 0, data |-> <<>>] \in Response,
         Respond(op, c, ret)
  PROVE  IInv'
BY QuietStep DEF Respond, RespondWith, IInv, TypeOK

\* The death of the server keeps the invariant.
LEMMA DeathStep ==
  ASSUME IInv, NEW why \in Fault, Die(why)
  PROVE  IInv'
BY QuietStep DEF Die, IInv, TypeOK, tree, store

\* ConnectionAttach keeps the invariant: the new entry is closed.
LEMMA AttachStep == ASSUME IInv, NEW c \in Scoid, Attach(c)  PROVE IInv'
<1>1. CASE con[c] # Null /\ UNCHANGED vars
  BY <1>1, QuietStep DEF vars, tree, store, IInv, TypeOK
<1>2. CASE /\ con[c] = Null
           /\ con' = [con EXCEPT ![c] = [state |-> "CLOSE", access |-> O_RDONLY,
                                         seek |-> 0, handler |-> Null]]
           /\ UNCHANGED <<dirs, file, store, reply, fault>>
  <2> USE <1>2 DEF IInv, store
  <2>1. [state |-> "CLOSE", access |-> O_RDONLY, seek |-> 0, handler |-> Null] \in Connection
    BY WidthAssumption DEF Connection, O_RDONLY, AccessWord, Word
  <2>2. TypeOK'
    BY <2>1 DEF TypeOK
  <2>3. con'[c] = [state |-> "CLOSE", access |-> O_RDONLY, seek |-> 0, handler |-> Null]
        /\ (\A d \in Scoid \ {c} : con'[d] = con[d]) /\ Attached' = Attached \cup {c}
        /\ con'[c] # Null
    BY <2>1, NullAssumption DEF TypeOK, Attached
  <2>4. OpenIffHandler'
    BY <2>3 DEF OpenIffHandler, Attached
  <2>5. NoDanglingHandle'
    BY <2>3 DEF NoDanglingHandle, Attached, Live
  <2>6. \A f \in Live' : Openers(f)' = Openers(f)
    BY <2>3, NullAssumption DEF Openers, Attached, Live
  <2>7. RefsCountOpeners'
    BY <2>6 DEF RefsCountOpeners, Live
  <2>8. SizeBacked'
    BY DEF SizeBacked, Contents, Live
  <2> QED BY <2>2, <2>4, <2>5, <2>7, <2>8
<1> QED BY <1>1, <1>2 DEF Attach

\* A live file's block is overwritten: the same files live.
LEMMA FileChanged ==
  ASSUME IInv, NEW f \in Live, NEW new \in File, file' = [file EXCEPT ![f] = new]
  PROVE  /\ file' \in [FileId -> File \cup {Null}]
         /\ file'[f] = new /\ \A g \in FileId \ {f} : file'[g] = file[g]
         /\ Live' = Live
<1>1. f \in FileId /\ file \in [FileId -> File \cup {Null}] /\ new # Null
  BY NullAssumption DEF IInv, TypeOK, Live
<1>2. /\ file' \in [FileId -> File \cup {Null}]
      /\ file'[f] = new /\ \A g \in FileId \ {f} : file'[g] = file[g]
  BY <1>1
<1> QED BY <1>1, <1>2 DEF Live

\* One opener more or less changes only the counter of a file's block.
LEMMA RefsChanged ==
  ASSUME IInv, NEW f \in Live, NEW k \in Int, file' = [file EXCEPT ![f].refs = k % RefLimit]
  PROVE  /\ file' \in [FileId -> File \cup {Null}]
         /\ file'[f] = [file[f] EXCEPT !.refs = k % RefLimit]
         /\ file'[f].refs = k % RefLimit
         /\ \A g \in FileId \ {f} : file'[g] = file[g]
         /\ \A g \in Live : /\ file'[g].size = file[g].size /\ file'[g].data = file[g].data
                            /\ file'[g].access = file[g].access
         /\ Live' = Live
<1> DEFINE new == [file[f] EXCEPT !.refs = k % RefLimit]
<1>1. f \in FileId /\ file[f] \in File
  BY DEF IInv, TypeOK, Live
<1>2. k % RefLimit \in 0..(RefLimit - 1)
  BY WidthAssumption
<1>3. /\ new \in File /\ new.refs = k % RefLimit /\ new.size = file[f].size
      /\ new.data = file[f].data /\ new.access = file[f].access
  BY <1>1, <1>2 DEF File
<1>4. file' = [file EXCEPT ![f] = new]
  OBVIOUS
<1>5. /\ file' \in [FileId -> File \cup {Null}]
      /\ file'[f] = new /\ \A g \in FileId \ {f} : file'[g] = file[g]
      /\ Live' = Live
  BY <1>3, <1>4, FileChanged
<1> QED BY <1>3, <1>5 DEF Live

\* A connection that keeps its handler and stays open keeps all that is said
\* of handlers and counts.
LEMMA HandlerKept ==
  ASSUME IInv, NEW c \in Attached, NEW new \in Connection,
         new.handler = con[c].handler, new.state = "CLOSE" <=> con[c].state = "CLOSE",
         con' = [con EXCEPT ![c] = new], UNCHANGED file
  PROVE  /\ con' \in [Scoid -> Connection \cup {Null}]
         /\ OpenIffHandler' /\ NoDanglingHandle' /\ RefsCountOpeners'
<1> USE DEF IInv
<1>1. c \in Scoid /\ con' \in [Scoid -> Connection \cup {Null}]
  BY DEF TypeOK, Attached
<1>2. con'[c] = new /\ (\A d \in Scoid \ {c} : con'[d] = con[d]) /\ Attached' = Attached
  BY <1>1, NullAssumption DEF TypeOK, Attached
<1>3. OpenIffHandler'
  BY <1>2 DEF OpenIffHandler, Attached
<1>4. NoDanglingHandle'
  BY <1>2 DEF NoDanglingHandle, Attached, Live
<1>5. \A f \in Live' : Openers(f)' = Openers(f)
  BY <1>2 DEF Openers, Attached, Live
<1>6. RefsCountOpeners'
  BY <1>5 DEF RefsCountOpeners, Live
<1> QED BY <1>1, <1>3, <1>4, <1>6

\* The handler of an opened connection is a live file (the check at
\* proc_io.c:353 is redundant).
LEMMA OpenHandle ==
  ASSUME IInv, NEW c \in Attached, ~Closed(c)
  PROVE  /\ con[c] \in Connection /\ con[c].handler \in Live
         /\ file[con[c].handler] \in File /\ con[c].handler \in FileId
  BY DEF IInv, TypeOK, Closed, NoDanglingHandle, Attached, Live

\* A live file's memory holds bytes, as many as its size at least.
LEMMA ContentsType ==
  ASSUME IInv, NEW f \in Live
  PROVE  Contents(f) \in Seq(Byte) /\ file[f].size <= Len(Contents(f))
  BY DEF IInv, TypeOK, Contents, SizeBacked, Live, File

\* A word is what is left of an integer modulo WordSize.
LEMMA WordStep ==
  ASSUME NEW a \in Int
  PROVE  a % WordSize \in Word
  BY WidthAssumption DEF Word

\* Moving a position disturbs neither handlers nor counts.
LEMMA SeekMoves ==
  ASSUME IInv, NEW c \in Attached, NEW w \in Word, con' = [con EXCEPT ![c].seek = w],
         UNCHANGED file
  PROVE  /\ con' \in [Scoid -> Connection \cup {Null}]
         /\ OpenIffHandler' /\ NoDanglingHandle' /\ RefsCountOpeners'
<1>1. con[c] \in Connection
  BY DEF IInv, TypeOK, Attached
<1>2. [con[c] EXCEPT !.seek = w] \in Connection
      /\ [con[c] EXCEPT !.seek = w].handler = con[c].handler
      /\ [con[c] EXCEPT !.seek = w].state = con[c].state
  BY <1>1 DEF Connection
<1>3. con' = [con EXCEPT ![c] = [con[c] EXCEPT !.seek = w]]
  OBVIOUS
<1> QED BY <1>2, <1>3, HandlerKept

\* _io_FileRead keeps the invariant.
LEMMA ReadStep ==
  ASSUME IInv, NEW c \in Scoid, NEW n \in ReadSizes, FileRead(c, n)
  PROVE  IInv'
<1> DEFINE f == con[c].handler
           pos == con[c].seek
           size == TransferSize(n, pos, file[f].size)
<1>1. c \in Attached
  BY DEF FileRead, Request
<1>2. CASE UNCHANGED <<con, tree, store>> /\ (Respond("read", c, "FAIL") \/ Respond("read", c, "E_OK"))
  BY <1>2, ResponseStep DEF Response
<1>3. CASE Die("read past the object")
  BY <1>3, DeathStep DEF Fault
<1>4. CASE /\ ~Closed(c) /\ pos < file[f].size
           /\ pos + size <= Len(Contents(f))
           /\ con' = [con EXCEPT ![c].seek = (@ + size) % WordSize]
           /\ RespondWith("read", c, "E_OK", size, SubSeq(Contents(f), pos + 1, pos + size))
           /\ UNCHANGED <<tree, store>>
  <2> USE <1>4
  <2>1. f \in Live /\ file[f] \in File /\ con[c] \in Connection
    BY <1>1, OpenHandle
  <2>2. Contents(f) \in Seq(Byte)
    BY <2>1, ContentsType
  <2> HIDE DEF f
  <2>3. pos \in Nat /\ n \in Nat /\ file[f].size \in Nat
    BY <2>1, InputAssumption, WidthAssumption DEF Connection, File, Word
  <2>10. size \in Nat
    BY <2>3 DEF TransferSize
  <2>4. SubSeq(Contents(f), pos + 1, pos + size) \in Seq(Byte)
    <3>1. \A i \in (pos + 1)..(pos + size) : Contents(f)[i] \in Byte
      BY <2>2, <2>3, <2>10
    <3> QED BY <3>1, <2>3, <2>10, SubSeqProperties
  <2>5. (pos + size) % WordSize \in Word
    BY <2>3, <2>10, WordStep
  <2>6. con' = [con EXCEPT ![c].seek = (pos + size) % WordSize] /\ UNCHANGED file
    BY DEF tree
  <2>7. /\ con' \in [Scoid -> Connection \cup {Null}]
        /\ OpenIffHandler' /\ NoDanglingHandle' /\ RefsCountOpeners'
    BY <1>1, <2>5, <2>6, SeekMoves
  <2>8. TypeOK'
    BY <2>10, <2>4, <2>7 DEF TypeOK, IInv, RespondWith, Response, tree, store
  <2>9. SizeBacked'
    BY DEF IInv, SizeBacked, Contents, Live, tree, store
  <2> QED BY <2>7, <2>8, <2>9 DEF IInv
<1> QED BY <1>2, <1>3, <1>4 DEF FileRead

\* Memory whose objects keep their lengths backs the same files.
LEMMA SameBacking ==
  ASSUME IInv, UNCHANGED file, \A o \in Obj : Len(mem'[o]) = Len(mem[o])
  PROVE  SizeBacked'
<1> SUFFICES ASSUME NEW f \in Live
             PROVE  file[f].size <= Len(Contents(f)')
  BY DEF SizeBacked, Live, Contents
<1>1. file[f].data \in Obj \cup {Null}
  BY DEF IInv, TypeOK, Live, File
<1> QED BY <1>1 DEF IInv, SizeBacked, Contents

\* A transfer into memory keeps its length.
LEMMA OverwriteType ==
  ASSUME NEW old \in Seq(Byte), NEW pos \in Nat, NEW bytes \in Seq(Byte)
  PROVE  Overwrite(old, pos, bytes) \in Seq(Byte) /\ Len(Overwrite(old, pos, bytes)) = Len(old)
<1>1. \A i \in 1..Len(old) :
        (IF i \in (pos + 1)..(pos + Len(bytes)) THEN bytes[i - pos] ELSE old[i]) \in Byte
  <2> TAKE i \in 1..Len(old)
  <2>1. CASE i \in (pos + 1)..(pos + Len(bytes))
    <3>1. i - pos \in 1..Len(bytes)
      BY <2>1
    <3> QED BY <2>1, <3>1
  <2>2. CASE i \notin (pos + 1)..(pos + Len(bytes))
    BY <2>2
  <2> QED BY <2>1, <2>2
<1> QED BY <1>1 DEF Overwrite

\* _io_FileWrite keeps the invariant.
LEMMA WriteStep ==
  ASSUME IInv, NEW c \in Scoid, NEW bytes \in Payloads, FileWrite(c, bytes)
  PROVE  IInv'
<1> DEFINE f == con[c].handler
           pos == con[c].seek
           size == TransferSize(Len(bytes), pos, file[f].size)
<1>1. c \in Attached
  BY DEF FileWrite, Request
<1>2. CASE UNCHANGED <<con, tree, store>> /\ (Respond("write", c, "FAIL") \/ Respond("write", c, "E_OK"))
  BY <1>2, ResponseStep DEF Response
<1>3. CASE Die("write past the object")
  BY <1>3, DeathStep DEF Fault
<1>4. CASE /\ ~Closed(c) /\ con[c].access # O_RDONLY /\ pos < file[f].size
           /\ pos + Len(bytes) <= Len(Contents(f))
           /\ con' = [con EXCEPT ![c].seek = (@ + size) % WordSize]
           /\ mem' = [mem EXCEPT ![file[f].data] = Overwrite(@, pos, bytes)]
           /\ RespondWith("write", c, "E_OK", size, <<>>)
           /\ UNCHANGED <<tree, mapped, share>>
  <2> USE <1>4
  <2>1. f \in Live /\ file[f] \in File /\ con[c] \in Connection
    BY <1>1, OpenHandle
  <2> HIDE DEF f
  <2>2. pos \in Nat /\ bytes \in Seq(Byte) /\ file[f].size \in Nat
    BY <2>1, InputAssumption, WidthAssumption DEF Connection, File, Word
  <2>3. size \in Nat
    BY <2>2 DEF TransferSize
  <2>4. (pos + size) % WordSize \in Word
    BY <2>2, <2>3, WordStep
  <2>5. con' = [con EXCEPT ![c].seek = (pos + size) % WordSize] /\ UNCHANGED file
    BY DEF tree
  <2>6. /\ con' \in [Scoid -> Connection \cup {Null}]
        /\ OpenIffHandler' /\ NoDanglingHandle' /\ RefsCountOpeners'
    BY <1>1, <2>4, <2>5, SeekMoves
  <2>7. file[f].data \in Obj
    BY <2>1, <2>2, ContentsType DEF File, Contents
  <2>8. mem' \in [Obj -> Seq(Byte)] /\ \A o \in Obj : Len(mem'[o]) = Len(mem[o])
    BY <2>2, <2>7, OverwriteType DEF IInv, TypeOK
  <2>9. TypeOK'
    BY <2>3, <2>6, <2>8 DEF TypeOK, IInv, RespondWith, Response, tree
  <2>10. SizeBacked'
    BY <2>5, <2>8, SameBacking
  <2> QED BY <2>6, <2>9, <2>10 DEF IInv
<1> QED BY <1>2, <1>3, <1>4 DEF FileWrite

\* _io_FileSeek keeps the invariant.
LEMMA SeekStep ==
  ASSUME IInv, NEW c \in Scoid, NEW whence, NEW offset \in Offsets, FileSeek(c, whence, offset)
  PROVE  IInv'
<1> DEFINE base == CASE whence = "SEEK_SET" -> 0
                     [] whence = "SEEK_CUR" -> con[c].seek
                     [] OTHER               -> file[con[c].handler].size
           seek == (base + offset) % WordSize
<1>1. c \in Attached
  BY DEF FileSeek, Request
<1>2. CASE UNCHANGED <<con, tree, store>> /\ (Respond("seek", c, "E_ERROR") \/ Respond("seek", c, "E_INVAL"))
  BY <1>2, ResponseStep DEF Response
<1>3. CASE /\ ~Closed(c)
           /\ con' = [con EXCEPT ![c].seek = seek]
           /\ RespondWith("seek", c, "E_OK", seek, <<>>)
           /\ UNCHANGED <<tree, store>>
  <2> USE <1>3
  <2>1. file[con[c].handler] \in File /\ con[c] \in Connection
    BY <1>1, OpenHandle
  <2>2. con[c].seek \in Nat /\ file[con[c].handler].size \in Nat /\ offset \in Nat
    BY <2>1, InputAssumption, WidthAssumption DEF Connection, File, Word
  <2>3. base \in Nat
    BY <2>2
  <2> HIDE DEF base
  <2>8. base + offset \in Int
    BY <2>2, <2>3
  <2>4. seek \in Word /\ seek \in Nat
    BY <2>8, WordStep, WidthAssumption DEF Word
  <2> HIDE DEF seek
  <2>5. /\ con' \in [Scoid -> Connection \cup {Null}]
        /\ OpenIffHandler' /\ NoDanglingHandle' /\ RefsCountOpeners'
    BY <1>1, <2>4, SeekMoves DEF tree
  <2>6. TypeOK'
    BY <2>4, <2>5 DEF TypeOK, IInv, RespondWith, Response, tree, store
  <2>7. SizeBacked'
    BY DEF IInv, SizeBacked, Contents, Live, tree, store
  <2> QED BY <2>5, <2>6, <2>7 DEF IInv
<1> QED BY <1>2, <1>3 DEF FileSeek

\* _io_FileShare keeps the invariant, whether ShareObject succeeds or not.
LEMMA ShareStep ==
  ASSUME IInv, NEW c \in Scoid, FileShare(c)
  PROVE  IInv'
<1>1. c \in Attached /\ UNCHANGED <<tree, mapped, mem>>
  BY DEF FileShare, Request
<1>2. CASE /\ Respond("share", c, "E_OK") \/ Respond("share", c, "E_INVAL")
           /\ UNCHANGED <<con, share>>
  BY <1>1, <1>2, ResponseStep DEF Response, store
<1>3. CASE /\ con[c].state = "OPEN"
           /\ con' = [con EXCEPT ![c].state = "MAP"]
           /\ share' \in {share, [share EXCEPT ![c] = file[con[c].handler].data]}
           /\ Respond("share", c, "E_OK") \/ Respond("share", c, "E_ERROR")
  <2> USE <1>3
  <2>1. con[c] \in Connection
    BY <1>1 DEF IInv, TypeOK, Attached
  <2>2. [con[c] EXCEPT !.state = "MAP"] \in Connection
        /\ [con[c] EXCEPT !.state = "MAP"].handler = con[c].handler
        /\ [con[c] EXCEPT !.state = "MAP"].state = "MAP"
    BY <2>1 DEF Connection
  <2>3. /\ con' \in [Scoid -> Connection \cup {Null}]
        /\ OpenIffHandler' /\ NoDanglingHandle' /\ RefsCountOpeners'
    <3>1. con' = [con EXCEPT ![c] = [con[c] EXCEPT !.state = "MAP"]] /\ UNCHANGED file
      BY <1>1 DEF tree
    <3> QED BY <1>1, <2>2, <3>1, HandlerKept
  <2>4. file[con[c].handler].data \in Obj \cup {Null}
    BY <1>1, <2>1 DEF IInv, OpenIffHandler, NoDanglingHandle, TypeOK, Live, File
  <2>7. share' \in [Scoid -> Obj \cup {Null}]
    BY <2>4 DEF TypeOK, IInv
  <2>8. reply' \in Response /\ UNCHANGED fault
    <3>1. <<>> \in Seq(Byte) /\ 0 \in Nat
      OBVIOUS
    <3>2. CASE Respond("share", c, "E_OK")
      BY <3>1, <3>2 DEF Respond, RespondWith, Response
    <3>3. CASE Respond("share", c, "E_ERROR")
      BY <3>1, <3>3 DEF Respond, RespondWith, Response
    <3> QED BY <3>2, <3>3
  <2>5. TypeOK'
    BY <1>1, <2>3, <2>7, <2>8 DEF TypeOK, IInv, tree
  <2>6. SizeBacked'
    BY <1>1 DEF IInv, SizeBacked, Contents, Live, tree
  <2> QED BY <2>3, <2>5, <2>6 DEF IInv
<1> QED BY <1>2, <1>3 DEF FileShare

\* A store of a client through its mapping keeps the invariant.
LEMMA ClientStoreStep ==
  ASSUME IInv, NEW c \in Scoid, ClientStore(c)
  PROVE  IInv'
<1> DEFINE o == share[c]
<1>1. o \in Obj /\ UNCHANGED <<con, dirs, file, mapped, share, reply, fault>>
  BY DEF ClientStore, IInv, TypeOK
<1>2. PICK i \in 1..Len(mem[o]), b \in Byte : mem' = [mem EXCEPT ![o][i] = b]
  BY DEF ClientStore
<1>3. mem' = [mem EXCEPT ![o] = [mem[o] EXCEPT ![i] = b]]
  BY <1>2
<1>4. mem[o] \in Seq(Byte)
  BY <1>1 DEF IInv, TypeOK
<1>5. [mem[o] EXCEPT ![i] = b] \in Seq(Byte) /\ Len([mem[o] EXCEPT ![i] = b]) = Len(mem[o])
  BY <1>4, ExceptSeq
<1>6. mem' \in [Obj -> Seq(Byte)] /\ \A p \in Obj : Len(mem'[p]) = Len(mem[p])
  BY <1>1, <1>3, <1>5 DEF IInv, TypeOK
<1>7. TypeOK'
  BY <1>1, <1>6 DEF IInv, TypeOK
<1>8. OpenIffHandler' /\ NoDanglingHandle' /\ RefsCountOpeners'
  BY <1>1 DEF IInv, OpenIffHandler, NoDanglingHandle, RefsCountOpeners, Openers, Attached, Live
<1>9. SizeBacked'
  BY <1>1, <1>6, SameBacking
<1> QED BY <1>7, <1>8, <1>9 DEF IInv

\* _io_ProcInfo keeps the invariant.
LEMMA InfoStep ==
  ASSUME IInv, NEW c \in Scoid, NEW path \in Paths, NEW listAll \in BOOLEAN,
         ProcInfo(c, path, listAll)
  PROVE  IInv'
BY ResponseStep DEF ProcInfo, Response

\* _io_FileClose keeps the invariant.
LEMMA CloseStep ==
  ASSUME IInv, NEW c \in Scoid, FileClose(c)
  PROVE  IInv'
BY ResponseStep DEF FileClose, Response

\* A file has finitely many openers.
LEMMA OpenersFinite ==
  ASSUME NEW f
  PROVE  IsFiniteSet(Openers(f)) /\ Cardinality(Openers(f)) \in Nat
BY FS_Subset, FS_CardinalityType, InputAssumption DEF Openers, Attached

\* A closed connection takes file f: f has one opener more, the others the same.
LEMMA OpenerGained ==
  ASSUME IInv, NEW c \in Attached, con[c].handler = Null, NEW f \in FileId,
         NEW mode \in Modes, OpenConnection(c, f, mode)
  PROVE  /\ con' \in [Scoid -> Connection \cup {Null}]
         /\ Attached' = Attached
         /\ OpenIffHandler'
         /\ con'[c].handler = f /\ \A d \in Attached \ {c} : con'[d] = con[d]
         /\ Cardinality(Openers(f)') = Cardinality(Openers(f)) + 1
         /\ \A g \in FileId \ {f} : Openers(g)' = Openers(g)
<1> DEFINE new == [state |-> "OPEN", access |-> mode, seek |-> 0, handler |-> f]
<1>1. new \in Connection /\ new # Null /\ f # Null /\ c \in Scoid
  BY InputAssumption, WidthAssumption, NullAssumption DEF Connection, Word, Attached
<1>2. con' = [con EXCEPT ![c] = new] /\ con' \in [Scoid -> Connection \cup {Null}]
  BY <1>1 DEF OpenConnection, IInv, TypeOK
<1>3. con'[c] = new /\ (\A d \in Scoid \ {c} : con'[d] = con[d]) /\ Attached' = Attached
  BY <1>1, <1>2 DEF IInv, TypeOK, Attached
<1>4. OpenIffHandler'
  BY <1>1, <1>3 DEF IInv, OpenIffHandler, Attached
<1>5. Openers(f)' = Openers(f) \cup {c} /\ c \notin Openers(f)
  BY <1>1, <1>3 DEF Openers, Attached
<1>6. \A g \in FileId \ {f} : Openers(g)' = Openers(g)
  BY <1>1, <1>3, NullAssumption DEF Openers, Attached
<1>7. Cardinality(Openers(f)') = Cardinality(Openers(f)) + 1
  BY <1>5, OpenersFinite, FS_AddElement
<1> QED BY <1>1, <1>2, <1>3, <1>4, <1>6, <1>7 DEF Attached

\* Opening a file that exists keeps the invariant: its count follows its openers.
LEMMA OpenExistingStep ==
  ASSUME IInv, NEW c \in Attached, NEW path \in Paths, NEW mode \in Modes,
         OpenExisting(c, path, mode)
  PROVE  IInv'
<1>1. PICK f \in FileGet(path) :
       \/ /\ Admits(file[f], mode)
          /\ file' = [file EXCEPT ![f].refs = (@ + 1) % RefLimit]
          /\ OpenConnection(c, f, mode)
          /\ Respond("open", c, "E_OK")
       \/ /\ ~Admits(file[f], mode)
          /\ Respond("open", c, "E_INVAL")
          /\ UNCHANGED <<con, file>>
  BY DEF OpenExisting
<1>2. con[c].handler = Null /\ UNCHANGED <<dirs, store>> /\ c \in Scoid
  BY DEF OpenExisting, Attached
<1>3. f \in Live /\ f \in FileId /\ file[f] \in File /\ file[f] # Null
  BY DEF FileGet, Live, IInv, TypeOK
<1>4. CASE Respond("open", c, "E_INVAL") /\ UNCHANGED <<con, file>>
  BY <1>2, <1>4, ResponseStep DEF Response, tree
<1>5. CASE /\ file' = [file EXCEPT ![f].refs = (@ + 1) % RefLimit]
           /\ OpenConnection(c, f, mode)
           /\ Respond("open", c, "E_OK")
  <2>1. /\ con' \in [Scoid -> Connection \cup {Null}]
        /\ Attached' = Attached
        /\ OpenIffHandler'
        /\ con'[c].handler = f /\ \A d \in Attached \ {c} : con'[d] = con[d]
        /\ Cardinality(Openers(f)') = Cardinality(Openers(f)) + 1
        /\ \A g \in FileId \ {f} : Openers(g)' = Openers(g)
    BY <1>2, <1>3, <1>5, OpenerGained
  <2>2. file[f].refs + 1 \in Int /\ file' = [file EXCEPT ![f].refs = (file[f].refs + 1) % RefLimit]
    BY <1>3, <1>5, WidthAssumption DEF File
  <2>3. /\ file' \in [FileId -> File \cup {Null}]
        /\ file'[f].refs = (file[f].refs + 1) % RefLimit
        /\ \A g \in FileId \ {f} : file'[g] = file[g]
        /\ \A g \in Live : file'[g].size = file[g].size /\ file'[g].data = file[g].data
        /\ Live' = Live
    BY <1>3, <2>2, RefsChanged
  <2>4. reply' \in Response /\ UNCHANGED fault
    BY <1>2, <1>5 DEF Respond, RespondWith, Response
  <2>5. TypeOK'
    BY <1>2, <2>1, <2>3, <2>4 DEF IInv, TypeOK, store
  <2>6. NoDanglingHandle'
    BY <1>3, <2>1, <2>3 DEF IInv, NoDanglingHandle
  <2>7. RefsCountOpeners'
    <3>1. file[f].refs = Cardinality(Openers(f)) % RefLimit
      BY <1>3 DEF IInv, RefsCountOpeners
    <3>2. file'[f].refs = Cardinality(Openers(f)') % RefLimit
      BY <2>1, <2>3, <3>1, OpenersFinite, ModInc, WidthAssumption
    <3>3. \A g \in Live \ {f} : file'[g].refs = Cardinality(Openers(g)') % RefLimit
      BY <2>1, <2>3 DEF IInv, RefsCountOpeners, Live
    <3> QED BY <2>3, <3>2, <3>3 DEF RefsCountOpeners
  <2>8. SizeBacked'
    BY <1>2, <2>3 DEF IInv, SizeBacked, Contents, store
  <2> QED BY <2>1, <2>5, <2>6, <2>7, <2>8 DEF IInv
<1> QED BY <1>1, <1>4, <1>5

\* A directory on the way to a file is a path.
LEMMA SubSeqName ==
  ASSUME NEW path \in Seq(Name), NEW i \in 0..(Len(path) - 1)
  PROVE  SubSeq(path, 1, i) \in Seq(Name)
<1>1. \A j \in 1..i : path[j] \in Name
  OBVIOUS
<1> QED BY <1>1, SubSeqProperties

\* ProcFileCreate makes a well-formed file_t.
LEMMA NewFileType ==
  ASSUME NEW path \in Paths
  PROVE  LET new == [path |-> path, data |-> Null, size |-> 0, refs |-> 0,
                     access |-> O_RDWR, permission |-> {FILE_MAP_PERMISSION}]
         IN  /\ new \in File /\ [new EXCEPT !.refs = 1 % RefLimit] \in File
             /\ new.refs = 0 % RefLimit
<1>1. 0 % RefLimit = 0 /\ 0 \in 0..(RefLimit - 1) /\ 1 % RefLimit \in 0..(RefLimit - 1)
      /\ 0 \in Word
  BY WidthAssumption DEF Word
<1>2. path \in Seq(Name)
  BY InputAssumption
<1>3. O_RDWR \in AccessWord /\ {FILE_MAP_PERMISSION} \in AccessWord
  BY DEF AccessWord, Bit, O_RDWR, FILE_MAP_PERMISSION
<1> QED BY <1>1, <1>2, <1>3 DEF File

\* Opening a file that is created keeps the invariant, its mode admitted or not.
LEMMA OpenCreatedStep ==
  ASSUME IInv, NEW c \in Attached, NEW path \in Paths, NEW mode \in Modes, NEW creat \in BOOLEAN,
         OpenCreated(c, path, mode, creat)
  PROVE  IInv'
<1> DEFINE new == [path |-> path, data |-> Null, size |-> 0, refs |-> 0,
                   access |-> O_RDWR, permission |-> {FILE_MAP_PERMISSION}]
<1>1. PICK f \in FileId \ Live :
        \/ /\ file' = [file EXCEPT ![f] = [new EXCEPT !.refs = 1 % RefLimit]]
           /\ OpenConnection(c, f, mode)
           /\ Respond("open", c, "E_OK")
        \/ /\ file' = [file EXCEPT ![f] = new]
           /\ Respond("open", c, "E_INVAL")
           /\ UNCHANGED con
  BY DEF OpenCreated
<1>2. /\ con[c].handler = Null /\ UNCHANGED store /\ c \in Scoid
      /\ dirs' = WithParents(dirs, path)
  BY DEF OpenCreated, Attached
<1>3. dirs' \subseteq Seq(Name)
  BY <1>2, InputAssumption, SubSeqName DEF WithParents, IInv, TypeOK
<1>4. Openers(f) = {} /\ Cardinality(Openers(f)) = 0
  BY <1>1, FS_EmptySet, NullAssumption DEF Openers, IInv, NoDanglingHandle
<1>5. /\ new \in File /\ [new EXCEPT !.refs = 1 % RefLimit] \in File
      /\ new.refs = 0 % RefLimit
  BY NewFileType
<1>6. PICK rec \in File : /\ file' = [file EXCEPT ![f] = rec] /\ rec.data = Null /\ rec.size = 0
                          /\ \/ /\ rec.refs = 1 % RefLimit
                                /\ OpenConnection(c, f, mode)
                                /\ Respond("open", c, "E_OK")
                             \/ /\ rec.refs = 0 % RefLimit
                                /\ Respond("open", c, "E_INVAL")
                                /\ UNCHANGED con
  BY <1>1, <1>5
<1>7. /\ file' \in [FileId -> File \cup {Null}]
      /\ file'[f] = rec /\ \A g \in FileId \ {f} : file'[g] = file[g]
      /\ Live' = Live \cup {f}
  BY <1>1, <1>6, NullAssumption DEF IInv, TypeOK, Live
<1>8. /\ con' \in [Scoid -> Connection \cup {Null}]
      /\ OpenIffHandler' /\ NoDanglingHandle'
      /\ rec.refs = Cardinality(Openers(f)') % RefLimit
      /\ \A g \in FileId \ {f} : Openers(g)' = Openers(g)
  <2>1. CASE rec.refs = 1 % RefLimit /\ OpenConnection(c, f, mode)
    <3>1. /\ con' \in [Scoid -> Connection \cup {Null}]
          /\ Attached' = Attached
          /\ OpenIffHandler'
          /\ con'[c].handler = f /\ \A d \in Attached \ {c} : con'[d] = con[d]
          /\ Cardinality(Openers(f)') = Cardinality(Openers(f)) + 1
          /\ \A g \in FileId \ {f} : Openers(g)' = Openers(g)
      BY <1>1, <1>2, <2>1, OpenerGained
    <3>2. NoDanglingHandle'
      BY <1>7, <3>1 DEF IInv, NoDanglingHandle
    <3>3. Cardinality(Openers(f)') = 1
      BY <1>4, <3>1
    <3> QED BY <2>1, <3>1, <3>2, <3>3
  <2>2. CASE rec.refs = 0 % RefLimit /\ UNCHANGED con
    <3>1. Attached' = Attached /\ \A g \in FileId : Openers(g)' = Openers(g)
      BY <2>2 DEF Attached, Openers
    <3>2. OpenIffHandler' /\ NoDanglingHandle'
      BY <1>7, <2>2, <3>1 DEF IInv, OpenIffHandler, NoDanglingHandle
    <3>3. Cardinality(Openers(f)') = 0
      BY <1>1, <1>4, <3>1
    <3> QED BY <2>2, <3>1, <3>2, <3>3 DEF IInv, TypeOK
  <2> QED BY <1>6, <2>1, <2>2
<1>9. reply' \in Response /\ UNCHANGED fault
  <2>1. <<>> \in Seq(Byte) /\ 0 \in Nat
    OBVIOUS
  <2>2. CASE Respond("open", c, "E_OK")
    BY <1>2, <2>1, <2>2 DEF Respond, RespondWith, Response
  <2>3. CASE Respond("open", c, "E_INVAL")
    BY <1>2, <2>1, <2>3 DEF Respond, RespondWith, Response
  <2> QED BY <1>6, <2>2, <2>3
<1>10. TypeOK'
  BY <1>2, <1>3, <1>7, <1>8, <1>9 DEF IInv, TypeOK, store
<1>11. RefsCountOpeners'
  <2>1. \A g \in Live \ {f} : file'[g].refs = Cardinality(Openers(g)') % RefLimit
    BY <1>7, <1>8 DEF IInv, RefsCountOpeners, Live
  <2> QED BY <1>7, <1>8, <2>1 DEF RefsCountOpeners
<1>12. SizeBacked'
  <2>1. UNCHANGED mem
    BY <1>2 DEF store
  <2>2. rec.size <= Len(Contents(f)')
    BY <1>6, <1>7 DEF Contents
  <2>3. \A g \in Live \ {f} : file'[g].size <= Len(Contents(g)')
    BY <1>7, <2>1 DEF IInv, SizeBacked, Contents, Live
  <2> QED BY <1>7, <2>2, <2>3 DEF SizeBacked
<1> QED BY <1>8, <1>10, <1>11, <1>12 DEF IInv

\* _io_FileOpen keeps the invariant.
LEMMA OpenStep ==
  ASSUME IInv, NEW c \in Scoid, NEW path \in Paths, NEW mode \in Modes, NEW creat \in BOOLEAN,
         FileOpen(c, path, mode, creat)
  PROVE  IInv'
<1>1. c \in Attached
  BY DEF FileOpen, Request
<1>2. CASE OpenBusy(c)
  BY <1>2, ResponseStep DEF OpenBusy, Response
<1>3. CASE OpenExisting(c, path, mode)
  BY <1>1, <1>3, OpenExistingStep
<1>4. CASE OpenMissing(c, path, creat)
  BY <1>4, ResponseStep DEF OpenMissing, Response
<1>5. CASE OpenCreateOnDirectory(c, path, creat)
  BY <1>5, DeathStep DEF OpenCreateOnDirectory, Fault
<1>6. CASE OpenCreated(c, path, mode, creat)
  BY <1>1, <1>6, OpenCreatedStep
<1> QED BY <1>2, <1>3, <1>4, <1>5, <1>6 DEF FileOpen

(***************************************************************************)
(* Detach.                                                                 *)
(***************************************************************************)
\* ConnectionDetach with _io_CloseCallBack keeps the invariant: the count of the
\* file goes down with its openers, and the live files keep their memory.
LEMMA DetachStep ==
  ASSUME IInv, NEW c \in Scoid, Detach(c)
  PROVE  IInv'
<1>1. CASE UNCHANGED vars
  BY <1>1, QuietStep DEF vars, tree, store, IInv, TypeOK
<1>2. CASE /\ con[c] # Null
           /\ IF con[c].state # "CLOSE"
              THEN CloseCallBack(c)
              ELSE UNCHANGED <<file, share>>
           /\ con' = [con EXCEPT ![c] = Null]
           /\ mem' = Keep(mem, mapped \cup DataOf(file) \cup {share'[d] : d \in Scoid})
           /\ UNCHANGED <<dirs, mapped, reply, fault>>
  <2> USE <1>2
  <2>1. c \in Attached /\ con[c] \in Connection
    BY DEF Attached, IInv, TypeOK
  <2>2. /\ con' \in [Scoid -> Connection \cup {Null}]
        /\ con'[c] = Null /\ \A d \in Scoid \ {c} : con'[d] = con[d]
        /\ Attached' = Attached \ {c}
    BY DEF IInv, TypeOK, Attached
  <2>3. OpenIffHandler'
    BY <2>2 DEF IInv, OpenIffHandler, Attached
  <2>4. share' \in [Scoid -> Obj \cup {Null}]
    BY DEF CloseCallBack, IInv, TypeOK
  <2>5. mem' \in [Obj -> Seq(Byte)] /\ \A f \in Live, o \in Obj : file[f].data = o => mem'[o] = mem[o]
    <3>1. Null \notin Obj /\ <<>> \in Seq(Byte)
      BY NullAssumption
    <3>2. \A f \in Live, o \in Obj : file[f].data = o => o \in DataOf(file)
      BY <3>1 DEF DataOf, Live
    <3> QED BY <3>1, <3>2 DEF Keep, IInv, TypeOK
  <2>6. CASE con[c].handler = Null
    <3>1. UNCHANGED file
      BY <2>1, <2>6 DEF IInv, OpenIffHandler
    <3>2. TypeOK'
      BY <2>2, <2>4, <2>5, <3>1 DEF IInv, TypeOK
    <3>3. NoDanglingHandle'
      BY <2>2, <3>1 DEF IInv, NoDanglingHandle, Attached, Live
    <3>4. \A f \in Live : Openers(f)' = Openers(f)
      BY <2>1, <2>2, <2>6, NullAssumption DEF Openers, Attached, Live
    <3>5. RefsCountOpeners'
      BY <3>1, <3>4 DEF IInv, RefsCountOpeners, Live
    <3>6. SizeBacked'
      <4> SUFFICES ASSUME NEW f \in Live
                   PROVE  file[f].size <= Len(Contents(f)')
        BY <3>1 DEF SizeBacked, Live
      <4>1. file[f].data \in Obj \cup {Null}
        BY DEF IInv, TypeOK, Live, File
      <4> QED BY <2>5, <3>1, <4>1 DEF IInv, SizeBacked, Contents
    <3> QED BY <2>3, <3>2, <3>3, <3>5, <3>6 DEF IInv
  <2>7. CASE con[c].handler # Null
    <3>1. PICK h \in Live : con[c].handler = h
      BY <2>1, <2>7 DEF IInv, NoDanglingHandle
    <3>2. h \in FileId /\ file[h] \in File
      BY DEF IInv, TypeOK, Live
    <3>3. file[h].refs + RefLimit - 1 \in Int
          /\ file' = [file EXCEPT ![h].refs = (file[h].refs + RefLimit - 1) % RefLimit]
      BY <2>1, <2>7, <3>1, <3>2, WidthAssumption
         DEF IInv, OpenIffHandler, CloseCallBack, ProcFileClose, File
    <3>4. /\ file' \in [FileId -> File \cup {Null}]
          /\ file'[h].refs = (file[h].refs + RefLimit - 1) % RefLimit
          /\ \A g \in FileId \ {h} : file'[g] = file[g]
          /\ \A g \in Live : file'[g].size = file[g].size /\ file'[g].data = file[g].data
          /\ Live' = Live
      BY <3>3, RefsChanged
    <3>5. TypeOK'
      BY <2>2, <2>4, <2>5, <3>4 DEF IInv, TypeOK
    <3>6. NoDanglingHandle'
      BY <2>2, <3>4 DEF IInv, NoDanglingHandle, Attached
    <3>7. /\ Openers(h)' = Openers(h) \ {c} /\ c \in Openers(h)
          /\ \A g \in Live \ {h} : Openers(g)' = Openers(g)
      BY <2>1, <2>2, <3>1 DEF Openers, Attached
    <3>8. /\ Cardinality(Openers(h)') \in Nat
          /\ Cardinality(Openers(h)) = Cardinality(Openers(h)') + 1
      <4>1. IsFiniteSet(Openers(h)) /\ Cardinality(Openers(h)) \in Nat
        BY OpenersFinite
      <4>2. /\ IsFiniteSet(Openers(h) \ {c})
            /\ Cardinality(Openers(h) \ {c}) = Cardinality(Openers(h)) - 1
        BY <3>7, <4>1, FS_RemoveElement
      <4>3. Cardinality(Openers(h) \ {c}) \in Nat
        BY <4>2, FS_CardinalityType
      <4> QED BY <3>7, <4>1, <4>2, <4>3
    <3>9. RefsCountOpeners'
      <4>1. file[h].refs = (Cardinality(Openers(h)') + 1) % RefLimit
        BY <3>8 DEF IInv, RefsCountOpeners
      <4>2. file'[h].refs = (((Cardinality(Openers(h)') + 1) % RefLimit) + RefLimit - 1) % RefLimit
        BY <3>4, <4>1
      <4>3. file'[h].refs = Cardinality(Openers(h)') % RefLimit
        BY <3>8, <4>2, ModDec, WidthAssumption
      <4>4. \A g \in Live \ {h} : file'[g].refs = Cardinality(Openers(g)') % RefLimit
        BY <3>4, <3>7 DEF IInv, RefsCountOpeners, Live
      <4> QED BY <3>4, <4>3, <4>4 DEF RefsCountOpeners
    <3>10. SizeBacked'
      <4> SUFFICES ASSUME NEW f \in Live
                   PROVE  file'[f].size <= Len(Contents(f)')
        BY <3>4 DEF SizeBacked
      <4>1. file'[f].size = file[f].size /\ file'[f].data = file[f].data
        BY <3>4
      <4>2. file[f].data \in Obj \cup {Null}
        BY DEF IInv, TypeOK, Live, File
      <4> QED BY <2>5, <4>1, <4>2 DEF IInv, SizeBacked, Contents
    <3> QED BY <2>3, <3>5, <3>6, <3>9, <3>10 DEF IInv
  <2> QED BY <2>6, <2>7
<1> QED BY <1>1, <1>2 DEF Detach

(***************************************************************************)
(* Truncation.                                                             *)
(***************************************************************************)
\* ALIGN_UP stays within the word, even when its sum wraps.
LEMMA AlignUpWord ==
  ASSUME NEW m \in Word
  PROVE  AlignUp(m) \in Word
<1>1. WordSize \in Nat \ {0} /\ PageSize \in Nat \ {0} /\ m + PageSize - 1 \in Int
  BY WidthAssumption DEF Word
<1>2. \A W \in Nat \ {0}, P \in Nat \ {0}, x \in Int : ((x % W) \div P) * P \in 0..(W - 1)
  OBVIOUS
<1> QED BY <1>1, <1>2 DEF AlignUp, Word

\* Resized memory holds bytes, as many as asked.
LEMMA ResizedType ==
  ASSUME NEW old \in Seq(Byte), NEW size \in Nat
  PROVE  Resized(old, size) \in Seq(Byte) /\ Len(Resized(old, size)) = size
BY InputAssumption DEF Resized

\* _io_FileTruncate keeps the invariant: the file's new memory backs its new size
\* and no other file loses its own.
LEMMA TruncateStep ==
  ASSUME IInv, NEW c \in Scoid, NEW request \in TruncateSizes, FileTruncate(c, request)
  PROVE  IInv'
<1>1. c \in Attached
  BY DEF FileTruncate, Request
<1>2. CASE Respond("truncate", c, "E_ERROR") /\ UNCHANGED <<con, tree, store>>
  BY <1>2, ResponseStep DEF Response
<1>3. CASE Die("out of memory")
  BY <1>3, DeathStep DEF Fault
<1>4. CASE ~Closed(c) /\ Truncate(c, request) /\ ~Die("out of memory")
  <2> DEFINE size == AlignUp(request)
  <2>1. PICK f \in Live : con[c].handler = f
    BY <1>1, <1>4, OpenHandle
  <2> DEFINE old == SubSeq(Contents(f), 1, file[f].size)
  <2>2. PICK obj \in Obj \cup {Null} :
          /\ obj = Null => size = 0
          /\ obj # Null => obj \in FreeObj
          /\ Remap(file[f].data, obj)
          /\ file' = [file EXCEPT ![f].size = size, ![f].data = obj]
          /\ mem' = Keep([o \in Obj |-> IF o = obj THEN Resized(old, size) ELSE mem[o]],
                         mapped' \cup DataOf(file') \cup {share[d] : d \in Scoid})
          /\ Respond("truncate", c, "E_OK")
          /\ UNCHANGED <<con, dirs, share>>
    <3>1. Null \notin Obj /\ FreeObj \subseteq Obj
      BY NullAssumption DEF FreeObj
    <3> QED BY <1>4, <2>1, <3>1 DEF Truncate
  <2>3. size \in Word /\ size \in Nat
    BY AlignUpWord, InputAssumption, WidthAssumption DEF Word
  <2>4. f \in FileId /\ file[f] \in File /\ file[f] # Null
    BY DEF IInv, TypeOK, Live
  <2>5. old \in Seq(Byte)
    <3>1. Contents(f) \in Seq(Byte) /\ file[f].size <= Len(Contents(f))
      BY ContentsType
    <3>2. file[f].size \in Nat
      BY <2>4, WidthAssumption DEF File, Word
    <3>3. \A i \in 1..file[f].size : Contents(f)[i] \in Byte
      BY <3>1, <3>2
    <3> QED BY <3>2, <3>3, SubSeqProperties
  <2> HIDE DEF size, old
  <2> DEFINE new == [file[f] EXCEPT !.size = size, !.data = obj]
  <2>6. /\ new \in File /\ new # Null /\ new.refs = file[f].refs
        /\ new.size = size /\ new.data = obj
    BY <2>2, <2>3, <2>4, NullAssumption DEF File
  <2>7. /\ file' \in [FileId -> File \cup {Null}]
        /\ file'[f] = new /\ \A g \in FileId \ {f} : file'[g] = file[g]
        /\ Live' = Live
    <3>1. file' = [file EXCEPT ![f] = new]
      BY <2>2
    <3> QED BY <2>6, <3>1, FileChanged
  <2> HIDE DEF new
  <2>8. Resized(old, size) \in Seq(Byte) /\ Len(Resized(old, size)) = size
    BY <2>3, <2>5, ResizedType
  <2>9. mem' \in [Obj -> Seq(Byte)] /\ mapped' \subseteq Obj
    BY <2>2, <2>8 DEF Keep, Remap, IInv, TypeOK
  <2>10. reply' \in Response
    BY <2>2 DEF Respond, RespondWith, Response
  <2>11. TypeOK'
    BY <2>2, <2>7, <2>9, <2>10 DEF IInv, TypeOK, Respond, RespondWith
  <2>12. OpenIffHandler' /\ NoDanglingHandle'
    BY <2>2, <2>7 DEF IInv, OpenIffHandler, NoDanglingHandle, Attached
  <2>13. RefsCountOpeners'
    <3>1. \A g \in Live : file'[g].refs = file[g].refs
      BY <2>6, <2>7 DEF Live
    <3>2. \A g : Openers(g)' = Openers(g)
      BY <2>2 DEF Openers, Attached
    <3> QED BY <2>7, <3>1, <3>2 DEF IInv, RefsCountOpeners
  <2>14. SizeBacked'
    <3> SUFFICES ASSUME NEW g \in Live
                 PROVE  file'[g].size <= Len(Contents(g)')
      BY <2>7 DEF SizeBacked
    <3>1. CASE g = f /\ obj = Null
      BY <2>2, <2>6, <2>7, <3>1 DEF Contents
    <3>2. CASE g = f /\ obj # Null
      <4>1. obj \in Obj /\ obj \in DataOf(file')
        BY <2>2, <2>4, <2>6, <2>7, <3>2 DEF DataOf
      <4>2. mem'[obj] = Resized(old, size)
        BY <2>2, <4>1 DEF Keep
      <4> QED BY <2>3, <2>6, <2>7, <2>8, <3>2, <4>2 DEF Contents
    <3>3. CASE g # f
      <4>1. file'[g] = file[g] /\ file[g] # Null /\ g \in FileId /\ file[g].data \in Obj \cup {Null}
        BY <2>7, <3>3 DEF IInv, TypeOK, Live, File
      <4>2. CASE file[g].data # Null
        <5>1. file[g].data \in DataOf(file) /\ file[g].data \in DataOf(file')
          BY <4>1, <4>2 DEF DataOf
        <5>2. file[g].data # obj
          BY <2>2, <4>2, <5>1 DEF FreeObj
        <5>3. mem'[file[g].data] = mem[file[g].data]
          BY <2>2, <4>1, <4>2, <5>1, <5>2 DEF Keep
        <5> QED BY <4>1, <5>3 DEF IInv, SizeBacked, Contents
      <4> QED BY <4>1, <4>2 DEF IInv, SizeBacked, Contents
    <3> QED BY <3>1, <3>2, <3>3
  <2> QED BY <2>11, <2>12, <2>13, <2>14 DEF IInv
<1> QED BY <1>2, <1>3, <1>4 DEF FileTruncate

(***************************************************************************)
(* Deletion, with fewer connections than a reference count can hold.       *)
(***************************************************************************)
\* No reference count of a file can wrap: 2^16 connections never exist at once.
FewConnections == Cardinality(Scoid) < RefLimit

\* A count of zero means that nobody has the file open.
LEMMA DeletedUnopened ==
  ASSUME IInv, FewConnections, NEW f \in FileId, ProcFileDelete(f)
  PROVE  Openers(f) = {}
<1>1. IsFiniteSet(Openers(f)) /\ Cardinality(Openers(f)) \in Nat
  BY OpenersFinite
<1>2. Cardinality(Openers(f)) <= Cardinality(Scoid) /\ Cardinality(Scoid) \in Nat
  BY InputAssumption, FS_Subset, FS_CardinalityType DEF Openers, Attached
<1>3. Cardinality(Openers(f)) < RefLimit
  BY <1>1, <1>2, WidthAssumption DEF FewConnections
<1>4. Cardinality(Openers(f)) % RefLimit = 0
  BY DEF ProcFileDelete, IInv, RefsCountOpeners
<1>5. Cardinality(Openers(f)) = 0
  BY <1>1, <1>3, <1>4, WidthAssumption
<1> QED BY <1>1, <1>5, FS_EmptySet

\* ProcFileDelete keeps the invariant while no count can have wrapped.
LEMMA DeleteStep ==
  ASSUME IInv, FewConnections, NEW f \in FileId, ProcFileDelete(f)
  PROVE  IInv'
<1>1. f \in Live /\ file' = [file EXCEPT ![f] = Null]
      /\ UNCHANGED <<con, dirs, store, reply, fault>>
  BY DEF ProcFileDelete
<1>2. /\ file' \in [FileId -> File \cup {Null}]
      /\ Live' = Live \ {f} /\ \A g \in FileId \ {f} : file'[g] = file[g]
  BY <1>1 DEF IInv, TypeOK, Live
<1>3. Openers(f) = {}
  BY DeletedUnopened
<1>4. NoDanglingHandle'
  BY <1>1, <1>2, <1>3 DEF IInv, NoDanglingHandle, Openers, Attached
<1>5. TypeOK' /\ OpenIffHandler'
  BY <1>1, <1>2 DEF IInv, TypeOK, OpenIffHandler, Attached, store
<1>6. RefsCountOpeners'
  BY <1>1, <1>2 DEF IInv, RefsCountOpeners, Openers, Attached, Live
<1>7. SizeBacked'
  BY <1>1, <1>2 DEF IInv, SizeBacked, Contents, Live, store
<1> QED BY <1>4, <1>5, <1>6, <1>7 DEF IInv

(***************************************************************************)
(* The initial states.                                                     *)
(***************************************************************************)
\* Zero filling is a byte string.
LEMMA ZerosType ==
  ASSUME NEW n \in Int
  PROVE  Zeros(n) \in Seq(Byte)
<1>1. CASE n >= 0
  BY <1>1, InputAssumption DEF Zeros
<1>2. CASE n < 0
  <2>1. Zeros(n) = [i \in 1..0 |-> 0]
    BY <1>2 DEF Zeros
  <2>2. [i \in 1..0 |-> 0] \in Seq(Byte)
    BY InputAssumption
  <2> QED BY <2>1, <2>2
<1> QED BY <1>1, <1>2

\* Whole pages hold the text they round up.
LEMMA PagedType ==
  ASSUME NEW text \in Seq(Byte), Len(text) \in Word
  PROVE  Paged(text) \in Seq(Byte) /\ Len(text) <= Len(Paged(text))
<1>1. AlignUp(Len(text)) - Len(text) \in Int
  BY AlignUpWord, WidthAssumption DEF Word
<1>2. Zeros(AlignUp(Len(text)) - Len(text)) \in Seq(Byte)
  BY <1>1, ZerosType
<1> HIDE DEF Zeros
<1> QED BY <1>2 DEF Paged

\* The paths built at boot are paths.
LEMMA BootPathsType ==
  BootPaths \cup SysPaths \subseteq Seq(Name)
<1>1. "sys" \in Name /\ "devices" \in Name
  BY BootAssumption
<1>2. <<"sys">> \in Seq(Name) /\ <<"devices">> \in Seq(Name)
  BY <1>1
<1> QED BY <1>2, BootAssumption DEF SysPaths

\* The files built at boot are well-formed.
LEMMA BootFileType ==
  ASSUME NEW p \in BootPaths \cup SysPaths
  PROVE  /\ BootFile(p, BootObj[p]) \in File
         /\ BootFile(p, BootObj[p]).refs = 0
         /\ BootFile(p, BootObj[p]).data = BootObj[p] /\ BootObj[p] \in Obj
         /\ BootFile(p, BootObj[p]).size =
              IF p \in SysPaths THEN Len(SysText) ELSE Len(BootText)
<1>1. p \in Seq(Name)
  BY BootPathsType
<1>4. BootObj[p] \in Obj
  <2>1. BootObj \in [BootPaths \cup SysPaths -> Obj]
    BY BootAssumption DEF Injection
  <2> QED BY <2>1
<1>2. /\ O_RDONLY \in AccessWord /\ O_RDWR \in AccessWord /\ {} \in AccessWord
      /\ {FILE_MAP_PERMISSION, FILE_EXEC_PERMISSION} \in AccessWord
  BY DEF AccessWord, Bit, O_RDONLY, O_RDWR, FILE_MAP_PERMISSION, FILE_EXEC_PERMISSION
<1>3. 0 \in 0..(RefLimit - 1) /\ Len(SysText) \in Word /\ Len(BootText) \in Word
  BY WidthAssumption, InputAssumption
<1> QED BY <1>1, <1>2, <1>3, <1>4 DEF BootFile, File

\* ProcFileSystemBuild, complete or failed, establishes the invariant.
LEMMA InitStep == Init => IInv
<1> SUFFICES ASSUME Init PROVE IInv
  OBVIOUS
<1>1. PICK paths \in Boots : Built(paths)
  BY DEF Init
<1>2. paths \subseteq BootPaths \cup SysPaths
  BY BootAssumption
<1>3. \A f \in FileId :
        \/ file[f] = Null
        \/ \E p \in paths : BootBlock[p] = f /\ file[f] = BootFile(p, BootObj[p])
  BY <1>1 DEF Built
<1>4. /\ file \in [FileId -> File \cup {Null}]
      /\ \A f \in Live : file[f].refs = 0
  <2>1. file = [f \in FileId |-> file[f]]
    BY <1>1 DEF Built
  <2>2. \A f \in FileId : file[f] \in File \cup {Null} /\ (f \in Live => file[f].refs = 0)
    BY <1>2, <1>3, BootFileType DEF Live
  <2> QED BY <2>1, <2>2 DEF Live
<1>5. /\ mapped \subseteq Obj
      /\ mapped = {BootObj[p] : p \in paths \ SysPaths}
  BY <1>1, <1>2, BootFileType DEF Built
<1>6. /\ mem = [o \in Obj |-> IF o \in mapped THEN Paged(BootText)
                              ELSE IF \E p \in paths : BootObj[p] = o THEN SysText ELSE <<>>]
  BY <1>1 DEF Built
<1>7. Paged(BootText) \in Seq(Byte) /\ Len(BootText) <= Len(Paged(BootText))
  BY InputAssumption, PagedType
<1>8. mem \in [Obj -> Seq(Byte)]
  BY <1>6, <1>7, InputAssumption
<1>9. dirs \subseteq Seq(Name)
  <2>1. \A p \in paths : p \in Seq(Name)
    BY <1>2, BootPathsType
  <2>2. \A p \in paths : WithParents({}, p) \subseteq Seq(Name)
    BY <2>1, SubSeqName DEF WithParents
  <2>3. dirs = {<<>>} \cup UNION {WithParents({}, p) : p \in paths}
    BY <1>1 DEF Built
  <2>4. <<>> \in Seq(Name)
    OBVIOUS
  <2> HIDE DEF WithParents
  <2> QED BY <2>2, <2>3, <2>4
<1>10. Attached = {} /\ con \in [Scoid -> Connection \cup {Null}]
  BY DEF Init, Attached
<1>11. share \in [Scoid -> Obj \cup {Null}]
  BY DEF Init
<1>12. reply \in Response /\ fault \in Fault
  BY DEF Init, Response, Fault
<1>13. TypeOK
  BY <1>4, <1>5, <1>8, <1>9, <1>10, <1>11, <1>12 DEF TypeOK
<1>14. OpenIffHandler /\ NoDanglingHandle
  BY <1>10 DEF OpenIffHandler, NoDanglingHandle
<1>15. RefsCountOpeners
  <2>1. \A f \in Live : Cardinality(Openers(f)) = 0
    BY <1>10, FS_EmptySet DEF Openers
  <2>2. 0 % RefLimit = 0
    BY WidthAssumption
  <2> QED BY <1>4, <2>1, <2>2 DEF RefsCountOpeners
<1>16. SizeBacked
  <2> SUFFICES ASSUME NEW f \in Live PROVE file[f].size <= Len(Contents(f))
    BY DEF SizeBacked
  <2>1. PICK p \in paths : file[f] = BootFile(p, BootObj[p])
    BY <1>3 DEF Live
  <2>2. BootObj[p] \in Obj /\ Contents(f) = mem[BootObj[p]]
    BY <1>2, <2>1, BootFileType, NullAssumption DEF Contents
  <2>3. CASE p \in SysPaths
    <3>1. BootObj[p] \notin mapped
      BY <1>2, <1>5, <2>3, BootAssumption DEF Injection, IsInjective
    <3>2. mem[BootObj[p]] = SysText
      BY <1>6, <2>2, <3>1
    <3> QED BY <1>2, <2>1, <2>2, <2>3, <3>2, BootFileType, InputAssumption
  <2>4. CASE p \notin SysPaths
    <3>1. mem[BootObj[p]] = Paged(BootText)
      BY <1>5, <1>6, <2>2, <2>4
    <3> QED BY <1>2, <1>7, <2>1, <2>2, <2>4, <3>1, BootFileType
  <2> QED BY <2>3, <2>4
<1> QED BY <1>13, <1>14, <1>15, <1>16 DEF IInv

(***************************************************************************)
(* Every step.                                                             *)
(***************************************************************************)
\* Every step of the server and its clients keeps the invariant.
LEMMA NextStep == IInv /\ [Next]_vars => IInv'
<1> SUFFICES ASSUME IInv, [Next]_vars PROVE IInv'
  OBVIOUS
<1>1. CASE UNCHANGED vars
  BY <1>1, QuietStep DEF vars, tree, store, IInv, TypeOK
<1>2. CASE Next
  <2> SUFFICES ASSUME NEW c \in Scoid, Attach(c) \/ Detach(c) \/ Handler(c) \/ ClientStore(c)
               PROVE  IInv'
    BY <1>2 DEF Next
  <2>1. CASE Attach(c)
    BY <2>1, AttachStep
  <2>2. CASE Detach(c)
    BY <2>2, DetachStep
  <2>3. CASE ClientStore(c)
    BY <2>3, ClientStoreStep
  <2>4. CASE \E path \in Paths, mode \in Modes, creat \in BOOLEAN : FileOpen(c, path, mode, creat)
    BY <2>4, OpenStep
  <2>5. CASE FileClose(c)
    BY <2>5, CloseStep
  <2>6. CASE \E n \in ReadSizes : FileRead(c, n)
    BY <2>6, ReadStep
  <2>7. CASE \E bytes \in Payloads : FileWrite(c, bytes)
    BY <2>7, WriteStep
  <2>8. CASE \E whence \in {"SEEK_SET", "SEEK_CUR", "SEEK_END", "other"}, offset \in Offsets :
               FileSeek(c, whence, offset)
    BY <2>8, SeekStep
  <2>9. CASE \E request \in TruncateSizes : FileTruncate(c, request)
    BY <2>9, TruncateStep
  <2>10. CASE FileShare(c)
    BY <2>10, ShareStep
  <2>11. CASE \E path \in Paths, listAll \in BOOLEAN : ProcInfo(c, path, listAll)
    BY <2>11, InfoStep
  <2> QED BY <2>1, <2>2, <2>3, <2>4, <2>5, <2>6, <2>7, <2>8, <2>9, <2>10, <2>11 DEF Handler
<1> QED BY <1>1, <1>2

\* The inductive invariant holds of the server as it is shipped, whatever the
\* number of connections.
THEOREM Inductive == Spec => []IInv
BY InitStep, NextStep, PTL DEF Spec

\* proc.h, connection.h: every field of every connection and file keeps its type
\* and its width, through 16-bit counters and 32-bit positions and sizes.
THEOREM TypeCorrect == Spec => []TypeOK
<1>1. IInv => TypeOK
  BY DEF IInv
<1> QED BY <1>1, Inductive, PTL

\* proc.c:365-379: the reference count of a file is the number of connections
\* that have it open, cut to its width.
THEOREM RefsExact == Spec => []RefsCountOpeners
<1>1. IInv => RefsCountOpeners
  BY DEF IInv
<1> QED BY <1>1, Inductive, PTL

\* proc_io.c:353: a connection has a file exactly when it is not closed.
THEOREM OpenExact == Spec => []OpenIffHandler
<1>1. IInv => OpenIffHandler
  BY DEF IInv
<1> QED BY <1>1, Inductive, PTL

\* proc_io.c:190-233: the size of a file never exceeds the memory behind it.
THEOREM AlwaysBacked == Spec => []SizeBacked
<1>1. IInv => SizeBacked
  BY DEF IInv
<1> QED BY <1>1, Inductive, PTL

\* With ProcFileDelete the invariant needs fewer connections than a count holds.
THEOREM ApiInductive == ASSUME FewConnections PROVE ApiSpec => []IInv
<1>1. IInv /\ [ApiNext]_vars => IInv'
  BY NextStep, DeleteStep DEF ApiNext
<1> QED BY <1>1, InitStep, PTL DEF ApiSpec

\* proc.c:329-363: while fewer than 2^16 connections exist, deletion leaves no
\* connection with a file that is gone.
THEOREM NeverDangling == ASSUME FewConnections PROVE ApiSpec => []NoDanglingHandle
<1>1. IInv => NoDanglingHandle
  BY DEF IInv
<1> QED BY <1>1, ApiInductive, PTL

(***************************************************************************)
(* ProcServer, with ProcFileDelete, implements FileSessions, for every     *)
(* value of the constants that has fewer connections than a reference      *)
(* count can hold.  Each step of the server, from a state that satisfies   *)
(* the inductive invariant, is a step of FileSessions or leaves it alone.  *)
(***************************************************************************)
\* Nothing a client can see of the sessions changes.
LEMMA SessionsStutter ==
  ASSUME Attached' = Attached, Live' = Live, \A d \in Scoid : Handle(d)' = Handle(d)
  PROVE  UNCHANGED Sessions!vars
BY DEF Sessions!vars

\* A connection keeps its handler, the others do not move.
LEMMA SameHandles ==
  ASSUME IInv, NEW c \in Attached, NEW new \in Connection,
         new.handler = con[c].handler, con' = [con EXCEPT ![c] = new]
  PROVE  Attached' = Attached /\ \A d \in Scoid : Handle(d)' = Handle(d)
<1>1. c \in Scoid /\ con'[c] = new /\ con[c] # Null /\ \A d \in Scoid \ {c} : con'[d] = con[d]
  BY DEF IInv, TypeOK, Attached
<1>2. new # Null
  BY NullAssumption
<1> QED BY <1>1, <1>2 DEF Attached, Handle

\* Connections and files unchanged: sessions unchanged.
LEMMA QuietSessions ==
  ASSUME UNCHANGED <<con, file>>
  PROVE  UNCHANGED Sessions!vars
BY SessionsStutter DEF Attached, Live, Handle

\* Moving a position is invisible to the sessions.
LEMMA SeekSessions ==
  ASSUME IInv, NEW c \in Attached, NEW w \in Word, con' = [con EXCEPT ![c].seek = w],
         UNCHANGED file
  PROVE  UNCHANGED Sessions!vars
<1>1. con[c] \in Connection
  BY DEF IInv, TypeOK, Attached
<1>2. [con[c] EXCEPT !.seek = w] \in Connection
      /\ [con[c] EXCEPT !.seek = w].handler = con[c].handler
  BY <1>1 DEF Connection
<1>3. con' = [con EXCEPT ![c] = [con[c] EXCEPT !.seek = w]]
  OBVIOUS
<1>4. Attached' = Attached /\ \A d \in Scoid : Handle(d)' = Handle(d)
  BY <1>2, <1>3, SameHandles
<1> QED BY <1>4, SessionsStutter DEF Live

\* ConnectionAttach connects the client, or refuses a second attach.
LEMMA AttachSessions ==
  ASSUME IInv, NEW c \in Scoid, Attach(c)
  PROVE  Sessions!Connect(c) \/ UNCHANGED Sessions!vars
<1>1. CASE UNCHANGED vars
  BY <1>1, QuietSessions DEF vars
<1>2. CASE /\ con[c] = Null
           /\ con' = [con EXCEPT ![c] = [state |-> "CLOSE", access |-> O_RDONLY,
                                         seek |-> 0, handler |-> Null]]
           /\ UNCHANGED file
  <2> DEFINE new == [state |-> "CLOSE", access |-> O_RDONLY, seek |-> 0, handler |-> Null]
  <2>1. new \in Connection /\ new # Null /\ new.handler = Null
    BY WidthAssumption, NullAssumption DEF Connection, O_RDONLY, AccessWord, Word
  <2>2. con'[c] = new /\ \A d \in Scoid \ {c} : con'[d] = con[d]
    BY <1>2 DEF IInv, TypeOK
  <2>3. c \notin Attached /\ Attached' = Attached \cup {c} /\ Live' = Live
    BY <1>2, <2>1, <2>2 DEF Attached, Live
  <2>4. \A d \in Scoid : Handle(d)' = Handle(d)
    BY <1>2, <2>1, <2>2 DEF Handle
  <2> QED BY <2>3, <2>4 DEF Sessions!Connect
<1> QED BY <1>1, <1>2 DEF Attach, store

\* ConnectionDetach with _io_CloseCallBack disconnects the client, who lets go.
LEMMA DetachSessions ==
  ASSUME IInv, NEW c \in Scoid, Detach(c)
  PROVE  Sessions!Disconnect(c) \/ UNCHANGED Sessions!vars
<1>1. CASE UNCHANGED vars
  BY <1>1, QuietSessions DEF vars
<1>2. CASE /\ con[c] # Null
           /\ IF con[c].state # "CLOSE"
              THEN CloseCallBack(c)
              ELSE UNCHANGED <<file, share>>
           /\ con' = [con EXCEPT ![c] = Null]
  <2>1. c \in Attached /\ con'[c] = Null /\ \A d \in Scoid \ {c} : con'[d] = con[d]
    BY <1>2 DEF Attached, IInv, TypeOK
  <2>2. Live' = Live
    <3>1. CASE UNCHANGED file
      BY <3>1 DEF Live
    <3>2. CASE con[c].handler # Null /\ ProcFileClose(con[c].handler)
      <4>1. PICK h \in Live : con[c].handler = h
        BY <2>1, <3>2 DEF IInv, NoDanglingHandle
      <4>2. file[h] \in File
        BY DEF IInv, TypeOK, Live
      <4>3. file[h].refs + RefLimit - 1 \in Int
            /\ file' = [file EXCEPT ![h].refs = (file[h].refs + RefLimit - 1) % RefLimit]
        BY <3>2, <4>1, <4>2, WidthAssumption DEF ProcFileClose, File
      <4> QED BY <4>3, RefsChanged
    <3> QED BY <1>2, <3>1, <3>2 DEF CloseCallBack
  <2>3. Attached' = Attached \ {c}
    BY <2>1 DEF Attached
  <2>4. [d \in Scoid |-> Handle(d)]' = [[d \in Scoid |-> Handle(d)] EXCEPT ![c] = Null]
    BY <2>1 DEF Handle
  <2> QED BY <2>1, <2>2, <2>3, <2>4 DEF Sessions!Disconnect
<1> QED BY <1>1, <1>2 DEF Detach

\* A successful open is an Open of the sessions.
LEMMA GainedSessions ==
  ASSUME IInv, NEW c \in Attached, con[c].handler = Null, NEW f \in FileId,
         NEW mode \in Modes, OpenConnection(c, f, mode), Live' = Live \cup {f}
  PROVE  Sessions!Open(c, f)
<1> DEFINE new == [state |-> "OPEN", access |-> mode, seek |-> 0, handler |-> f]
<1>1. new \in Connection /\ new # Null /\ new.handler = f /\ c \in Scoid /\ con[c] # Null
  BY InputAssumption, WidthAssumption, NullAssumption DEF Connection, Word, Attached
<1>2. con'[c] = new /\ \A d \in Scoid \ {c} : con'[d] = con[d]
  BY <1>1 DEF OpenConnection, IInv, TypeOK
<1>3. Attached' = Attached /\ Handle(c) = Null
  BY <1>1, <1>2 DEF Attached, Handle
<1>4. [d \in Scoid |-> Handle(d)]' = [[d \in Scoid |-> Handle(d)] EXCEPT ![c] = f]
  BY <1>1, <1>2 DEF Handle
<1> QED BY <1>1, <1>3, <1>4 DEF Sessions!Open

\* _io_FileOpen opens, or leaves a created file behind, or is refused.
LEMMA OpenSessions ==
  ASSUME IInv, NEW c \in Scoid, NEW path \in Paths, NEW mode \in Modes, NEW creat \in BOOLEAN,
         FileOpen(c, path, mode, creat)
  PROVE  \/ \E f \in FileId : Sessions!Open(c, f) \/ Sessions!Create(f)
         \/ UNCHANGED Sessions!vars
<1>1. c \in Attached
  BY DEF FileOpen, Request
<1>2. CASE UNCHANGED <<con, file>>
  BY <1>2, QuietSessions
<1>3. CASE OpenExisting(c, path, mode) /\ ~UNCHANGED <<con, file>>
  <2>1. PICK f \in Live : /\ file' = [file EXCEPT ![f].refs = (@ + 1) % RefLimit]
                          /\ OpenConnection(c, f, mode)
    BY <1>3 DEF OpenExisting, FileGet
  <2>2. f \in FileId /\ file[f] \in File
    BY DEF IInv, TypeOK, Live
  <2>3. file[f].refs + 1 \in Int /\ file' = [file EXCEPT ![f].refs = (file[f].refs + 1) % RefLimit]
    BY <2>1, <2>2, WidthAssumption DEF File
  <2>4. Live' = Live \cup {f}
    BY <2>3, RefsChanged
  <2>5. con[c].handler = Null
    BY <1>3 DEF OpenExisting
  <2> QED BY <1>1, <2>1, <2>2, <2>4, <2>5, GainedSessions
<1>4. CASE OpenCreated(c, path, mode, creat)
  <2> DEFINE new == [path |-> path, data |-> Null, size |-> 0, refs |-> 0,
                     access |-> O_RDWR, permission |-> {FILE_MAP_PERMISSION}]
  <2>1. PICK f \in FileId \ Live :
          \/ /\ file' = [file EXCEPT ![f] = [new EXCEPT !.refs = 1 % RefLimit]]
             /\ OpenConnection(c, f, mode)
          \/ /\ file' = [file EXCEPT ![f] = new]
             /\ UNCHANGED con
    BY <1>4 DEF OpenCreated
  <2>2. new \in File /\ [new EXCEPT !.refs = 1 % RefLimit] \in File
    BY NewFileType
  <2>3. PICK rec \in File : /\ file' = [file EXCEPT ![f] = rec]
                            /\ OpenConnection(c, f, mode) \/ UNCHANGED con
    BY <2>1, <2>2
  <2>4. Live' = Live \cup {f}
    BY <2>3, NullAssumption DEF IInv, TypeOK, Live
  <2>5. CASE OpenConnection(c, f, mode)
    <3>1. con[c].handler = Null
      BY <1>4 DEF OpenCreated
    <3> QED BY <1>1, <2>4, <2>5, <3>1, GainedSessions
  <2>6. CASE UNCHANGED con
    <3>1. Attached' = Attached /\ \A d \in Scoid : Handle(d)' = Handle(d)
      BY <2>6 DEF Attached, Handle
    <3> QED BY <2>4, <3>1 DEF Sessions!Create
  <2> QED BY <2>3, <2>5, <2>6
<1> QED BY <1>2, <1>3, <1>4
        DEF FileOpen, OpenBusy, OpenMissing, OpenCreateOnDirectory, Die, tree

\* _io_FileRead is invisible to the sessions.
LEMMA ReadSessions ==
  ASSUME IInv, NEW c \in Scoid, NEW n \in ReadSizes, FileRead(c, n)
  PROVE  UNCHANGED Sessions!vars
<1> DEFINE size == TransferSize(n, con[c].seek, file[con[c].handler].size)
<1>1. c \in Attached
  BY DEF FileRead, Request
<1>2. CASE UNCHANGED <<con, file>>
  BY <1>2, QuietSessions
<1>3. CASE ~Closed(c) /\ con' = [con EXCEPT ![c].seek = (@ + size) % WordSize] /\ UNCHANGED file
  <2>1. con[c] \in Connection /\ file[con[c].handler] \in File
    BY <1>1, <1>3, OpenHandle
  <2>2. con[c].seek \in Int /\ file[con[c].handler].size \in Int /\ n \in Int
    BY <2>1, InputAssumption, WidthAssumption DEF Connection, File, Word
  <2>3. con[c].seek + size \in Int
    BY <2>2 DEF TransferSize
  <2>4. (con[c].seek + size) % WordSize \in Word
    BY <2>3, WordStep
  <2>5. con' = [con EXCEPT ![c].seek = (con[c].seek + size) % WordSize]
    BY <1>3
  <2> QED BY <1>1, <1>3, <2>4, <2>5, SeekSessions
<1> QED BY <1>2, <1>3 DEF FileRead, Die, tree

\* _io_FileWrite is invisible to the sessions.
LEMMA WriteSessions ==
  ASSUME IInv, NEW c \in Scoid, NEW bytes \in Payloads, FileWrite(c, bytes)
  PROVE  UNCHANGED Sessions!vars
<1> DEFINE size == TransferSize(Len(bytes), con[c].seek, file[con[c].handler].size)
<1>1. c \in Attached
  BY DEF FileWrite, Request
<1>2. CASE UNCHANGED <<con, file>>
  BY <1>2, QuietSessions
<1>3. CASE ~Closed(c) /\ con' = [con EXCEPT ![c].seek = (@ + size) % WordSize] /\ UNCHANGED file
  <2>1. con[c] \in Connection /\ file[con[c].handler] \in File
    BY <1>1, <1>3, OpenHandle
  <2>2. con[c].seek \in Int /\ file[con[c].handler].size \in Int /\ Len(bytes) \in Int
    BY <2>1, InputAssumption, WidthAssumption DEF Connection, File, Word
  <2>3. con[c].seek + size \in Int
    BY <2>2 DEF TransferSize
  <2>4. (con[c].seek + size) % WordSize \in Word
    BY <2>3, WordStep
  <2>5. con' = [con EXCEPT ![c].seek = (con[c].seek + size) % WordSize]
    BY <1>3
  <2> QED BY <1>1, <1>3, <2>4, <2>5, SeekSessions
<1> QED BY <1>2, <1>3 DEF FileWrite, Die, tree

\* _io_FileSeek is invisible to the sessions.
LEMMA SeekingSessions ==
  ASSUME IInv, NEW c \in Scoid, NEW whence, NEW offset \in Offsets, FileSeek(c, whence, offset)
  PROVE  UNCHANGED Sessions!vars
<1> DEFINE base == CASE whence = "SEEK_SET" -> 0
                     [] whence = "SEEK_CUR" -> con[c].seek
                     [] OTHER               -> file[con[c].handler].size
<1>1. c \in Attached
  BY DEF FileSeek, Request
<1>2. CASE UNCHANGED <<con, file>>
  BY <1>2, QuietSessions
<1>3. CASE ~Closed(c) /\ con' = [con EXCEPT ![c].seek = (base + offset) % WordSize] /\ UNCHANGED file
  <2>1. con[c] \in Connection /\ file[con[c].handler] \in File
    BY <1>1, <1>3, OpenHandle
  <2>2. con[c].seek \in Int /\ file[con[c].handler].size \in Int /\ offset \in Int
    BY <2>1, InputAssumption, WidthAssumption DEF Connection, File, Word
  <2>3. base \in Int
    BY <2>2
  <2> HIDE DEF base
  <2>4. base + offset \in Int
    BY <2>2, <2>3
  <2>5. (base + offset) % WordSize \in Word
    BY <2>4, WordStep
  <2> QED BY <1>1, <1>3, <2>5, SeekSessions
<1> QED BY <1>2, <1>3 DEF FileSeek, tree

\* _io_FileTruncate is invisible to the sessions.
LEMMA TruncateSessions ==
  ASSUME IInv, NEW c \in Scoid, NEW request \in TruncateSizes, FileTruncate(c, request)
  PROVE  UNCHANGED Sessions!vars
<1>1. c \in Attached
  BY DEF FileTruncate, Request
<1>2. CASE UNCHANGED <<con, file>>
  BY <1>2, QuietSessions
<1>3. CASE ~Closed(c) /\ Truncate(c, request) /\ ~UNCHANGED <<con, file>>
  <2> DEFINE size == AlignUp(request)
  <2>1. PICK f \in Live : con[c].handler = f
    BY <1>1, <1>3, OpenHandle
  <2>2. PICK obj \in Obj \cup {Null} :
          file' = [file EXCEPT ![f].size = size, ![f].data = obj] /\ UNCHANGED con
    BY <1>3, <2>1 DEF Truncate, Die, FreeObj
  <2>3. size \in Word /\ file[f] \in File
    BY AlignUpWord, InputAssumption DEF IInv, TypeOK, Live
  <2> HIDE DEF size
  <2>4. [file[f] EXCEPT !.size = size, !.data = obj] \in File
    BY <2>3 DEF File
  <2>5. file' = [file EXCEPT ![f] = [file[f] EXCEPT !.size = size, !.data = obj]]
    BY <2>2
  <2>6. Live' = Live
    BY <2>4, <2>5, FileChanged
  <2>7. Attached' = Attached /\ \A d \in Scoid : Handle(d)' = Handle(d)
    BY <2>2 DEF Attached, Handle
  <2> QED BY <2>6, <2>7, SessionsStutter
<1> QED BY <1>2, <1>3 DEF FileTruncate, tree

\* _io_FileShare is invisible to the sessions: a mapped connection holds its file.
LEMMA ShareSessions ==
  ASSUME IInv, NEW c \in Scoid, FileShare(c)
  PROVE  UNCHANGED Sessions!vars
<1>1. c \in Attached /\ UNCHANGED file
  BY DEF FileShare, Request, tree
<1>2. CASE UNCHANGED con
  BY <1>1, <1>2, QuietSessions
<1>3. CASE con' = [con EXCEPT ![c].state = "MAP"]
  <2>1. con[c] \in Connection
    BY <1>1 DEF IInv, TypeOK, Attached
  <2>2. [con[c] EXCEPT !.state = "MAP"] \in Connection
        /\ [con[c] EXCEPT !.state = "MAP"].handler = con[c].handler
    BY <2>1 DEF Connection
  <2>3. con' = [con EXCEPT ![c] = [con[c] EXCEPT !.state = "MAP"]]
    BY <1>3
  <2>4. Attached' = Attached /\ \A d \in Scoid : Handle(d)' = Handle(d)
    BY <1>1, <2>2, <2>3, SameHandles
  <2> QED BY <1>1, <2>4, SessionsStutter DEF Live
<1> QED BY <1>2, <1>3 DEF FileShare

\* ProcFileDelete deletes a file nobody holds.
LEMMA DeleteSessions ==
  ASSUME IInv, FewConnections, NEW f \in FileId, ProcFileDelete(f)
  PROVE  Sessions!Delete(f)
<1>1. f \in Live /\ file' = [file EXCEPT ![f] = Null] /\ UNCHANGED con
  BY DEF ProcFileDelete
<1>2. Live' = Live \ {f} /\ Attached' = Attached /\ \A d \in Scoid : Handle(d)' = Handle(d)
  BY <1>1 DEF IInv, TypeOK, Live, Attached, Handle
<1>3. Openers(f) = {}
  BY DeletedUnopened
<1>4. \A d \in Scoid : Handle(d) # f
  BY <1>1, <1>3, NullAssumption DEF Openers, Attached, Handle, Live
<1> QED BY <1>1, <1>2, <1>4 DEF Sessions!Delete

\* Every step maps to a step of the sessions or to a stutter.
LEMMA SessionsNext ==
  ASSUME FewConnections
  PROVE  IInv /\ [ApiNext]_vars => [Sessions!Next]_(Sessions!vars)
<1> SUFFICES ASSUME IInv, [ApiNext]_vars PROVE [Sessions!Next]_(Sessions!vars)
  OBVIOUS
<1>1. CASE UNCHANGED vars
  BY <1>1, QuietSessions DEF vars
<1>2. CASE Next
  <2> SUFFICES ASSUME NEW c \in Scoid, Attach(c) \/ Detach(c) \/ Handler(c) \/ ClientStore(c)
               PROVE  [Sessions!Next]_(Sessions!vars)
    BY <1>2 DEF Next
  <2>1. CASE Attach(c)
    BY <2>1, AttachSessions DEF Sessions!Next
  <2>2. CASE Detach(c)
    BY <2>2, DetachSessions DEF Sessions!Next
  <2>3. CASE \E path \in Paths, mode \in Modes, creat \in BOOLEAN : FileOpen(c, path, mode, creat)
    BY <2>3, OpenSessions DEF Sessions!Next
  <2>4. CASE \/ ClientStore(c) \/ FileClose(c)
             \/ \E path \in Paths, listAll \in BOOLEAN : ProcInfo(c, path, listAll)
    BY <2>4, QuietSessions DEF ClientStore, FileClose, ProcInfo, tree
  <2>5. CASE \E n \in ReadSizes : FileRead(c, n)
    BY <2>5, ReadSessions
  <2>6. CASE \E bytes \in Payloads : FileWrite(c, bytes)
    BY <2>6, WriteSessions
  <2>7. CASE \E whence \in {"SEEK_SET", "SEEK_CUR", "SEEK_END", "other"}, offset \in Offsets :
               FileSeek(c, whence, offset)
    BY <2>7, SeekingSessions
  <2>8. CASE \E request \in TruncateSizes : FileTruncate(c, request)
    BY <2>8, TruncateSessions
  <2>9. CASE FileShare(c)
    BY <2>9, ShareSessions
  <2> QED BY <2>1, <2>2, <2>3, <2>4, <2>5, <2>6, <2>7, <2>8, <2>9 DEF Handler
<1>3. CASE \E f \in FileId : ProcFileDelete(f)
  BY <1>3, DeleteSessions DEF Sessions!Next
<1> QED BY <1>1, <1>2, <1>3 DEF ApiNext

\* proc_io.c and connection.c with ProcFileDelete: as long as fewer than 2^16
\* connections exist, the server's sessions are those of FileSessions: a file is
\* held from the open that succeeds to the detach, and never deleted while held.
THEOREM SessionsImplemented == ASSUME FewConnections PROVE ApiSpec => ImplementsSessions
<1>1. Init => Sessions!Init
  BY DEF Init, Sessions!Init, Attached, Handle, Live
<1>2. IInv /\ [ApiNext]_vars => [Sessions!Next]_(Sessions!vars)
  BY SessionsNext
<1> QED BY <1>1, <1>2, ApiInductive, PTL DEF ApiSpec, ImplementsSessions, Sessions!Spec

-----------------------------------------------------------------------------
(***************************************************************************)
(* Paths.                                                                  *)
(***************************************************************************)
\* The first components of a path.
LEMMA PrefixType ==
  ASSUME NEW path \in Seq(Name), NEW i \in 0..Len(path)
  PROVE  /\ SubSeq(path, 1, i) \in Seq(Name) /\ Len(SubSeq(path, 1, i)) = i
         /\ \A j \in 1..i : SubSeq(path, 1, i)[j] = path[j]
<1>1. \A j \in 1..i : path[j] \in Name
  OBVIOUS
<1>2. /\ SubSeq(path, 1, i) \in Seq(Name)
      /\ Len(SubSeq(path, 1, i)) = IF 1 <= i THEN i - 1 + 1 ELSE 0
      /\ \A j \in 1..(i - 1 + 1) : SubSeq(path, 1, i)[j] = path[1 + j - 1]
  BY <1>1, SubSeqProperties
<1> QED BY <1>2

\* A prefix of a prefix is a prefix.
LEMMA PrefixOfPrefix ==
  ASSUME NEW path \in Seq(Name), NEW i \in 0..Len(path), NEW j \in 0..i
  PROVE  SubSeq(SubSeq(path, 1, i), 1, j) = SubSeq(path, 1, j)
<1> DEFINE p == SubSeq(path, 1, i)
<1>1. /\ p \in Seq(Name) /\ Len(p) = i
      /\ \A k \in 1..i : p[k] = path[k]
  BY PrefixType
<1> HIDE DEF p
<1>2. /\ SubSeq(p, 1, j) \in Seq(Name) /\ Len(SubSeq(p, 1, j)) = j
      /\ \A k \in 1..j : SubSeq(p, 1, j)[k] = p[k]
  BY <1>1, PrefixType
<1>3. /\ SubSeq(path, 1, j) \in Seq(Name) /\ Len(SubSeq(path, 1, j)) = j
      /\ \A k \in 1..j : SubSeq(path, 1, j)[k] = path[k]
  BY PrefixType
<1>4. SubSeq(p, 1, j) = SubSeq(path, 1, j)
  BY <1>1, <1>2, <1>3, SeqEqual
<1> QED BY <1>4 DEF p

\* ProcPathResolve stops where the directories end.
LEMMA ResolvedUnique ==
  ASSUME NEW D, NEW path \in Seq(Name), NEW n \in 0..Len(path),
         \A i \in 0..n : SubSeq(path, 1, i) \in D,
         n < Len(path) => SubSeq(path, 1, n + 1) \notin D
  PROVE  Resolved(D, path) = n
<1> DEFINE Stop(k) == /\ \A i \in 0..k : SubSeq(path, 1, i) \in D
                      /\ k < Len(path) => SubSeq(path, 1, k + 1) \notin D
<1>1. Stop(n)
  OBVIOUS
<1>2. ASSUME NEW k \in 0..Len(path), Stop(k) PROVE k = n
  <2>1. CASE k < n
    <3>1. k + 1 \in 0..n /\ k < Len(path)
      BY <2>1
    <3> QED BY <1>2, <3>1
  <2>2. CASE n < k
    <3>1. n + 1 \in 0..k /\ n < Len(path)
      BY <2>2
    <3> QED BY <1>2, <3>1
  <2> QED BY <2>1, <2>2
<1> HIDE DEF Stop
<1>3. (CHOOSE k \in 0..Len(path) : Stop(k)) = n
  BY <1>1, <1>2
<1> QED BY <1>3 DEF Stop, Resolved

\* The directories that lead to a path, itself left out.
LeadsTo(D, path) == \A i \in 0..(Len(path) - 1) : SubSeq(path, 1, i) \in D

\* A path that directories lead to is a directory, or leaves its last component.
LEMMA ResolvedLast ==
  ASSUME NEW D, NEW path \in Seq(Name), path # <<>>, LeadsTo(D, path)
  PROVE  /\ path \in D => Resolved(D, path) = Len(path)
         /\ path \notin D => Resolved(D, path) = Len(path) - 1
<1>1. Len(path) \in Nat \ {0}
  BY EmptySeq
<1>2. SubSeq(path, 1, Len(path)) = path
  BY SubSeqFull
<1>3. ASSUME path \in D PROVE Resolved(D, path) = Len(path)
  <2>1. \A i \in 0..Len(path) : SubSeq(path, 1, i) \in D
    <3> TAKE i \in 0..Len(path)
    <3>1. CASE i = Len(path)
      BY <1>2, <1>3, <3>1
    <3>2. CASE i # Len(path)
      BY <1>1, <3>2 DEF LeadsTo
    <3> QED BY <3>1, <3>2
  <2> QED BY <1>1, <2>1, ResolvedUnique
<1>4. ASSUME path \notin D PROVE Resolved(D, path) = Len(path) - 1
  <2>1. Len(path) - 1 \in 0..Len(path) /\ Len(path) - 1 + 1 = Len(path)
    BY <1>1
  <2>2. \A i \in 0..(Len(path) - 1) : SubSeq(path, 1, i) \in D
    BY DEF LeadsTo
  <2> QED BY <1>2, <1>4, <2>1, <2>2, ResolvedUnique
<1> QED BY <1>3, <1>4

(***************************************************************************)
(* What a step does to the files.                                          *)
(***************************************************************************)
\* The files there are keep their paths and modes.
FilesKept ==
  /\ Live' = Live
  /\ \A f \in Live : /\ file'[f].path = file[f].path
                     /\ file'[f].access = file[f].access
                     /\ file'[f].permission = file[f].permission

\* Nothing happens to the tree or to the memory of the files but their counts.
TreeKept ==
  /\ UNCHANGED <<dirs, mapped>> /\ FilesKept
  /\ \A f \in Live : file'[f].data = file[f].data /\ file'[f].size = file[f].size

\* A mappable file moves to other memory, or to none.
FileMoved ==
  /\ dirs' = dirs /\ FilesKept
  /\ \E f \in Live, obj \in FreeObj \cup {Null} :
       /\ FILE_MAP_PERMISSION \in file[f].permission
       /\ mapped' = (mapped \ {file[f].data}) \cup ({obj} \ {Null})
       /\ file'[f].data = obj /\ \A g \in Live \ {f} : file'[g] = file[g]

\* A file is made, with no memory, under a path that is neither a file nor a
\* directory.
FileMade ==
  /\ mapped' = mapped
  /\ \E path \in Paths, f \in FileId \ Live :
       /\ FileGet(path) = {} /\ path # <<>> /\ ~EndsInSlash(path) /\ ~Consumed(dirs, path)
       /\ dirs' = WithParents(dirs, path) /\ Live' = Live \cup {f}
       /\ file'[f].path = path /\ file'[f].data = Null
       /\ file'[f].access = O_RDWR /\ file'[f].permission = {FILE_MAP_PERMISSION}
       /\ \A g \in Live : file'[g] = file[g]

\* A step that leaves the files alone keeps them.
LEMMA FilesUntouched ==
  ASSUME UNCHANGED <<dirs, file, mapped>>
  PROVE  TreeKept
BY DEF TreeKept, FilesKept, Live

\* A counter goes up or down.
LEMMA CountMoved ==
  ASSUME IInv, NEW f \in Live, NEW k \in Int, UNCHANGED <<dirs, mapped>>,
         file' = [file EXCEPT ![f].refs = k % RefLimit]
  PROVE  TreeKept
<1>1. f \in FileId /\ file[f] \in File
  BY DEF IInv, TypeOK, Live
<1>2. /\ file'[f] = [file[f] EXCEPT !.refs = k % RefLimit]
      /\ \A g \in FileId \ {f} : file'[g] = file[g]
      /\ Live' = Live
  BY RefsChanged
<1>3. /\ file'[f].path = file[f].path /\ file'[f].access = file[f].access
      /\ file'[f].permission = file[f].permission
      /\ file'[f].data = file[f].data /\ file'[f].size = file[f].size
  BY <1>1, <1>2 DEF File
<1> QED BY <1>2, <1>3 DEF TreeKept, FilesKept, Live

\* A detach keeps the files.
LEMMA DetachFiles ==
  ASSUME IInv, NEW c \in Scoid, Detach(c)
  PROVE  TreeKept
<1>1. CASE UNCHANGED file
  BY <1>1, FilesUntouched DEF Detach, vars
<1>2. CASE con[c] # Null /\ con[c].state # "CLOSE" /\ CloseCallBack(c) /\ con[c].handler # Null
  <2>1. PICK h \in Live : con[c].handler = h
    BY <1>2 DEF IInv, NoDanglingHandle, Attached
  <2>2. h \in FileId /\ file[h] \in File
    BY DEF IInv, TypeOK, Live
  <2>3. file[h].refs + RefLimit - 1 \in Int
        /\ file' = [file EXCEPT ![h].refs = (file[h].refs + RefLimit - 1) % RefLimit]
    BY <1>2, <2>1, <2>2, WidthAssumption DEF CloseCallBack, ProcFileClose, File
  <2>4. UNCHANGED <<dirs, mapped>>
    BY DEF Detach, vars
  <2> QED BY <2>3, <2>4, CountMoved
<1>3. UNCHANGED file \/ (con[c] # Null /\ con[c].state # "CLOSE" /\ CloseCallBack(c) /\ con[c].handler # Null)
  BY DEF Detach, CloseCallBack, vars
<1> QED BY <1>1, <1>2, <1>3

\* An open keeps the files or makes one.
LEMMA OpenFiles ==
  ASSUME IInv, NEW c \in Scoid, NEW path \in Paths, NEW mode \in Modes, NEW creat \in BOOLEAN,
         FileOpen(c, path, mode, creat)
  PROVE  TreeKept \/ FileMade
<1>1. CASE OpenBusy(c) \/ OpenMissing(c, path, creat) \/ OpenCreateOnDirectory(c, path, creat)
  BY <1>1, FilesUntouched DEF OpenBusy, OpenMissing, OpenCreateOnDirectory, Die, tree, store
<1>2. CASE OpenExisting(c, path, mode)
  <2>1. PICK f \in FileGet(path) :
          \/ file' = [file EXCEPT ![f].refs = (@ + 1) % RefLimit]
          \/ UNCHANGED file
    BY <1>2 DEF OpenExisting
  <2>2. f \in Live /\ f \in FileId /\ file[f] \in File
    BY DEF FileGet, Live, IInv, TypeOK
  <2>3. UNCHANGED <<dirs, mapped>>
    BY <1>2 DEF OpenExisting, store
  <2>4. CASE UNCHANGED file
    BY <2>3, <2>4, FilesUntouched
  <2>5. CASE file' = [file EXCEPT ![f].refs = (@ + 1) % RefLimit]
    <3>1. file[f].refs + 1 \in Int /\ file' = [file EXCEPT ![f].refs = (file[f].refs + 1) % RefLimit]
      BY <2>2, <2>5, WidthAssumption DEF File
    <3> QED BY <2>2, <2>3, <3>1, CountMoved
  <2> QED BY <2>1, <2>4, <2>5
<1>3. CASE OpenCreated(c, path, mode, creat)
  <2> DEFINE new == [path |-> path, data |-> Null, size |-> 0, refs |-> 0,
                     access |-> O_RDWR, permission |-> {FILE_MAP_PERMISSION}]
  <2>1. PICK f \in FileId \ Live :
          \/ file' = [file EXCEPT ![f] = [new EXCEPT !.refs = 1 % RefLimit]]
          \/ file' = [file EXCEPT ![f] = new]
    BY <1>3 DEF OpenCreated
  <2>2. new \in File /\ [new EXCEPT !.refs = 1 % RefLimit] \in File
    BY NewFileType
  <2>3. PICK rec \in File :
          /\ file' = [file EXCEPT ![f] = rec] /\ rec.path = path /\ rec.data = Null
          /\ rec.access = O_RDWR /\ rec.permission = {FILE_MAP_PERMISSION}
    BY <2>1, <2>2
  <2>4. /\ file'[f] = rec /\ \A g \in FileId \ {f} : file'[g] = file[g]
        /\ Live' = Live \cup {f}
    BY <2>1, <2>3, NullAssumption DEF IInv, TypeOK, Live
  <2>5. /\ mapped' = mapped /\ dirs' = WithParents(dirs, path)
        /\ FileGet(path) = {} /\ path # <<>> /\ ~EndsInSlash(path) /\ ~Consumed(dirs, path)
    BY <1>3 DEF OpenCreated, store
  <2> QED BY <2>1, <2>3, <2>4, <2>5 DEF FileMade, Live
<1> QED BY <1>1, <1>2, <1>3 DEF FileOpen

\* A truncation keeps the files or moves one.
LEMMA TruncateFiles ==
  ASSUME IInv, NEW c \in Scoid, NEW request \in TruncateSizes, FileTruncate(c, request)
  PROVE  TreeKept \/ FileMoved
<1>1. CASE UNCHANGED <<dirs, file, mapped>>
  BY <1>1, FilesUntouched
<1>2. CASE /\ ~Closed(c) /\ FILE_MAP_PERMISSION \in file[con[c].handler].permission
           /\ Truncate(c, request) /\ ~Die("out of memory")
  <2>1. c \in Attached
    BY DEF FileTruncate, Request
  <2>2. PICK f \in Live : con[c].handler = f
    BY <1>2, <2>1, OpenHandle
  <2>3. PICK obj \in FreeObj \cup {Null} :
          /\ Remap(file[f].data, obj)
          /\ file' = [file EXCEPT ![f].size = AlignUp(request), ![f].data = obj]
          /\ UNCHANGED dirs
    BY <1>2, <2>2 DEF Truncate
  <2>4. f \in FileId /\ file[f] \in File /\ obj \in Obj \cup {Null} /\ AlignUp(request) \in Word
    BY AlignUpWord, InputAssumption DEF IInv, TypeOK, Live, FreeObj
  <2> DEFINE new == [file[f] EXCEPT !.size = AlignUp(request), !.data = obj]
  <2>5. /\ new \in File /\ new.data = obj /\ new.path = file[f].path
        /\ new.access = file[f].access /\ new.permission = file[f].permission
    BY <2>4 DEF File
  <2>6. file' = [file EXCEPT ![f] = new]
    BY <2>3
  <2> HIDE DEF new
  <2>7. /\ file'[f] = new /\ \A g \in FileId \ {f} : file'[g] = file[g]
        /\ Live' = Live
    BY <2>5, <2>6, FileChanged
  <2> QED BY <1>2, <2>2, <2>3, <2>5, <2>7 DEF FileMoved, FilesKept, Remap, Live
<1>3. CASE Die("out of memory")
  BY <1>3, FilesUntouched DEF Die
<1> QED BY <1>1, <1>2, <1>3 DEF FileTruncate, tree, store

\* Every step keeps the files, moves one or makes one.
LEMMA FileSteps ==
  ASSUME IInv, [Next]_vars
  PROVE  TreeKept \/ FileMoved \/ FileMade
<1>1. CASE UNCHANGED vars
  BY <1>1, FilesUntouched DEF vars
<1>2. CASE Next
  <2> SUFFICES ASSUME NEW c \in Scoid, Attach(c) \/ Detach(c) \/ Handler(c) \/ ClientStore(c)
               PROVE  TreeKept \/ FileMoved \/ FileMade
    BY <1>2 DEF Next
  <2>1. CASE Attach(c) \/ ClientStore(c)
    BY <2>1, FilesUntouched DEF Attach, ClientStore, store, vars
  <2>2. CASE Detach(c)
    BY <2>2, DetachFiles
  <2>3. CASE \E path \in Paths, mode \in Modes, creat \in BOOLEAN : FileOpen(c, path, mode, creat)
    BY <2>3, OpenFiles
  <2>4. CASE \E request \in TruncateSizes : FileTruncate(c, request)
    BY <2>4, TruncateFiles
  <2>5. CASE FileClose(c) \/ FileShare(c)
    BY <2>5, FilesUntouched DEF FileClose, FileShare, tree, store
  <2>6. CASE \E n \in ReadSizes : FileRead(c, n)
    BY <2>6, FilesUntouched DEF FileRead, Die, tree, store
  <2>7. CASE \E bytes \in Payloads : FileWrite(c, bytes)
    BY <2>7, FilesUntouched DEF FileWrite, Die, tree, store
  <2>8. CASE \E whence \in {"SEEK_SET", "SEEK_CUR", "SEEK_END", "other"}, offset \in Offsets :
               FileSeek(c, whence, offset)
    BY <2>8, FilesUntouched DEF FileSeek, tree, store
  <2>9. CASE \E path \in Paths, listAll \in BOOLEAN : ProcInfo(c, path, listAll)
    BY <2>9, FilesUntouched DEF ProcInfo, tree, store
  <2> QED BY <2>1, <2>2, <2>3, <2>4, <2>5, <2>6, <2>7, <2>8, <2>9 DEF Handler
<1> QED BY <1>1, <1>2

(***************************************************************************)
(* The tree.                                                               *)
(***************************************************************************)
\* A path a file can have in the tree.
FilePath(D, path) == path # <<>> /\ Last(path) # "" /\ LeadsTo(D, path)

TreeInv ==
  /\ <<>> \in dirs
  /\ \A d \in dirs : LeadsTo(dirs, d)
  /\ \A f \in Live : FilePath(dirs, file[f].path)
  /\ UniquePaths

\* The path of a live file is one.
LEMMA LivePath ==
  ASSUME IInv, NEW f \in Live
  PROVE  f \in FileId /\ file[f] \in File /\ file[f].path \in Seq(Name)
BY DEF IInv, TypeOK, Live, File

\* What FileGet does not find is not there.
LEMMA NotFoundNotThere ==
  ASSUME IInv, TreeInv, NEW f \in Live, NEW path,
         path = file[f].path, FileGet(path) = {}
  PROVE  Consumed(dirs, path)
<1>1. path \in Seq(Name) /\ path # <<>> /\ Last(path) # "" /\ LeadsTo(dirs, path)
  BY LivePath DEF TreeInv, FilePath
<1>2. CASE path \in dirs
  BY <1>1, <1>2, ResolvedLast DEF Consumed
<1>3. CASE path \notin dirs
  <2>1. Resolved(dirs, path) = Len(path) - 1
    BY <1>1, <1>3, ResolvedLast
  <2>2. LeavesFileName(dirs, path)
    BY <1>1, <2>1 DEF LeavesFileName, EndsInSlash
  <2> QED BY <2>2 DEF FileGet
<1> QED BY <1>2, <1>3

\* Directories made on the way to a path keep those of other paths.
LEMMA LeadsToMore ==
  ASSUME NEW D, NEW E, D \subseteq E, NEW path, LeadsTo(D, path)
  PROVE  LeadsTo(E, path)
BY DEF LeadsTo

\* The directories made on the way to a path have theirs.
LEMMA ParentsLead ==
  ASSUME NEW D, NEW path \in Seq(Name), path # <<>>, \A d \in D : LeadsTo(D, d)
  PROVE  /\ LeadsTo(WithParents(D, path), path)
         /\ \A d \in WithParents(D, path) : LeadsTo(WithParents(D, path), d)
<1> DEFINE E == WithParents(D, path)
<1>1. D \subseteq E /\ \A i \in 0..(Len(path) - 1) : SubSeq(path, 1, i) \in E
  BY DEF WithParents
<1>2. \A d \in E : d \in D \/ \E i \in 0..(Len(path) - 1) : d = SubSeq(path, 1, i)
  BY DEF WithParents
<1> HIDE DEF E
<1>3. \A d \in D : LeadsTo(E, d)
  BY <1>1, LeadsToMore
<1>4. ASSUME NEW i \in 0..(Len(path) - 1) PROVE LeadsTo(E, SubSeq(path, 1, i))
  <2>1. i \in 0..Len(path) /\ i \in Nat
    OBVIOUS
  <2>2. Len(SubSeq(path, 1, i)) = i
    BY <2>1, PrefixType
  <2>3. ASSUME NEW j \in 0..(i - 1) PROVE SubSeq(SubSeq(path, 1, i), 1, j) \in E
    <3>1. j \in 0..i /\ j \in 0..(Len(path) - 1)
      BY <2>1
    <3>2. SubSeq(SubSeq(path, 1, i), 1, j) = SubSeq(path, 1, j)
      BY <2>1, <3>1, PrefixOfPrefix
    <3> QED BY <1>1, <3>1, <3>2
  <2> QED BY <2>2, <2>3 DEF LeadsTo
<1>5. LeadsTo(E, path)
  BY <1>1 DEF LeadsTo
<1>6. \A d \in E : LeadsTo(E, d)
  BY <1>2, <1>3, <1>4
<1> QED BY <1>5, <1>6 DEF E

\* Every step keeps the tree.
LEMMA TreeStep ==
  ASSUME IInv, TreeInv, [Next]_vars
  PROVE  TreeInv'
<1>1. CASE dirs' = dirs /\ FilesKept
  BY <1>1 DEF TreeInv, FilesKept, UniquePaths
<1>2. CASE FileMade
  <2>1. PICK path \in Paths, f \in FileId \ Live :
          /\ FileGet(path) = {} /\ path # <<>> /\ ~EndsInSlash(path) /\ ~Consumed(dirs, path)
          /\ dirs' = WithParents(dirs, path) /\ Live' = Live \cup {f}
          /\ file'[f].path = path
          /\ \A g \in Live : file'[g] = file[g]
    BY <1>2 DEF FileMade
  <2>2. path \in Seq(Name)
    BY InputAssumption
  <2>3. LeadsTo(dirs', path) /\ \A d \in dirs' : LeadsTo(dirs', d)
    BY <2>1, <2>2, ParentsLead DEF TreeInv
  <2>4. dirs \subseteq dirs' /\ <<>> \in dirs'
    BY <2>1 DEF WithParents, TreeInv
  <2>5. FilePath(dirs', path)
    BY <2>1, <2>3 DEF FilePath, EndsInSlash
  <2>6. \A g \in Live : FilePath(dirs', file[g].path)
    BY <2>4, LeadsToMore DEF TreeInv, FilePath
  <2>7. \A g \in Live : file[g].path # path
    BY <2>1, NotFoundNotThere
  <2>8. UniquePaths'
    BY <2>1, <2>7 DEF TreeInv, UniquePaths
  <2> QED BY <2>1, <2>3, <2>4, <2>5, <2>6, <2>8 DEF TreeInv
<1> QED BY <1>1, <1>2, FileSteps DEF TreeKept, FileMoved

\* ProcFileSystemBuild makes a tree, with each file under its own name.
LEMMA TreeInit == Init => TreeInv
<1> SUFFICES ASSUME Init PROVE TreeInv
  OBVIOUS
<1>1. PICK paths \in Boots : Built(paths)
  BY DEF Init
<1>2. paths \subseteq BootPaths \cup SysPaths
  BY BootAssumption
<1>3. \A p \in paths : p \in Seq(Name) /\ p # <<>> /\ Last(p) # ""
  <2>1. "sys" # "" /\ "devices" # ""
    OBVIOUS
  <2>3. \A n : <<n>> # <<>> /\ Len(<<n>>) = 1 /\ <<n>>[1] = n
    OBVIOUS
  <2>4. \A n : Last(<<n>>) = n
    BY <2>3 DEF Last
  <2>2. \A p \in SysPaths : p # <<>> /\ Last(p) # ""
    BY <2>1, <2>3, <2>4, Zenon DEF SysPaths
  <2> QED BY <1>2, <2>2, BootPathsType, BootAssumption
<1>4. dirs = {<<>>} \cup UNION {WithParents({}, p) : p \in paths}
  BY <1>1 DEF Built
<1>5. \A p \in paths : WithParents({}, p) \subseteq dirs
  BY <1>4
<1>6. \A p \in paths : /\ LeadsTo(WithParents({}, p), p)
                       /\ \A d \in WithParents({}, p) : LeadsTo(WithParents({}, p), d)
  BY <1>3, ParentsLead
<1>7. \A d \in dirs : LeadsTo(dirs, d)
  <2>1. LeadsTo(dirs, <<>>)
    <3>1. \A i \in 0..(Len(<<>>) - 1) : FALSE
      OBVIOUS
    <3> QED BY <3>1 DEF LeadsTo
  <2>2. \A p \in paths : \A d \in WithParents({}, p) : LeadsTo(dirs, d)
    BY <1>5, <1>6, LeadsToMore
  <2> QED BY <1>4, <2>1, <2>2
<1>8. \A f \in Live : \E p \in paths : BootBlock[p] = f /\ file[f].path = p
  BY <1>1 DEF Built, BootFile, Live
<1>9. \A f \in Live : FilePath(dirs, file[f].path)
  <2>1. \A p \in paths : LeadsTo(dirs, p)
    BY <1>5, <1>6, LeadsToMore
  <2>2. \A p \in paths : FilePath(dirs, p)
    BY <1>3, <2>1, Zenon DEF FilePath
  <2> QED BY <1>8, <2>2
<1>10. UniquePaths
  BY <1>8 DEF UniquePaths
<1>11. <<>> \in dirs
  BY <1>4
<1> QED BY <1>7, <1>9, <1>10, <1>11 DEF TreeInv

\* The tree invariant is inductive.
THEOREM TreeInductive == Spec => [](IInv /\ TreeInv)
<1>1. Init => IInv /\ TreeInv
  BY InitStep, TreeInit
<1>2. IInv /\ TreeInv /\ [Next]_vars => (IInv /\ TreeInv)'
  BY NextStep, TreeStep
<1> QED BY <1>1, <1>2, PTL DEF Spec

\* proc.c:246-327: no two files answer to one path.
THEOREM PathsUnique == Spec => []UniquePaths
<1>1. IInv /\ TreeInv => UniquePaths
  BY DEF TreeInv
<1> QED BY <1>1, TreeInductive, PTL

\* proc.c:121-161: directories form one tree and every file hangs in it.
THEOREM TreeHolds == Spec => []TreeWellFormed
<1>1. ASSUME IInv, TreeInv PROVE TreeWellFormed
  <2>1. ASSUME NEW path \in Seq(Name), path # <<>>, LeadsTo(dirs, path)
        PROVE  Front(path) \in dirs
    <3>1. Len(path) - 1 \in 0..(Len(path) - 1)
      BY <2>1, EmptySeq
    <3> QED BY <2>1, <3>1 DEF LeadsTo, Front
  <2>2. \A d \in dirs : d \in Seq(Name)
    BY <1>1 DEF IInv, TypeOK
  <2>3. \A f \in Live : file[f].path \in Seq(Name)
    BY <1>1, LivePath
  <2> QED BY <1>1, <2>1, <2>2, <2>3 DEF TreeInv, FilePath, TreeWellFormed, IsTree
<1> QED BY <1>1, TreeInductive, PTL

\* proc.c:186-287: every file is found under its path, but behind a directory.
THEOREM FilesFound == Spec => []FilesReachable
<1>1. ASSUME IInv, TreeInv PROVE FilesReachable
  <2> SUFFICES ASSUME NEW f \in Live, file[f].path \notin dirs
               PROVE  FileGet(file[f].path) = {f}
    BY DEF FilesReachable
  <2>1. /\ file[f].path \in Seq(Name) /\ file[f].path # <<>> /\ Last(file[f].path) # ""
        /\ LeadsTo(dirs, file[f].path)
    BY <1>1, LivePath DEF TreeInv, FilePath
  <2>2. Resolved(dirs, file[f].path) = Len(file[f].path) - 1
    BY <2>1, ResolvedLast
  <2>3. LeavesFileName(dirs, file[f].path)
    BY <2>1, <2>2 DEF LeavesFileName, EndsInSlash
  <2> QED BY <1>1, <2>3 DEF FileGet, TreeInv, UniquePaths
<1> QED BY <1>1, TreeInductive, PTL

(***************************************************************************)
(* What a step does to a connection and its share.                         *)
(***************************************************************************)
ConnGone(d) == con'[d] = Null /\ share'[d] = Null

ConnNew(d) ==
  /\ con[d] = Null /\ con'[d] # Null /\ con'[d].access = O_RDONLY /\ con'[d].seek = 0
  /\ share'[d] = share[d]

\* At most its position moves, when it is opened.
ConnKept(d) ==
  /\ con'[d] = Null <=> con[d] = Null
  /\ con[d] # Null => /\ con'[d].state = con[d].state
                      /\ con'[d].access = con[d].access /\ con'[d].handler = con[d].handler
                      /\ con'[d].seek = con[d].seek \/ con[d].state # "CLOSE"
  /\ share'[d] = share[d]

ConnMapped(d) ==
  /\ con[d] # Null /\ con[d].state = "OPEN" /\ con'[d] # Null /\ con'[d].state = "MAP"
  /\ con'[d].access = con[d].access /\ con'[d].handler = con[d].handler
  /\ share'[d] \in {share[d], file[con[d].handler].data}

ConnOpened(d) ==
  /\ con[d] # Null /\ con[d].state = "CLOSE" /\ con'[d] # Null /\ share'[d] = share[d]
  /\ con'[d].handler \in Live'
  /\ con'[d].access = O_RDONLY \/ file'[con'[d].handler].access \cap con'[d].access # {}

ConnStep(d) == ConnGone(d) \/ ConnNew(d) \/ ConnKept(d) \/ ConnMapped(d) \/ ConnOpened(d)

\* A step that leaves the connections and the shares alone keeps each.
LEMMA ConnsUntouched ==
  ASSUME UNCHANGED <<con, share>>, NEW d \in Scoid
  PROVE  ConnStep(d)
BY DEF ConnStep, ConnKept

\* A step that changes one connection leaves the others alone.
LEMMA OneConn ==
  ASSUME IInv, NEW c \in Scoid, NEW new, con' = [con EXCEPT ![c] = new]
  PROVE  con'[c] = new /\ \A d \in Scoid \ {c} : con'[d] = con[d]
BY DEF IInv, TypeOK

\* A new position is all that a transfer or a seek leaves in a connection.
LEMMA SeekConn ==
  ASSUME IInv, NEW c \in Attached, ~Closed(c), NEW w \in Word,
         con' = [con EXCEPT ![c].seek = w], UNCHANGED share, NEW d \in Scoid
  PROVE  ConnStep(d)
<1> DEFINE new == [con[c] EXCEPT !.seek = w]
<1>1. c \in Scoid /\ con[c] \in Connection /\ con[c] # Null
  BY DEF IInv, TypeOK, Attached
<1>2. /\ new \in Connection /\ new.state = con[c].state /\ new.access = con[c].access
      /\ new.handler = con[c].handler
  BY <1>1 DEF Connection
<1>3. con' = [con EXCEPT ![c] = new] /\ new # Null
  BY <1>2, NullAssumption
<1> HIDE DEF new
<1>4. con'[c] = new /\ \A e \in Scoid \ {c} : con'[e] = con[e]
  BY <1>1, <1>3, OneConn
<1> QED BY <1>1, <1>2, <1>3, <1>4 DEF ConnStep, ConnKept, Closed

\* What the words of an opened connection and of its file are.
LEMMA OpenWords ==
  ASSUME IInv, NEW c \in Attached, ~Closed(c), NEW n \in Nat
  PROVE  /\ con[c].seek \in Nat
         /\ file[con[c].handler].size \in Nat
         /\ TransferSize(n, con[c].seek, file[con[c].handler].size) \in Int
<1>1. con[c] \in Connection /\ file[con[c].handler] \in File
  BY OpenHandle
<1>2. con[c].seek \in Nat /\ file[con[c].handler].size \in Nat
  BY <1>1, WidthAssumption DEF Connection, File, Word
<1> QED BY <1>2 DEF TransferSize

\* _io_FileRead, _io_FileWrite and _io_FileSeek move a position at most.
LEMMA TransferConn ==
  ASSUME IInv, NEW c \in Scoid, NEW d \in Scoid,
         \/ \E n \in ReadSizes : FileRead(c, n)
         \/ \E bytes \in Payloads : FileWrite(c, bytes)
         \/ \E whence \in {"SEEK_SET", "SEEK_CUR", "SEEK_END", "other"}, offset \in Offsets :
              FileSeek(c, whence, offset)
  PROVE  ConnStep(d)
<1>1. c \in Attached
  BY DEF FileRead, FileWrite, FileSeek, Request
<1>2. CASE UNCHANGED <<con, share>>
  BY <1>2, ConnsUntouched
<1>3. ASSUME NEW n \in Nat, ~Closed(c), UNCHANGED share,
             con' = [con EXCEPT ![c].seek =
                       (@ + TransferSize(n, con[c].seek, file[con[c].handler].size)) % WordSize]
      PROVE  ConnStep(d)
  <2> DEFINE w == (con[c].seek + TransferSize(n, con[c].seek, file[con[c].handler].size)) % WordSize
  <2>1. w \in Word
    BY <1>1, <1>3, OpenWords, WordStep
  <2>2. con' = [con EXCEPT ![c].seek = w]
    BY <1>3
  <2> HIDE DEF w
  <2> QED BY <1>1, <1>3, <2>1, <2>2, SeekConn
<1>4. CASE \E n \in ReadSizes : FileRead(c, n)
  <2>1. PICK n \in ReadSizes : FileRead(c, n)
    BY <1>4
  <2>2. n \in Nat
    BY InputAssumption, WidthAssumption DEF Word
  <2> QED BY <1>2, <1>3, <2>1, <2>2 DEF FileRead, Die, tree, store
<1>5. CASE \E bytes \in Payloads : FileWrite(c, bytes)
  <2>1. PICK bytes \in Payloads : FileWrite(c, bytes)
    BY <1>5
  <2>2. Len(bytes) \in Nat
    BY InputAssumption
  <2> QED BY <1>2, <1>3, <2>1, <2>2 DEF FileWrite, Die, tree, store
<1>6. CASE \E whence \in {"SEEK_SET", "SEEK_CUR", "SEEK_END", "other"}, offset \in Offsets :
             FileSeek(c, whence, offset)
  <2>1. PICK whence \in {"SEEK_SET", "SEEK_CUR", "SEEK_END", "other"}, offset \in Offsets :
               FileSeek(c, whence, offset)
    BY <1>6
  <2> DEFINE base == CASE whence = "SEEK_SET" -> 0
                       [] whence = "SEEK_CUR" -> con[c].seek
                       [] OTHER               -> file[con[c].handler].size
             w == (base + offset) % WordSize
  <2>2. CASE ~Closed(c) /\ con' = [con EXCEPT ![c].seek = w] /\ UNCHANGED share
    <3>1. offset \in Nat
      BY InputAssumption, WidthAssumption DEF Word
    <3>2. con[c].seek \in Nat /\ file[con[c].handler].size \in Nat
      BY <1>1, <2>2, OpenWords
    <3>3. base + offset \in Int
      BY <3>1, <3>2
    <3>4. w \in Word
      BY <3>3, WordStep
    <3>5. con' = [con EXCEPT ![c].seek = w] /\ UNCHANGED share
      BY <2>2
    <3> HIDE DEF w
    <3> QED BY <1>1, <2>2, <3>4, <3>5, SeekConn
  <2>3. \/ UNCHANGED <<con, share>>
        \/ ~Closed(c) /\ con' = [con EXCEPT ![c].seek = w] /\ UNCHANGED share
    BY <2>1 DEF FileSeek, store
  <2> QED BY <1>2, <2>2, <2>3
<1> QED BY <1>4, <1>5, <1>6

\* ConnectionAttach makes a closed connection, ConnectionDetach ends one and its share.
LEMMA AttachDetachConn ==
  ASSUME IInv, SharesOnlyMapped, NEW c \in Scoid, NEW d \in Scoid, Attach(c) \/ Detach(c)
  PROVE  ConnStep(d)
<1>1. CASE UNCHANGED <<con, share>>
  BY <1>1, ConnsUntouched
<1>2. CASE Attach(c) /\ con[c] = Null /\ ~UNCHANGED <<con, share>>
  <2> DEFINE new == [state |-> "CLOSE", access |-> O_RDONLY, seek |-> 0, handler |-> Null]
  <2>1. con' = [con EXCEPT ![c] = new] /\ UNCHANGED share
    BY <1>2 DEF Attach, store, vars
  <2>2. new # Null /\ new.access = O_RDONLY /\ new.seek = 0
    <3>1. new \in Connection
      BY WidthAssumption DEF Connection, O_RDONLY, AccessWord, Word
    <3> QED BY <3>1, NullAssumption
  <2> HIDE DEF new
  <2>3. con'[c] = new /\ \A e \in Scoid \ {c} : con'[e] = con[e]
    BY <2>1, OneConn
  <2> QED BY <1>2, <2>1, <2>2, <2>3 DEF ConnStep, ConnNew, ConnKept
<1>3. CASE Detach(c) /\ con[c] # Null /\ ~UNCHANGED <<con, share>>
  <2>1. con' = [con EXCEPT ![c] = Null]
    BY <1>3 DEF Detach, vars
  <2>2. con'[c] = Null /\ \A e \in Scoid \ {c} : con'[e] = con[e]
    BY <2>1, OneConn
  <2>3. share'[c] = Null /\ \A e \in Scoid \ {c} : share'[e] = share[e]
    <3>1. share \in [Scoid -> Obj \cup {Null}] /\ c \in Attached
      BY <1>3 DEF IInv, TypeOK, Attached
    <3>2. CASE con[c].state = "MAP" /\ share' = [share EXCEPT ![c] = Null]
      BY <3>1, <3>2
    <3>3. CASE con[c].state # "MAP" /\ UNCHANGED share
      BY <3>1, <3>3 DEF SharesOnlyMapped
    <3>4. \/ con[c].state = "MAP" /\ share' = [share EXCEPT ![c] = Null]
          \/ con[c].state # "MAP" /\ UNCHANGED share
      BY <1>3 DEF Detach, CloseCallBack, vars
    <3> QED BY <3>2, <3>3, <3>4
  <2> QED BY <2>2, <2>3 DEF ConnStep, ConnGone, ConnKept
<1> QED BY <1>1, <1>2, <1>3 DEF Attach, Detach, vars, store

\* _io_FileOpen gives a closed connection a file that admits its mode.
LEMMA OpenConn ==
  ASSUME IInv, NEW c \in Scoid, NEW d \in Scoid, NEW path \in Paths, NEW mode \in Modes,
         NEW creat \in BOOLEAN, FileOpen(c, path, mode, creat)
  PROVE  ConnStep(d)
<1>1. c \in Attached
  BY DEF FileOpen, Request
<1>2. CASE UNCHANGED <<con, share>>
  BY <1>2, ConnsUntouched
<1>3. ASSUME NEW f \in FileId, OpenConnection(c, f, mode), con[c].state = "CLOSE", UNCHANGED share,
             f \in Live', mode = O_RDONLY \/ file'[f].access \cap mode # {}
      PROVE  ConnStep(d)
  <2> DEFINE new == [state |-> "OPEN", access |-> mode, seek |-> 0, handler |-> f]
  <2>1. new # Null /\ new.access = mode /\ new.handler = f
    <3>1. new \in Connection
      BY InputAssumption, WidthAssumption DEF Connection, Word
    <3> QED BY <3>1, NullAssumption
  <2>2. con' = [con EXCEPT ![c] = new]
    BY <1>3 DEF OpenConnection
  <2> HIDE DEF new
  <2>3. con'[c] = new /\ \A e \in Scoid \ {c} : con'[e] = con[e]
    BY <2>2, OneConn
  <2> QED BY <1>1, <1>3, <2>1, <2>3 DEF ConnStep, ConnOpened, ConnKept, Attached
<1>4. CASE OpenExisting(c, path, mode) /\ ~UNCHANGED <<con, share>>
  <2>1. PICK f \in FileGet(path) :
          /\ Admits(file[f], mode)
          /\ file' = [file EXCEPT ![f].refs = (@ + 1) % RefLimit]
          /\ OpenConnection(c, f, mode)
    BY <1>4 DEF OpenExisting, store
  <2>2. f \in Live /\ f \in FileId /\ file[f] \in File
    BY DEF FileGet, Live, IInv, TypeOK
  <2>3. file[f].refs + 1 \in Int /\ file' = [file EXCEPT ![f].refs = (file[f].refs + 1) % RefLimit]
    BY <2>1, <2>2, WidthAssumption DEF File
  <2>4. Live' = Live /\ \A g \in Live : file'[g].access = file[g].access
    BY <2>2, <2>3, RefsChanged
  <2>5. con[c].state = "CLOSE" /\ UNCHANGED share
    BY <1>4 DEF OpenExisting, store
  <2>6. mode = O_RDONLY \/ file'[f].access \cap mode # {}
    BY <2>1, <2>2, <2>4 DEF Admits
  <2> QED BY <1>3, <2>1, <2>2, <2>4, <2>5, <2>6
<1>5. CASE OpenCreated(c, path, mode, creat) /\ ~UNCHANGED <<con, share>>
  <2> DEFINE new == [path |-> path, data |-> Null, size |-> 0, refs |-> 0,
                     access |-> O_RDWR, permission |-> {FILE_MAP_PERMISSION}]
  <2>1. PICK f \in FileId \ Live :
          /\ Admits(new, mode)
          /\ file' = [file EXCEPT ![f] = [new EXCEPT !.refs = 1 % RefLimit]]
          /\ OpenConnection(c, f, mode)
    BY <1>5 DEF OpenCreated, store
  <2>2. [new EXCEPT !.refs = 1 % RefLimit] \in File
    BY NewFileType
  <2>3. PICK rec \in File : file' = [file EXCEPT ![f] = rec] /\ rec.access = O_RDWR
    BY <2>1, <2>2
  <2>4. mode = O_RDONLY \/ O_RDWR \cap mode # {}
    BY <2>1 DEF Admits
  <2>5. file'[f] = rec /\ f \in Live'
    BY <2>1, <2>3, NullAssumption DEF IInv, TypeOK, Live
  <2>6. con[c].state = "CLOSE" /\ UNCHANGED share
    BY <1>5 DEF OpenCreated, store
  <2> QED BY <1>3, <2>1, <2>3, <2>4, <2>5, <2>6
<1>6. CASE OpenBusy(c) \/ OpenMissing(c, path, creat) \/ OpenCreateOnDirectory(c, path, creat)
  BY <1>2, <1>6 DEF OpenBusy, OpenMissing, OpenCreateOnDirectory, Die, store
<1> QED BY <1>2, <1>4, <1>5, <1>6 DEF FileOpen

\* _io_FileShare maps an opened connection.
LEMMA ShareConn ==
  ASSUME IInv, NEW c \in Scoid, NEW d \in Scoid, FileShare(c)
  PROVE  ConnStep(d)
<1>1. c \in Attached
  BY DEF FileShare, Request
<1>2. CASE UNCHANGED <<con, share>>
  BY <1>2, ConnsUntouched
<1>3. CASE /\ con[c].state = "OPEN" /\ con' = [con EXCEPT ![c].state = "MAP"]
           /\ share' \in {share, [share EXCEPT ![c] = file[con[c].handler].data]}
  <2> DEFINE new == [con[c] EXCEPT !.state = "MAP"]
  <2>1. con[c] \in Connection /\ con[c] # Null
    BY <1>1 DEF IInv, TypeOK, Attached
  <2>2. /\ new \in Connection /\ new.state = "MAP" /\ new.access = con[c].access
        /\ new.handler = con[c].handler
    BY <2>1 DEF Connection
  <2>3. new # Null /\ con' = [con EXCEPT ![c] = new]
    BY <1>3, <2>2, NullAssumption
  <2> HIDE DEF new
  <2>4. con'[c] = new /\ \A e \in Scoid \ {c} : con'[e] = con[e]
    BY <2>3, OneConn
  <2>5. /\ share'[c] \in {share[c], file[con[c].handler].data}
        /\ \A e \in Scoid \ {c} : share'[e] = share[e]
    BY <1>3 DEF IInv, TypeOK
  <2> QED BY <1>3, <2>1, <2>2, <2>3, <2>4, <2>5 DEF ConnStep, ConnMapped, ConnKept
<1> QED BY <1>2, <1>3 DEF FileShare

\* Every step does one of these to each connection.
LEMMA ConnSteps ==
  ASSUME IInv, SharesOnlyMapped, [Next]_vars, NEW d \in Scoid
  PROVE  ConnStep(d)
<1>1. CASE UNCHANGED <<con, share>>
  BY <1>1, ConnsUntouched
<1>2. CASE Next
  <2> SUFFICES ASSUME NEW c \in Scoid, Attach(c) \/ Detach(c) \/ Handler(c) \/ ClientStore(c)
               PROVE  ConnStep(d)
    BY <1>2 DEF Next
  <2>1. CASE Attach(c) \/ Detach(c)
    BY <2>1, AttachDetachConn
  <2>2. CASE \E path \in Paths, mode \in Modes, creat \in BOOLEAN : FileOpen(c, path, mode, creat)
    BY <2>2, OpenConn
  <2>3. CASE FileShare(c)
    BY <2>3, ShareConn
  <2>4. CASE \/ \E n \in ReadSizes : FileRead(c, n)
             \/ \E bytes \in Payloads : FileWrite(c, bytes)
             \/ \E whence \in {"SEEK_SET", "SEEK_CUR", "SEEK_END", "other"}, offset \in Offsets :
                  FileSeek(c, whence, offset)
    BY <2>4, TransferConn
  <2>5. CASE FileClose(c) \/ ClientStore(c)
    BY <1>1, <2>5 DEF FileClose, ClientStore, store
  <2>6. CASE \E request \in TruncateSizes : FileTruncate(c, request)
    BY <1>1, <2>6 DEF FileTruncate, Truncate, Die, store
  <2>7. CASE \E path \in Paths, listAll \in BOOLEAN : ProcInfo(c, path, listAll)
    BY <1>1, <2>7 DEF ProcInfo, store
  <2> QED BY <2>1, <2>2, <2>3, <2>4, <2>5, <2>6, <2>7 DEF Handler
<1> QED BY <1>1, <1>2 DEF vars

\* Shares and modes are kept by every step.
ShareInv == SharesOnlyMapped /\ AccessGranted

LEMMA ShareInvStep ==
  ASSUME IInv, ShareInv, [Next]_vars
  PROVE  ShareInv'
<1>1. \A d \in Scoid : ConnStep(d)
  BY ConnSteps DEF ShareInv
<1>2. SharesOnlyMapped'
  <2> SUFFICES ASSUME NEW d \in Scoid, share'[d] # Null
               PROVE  con'[d] # Null /\ con'[d].state = "MAP"
    BY DEF SharesOnlyMapped, Attached
  <2>1. share[d] # Null => con[d] # Null /\ con[d].state = "MAP"
    BY DEF ShareInv, SharesOnlyMapped, Attached
  <2>2. "MAP" # "CLOSE"
    OBVIOUS
  <2> QED BY <1>1, <2>1, <2>2
          DEF ConnStep, ConnGone, ConnNew, ConnKept, ConnMapped, ConnOpened
<1>3. \A f \in Live : f \in Live' /\ file'[f].access = file[f].access
  BY FileSteps DEF TreeKept, FileMoved, FileMade, FilesKept
<1>4. AccessGranted'
  <2> SUFFICES ASSUME NEW d \in Scoid, con'[d] # Null, con'[d].access # O_RDONLY
               PROVE  /\ con'[d].handler # Null
                      /\ file'[con'[d].handler].access \cap con'[d].access # {}
    BY DEF AccessGranted, Attached
  <2>1. CASE ConnKept(d) \/ ConnMapped(d)
    <3>1. /\ con[d] # Null /\ con'[d].access = con[d].access
          /\ con'[d].handler = con[d].handler
      BY <2>1 DEF ConnKept, ConnMapped
    <3>2. con[d].handler # Null /\ file[con[d].handler].access \cap con[d].access # {}
      BY <3>1 DEF ShareInv, AccessGranted, Attached
    <3>3. con[d].handler \in Live
      BY <3>1, <3>2 DEF IInv, NoDanglingHandle, Attached
    <3> QED BY <1>3, <3>1, <3>2, <3>3
  <2>2. CASE ConnOpened(d)
    BY <2>2, NullAssumption DEF ConnOpened, Live
  <2>3. CASE ConnGone(d) \/ ConnNew(d)
    BY <2>3 DEF ConnGone, ConnNew
  <2> QED BY <1>1, <2>1, <2>2, <2>3 DEF ConnStep
<1> QED BY <1>2, <1>4 DEF ShareInv

\* Shares and modes are right from the start, and stay so.
THEOREM SharesInductive == Spec => [](IInv /\ ShareInv)
<1>1. Init => IInv /\ ShareInv
  BY InitStep DEF Init, ShareInv, SharesOnlyMapped, AccessGranted, Attached
<1>2. IInv /\ ShareInv /\ [Next]_vars => (IInv /\ ShareInv)'
  BY NextStep, ShareInvStep
<1> QED BY <1>1, <1>2, PTL DEF Spec

\* proc_io.c:310-363, connection.c:159-183: no share outlives its connection or is
\* found by the next one with its id.
THEOREM SharesEnd == Spec => []SharesOnlyMapped
<1>1. IInv /\ ShareInv => SharesOnlyMapped
  BY DEF ShareInv
<1> QED BY <1>1, SharesInductive, PTL

\* proc_io.c:130-136: who may write was let to by the file.
THEOREM WritersAdmitted == Spec => []AccessGranted
<1>1. IInv /\ ShareInv => AccessGranted
  BY DEF ShareInv
<1> QED BY <1>1, SharesInductive, PTL

(***************************************************************************)
(* The memory of the files.                                                *)
(***************************************************************************)
Mappable == {f \in Live : FILE_MAP_PERMISSION \in file[f].permission}

\* A file that may be neither mapped nor run is a text: read only, on the heap.
TextInv == \A f \in Live : file[f].permission = {} => file[f].access = O_RDONLY /\ file[f].data # Null

MemoryInv == NoMappingLeak /\ TextInv

\* What the memory of a file is.
LEMMA LiveData ==
  ASSUME IInv, NEW f \in Live
  PROVE  /\ file[f].data \in Obj \cup {Null}
         /\ file[f].data # Null => file[f].data \in Obj /\ file[f].data \in DataOf(file)
BY DEF IInv, TypeOK, Live, File, DataOf

\* Every step keeps the regions those of the mappable files, each its own.
LEMMA MemoryInvStep ==
  ASSUME IInv, MemoryInv, [Next]_vars
  PROVE  MemoryInv'
<1>0. /\ mapped = {file[f].data : f \in Mappable} \ {Null}
      /\ \A f, g \in Live : f # g /\ file[f].data # Null => file[f].data # file[g].data
  BY DEF MemoryInv, NoMappingLeak, Mappable
<1> SUFFICES /\ mapped' = {file'[f].data : f \in Mappable'} \ {Null}
             /\ \A f, g \in Live' : f # g /\ file'[f].data # Null => file'[f].data # file'[g].data
             /\ TextInv'
  BY DEF MemoryInv, NoMappingLeak, Mappable
<1>1. CASE TreeKept
  <2>1. Live' = Live /\ mapped' = mapped /\ Mappable' = Mappable
    BY <1>1 DEF TreeKept, FilesKept, Mappable
  <2>2. \A f \in Live : file'[f].data = file[f].data
    BY <1>1 DEF TreeKept
  <2>3. {file'[f].data : f \in Mappable'} = {file[f].data : f \in Mappable}
    BY <2>1, <2>2 DEF Mappable
  <2>4. TextInv'
    BY <1>1 DEF TreeKept, FilesKept, MemoryInv, TextInv
  <2>5. mapped' = {file'[f].data : f \in Mappable'} \ {Null}
    BY <1>0, <2>1, <2>3, Zenon
  <2>6. \A f, g \in Live' : f # g /\ file'[f].data # Null => file'[f].data # file'[g].data
    BY <1>0, <2>1, <2>2
  <2> QED BY <2>4, <2>5, <2>6
<1>2. CASE FileMoved
  <2>1. PICK f \in Live, obj \in FreeObj \cup {Null} :
          /\ FILE_MAP_PERMISSION \in file[f].permission
          /\ mapped' = (mapped \ {file[f].data}) \cup ({obj} \ {Null})
          /\ file'[f].data = obj /\ \A g \in Live \ {f} : file'[g] = file[g]
    BY <1>2 DEF FileMoved
  <2>2. Live' = Live /\ Mappable' = Mappable /\ f \in Mappable
    BY <1>2, <2>1 DEF FileMoved, FilesKept, Mappable
  <2>3. \A g \in Live : obj # Null => file[g].data # obj
    BY <2>1, LiveData DEF FreeObj
  <2>4. \A g \in Mappable \ {f} : file'[g].data = file[g].data
    BY <2>1 DEF Mappable
  <2>5. \A g \in Mappable \ {f} : file[f].data # Null => file[g].data # file[f].data
    BY <1>0 DEF Mappable
  <2>6. mapped' = {file'[g].data : g \in Mappable'} \ {Null}
    <3>1. ASSUME NEW o \in mapped' PROVE o \in {file'[g].data : g \in Mappable'} \ {Null}
      <4>1. CASE o = obj /\ obj # Null
        BY <2>1, <2>2, <4>1
      <4>2. CASE o \in mapped /\ o # file[f].data
        <5>1. PICK g \in Mappable : o = file[g].data /\ o # Null
          BY <1>0, <4>2
        <5> QED BY <2>2, <2>4, <4>2, <5>1
      <4> QED BY <2>1, <3>1, <4>1, <4>2
    <3>2. ASSUME NEW g \in Mappable, file'[g].data # Null PROVE file'[g].data \in mapped'
      <4>1. CASE g = f
        BY <2>1, <3>2, <4>1
      <4>2. CASE g # f
        <5>1. file'[g].data = file[g].data /\ file[g].data \in mapped
          BY <1>0, <2>4, <3>2, <4>2
        <5>2. file[g].data # file[f].data
          BY <2>5, <3>2, <4>2, <5>1
        <5> QED BY <2>1, <5>1, <5>2
      <4> QED BY <4>1, <4>2
    <3> QED BY <2>2, <3>1, <3>2
  <2>7. \A g, h \in Live : g # h /\ file'[g].data # Null => file'[g].data # file'[h].data
    BY <1>0, <2>1, <2>3
  <2>8. TextInv'
    <3>1. \A g \in Live : file'[g].permission = {} => g # f /\ file[g].permission = {}
      BY <1>2, <2>1 DEF FileMoved, FilesKept
    <3> QED BY <2>1, <2>2, <3>1 DEF MemoryInv, TextInv
  <2> QED BY <2>2, <2>6, <2>7, <2>8
<1>3. CASE FileMade
  <2>1. PICK f \in FileId \ Live :
          /\ Live' = Live \cup {f} /\ file'[f].data = Null
          /\ file'[f].permission = {FILE_MAP_PERMISSION}
          /\ \A g \in Live : file'[g] = file[g]
    BY <1>3 DEF FileMade
  <2>2. mapped' = mapped
    BY <1>3 DEF FileMade
  <2>3. Mappable' = Mappable \cup {f}
    BY <2>1 DEF Mappable
  <2>4. {file'[g].data : g \in Mappable'} \ {Null} = {file[g].data : g \in Mappable} \ {Null}
    <3>1. \A g \in Mappable : file'[g] = file[g]
      BY <2>1 DEF Mappable
    <3> QED BY <2>1, <2>3, <3>1
  <2>5. \A g, h \in Live' : g # h /\ file'[g].data # Null => file'[g].data # file'[h].data
    BY <1>0, <2>1
  <2>6. TextInv'
    BY <2>1 DEF MemoryInv, TextInv
  <2> QED BY <1>0, <2>2, <2>4, <2>5, <2>6
<1> QED BY <1>1, <1>2, <1>3, FileSteps

\* ProcFileSystemBuild maps a region per file of the image.
LEMMA MemoryInit == Init => MemoryInv
<1> SUFFICES ASSUME Init PROVE MemoryInv
  OBVIOUS
<1>1. PICK paths \in Boots : Built(paths)
  BY DEF Init
<1>2. paths \subseteq BootPaths \cup SysPaths
  BY BootAssumption
<1>3. \A f \in Live : \E p \in paths : BootBlock[p] = f /\ file[f] = BootFile(p, BootObj[p])
  BY <1>1 DEF Built, Live
<1>4. \A p \in paths : BootBlock[p] \in Live /\ file[BootBlock[p]] = BootFile(p, BootObj[p])
  <2> TAKE p \in paths
  <2> DEFINE f == BootBlock[p]
  <2>1. f \in FileId
    BY <1>2, BootAssumption DEF Injection
  <2>2. \A q \in paths : BootBlock[q] = f => q = p
    BY <1>2, BootAssumption DEF Injection, IsInjective
  <2>3. (CHOOSE q \in paths : BootBlock[q] = f) = p
    BY <2>2
  <2>4. file[f] = BootFile(p, BootObj[p])
    BY <1>1, <2>1, <2>3 DEF Built
  <2>5. file[f] # Null
    BY <1>2, <2>4, BootFileType, NullAssumption
  <2> QED BY <2>1, <2>4, <2>5 DEF Live
<1>5. \A p \in paths : BootFile(p, BootObj[p]).data = BootObj[p] /\ BootObj[p] \in Obj
  BY <1>2, BootFileType
<1>6. \A p \in paths : /\ FILE_MAP_PERMISSION \in BootFile(p, BootObj[p]).permission <=> p \notin SysPaths
                       /\ BootFile(p, BootObj[p]).permission = {} => BootFile(p, BootObj[p]).access = O_RDONLY
  BY DEF BootFile, FILE_MAP_PERMISSION
<1>7. mapped = {BootObj[p] : p \in paths \ SysPaths}
  BY <1>1 DEF Built
<1>8. \A p, q \in paths : BootObj[p] = BootObj[q] => p = q
  BY <1>2, BootAssumption DEF Injection, IsInjective
<1>9. Null \notin Obj
  BY NullAssumption
<1> HIDE DEF BootFile
<1>10. mapped = {file[f].data : f \in Mappable} \ {Null}
  <2>1. ASSUME NEW o \in mapped PROVE o \in {file[f].data : f \in Mappable} \ {Null}
    <3>1. PICK p \in paths \ SysPaths : o = BootObj[p]
      BY <1>7, <2>1
    <3>2. BootBlock[p] \in Mappable /\ file[BootBlock[p]].data = o /\ o # Null
      BY <1>4, <1>5, <1>6, <1>9, <3>1 DEF Mappable
    <3> QED BY <3>2
  <2>2. ASSUME NEW f \in Mappable PROVE file[f].data \in mapped
    <3>1. PICK p \in paths : file[f] = BootFile(p, BootObj[p])
      BY <1>3 DEF Mappable
    <3>2. p \notin SysPaths
      BY <1>6, <3>1 DEF Mappable
    <3> QED BY <1>5, <1>7, <3>1, <3>2
  <2> QED BY <2>1, <2>2
<1>11. \A f, g \in Live : f # g /\ file[f].data # Null => file[f].data # file[g].data
  BY <1>3, <1>5, <1>8
<1>12. TextInv
  BY <1>3, <1>5, <1>6, <1>9 DEF TextInv
<1> QED BY <1>10, <1>11, <1>12 DEF MemoryInv, NoMappingLeak, Mappable

\* proc_io.c:289-305: no region is lost and no file is left on one given back.
THEOREM MappingsKept == Spec => []NoMappingLeak
<1>1. Init => IInv /\ MemoryInv
  BY InitStep, MemoryInit
<1>2. IInv /\ MemoryInv /\ [Next]_vars => (IInv /\ MemoryInv)'
  BY NextStep, MemoryInvStep
<1>3. IInv /\ MemoryInv => NoMappingLeak
  BY DEF MemoryInv
<1> QED BY <1>1, <1>2, <1>3, PTL DEF Spec

(***************************************************************************)
(* The texts of /sys and /devices.                                         *)
(***************************************************************************)
\* The file_t of a text changes in its count at most.
LEMMA TextKept ==
  ASSUME IInv, [Next]_vars, NEW f \in Live, file[f].permission = {}
  PROVE  file'[f] # Null /\ file'[f] = [file[f] EXCEPT !.refs = file'[f].refs]
<1>1. IInv'
  BY NextStep
<1>2. f \in Live' /\ \/ file'[f] = file[f]
                     \/ /\ file'[f].path = file[f].path /\ file'[f].data = file[f].data
                        /\ file'[f].size = file[f].size /\ file'[f].access = file[f].access
                        /\ file'[f].permission = file[f].permission
  <2>1. CASE TreeKept
    BY <2>1 DEF TreeKept, FilesKept
  <2>2. CASE FileMoved
    BY <2>2 DEF FileMoved, FilesKept
  <2>3. CASE FileMade
    BY <2>3 DEF FileMade
  <2> QED BY <2>1, <2>2, <2>3, FileSteps
<1>3. file[f] \in File /\ file'[f] \in File /\ file'[f] # Null
  BY <1>1, <1>2 DEF IInv, TypeOK, Live
<1> QED BY <1>2, <1>3 DEF File

\* Bytes are changed by a write, a truncation, a client's store, or forgotten when
\* a connection ends.
LEMMA MemorySteps ==
  ASSUME [Next]_vars
  PROVE  UNCHANGED mem \/ \E c \in Scoid :
           \/ Detach(c) \/ ClientStore(c)
           \/ \E bytes \in Payloads : FileWrite(c, bytes)
           \/ \E request \in TruncateSizes : FileTruncate(c, request)
<1>1. CASE UNCHANGED vars
  BY <1>1 DEF vars
<1>2. CASE Next
  <2> SUFFICES ASSUME NEW c \in Scoid, Attach(c) \/ Handler(c), mem' # mem
               PROVE  \/ \E bytes \in Payloads : FileWrite(c, bytes)
                      \/ \E request \in TruncateSizes : FileTruncate(c, request)
    BY <1>2 DEF Next
  <2>1. ~Attach(c)
    BY DEF Attach, store, vars
  <2>2. ~\E path \in Paths, mode \in Modes, creat \in BOOLEAN : FileOpen(c, path, mode, creat)
    BY DEF FileOpen, OpenBusy, OpenExisting, OpenMissing, OpenCreateOnDirectory, OpenCreated,
           Die, store
  <2>3. ~\E n \in ReadSizes : FileRead(c, n)
    BY DEF FileRead, Die, store
  <2>4. ~\E whence \in {"SEEK_SET", "SEEK_CUR", "SEEK_END", "other"}, offset \in Offsets :
           FileSeek(c, whence, offset)
    BY DEF FileSeek, store
  <2>5. ~FileClose(c) /\ ~FileShare(c)
    BY DEF FileClose, FileShare, store
  <2>6. ~\E path \in Paths, listAll \in BOOLEAN : ProcInfo(c, path, listAll)
    BY DEF ProcInfo, store
  <2> QED BY <2>1, <2>2, <2>3, <2>4, <2>5, <2>6 DEF Handler
<1> QED BY <1>1, <1>2

\* A store through a handler, a mapping or a truncation misses the text.
LEMMA TextMemory ==
  ASSUME IInv, MemoryInv, ShareInv, [Next]_vars, NEW f \in Live, file[f].permission = {},
         \A c \in Scoid : share[c] # file[f].data
  PROVE  mem'[file[f].data] = mem[file[f].data]
<1> DEFINE o == file[f].data
<1>1. o \in Obj /\ o \in DataOf(file) /\ file[f].access = {}
  BY LiveData DEF MemoryInv, TextInv, O_RDONLY
<1>2. mem \in [Obj -> Seq(Byte)]
  BY DEF IInv, TypeOK
<1>3. CASE UNCHANGED mem
  BY <1>3
<1>4. CASE \E c \in Scoid : Detach(c)
  <2>1. \/ UNCHANGED mem
        \/ \E held : mem' = Keep(mem, mapped \cup DataOf(file) \cup held)
    BY <1>4 DEF Detach, vars
  <2> QED BY <1>1, <1>2, <2>1 DEF Keep
<1>5. CASE \E c \in Scoid, bytes \in Payloads : FileWrite(c, bytes)
  <2>1. PICK c \in Scoid, bytes \in Payloads : FileWrite(c, bytes)
    BY <1>5
  <2> DEFINE h == con[c].handler
  <2>2. CASE /\ ~Closed(c) /\ con[c].access # O_RDONLY
             /\ mem' = [mem EXCEPT ![file[h].data] = Overwrite(@, con[c].seek, bytes)]
    <3>1. c \in Attached /\ h \in Live
      BY <2>1, <2>2, OpenHandle DEF FileWrite, Request
    <3>2. file[h].access # {}
      BY <2>2, <3>1 DEF ShareInv, AccessGranted
    <3>3. file[h].data # o
      BY <1>1, <3>1, <3>2, NullAssumption DEF MemoryInv, NoMappingLeak
    <3> QED BY <1>1, <1>2, <2>2, <3>3
  <2>3. \/ UNCHANGED mem
        \/ /\ ~Closed(c) /\ con[c].access # O_RDONLY
           /\ mem' = [mem EXCEPT ![file[h].data] = Overwrite(@, con[c].seek, bytes)]
    BY <2>1 DEF FileWrite, Die, store
  <2> QED BY <1>3, <2>2, <2>3
<1>6. CASE \E c \in Scoid, request \in TruncateSizes : FileTruncate(c, request)
  <2>1. PICK c \in Scoid, request \in TruncateSizes : FileTruncate(c, request)
    BY <1>6
  <2> DEFINE Text(obj) == [p \in Obj |->
                             IF p = obj
                             THEN Resized(SubSeq(Contents(con[c].handler), 1,
                                                 file[con[c].handler].size), AlignUp(request))
                             ELSE mem[p]]
             Held == mapped' \cup DataOf(file') \cup {share[d] : d \in Scoid}
  <2>2. UNCHANGED mem \/ (Truncate(c, request) /\ ~Die("out of memory"))
    BY <2>1 DEF FileTruncate, Die, store
  <2>3. CASE UNCHANGED mem
    BY <2>3
  <2>4. CASE Truncate(c, request) /\ ~Die("out of memory")
    <3>1. (\E obj \in FreeObj : mem' = Keep(Text(obj), Held)) \/ mem' = Keep(Text(Null), Held)
      BY <2>4 DEF Truncate
    <3>2. PICK obj \in FreeObj \cup {Null} : mem' = Keep(Text(obj), Held)
      <4> HIDE DEF Text, Held
      <4> QED BY <3>1
    <3>3. o # obj
      BY <1>1, NullAssumption DEF FreeObj
    <3>4. o \in DataOf(file')
      <4>1. file'[f] # Null /\ file'[f] = [file[f] EXCEPT !.refs = file'[f].refs]
        BY TextKept
      <4>2. file[f] \in File /\ f \in FileId
        BY DEF IInv, TypeOK, Live
      <4>3. file'[f].data = o
        BY <4>1, <4>2 DEF File
      <4> QED BY <1>1, <4>1, <4>2, <4>3, NullAssumption DEF DataOf
    <3>5. Text(obj)[o] = mem[o] /\ o \in Held
      BY <1>1, <3>3, <3>4
    <3>6. mem'[o] = Text(obj)[o]
      <4> HIDE DEF Text, Held
      <4> QED BY <1>1, <3>2, <3>5 DEF Keep
    <3> QED BY <3>5, <3>6
  <2> QED BY <2>2, <2>3, <2>4
<1>7. CASE \E c \in Scoid : ClientStore(c)
  <2>1. PICK c \in Scoid, p \in Obj : p = share[c] /\ \E i, b : mem' = [mem EXCEPT ![p][i] = b]
    BY <1>7 DEF ClientStore, IInv, TypeOK
  <2>2. p # o
    BY <2>1
  <2> QED BY <1>1, <1>2, <2>1, <2>2
<1> QED BY <1>3, <1>4, <1>5, <1>6, <1>7, MemorySteps

\* proc_io.c:190-308 and proc.c:39-84: no step changes the texts in the server's
\* heap, while no client has one of them mapped.
THEOREM TextsConstant == Spec => SysTextsConstant
<1>1. Init => IInv /\ ShareInv /\ MemoryInv
  BY InitStep, MemoryInit
     DEF Init, ShareInv, SharesOnlyMapped, AccessGranted, Attached
<1>2. IInv /\ ShareInv /\ MemoryInv /\ [Next]_vars => (IInv /\ ShareInv /\ MemoryInv)'
  BY NextStep, ShareInvStep, MemoryInvStep
<1>3. IInv /\ ShareInv /\ MemoryInv /\ [Next]_vars =>
        [\A f \in Live :
           file[f].permission = {} /\ (\A c \in Scoid : share[c] # file[f].data) =>
             /\ file'[f] # Null /\ file'[f] = [file[f] EXCEPT !.refs = file'[f].refs]
             /\ mem'[file[f].data] = mem[file[f].data]]_vars
  BY TextKept, TextMemory
<1> QED BY <1>1, <1>2, <1>3, PTL DEF Spec, SysTextsConstant

(***************************************************************************)
(* Who can reach the memory of a file, and what its words can say.         *)
(***************************************************************************)
\* Every object is shorter than the words can count, so no position inside a
\* file wraps.
ObjectsFit == \A o \in Obj : Len(mem[o]) < WordSize

\* A connection without a file is at its beginning: an open starts at 0.
ClosedAtStart == \A c \in Attached : con[c].handler = Null => con[c].seek = 0

\* The memory a file has now is shared with clients that hold the file.
SharedByHolder ==
  \A c \in Scoid, f \in Live :
    share[c] # Null /\ share[c] = file[f].data => c \in Attached /\ con[c].handler = f

StoreInv == ObjectsFit /\ ClosedAtStart /\ SharedByHolder

LEMMA ClosedAtStartStep ==
  ASSUME IInv, ShareInv, StoreInv, [Next]_vars
  PROVE  ClosedAtStart'
<1> SUFFICES ASSUME NEW d \in Scoid, con'[d] # Null, con'[d].handler = Null
             PROVE  con'[d].seek = 0
  BY DEF ClosedAtStart, Attached
<1>1. ConnStep(d)
  BY ConnSteps DEF ShareInv
<1>2. con[d] # Null => /\ con[d].state = "CLOSE" <=> con[d].handler = Null
                       /\ con[d].handler = Null => con[d].seek = 0
  BY DEF StoreInv, ClosedAtStart, IInv, OpenIffHandler, Attached
<1>3. CASE ConnKept(d)
  BY <1>2, <1>3 DEF ConnKept
<1>4. CASE ConnMapped(d)
  BY <1>2, <1>4 DEF ConnMapped
<1>5. CASE ConnOpened(d)
  BY <1>5, NullAssumption DEF ConnOpened, Live
<1>6. CASE ConnGone(d) \/ ConnNew(d)
  BY <1>6 DEF ConnGone, ConnNew
<1> QED BY <1>1, <1>3, <1>4, <1>5, <1>6 DEF ConnStep

\* Memory that is shared is not given to another file, and a share is of the
\* memory of the file its connection has.
LEMMA SharedByHolderStep ==
  ASSUME IInv, ShareInv, MemoryInv, StoreInv, [Next]_vars
  PROVE  SharedByHolder'
<1> SUFFICES ASSUME NEW d \in Scoid, NEW f \in Live', share'[d] # Null, share'[d] = file'[f].data
             PROVE  con'[d] # Null /\ con'[d].handler = f
  BY DEF SharedByHolder, Attached
<1>1. ConnStep(d)
  BY ConnSteps DEF ShareInv
<1>2. /\ share[d] # Null => con[d] # Null /\ con[d].state = "MAP"
      /\ \A g \in Live : share[d] # Null /\ share[d] = file[g].data => con[d].handler = g
  BY DEF ShareInv, SharesOnlyMapped, StoreInv, SharedByHolder, Attached
<1>3. ASSUME con[d] # Null, share[d] = share'[d] \/ file[con[d].handler].data = share'[d],
             con[d].handler \in Live
      PROVE  f \in Live /\ file[f].data = file'[f].data
  <2>1. CASE TreeKept
    BY <2>1 DEF TreeKept, FilesKept
  <2>2. CASE FileMoved
    <3>1. PICK m \in Live, obj \in FreeObj \cup {Null} :
            file'[m].data = obj /\ \A g \in Live \ {m} : file'[g] = file[g]
      BY <2>2 DEF FileMoved
    <3>2. share'[d] # obj
      BY <1>3, <3>1, LiveData DEF FreeObj
    <3>3. Live' = Live /\ f # m
      BY <2>2, <3>1, <3>2 DEF FileMoved, FilesKept
    <3> QED BY <3>1, <3>3
  <2>3. CASE FileMade
    BY <2>3 DEF FileMade
  <2> QED BY <2>1, <2>2, <2>3, FileSteps
<1>4. CASE ConnKept(d)
  <2>1. share[d] = share'[d] /\ con[d] # Null /\ con[d].state = "MAP"
    BY <1>2, <1>4 DEF ConnKept
  <2>2. con[d].handler \in Live
    BY <2>1 DEF IInv, OpenIffHandler, NoDanglingHandle, Attached
  <2>3. f \in Live /\ file[f].data = share[d]
    BY <1>3, <2>1, <2>2
  <2> QED BY <1>2, <1>4, <2>1, <2>3 DEF ConnKept
<1>5. CASE ConnMapped(d)
  <2>1. con[d] # Null /\ con[d].state = "OPEN" /\ share[d] = Null
    BY <1>2, <1>5 DEF ConnMapped
  <2>2. con[d].handler \in Live
    BY <2>1 DEF IInv, OpenIffHandler, NoDanglingHandle, Attached
  <2>3. share'[d] = file[con[d].handler].data
    BY <1>5, <2>1 DEF ConnMapped
  <2>4. f \in Live /\ file[f].data = file[con[d].handler].data
    BY <1>3, <2>1, <2>2, <2>3
  <2>5. f = con[d].handler
    BY <2>2, <2>3, <2>4 DEF MemoryInv, NoMappingLeak
  <2> QED BY <1>5, <2>5 DEF ConnMapped
<1>6. CASE ConnOpened(d)
  BY <1>2, <1>6 DEF ConnOpened
<1>7. CASE ConnGone(d) \/ ConnNew(d)
  BY <1>2, <1>7 DEF ConnGone, ConnNew
<1> QED BY <1>1, <1>4, <1>5, <1>6, <1>7 DEF ConnStep

\* A write leaves the length of the memory, a truncation makes memory of a word.
LEMMA ObjectsFitStep ==
  ASSUME IInv, StoreInv, [Next]_vars
  PROVE  ObjectsFit'
<1>1. mem \in [Obj -> Seq(Byte)] /\ mem' \in [Obj -> Seq(Byte)] /\ \A o \in Obj : Len(mem[o]) < WordSize
  BY NextStep DEF IInv, TypeOK, StoreInv, ObjectsFit
<1>2. Len(<<>>) < WordSize
  BY WidthAssumption
<1> SUFFICES ASSUME NEW o \in Obj PROVE Len(mem'[o]) < WordSize
  BY DEF ObjectsFit
<1>3. CASE UNCHANGED mem
  BY <1>1, <1>3
<1>4. CASE \E c \in Scoid : Detach(c)
  <2>1. UNCHANGED mem \/ \E held : mem' = Keep(mem, held)
    BY <1>4 DEF Detach, vars
  <2> QED BY <1>1, <1>2, <2>1 DEF Keep
<1>5. CASE \E c \in Scoid : ClientStore(c)
  <2>1. PICK p \in Obj : \E i \in 1..Len(mem[p]), b \in Byte : mem' = [mem EXCEPT ![p][i] = b]
    BY <1>5 DEF ClientStore, IInv, TypeOK
  <2>2. PICK i \in 1..Len(mem[p]), b \in Byte : mem' = [mem EXCEPT ![p] = [mem[p] EXCEPT ![i] = b]]
    BY <2>1
  <2>3. Len([mem[p] EXCEPT ![i] = b]) = Len(mem[p])
    BY <1>1
  <2> QED BY <1>1, <2>2, <2>3
<1>6. CASE \E c \in Scoid, bytes \in Payloads : FileWrite(c, bytes)
  <2>1. PICK c \in Scoid, bytes \in Payloads : FileWrite(c, bytes)
    BY <1>6
  <2> DEFINE p == file[con[c].handler].data
             new == Overwrite(mem[p], con[c].seek, bytes)
  <2>2. \/ UNCHANGED mem
        \/ ~Closed(c) /\ con[c].seek < file[con[c].handler].size /\ mem' = [mem EXCEPT ![p] = new]
    BY <2>1 DEF FileWrite, Die, store
  <2>3. CASE ~Closed(c) /\ con[c].seek < file[con[c].handler].size /\ mem' = [mem EXCEPT ![p] = new]
    <3>1. CASE p = o
      <4>1. Len(Overwrite(mem[o], con[c].seek, bytes)) = Len(mem[o])
        BY <1>1 DEF Overwrite
      <4> QED BY <1>1, <2>3, <3>1, <4>1
    <3>2. CASE p # o
      <4> HIDE DEF new, p
      <4> QED BY <1>1, <2>3, <3>2
    <3> QED BY <3>1, <3>2
  <2> QED BY <1>3, <2>2, <2>3
<1>7. CASE \E c \in Scoid, request \in TruncateSizes : FileTruncate(c, request)
  <2>1. PICK c \in Scoid, request \in TruncateSizes : FileTruncate(c, request)
    BY <1>7
  <2> DEFINE size == AlignUp(request)
             new == Resized(SubSeq(Contents(con[c].handler), 1, file[con[c].handler].size), size)
             kept == mapped' \cup DataOf(file') \cup {share[d] : d \in Scoid}
             Made(obj) == [q \in Obj |-> IF q = obj THEN new ELSE mem[q]]
  <2>2. UNCHANGED mem \/ \E obj \in FreeObj \cup {Null} : mem' = Keep(Made(obj), kept)
    <3>1. UNCHANGED mem \/ (Truncate(c, request) /\ ~Die("out of memory"))
      BY <2>1 DEF FileTruncate, Die, store
    <3>2. ASSUME Truncate(c, request), ~Die("out of memory")
          PROVE  (\E obj \in FreeObj : mem' = Keep(Made(obj), kept)) \/ mem' = Keep(Made(Null), kept)
      BY <3>2 DEF Truncate
    <3> HIDE DEF Made, kept
    <3> QED BY <3>1, <3>2
  <2>3. size \in Nat /\ size < WordSize
    BY AlignUpWord, InputAssumption, WidthAssumption DEF Word
  <2>4. Len(new) = size
    BY <2>3 DEF Resized
  <2> HIDE DEF new, size, kept
  <2>5. ASSUME NEW obj \in FreeObj \cup {Null}, mem' = Keep(Made(obj), kept)
        PROVE  Len(mem'[o]) < WordSize
    BY <1>1, <1>2, <2>3, <2>4, <2>5 DEF Keep
  <2> QED BY <1>3, <2>2, <2>5
<1> QED BY <1>3, <1>4, <1>5, <1>6, <1>7, MemorySteps

\* At boot the memory is that of texts, whole pages of it or not.
LEMMA StoreInit == Init => StoreInv
<1> SUFFICES ASSUME Init PROVE StoreInv
  OBVIOUS
<1>1. ClosedAtStart /\ SharedByHolder
  BY DEF Init, ClosedAtStart, SharedByHolder, Attached
<1>2. Len(SysText) < WordSize /\ Len(BootText) < WordSize /\ Len(<<>>) < WordSize
  BY InputAssumption, WidthAssumption DEF Word
<1>3. Len(Paged(BootText)) < WordSize
  <2> DEFINE n == AlignUp(Len(BootText)) - Len(BootText)
  <2>1. AlignUp(Len(BootText)) \in Nat /\ AlignUp(Len(BootText)) < WordSize /\ Len(BootText) \in Nat
    BY AlignUpWord, InputAssumption, WidthAssumption DEF Word
  <2>2. n \in Int
    BY <2>1
  <2>3. Len(Zeros(n)) = IF n >= 0 THEN n ELSE 0
    <3>1. CASE n >= 0
      BY <2>2, <3>1 DEF Zeros
    <3>2. CASE n < 0
      <4>1. Zeros(n) = [i \in 1..0 |-> 0]
        BY <2>2, <3>2 DEF Zeros
      <4>2. Len([i \in 1..0 |-> 0]) = 0
        OBVIOUS
      <4> QED BY <2>2, <3>2, <4>1, <4>2
    <3> QED BY <2>2, <3>1, <3>2
  <2>4. Zeros(n) \in Seq(Byte)
    BY <2>2, ZerosType
  <2>5. Len(BootText \o Zeros(n)) = Len(BootText) + Len(Zeros(n))
    <3> HIDE DEF n
    <3> QED BY <2>4, InputAssumption
  <2>6. Paged(BootText) = BootText \o Zeros(n)
    BY DEF Paged
  <2>7. Len(Paged(BootText)) = Len(BootText) + Len(Zeros(n))
    BY <2>5, <2>6
  <2>8. Len(BootText) + (IF n >= 0 THEN n ELSE 0) < WordSize
    BY <1>2, <2>1
  <2> HIDE DEF n
  <2> QED BY <2>3, <2>7, <2>8
<1>4. PICK paths \in Boots : Built(paths)
  BY DEF Init
<1>5. \A o \in Obj : mem[o] \in {Paged(BootText), SysText, <<>>}
  BY <1>4 DEF Built
<1>6. ObjectsFit
  <2> HIDE DEF Paged
  <2> QED BY <1>2, <1>3, <1>5 DEF ObjectsFit
<1> QED BY <1>1, <1>6 DEF StoreInv

\* What the refinement below needs of every state.
DataInv == IInv /\ ShareInv /\ MemoryInv /\ StoreInv

\* Together they are kept by every step.
THEOREM DataInductive == Spec => []DataInv
<1>1. Init => DataInv
  BY InitStep, MemoryInit, StoreInit
     DEF Init, DataInv, ShareInv, SharesOnlyMapped, AccessGranted, Attached
<1>2. DataInv /\ [Next]_vars => DataInv'
  BY NextStep, ShareInvStep, MemoryInvStep, ClosedAtStartStep, SharedByHolderStep, ObjectsFitStep
     DEF DataInv, StoreInv
<1> QED BY <1>1, <1>2, PTL DEF Spec

(***************************************************************************)
(* ProcServer implements FileStore.  First what FileStore sees of a state. *)
(***************************************************************************)
Texts == [f \in FileId |-> IF f \in Live THEN SubSeq(Contents(f), 1, file[f].size) ELSE <<>>]

Held == [c \in Scoid |-> Handle(c)]

Writing == {c \in Attached : con[c].access # O_RDONLY}

At == [c \in Scoid |-> IF con[c] = Null THEN 0 ELSE con[c].seek]

\* The steps of FileStore, said of what it sees.
LEMMA StoreIdle ==
  ASSUME UNCHANGED <<Texts, Held, Writing, At>>, reply'.data = reply.data
  PROVE  UNCHANGED Store!vars
BY DEF Store!vars, Texts, Held, Writing, At

LEMMA StoreOther ==
  ASSUME UNCHANGED <<Texts, Held, Writing, At>>, reply'.data = <<>>
  PROVE  Store!Other
BY DEF Store!Other, Texts, Held, Writing, At

LEMMA StoreOpen ==
  ASSUME NEW c \in Scoid, NEW f \in FileId, Held[c] = Null, Held' = [Held EXCEPT ![c] = f],
         Writing' \in {Writing, Writing \cup {c}}, UNCHANGED <<Texts, At>>, reply'.data = <<>>
  PROVE  Store!Open(c, f)
BY DEF Store!Open, Texts, Held, Writing, At

LEMMA StoreLeave ==
  ASSUME NEW c \in Scoid, Held' = [Held EXCEPT ![c] = Null], Writing' = Writing \ {c},
         At' = [At EXCEPT ![c] = 0], UNCHANGED Texts, reply'.data = reply.data
  PROVE  Store!Leave(c)
BY DEF Store!Leave, Texts, Held, Writing, At

LEMMA StoreSeek ==
  ASSUME NEW c \in Scoid, Held[c] # Null, NEW p \in Word, At' = [At EXCEPT ![c] = p],
         UNCHANGED <<Texts, Held, Writing>>, reply'.data = <<>>
  PROVE  Store!Seek(c)
BY DEF Store!Seek, Texts, Held, Writing, At

LEMMA StoreAhead ==
  ASSUME NEW c \in Scoid, At[c] < Len(Texts[Held[c]])
  PROVE  Store!Ahead(c) = Len(Texts[Held[c]]) - At[c]
BY DEF Store!Ahead, Texts, Held, At

LEMMA StoreRead ==
  ASSUME NEW c \in Scoid, Held[c] # Null, At[c] < Len(Texts[Held[c]]),
         NEW n \in 0..(Len(Texts[Held[c]]) - At[c]),
         reply'.data = SubSeq(Texts[Held[c]], At[c] + 1, At[c] + n),
         At' = [At EXCEPT ![c] = @ + n], UNCHANGED <<Texts, Held, Writing>>
  PROVE  Store!Read(c)
<1>1. n \in 0..Store!Ahead(c)
  BY StoreAhead
<1>2. reply'.data = SubSeq(Texts[Held[c]], At[c] + 1, At[c] + n) /\ Store!Move(c, n)
  BY DEF Store!Move, At
<1> QED BY <1>1, <1>2 DEF Store!Read, Texts, Held, Writing, At

LEMMA StoreWrite ==
  ASSUME NEW c \in Writing, c \in Scoid, Held[c] # Null, At[c] < Len(Texts[Held[c]]),
         NEW n \in 1..(Len(Texts[Held[c]]) - At[c]), NEW bytes \in [1..n -> Byte],
         Texts' = [Texts EXCEPT ![Held[c]] =
                     SubSeq(@, 1, At[c]) \o bytes \o SubSeq(@, At[c] + n + 1, Len(@))],
         At' = [At EXCEPT ![c] = @ + n], UNCHANGED <<Held, Writing>>, reply'.data = <<>>
  PROVE  Store!Write(c)
<1>1. n \in 1..Store!Ahead(c)
  BY StoreAhead
<1>2. Store!Move(c, n)
  BY DEF Store!Move, At
<1> QED BY <1>1, <1>2 DEF Store!Write, Texts, Held, Writing, At

LEMMA StoreResize ==
  ASSUME NEW c \in Scoid, Held[c] # Null, NEW n \in Word, n % PageSize = 0,
         Texts' = [Texts EXCEPT ![Held[c]] = [i \in 1..n |-> IF i <= Len(@) THEN @[i] ELSE 0]],
         UNCHANGED <<Held, Writing, At>>, reply'.data = <<>>
  PROVE  Store!Resize(c)
BY DEF Store!Resize, Texts, Held, Writing, At

LEMMA StoreStore ==
  ASSUME NEW c \in Scoid, Held[c] # Null, NEW i \in 1..Len(Texts[Held[c]]), NEW b \in Byte,
         Texts' = [Texts EXCEPT ![Held[c]] = [@ EXCEPT ![i] = b]],
         UNCHANGED <<Held, Writing, At>>, reply'.data = reply.data
  PROVE  Store!Store(c)
BY DEF Store!Store, Store!ReplaceAt, Texts, Held, Writing, At

\* What is seen of one file, and of one connection.
LEMMA TextIs ==
  ASSUME IInv, NEW f \in Live
  PROVE  /\ Texts[f] \in Seq(Byte) /\ Len(Texts[f]) = file[f].size
         /\ file[f].size \in Nat /\ file[f].size < WordSize
         /\ Texts[f] = SubSeq(Contents(f), 1, file[f].size)
         /\ \A i \in 1..file[f].size : Texts[f][i] = Contents(f)[i]
<1>1. f \in FileId /\ Contents(f) \in Seq(Byte) /\ file[f].size <= Len(Contents(f))
  BY ContentsType DEF Live
<1>2. file[f].size \in Nat /\ file[f].size < WordSize
  BY <1>1, WidthAssumption DEF IInv, TypeOK, Live, File, Word
<1>3. Texts[f] = SubSeq(Contents(f), 1, file[f].size)
  BY <1>1 DEF Texts
<1> QED BY <1>1, <1>2, <1>3, WidthAssumption

LEMMA HeldIs ==
  ASSUME IInv, NEW c \in Attached, ~Closed(c)
  PROVE  /\ Held[c] = con[c].handler /\ Held[c] # Null /\ Held[c] \in Live /\ c \in Scoid
         /\ At[c] = con[c].seek /\ At[c] \in Word
<1>1. con[c] \in Connection /\ con[c].handler \in Live /\ con[c] # Null /\ c \in Scoid
  BY OpenHandle DEF Attached
<1>2. con[c].handler # Null
  BY DEF Closed
<1> QED BY <1>1, <1>2 DEF Held, At, Handle, Connection

\* The connections unchanged, FileStore sees no client move.
LEMMA ClientsKept ==
  ASSUME UNCHANGED con
  PROVE  UNCHANGED <<Held, Writing, At>>
BY DEF Held, Writing, At, Handle, Attached

\* One connection changed, it sees one client move.
LEMMA ClientMoved ==
  ASSUME IInv, NEW c \in Scoid, NEW new \in Connection, con' = [con EXCEPT ![c] = new]
  PROVE  /\ Held' = [Held EXCEPT ![c] = new.handler]
         /\ At' = [At EXCEPT ![c] = new.seek]
         /\ Writing' = IF new.access # O_RDONLY THEN Writing \cup {c} ELSE Writing \ {c}
<1>1. con'[c] = new /\ new # Null /\ \A d \in Scoid \ {c} : con'[d] = con[d]
  BY OneConn, NullAssumption
<1>2. Held' = [Held EXCEPT ![c] = new.handler]
  <2>1. \A d \in Scoid : Handle(d)' = IF d = c THEN new.handler ELSE Handle(d)
    BY <1>1 DEF Handle
  <2>2. Held' = [d \in Scoid |-> Handle(d)']
    BY DEF Held
  <2> HIDE DEF Handle
  <2> QED BY <2>1, <2>2 DEF Held
<1>3. At' = [At EXCEPT ![c] = new.seek]
  <2> DEFINE Pos(d) == IF con[d] = Null THEN 0 ELSE con[d].seek
  <2>1. \A d \in Scoid : Pos(d)' = IF d = c THEN new.seek ELSE Pos(d)
    BY <1>1
  <2>2. At' = [d \in Scoid |-> Pos(d)'] /\ At = [d \in Scoid |-> Pos(d)]
    BY DEF At
  <2> HIDE DEF Pos
  <2> QED BY <2>1, <2>2
<1>4. Writing' = IF new.access # O_RDONLY THEN Writing \cup {c} ELSE Writing \ {c}
  BY <1>1 DEF Writing, Attached
<1> QED BY <1>2, <1>3, <1>4

\* A transfer or a seek moves the position.
LEMMA PositionMoved ==
  ASSUME IInv, NEW c \in Attached, NEW w \in Word, con' = [con EXCEPT ![c].seek = w]
  PROVE  /\ UNCHANGED <<Held, Writing>>
         /\ At' = [At EXCEPT ![c] = w]
<1> DEFINE new == [con[c] EXCEPT !.seek = w]
<1>1. c \in Scoid /\ con[c] \in Connection /\ con[c] # Null
  BY DEF IInv, TypeOK, Attached
<1>2. /\ new \in Connection /\ new.seek = w /\ new.access = con[c].access
      /\ new.handler = con[c].handler
  BY <1>1 DEF Connection
<1>3. con' = [con EXCEPT ![c] = new]
  OBVIOUS
<1> HIDE DEF new
<1>4. /\ Held' = [Held EXCEPT ![c] = new.handler]
      /\ At' = [At EXCEPT ![c] = new.seek]
      /\ Writing' = IF new.access # O_RDONLY THEN Writing \cup {c} ELSE Writing \ {c}
  BY <1>1, <1>2, <1>3, ClientMoved
<1>5. Held' = Held
  BY <1>1, <1>2, <1>4 DEF Held, Handle
<1>6. Writing' = Writing
  BY <1>1, <1>2, <1>4 DEF Writing, Attached
<1> QED BY <1>2, <1>4, <1>5, <1>6

\* The files keep their sizes and the bytes they have.
LEMMA TextsKept ==
  ASSUME IInv, Live' = Live,
         \A f \in Live : /\ file'[f].data = file[f].data /\ file'[f].size = file[f].size
                         /\ file[f].data # Null => mem'[file[f].data] = mem[file[f].data]
  PROVE  Texts' = Texts
<1>1. \A f \in Live : Contents(f)' = Contents(f)
  BY DEF Contents
<1> QED BY <1>1 DEF Texts

LEMMA TextsUntouched == ASSUME UNCHANGED <<file, mem>> PROVE Texts' = Texts
BY DEF Texts, Contents, Live

\* A handler that does no more than answer is a step of others.
LEMMA QuietStore ==
  ASSUME UNCHANGED <<con, file, mem>>, reply'.data = <<>>
  PROVE  Store!Other
BY TextsUntouched, ClientsKept, StoreOther

LEMMA RespondQuietly ==
  ASSUME NEW op, NEW c, NEW ret, Respond(op, c, ret)
  PROVE  reply'.data = <<>>
BY DEF Respond, RespondWith

\* FileStore does not see the server die.
LEMMA DeathStore == ASSUME NEW why, Die(why) PROVE UNCHANGED Store!vars
BY TextsUntouched, ClientsKept, StoreIdle DEF Die

LEMMA SmallWord == ASSUME NEW a \in Nat, a < WordSize PROVE a % WordSize = a
BY WidthAssumption

\* One file's bytes changed: it sees one text change.
LEMMA OneText ==
  ASSUME IInv, NEW f \in Live, Live' = Live,
         \A g \in Live \ {f} :
           /\ file'[g].data = file[g].data /\ file'[g].size = file[g].size
           /\ file[g].data # Null => mem'[file[g].data] = mem[file[g].data]
  PROVE  Texts' = [Texts EXCEPT ![f] = SubSeq(Contents(f)', 1, file'[f].size)]
<1>1. \A g \in Live \ {f} : Contents(g)' = Contents(g)
  BY DEF Contents
<1>2. \A g \in Live \ {f} : SubSeq(Contents(g)', 1, file'[g].size) = SubSeq(Contents(g), 1, file[g].size)
  BY <1>1
<1> HIDE DEF Contents
<1>3. Texts' = [g \in FileId |-> IF g \in Live THEN SubSeq(Contents(g)', 1, file'[g].size) ELSE <<>>]
  BY DEF Texts
<1> QED BY <1>2, <1>3 DEF Texts, Live

LEMMA ConcatIs ==
  ASSUME NEW s \in Seq(Byte), NEW t \in Seq(Byte)
  PROVE  /\ s \o t \in Seq(Byte) /\ Len(s \o t) = Len(s) + Len(t)
         /\ \A i \in 1..(Len(s) + Len(t)) :
              (s \o t)[i] = IF i <= Len(s) THEN s[i] ELSE t[i - Len(s)]
BY ConcatProperties

\* A text in which n of the bytes replace those at a position.
Spliced(text, pos, bytes, n) ==
  SubSeq(text, 1, pos) \o [i \in 1..n |-> bytes[i]] \o SubSeq(text, pos + n + 1, Len(text))

\* The part of a write that falls inside the text is what FileStore writes.
LEMMA OverwriteText ==
  ASSUME NEW old \in Seq(Byte), NEW size \in Nat, size <= Len(old), NEW pos \in Nat, pos < size,
         NEW bytes \in Seq(Byte), NEW n \in Nat, n <= Len(bytes), pos + n <= size,
         pos + n < size => n = Len(bytes)
  PROVE  SubSeq(Overwrite(old, pos, bytes), 1, size) = Spliced(SubSeq(old, 1, size), pos, bytes, n)
<1> DEFINE over == Overwrite(old, pos, bytes)
           text == SubSeq(old, 1, size)
           part == [i \in 1..n |-> bytes[i]]
           new == SubSeq(over, 1, size)
           first == SubSeq(text, 1, pos)
           last == SubSeq(text, pos + n + 1, Len(text))
<1>1. over \in Seq(Byte) /\ Len(over) = Len(old)
      /\ \A i \in 1..Len(old) : over[i] = IF i \in (pos + 1)..(pos + Len(bytes)) THEN bytes[i - pos] ELSE old[i]
  <2>1. \A i \in 1..Len(old) : (IF i \in (pos + 1)..(pos + Len(bytes)) THEN bytes[i - pos] ELSE old[i]) \in Byte
    OBVIOUS
  <2> QED BY <2>1 DEF Overwrite
<1>2. text \in Seq(Byte) /\ Len(text) = size /\ \A i \in 1..size : text[i] = old[i]
  OBVIOUS
<1>3. part \in Seq(Byte) /\ Len(part) = n /\ \A i \in 1..n : part[i] = bytes[i]
  OBVIOUS
<1> HIDE DEF over, text, part
<1>4. new \in Seq(Byte) /\ Len(new) = size /\ \A i \in 1..size : new[i] = over[i]
  BY <1>1
<1>5. first \in Seq(Byte) /\ Len(first) = pos /\ \A i \in 1..pos : first[i] = text[i]
  BY <1>2
<1>6. /\ last \in Seq(Byte) /\ Len(last) = size - pos - n
      /\ \A i \in 1..(size - pos - n) : last[i] = text[pos + n + i]
  BY <1>2
<1> HIDE DEF new, first, last
<1>7. /\ first \o part \in Seq(Byte) /\ Len(first \o part) = pos + n
      /\ \A i \in 1..pos : (first \o part)[i] = text[i]
      /\ \A i \in (pos + 1)..(pos + n) : (first \o part)[i] = bytes[i - pos]
  <2>1. /\ first \o part \in Seq(Byte) /\ Len(first \o part) = Len(first) + Len(part)
        /\ \A i \in 1..(Len(first) + Len(part)) :
             (first \o part)[i] = IF i <= Len(first) THEN first[i] ELSE part[i - Len(first)]
    BY <1>3, <1>5, ConcatIs
  <2>2. ASSUME NEW i \in 1..pos PROVE (first \o part)[i] = text[i]
    <3>1. i \in 1..(Len(first) + Len(part)) /\ i <= Len(first) /\ first[i] = text[i]
      BY <1>3, <1>5
    <3> QED BY <2>1, <3>1
  <2>3. ASSUME NEW i \in (pos + 1)..(pos + n) PROVE (first \o part)[i] = bytes[i - pos]
    <3>1. i \in 1..(Len(first) + Len(part)) /\ ~(i <= Len(first))
      BY <1>3, <1>5
    <3>2. (first \o part)[i] = part[i - Len(first)]
      BY <2>1, <3>1
    <3>3. i - Len(first) = i - pos /\ i - pos \in 1..n
      BY <1>5
    <3>4. part[i - pos] = bytes[i - pos]
      BY <1>3, <3>3
    <3> QED BY <3>2, <3>3, <3>4, Zenon
  <2>4. Len(first \o part) = pos + n
    BY <1>3, <1>5, <2>1
  <2> QED BY <2>1, <2>2, <2>3, <2>4, Zenon
<1> DEFINE head == first \o part
<1> HIDE DEF head
<1>8. /\ head \o last \in Seq(Byte) /\ Len(head \o last) = size
      /\ \A i \in 1..(pos + n) : (head \o last)[i] = head[i]
      /\ \A i \in (pos + n + 1)..size : (head \o last)[i] = text[i]
  <2>1. head \in Seq(Byte) /\ Len(head) = pos + n
    BY <1>7 DEF head
  <2>2. /\ head \o last \in Seq(Byte) /\ Len(head \o last) = Len(head) + Len(last)
        /\ \A i \in 1..(Len(head) + Len(last)) :
             (head \o last)[i] = IF i <= Len(head) THEN head[i] ELSE last[i - Len(head)]
    BY <1>6, <2>1, ConcatIs
  <2>3. ASSUME NEW i \in (pos + n + 1)..size PROVE (head \o last)[i] = text[i]
    <3>1. i - (pos + n) \in 1..(size - pos - n) /\ i \in 1..(Len(head) + Len(last)) /\ ~(i <= Len(head))
      BY <1>6, <2>1
    <3>2. (head \o last)[i] = last[i - (pos + n)]
      BY <2>1, <2>2, <3>1
    <3>3. last[i - (pos + n)] = text[pos + n + (i - (pos + n))] /\ pos + n + (i - (pos + n)) = i
      BY <1>6, <3>1
    <3> QED BY <3>2, <3>3
  <2> QED BY <1>6, <2>1, <2>2, <2>3
<1>9. \A i \in 1..size : new[i] = (head \o last)[i]
  <2> TAKE i \in 1..size
  <2>1. CASE i <= pos
    <3>1. i \in 1..pos /\ i \in 1..(pos + n) /\ i \in 1..Len(old) /\ i \notin (pos + 1)..(pos + Len(bytes))
      BY <2>1
    <3>2. (head \o last)[i] = text[i]
      BY <1>7, <1>8, <3>1 DEF head
    <3>3. new[i] = over[i]
      BY <1>4
    <3>4. over[i] = old[i]
      BY <1>1, <3>1
    <3>5. text[i] = old[i]
      BY <1>2
    <3> QED BY <3>2, <3>3, <3>4, <3>5, Zenon
  <2>2. CASE pos < i /\ i <= pos + n
    <3>1. i \in (pos + 1)..(pos + n) /\ i \in (pos + 1)..(pos + Len(bytes)) /\ i \in 1..(pos + n)
      BY <2>2
    <3>2. (head \o last)[i] = head[i] /\ head[i] = bytes[i - pos]
      BY <1>7, <1>8, <3>1 DEF head
    <3>3. new[i] = over[i]
      BY <1>4
    <3>4. i \in 1..Len(old)
      OBVIOUS
    <3>5. over[i] = bytes[i - pos]
      BY <1>1, <3>1, <3>4
    <3> QED BY <3>2, <3>3, <3>5, Zenon
  <2>3. CASE pos + n < i
    <3>1. pos + n < size /\ n = Len(bytes) /\ i \in (pos + n + 1)..size
      BY <2>3
    <3>2. over[i] = old[i]
      BY <1>1, <2>3, <3>1
    <3> QED BY <1>2, <1>4, <1>8, <3>1, <3>2
  <2>4. i <= pos \/ (pos < i /\ i <= pos + n) \/ pos + n < i
    OBVIOUS
  <2> QED BY <2>1, <2>2, <2>3, <2>4
<1>10. new = head \o last
  BY <1>4, <1>8, <1>9, SeqEqual
<1> QED BY <1>10 DEF head, new, first, last, part, text, over, Spliced

\* Reading a part of the text is reading that part of the memory.
LEMMA ReadText ==
  ASSUME NEW old \in Seq(Byte), NEW size \in Nat, size <= Len(old), NEW pos \in Nat, NEW n \in Nat,
         pos + n <= size
  PROVE  SubSeq(SubSeq(old, 1, size), pos + 1, pos + n) = SubSeq(old, pos + 1, pos + n)
<1> DEFINE text == SubSeq(old, 1, size)
<1>1. text \in Seq(Byte) /\ Len(text) = size /\ \A i \in 1..size : text[i] = old[i]
  OBVIOUS
<1> HIDE DEF text
<1>2. /\ SubSeq(text, pos + 1, pos + n) \in Seq(Byte) /\ Len(SubSeq(text, pos + 1, pos + n)) = n
      /\ \A i \in 1..n : SubSeq(text, pos + 1, pos + n)[i] = text[pos + i]
  BY <1>1
<1>3. /\ SubSeq(old, pos + 1, pos + n) \in Seq(Byte) /\ Len(SubSeq(old, pos + 1, pos + n)) = n
      /\ \A i \in 1..n : SubSeq(old, pos + 1, pos + n)[i] = old[pos + i]
  OBVIOUS
<1>4. \A i \in 1..n : text[pos + i] = old[pos + i]
  BY <1>1
<1>5. SubSeq(text, pos + 1, pos + n) = SubSeq(old, pos + 1, pos + n)
  BY <1>2, <1>3, <1>4, SeqEqual
<1> QED BY <1>5 DEF text

(***************************************************************************)
(* Then its steps.                                                         *)
(***************************************************************************)
\* The size both transfers compute is that of the bytes that are there.
LEMMA TransferFits ==
  ASSUME NEW n \in Nat, NEW pos \in Nat, NEW size \in Nat, NEW len \in Nat,
         pos < size, size <= len, len < WordSize,
         pos + n <= len \/ pos + TransferSize(n, pos, size) <= len
  PROVE  /\ TransferSize(n, pos, size) \in 0..(size - pos)
         /\ (pos + TransferSize(n, pos, size)) % WordSize = pos + TransferSize(n, pos, size)
         /\ pos + n <= len => TransferSize(n, pos, size) <= n
         /\ pos + TransferSize(n, pos, size) < size => TransferSize(n, pos, size) = n
         /\ n > 0 => TransferSize(n, pos, size) > 0
<1> DEFINE k == TransferSize(n, pos, size)
<1>1. /\ (n + pos) % WordSize < size => k = n
      /\ ~((n + pos) % WordSize < size) => k = size - pos
      /\ pos + n <= len \/ pos + k <= len
  BY DEF TransferSize
<1>2. pos + n <= len => (n + pos) % WordSize = n + pos
  <2>1. pos + n <= len => n + pos \in Nat /\ n + pos < WordSize
    BY WidthAssumption
  <2> QED BY <2>1, SmallWord
<1> HIDE DEF k
<1>3. /\ k \in 0..(size - pos)
      /\ pos + n <= len => k <= n
      /\ pos + k < size => k = n
      /\ n > 0 => k > 0
  <2>1. CASE (n + pos) % WordSize < size
    <3>1. k = n /\ pos + n <= len
      BY <1>1, <2>1
    <3>2. n + pos < size
      BY <1>2, <2>1, <3>1
    <3> QED BY <3>1, <3>2
  <2>2. CASE ~((n + pos) % WordSize < size)
    <3>1. k = size - pos
      BY <1>1, <2>2
    <3>2. pos + n <= len => ~(n + pos < size)
      BY <1>2, <2>2
    <3> QED BY <3>1, <3>2
  <2> QED BY <2>1, <2>2
<1>4. (pos + k) % WordSize = pos + k
  <2>1. pos + k \in Nat /\ pos + k < WordSize
    BY <1>3, WidthAssumption
  <2> QED BY <2>1, SmallWord
<1> QED BY <1>3, <1>4 DEF k

\* What an opened connection that is amid its file has before it.
LEMMA AmidFile ==
  ASSUME DataInv, NEW c \in Attached, ~Closed(c), con[c].seek < file[con[c].handler].size
  PROVE  /\ con[c].seek \in Nat /\ file[con[c].handler].size \in Nat
         /\ con[c].handler \in Live /\ file[con[c].handler].data \in Obj
         /\ Contents(con[c].handler) = mem[file[con[c].handler].data]
         /\ Contents(con[c].handler) \in Seq(Byte)
         /\ file[con[c].handler].size <= Len(Contents(con[c].handler))
         /\ Len(Contents(con[c].handler)) < WordSize
<1> DEFINE f == con[c].handler
<1>1. f \in Live /\ con[c].seek \in Nat /\ file[f].size \in Nat
  BY OpenHandle, WidthAssumption DEF DataInv, Connection, File, Word
<1>2. Contents(f) \in Seq(Byte) /\ file[f].size <= Len(Contents(f))
  BY <1>1, ContentsType DEF DataInv
<1>3. file[f].data # Null
  BY <1>1, <1>2 DEF Contents
<1>4. file[f].data \in Obj
  BY <1>1, <1>3, LiveData DEF DataInv
<1> QED BY <1>1, <1>2, <1>3, <1>4 DEF Contents, DataInv, StoreInv, ObjectsFit

\* _io_FileRead.
LEMMA ReadStore ==
  ASSUME DataInv, NEW c \in Scoid, NEW n \in ReadSizes, FileRead(c, n)
  PROVE  [Store!Next]_(Store!vars)
<1> DEFINE f == con[c].handler
           pos == con[c].seek
           k == TransferSize(n, pos, file[f].size)
<1>1. c \in Attached
  BY DEF FileRead, Request
<1>2. CASE (Respond("read", c, "FAIL") \/ Respond("read", c, "E_OK")) /\ UNCHANGED <<con, tree, store>>
  BY <1>2, RespondQuietly, QuietStore DEF tree, store, Store!Next
<1>3. CASE Die("read past the object")
  BY <1>3, DeathStore
<1>4. CASE /\ ~Closed(c) /\ pos < file[f].size
           /\ pos + k <= Len(Contents(f))
           /\ con' = [con EXCEPT ![c].seek = (@ + k) % WordSize]
           /\ RespondWith("read", c, "E_OK", k, SubSeq(Contents(f), pos + 1, pos + k))
           /\ UNCHANGED <<tree, store>>
  <2>1. /\ pos \in Nat /\ file[f].size \in Nat /\ f \in Live
        /\ Contents(f) \in Seq(Byte) /\ file[f].size <= Len(Contents(f)) /\ Len(Contents(f)) < WordSize
    BY <1>1, <1>4, AmidFile
  <2>2. n \in Nat
    BY InputAssumption, WidthAssumption DEF Word
  <2>3. k \in 0..(file[f].size - pos) /\ (pos + k) % WordSize = pos + k
    <3> DEFINE size == file[f].size
               len == Len(Contents(f))
    <3>1. /\ pos \in Nat /\ size \in Nat /\ len \in Nat
          /\ pos < size /\ size <= len /\ len < WordSize /\ pos + k <= len
      BY <1>4, <2>1
    <3>2. k = TransferSize(n, pos, size)
      OBVIOUS
    <3>3. k \in 0..(size - pos) /\ (pos + k) % WordSize = pos + k
      <4> HIDE DEF size, len, pos, k
      <4> QED BY <2>2, <3>1, <3>2, TransferFits
    <3> QED BY <3>3
  <2>4. pos + k \in Word /\ con' = [con EXCEPT ![c].seek = pos + k]
    <3>1. pos + k \in Word
      BY <2>1, <2>3, WidthAssumption DEF Word
    <3>2. con' = [con EXCEPT ![c].seek = (pos + k) % WordSize]
      BY <1>4
    <3> HIDE DEF pos, k
    <3> QED BY <2>3, <3>1, <3>2
  <2> HIDE DEF k
  <2>5. UNCHANGED <<Held, Writing>> /\ At' = [At EXCEPT ![c] = pos + k]
    BY <1>1, <2>4, PositionMoved DEF DataInv
  <2>6. Held[c] = f /\ Held[c] # Null /\ At[c] = pos
    BY <1>1, <1>4, HeldIs DEF DataInv
  <2>7. Len(Texts[f]) = file[f].size /\ Texts[f] = SubSeq(Contents(f), 1, file[f].size)
    BY <2>1, TextIs DEF DataInv
  <2>8. reply'.data = SubSeq(Texts[f], pos + 1, pos + k)
    <3>1. reply'.data = SubSeq(Contents(f), pos + 1, pos + k)
      BY <1>4 DEF RespondWith
    <3>2. k \in Nat /\ pos + k <= file[f].size
      BY <2>1, <2>3
    <3> HIDE DEF f, pos
    <3> QED BY <2>1, <2>7, <3>1, <3>2, ReadText
  <2>9. UNCHANGED Texts
    BY <1>4, TextsUntouched DEF tree, store
  <2>10. At' = [At EXCEPT ![c] = @ + k]
    BY <2>5, <2>6 DEF At
  <2> HIDE DEF f, pos
  <2>11. Store!Read(c)
    BY <1>4, <2>3, <2>5, <2>6, <2>7, <2>8, <2>9, <2>10, StoreRead DEF pos
  <2> QED BY <2>11 DEF Store!Next
<1> QED BY <1>2, <1>3, <1>4 DEF FileRead

\* _io_FileWrite.  No other file has its bytes in that memory, and what is
\* written behind the text is not part of it.
LEMMA WriteStore ==
  ASSUME DataInv, NEW c \in Scoid, NEW bytes \in Payloads, FileWrite(c, bytes)
  PROVE  [Store!Next]_(Store!vars)
<1> DEFINE f == con[c].handler
           pos == con[c].seek
           k == TransferSize(Len(bytes), pos, file[f].size)
<1>1. c \in Attached
  BY DEF FileWrite, Request
<1>2. CASE (Respond("write", c, "FAIL") \/ Respond("write", c, "E_OK")) /\ UNCHANGED <<con, tree, store>>
  BY <1>2, RespondQuietly, QuietStore DEF tree, store, Store!Next
<1>3. CASE Die("write past the object")
  BY <1>3, DeathStore
<1>4. CASE /\ ~Closed(c) /\ con[c].access # O_RDONLY /\ pos < file[f].size
           /\ pos + Len(bytes) <= Len(Contents(f))
           /\ con' = [con EXCEPT ![c].seek = (@ + k) % WordSize]
           /\ mem' = [mem EXCEPT ![file[f].data] = Overwrite(@, pos, bytes)]
           /\ RespondWith("write", c, "E_OK", k, <<>>)
           /\ UNCHANGED <<tree, mapped, share>>
  <2>1. /\ pos \in Nat /\ file[f].size \in Nat /\ f \in Live /\ file[f].data \in Obj
        /\ Contents(f) = mem[file[f].data]
        /\ Contents(f) \in Seq(Byte) /\ file[f].size <= Len(Contents(f)) /\ Len(Contents(f)) < WordSize
    BY <1>1, <1>4, AmidFile
  <2>2. Len(bytes) \in Nat /\ bytes \in Seq(Byte)
    BY InputAssumption
  <2>3. /\ k \in 0..(file[f].size - pos) /\ (pos + k) % WordSize = pos + k /\ k <= Len(bytes)
        /\ pos + k < file[f].size => k = Len(bytes)
        /\ Len(bytes) > 0 => k > 0
    <3> DEFINE n == Len(bytes)
               size == file[f].size
               len == Len(Contents(f))
    <3>1. /\ n \in Nat /\ pos \in Nat /\ size \in Nat /\ len \in Nat
          /\ pos < size /\ size <= len /\ len < WordSize /\ pos + n <= len
      BY <1>4, <2>1, <2>2
    <3>2. k = TransferSize(n, pos, size)
      OBVIOUS
    <3>3. /\ k \in 0..(size - pos) /\ (pos + k) % WordSize = pos + k /\ k <= n
          /\ pos + k < size => k = n
          /\ n > 0 => k > 0
      <4> HIDE DEF n, size, len, pos, k
      <4> QED BY <3>1, <3>2, TransferFits
    <3> QED BY <3>3
  <2>4. pos + k \in Word /\ con' = [con EXCEPT ![c].seek = pos + k]
    <3>1. pos + k \in Word
      BY <2>1, <2>3, WidthAssumption DEF Word
    <3>2. con' = [con EXCEPT ![c].seek = (pos + k) % WordSize]
      BY <1>4
    <3> HIDE DEF pos, k
    <3> QED BY <2>3, <3>1, <3>2
  <2> HIDE DEF k
  <2>5. UNCHANGED <<Held, Writing>> /\ At' = [At EXCEPT ![c] = pos + k]
    BY <1>1, <2>4, PositionMoved DEF DataInv
  <2>6. Held[c] = f /\ Held[c] # Null /\ At[c] = pos
    BY <1>1, <1>4, HeldIs DEF DataInv
  <2>7. Len(Texts[f]) = file[f].size /\ Texts[f] = SubSeq(Contents(f), 1, file[f].size)
    BY <2>1, TextIs DEF DataInv
  <2>8. Live' = Live /\ file' = file
    BY <1>4 DEF tree, Live
  <2>9. mem \in [Obj -> Seq(Byte)]
    BY DEF DataInv, IInv, TypeOK
  <2>10. PICK h \in Live : h = f
    BY <2>1
  <2> HIDE DEF f, pos
  <2>11. Contents(h)' = Overwrite(Contents(h), pos, bytes)
    <3>1. Contents(h)' = mem'[file[h].data] /\ Contents(h) = mem[file[h].data]
      BY <2>1, <2>8, <2>10, NullAssumption DEF Contents
    <3>2. mem'[file[h].data] = Overwrite(mem[file[h].data], pos, bytes)
      BY <1>4, <2>1, <2>9, <2>10
    <3> QED BY <3>1, <3>2
  <2>12. \A g \in Live \ {h} : file[g].data # Null => mem'[file[g].data] = mem[file[g].data]
    <3> SUFFICES ASSUME NEW g \in Live \ {h}, file[g].data # Null
                 PROVE  mem'[file[g].data] = mem[file[g].data]
      OBVIOUS
    <3>1. file[g].data \in Obj
      BY LiveData DEF DataInv
    <3>2. file[g].data # file[h].data
      BY DEF DataInv, MemoryInv, NoMappingLeak
    <3> QED BY <1>4, <2>9, <2>10, <3>1, <3>2
  <2>13. Texts' = [Texts EXCEPT ![h] = SubSeq(Overwrite(Contents(h), pos, bytes), 1, file[h].size)]
    <3>1. Texts' = [Texts EXCEPT ![h] = SubSeq(Contents(h)', 1, file'[h].size)]
      BY <2>8, <2>12, OneText DEF DataInv
    <3> QED BY <2>8, <2>11, <3>1
  <2>14. CASE Len(bytes) = 0
    <3>1. k = 0
      BY <2>3, <2>14
    <3>2. At' = At
      <4>1. pos + k = pos
        BY <2>1, <3>1
      <4> QED BY <2>5, <2>6, <4>1 DEF At
    <3>3. Overwrite(Contents(h), pos, bytes) = Contents(h)
      BY <2>1, <2>10, <2>14 DEF Overwrite
    <3>4. Texts' = Texts
      BY <2>7, <2>10, <2>13, <3>3 DEF Texts
    <3> QED BY <1>4, <2>5, <3>2, <3>4, StoreOther DEF RespondWith, Store!Next
  <2>15. CASE Len(bytes) > 0
    <3> DEFINE part == [i \in 1..k |-> bytes[i]]
               old == Texts[h]
    <3>1. k \in 1..(file[h].size - pos) /\ part \in [1..k -> Byte]
      BY <2>2, <2>3, <2>10, <2>15
    <3>2. Texts' = [Texts EXCEPT ![h] = SubSeq(old, 1, pos) \o part \o SubSeq(old, pos + k + 1, Len(old))]
      <4>1. SubSeq(Overwrite(Contents(h), pos, bytes), 1, file[h].size) =
              SubSeq(old, 1, pos) \o part \o SubSeq(old, pos + k + 1, Len(old))
        <5>1. /\ k \in Nat /\ k <= Len(bytes) /\ pos + k <= file[h].size
              /\ pos + k < file[h].size => k = Len(bytes)
          BY <2>1, <2>3, <2>10
        <5>2. /\ Contents(h) \in Seq(Byte) /\ file[h].size \in Nat /\ file[h].size <= Len(Contents(h))
              /\ pos \in Nat /\ pos < file[h].size /\ bytes \in Seq(Byte)
          BY <1>4, <2>1, <2>2, <2>10
        <5>3. old = SubSeq(Contents(h), 1, file[h].size)
          BY <2>7, <2>10
        <5>5. Spliced(old, pos, bytes, k) =
                SubSeq(old, 1, pos) \o part \o SubSeq(old, pos + k + 1, Len(old))
          BY Zenon DEF Spliced
        <5> HIDE DEF old, part
        <5>4. SubSeq(Overwrite(Contents(h), pos, bytes), 1, file[h].size) =
                Spliced(SubSeq(Contents(h), 1, file[h].size), pos, bytes, k)
          <6> DEFINE base == Contents(h)
                     size == file[h].size
          <6> HIDE DEF base, size
          <6>1. /\ base \in Seq(Byte) /\ size \in Nat /\ size <= Len(base)
                /\ pos \in Nat /\ pos < size /\ bytes \in Seq(Byte)
                /\ k \in Nat /\ k <= Len(bytes) /\ pos + k <= size
                /\ pos + k < size => k = Len(bytes)
            BY <5>1, <5>2 DEF base, size
          <6>2. SubSeq(Overwrite(base, pos, bytes), 1, size) = Spliced(SubSeq(base, 1, size), pos, bytes, k)
            BY <6>1, OverwriteText
          <6> QED BY <6>2 DEF base, size
        <5> QED BY <5>3, <5>4, <5>5, Zenon
      <4> QED BY <2>13, <4>1
    <3>3. c \in Writing
      BY <1>1, <1>4 DEF Writing
    <3>4. /\ Held[c] = h /\ At[c] = pos /\ Len(Texts[h]) = file[h].size
          /\ pos < file[h].size
      BY <1>4, <2>6, <2>7, <2>10
    <3>5. At' = [At EXCEPT ![c] = @ + k]
      BY <2>5, <2>6 DEF At
    <3> HIDE DEF part
    <3>6. Texts' = [Texts EXCEPT ![Held[c]] =
                      SubSeq(@, 1, At[c]) \o part \o SubSeq(@, At[c] + k + 1, Len(@))]
      BY <3>2, <3>4 DEF Texts
    <3>7. reply'.data = <<>>
      BY <1>4 DEF RespondWith
    <3>8. Store!Write(c)
      BY <2>5, <2>6, <3>1, <3>3, <3>4, <3>5, <3>6, <3>7, StoreWrite
    <3> QED BY <3>8 DEF Store!Next
  <2> QED BY <2>2, <2>14, <2>15
<1> QED BY <1>2, <1>3, <1>4 DEF FileWrite

\* _io_FileSeek.
LEMMA SeekStore ==
  ASSUME DataInv, NEW c \in Scoid, NEW whence \in {"SEEK_SET", "SEEK_CUR", "SEEK_END", "other"},
         NEW offset \in Offsets, FileSeek(c, whence, offset)
  PROVE  [Store!Next]_(Store!vars)
<1> DEFINE base == CASE whence = "SEEK_SET" -> 0
                     [] whence = "SEEK_CUR" -> con[c].seek
                     [] OTHER               -> file[con[c].handler].size
           w == (base + offset) % WordSize
<1>1. c \in Attached
  BY DEF FileSeek, Request
<1>2. CASE (Respond("seek", c, "E_ERROR") \/ Respond("seek", c, "E_INVAL")) /\ UNCHANGED <<con, tree, store>>
  BY <1>2, RespondQuietly, QuietStore DEF tree, store, Store!Next
<1>3. CASE /\ ~Closed(c) /\ con' = [con EXCEPT ![c].seek = w]
           /\ RespondWith("seek", c, "E_OK", w, <<>>) /\ UNCHANGED <<tree, store>>
  <2>1. offset \in Nat /\ con[c].seek \in Nat /\ file[con[c].handler].size \in Nat
    BY <1>1, <1>3, OpenWords, InputAssumption, WidthAssumption DEF Word, DataInv
  <2>2. base + offset \in Int
    BY <2>1
  <2>3. w \in Word
    BY <2>2, WordStep
  <2>4. con' = [con EXCEPT ![c].seek = w]
    BY <1>3
  <2>5. reply'.data = <<>> /\ UNCHANGED Texts
    BY <1>3, TextsUntouched DEF RespondWith, tree, store
  <2> HIDE DEF w
  <2>6. UNCHANGED <<Held, Writing>> /\ At' = [At EXCEPT ![c] = w]
    BY <1>1, <2>3, <2>4, PositionMoved DEF DataInv
  <2>7. Held[c] # Null
    BY <1>1, <1>3, HeldIs DEF DataInv
  <2> QED BY <2>3, <2>5, <2>6, <2>7, StoreSeek DEF Store!Next
<1> QED BY <1>2, <1>3 DEF FileSeek

\* _io_FileTruncate.  The new memory has no other owner, and every other file
\* keeps its own.
LEMMA TruncateStore ==
  ASSUME DataInv, NEW c \in Scoid, NEW request \in TruncateSizes, FileTruncate(c, request)
  PROVE  [Store!Next]_(Store!vars)
<1> DEFINE size == AlignUp(request)
<1>1. c \in Attached
  BY DEF FileTruncate, Request
<1>2. CASE Respond("truncate", c, "E_ERROR") /\ UNCHANGED <<con, tree, store>>
  BY <1>2, RespondQuietly, QuietStore DEF tree, store, Store!Next
<1>3. CASE Die("out of memory")
  BY <1>3, DeathStore
<1>4. CASE ~Closed(c) /\ Truncate(c, request) /\ ~Die("out of memory")
  <2>1. PICK f \in Live : con[c].handler = f
    BY <1>1, <1>4, OpenHandle DEF DataInv
  <2> DEFINE old == SubSeq(Contents(f), 1, file[f].size)
             New(obj) == [o \in Obj |-> IF o = obj THEN Resized(old, size) ELSE mem[o]]
             kept == mapped' \cup DataOf(file') \cup {share[d] : d \in Scoid}
  <2>2. PICK obj \in FreeObj \cup {Null} :
          /\ size > 0 => obj # Null
          /\ size > 0 \/ (size = 0 /\ obj = Null)
          /\ file' = [file EXCEPT ![f].size = size, ![f].data = obj]
          /\ mem' = Keep(New(obj), kept)
          /\ Respond("truncate", c, "E_OK") /\ UNCHANGED con
    <3> DEFINE Moved(obj) == /\ file' = [file EXCEPT ![f].size = size, ![f].data = obj]
                             /\ mem' = Keep(New(obj), kept)
                             /\ Respond("truncate", c, "E_OK") /\ UNCHANGED con
    <3>1. Null \notin FreeObj
      BY NullAssumption DEF FreeObj
    <3>2. (size > 0 /\ \E obj \in FreeObj : Moved(obj)) \/ (size = 0 /\ Moved(Null))
      BY <1>4, <2>1 DEF Truncate
    <3>3. \E obj \in FreeObj \cup {Null} :
            (size > 0 => obj # Null) /\ (size > 0 \/ (size = 0 /\ obj = Null)) /\ Moved(obj)
      <4> HIDE DEF Moved
      <4>1. ~(0 > 0)
        OBVIOUS
      <4> QED BY <3>1, <3>2, <4>1
    <3> QED BY <3>3
  <2>3. size \in Word /\ size \in Nat
    BY AlignUpWord, InputAssumption, WidthAssumption DEF Word
  <2>4. size % PageSize = 0
    <3>1. \A P \in Nat \ {0}, x \in Int : (x * P) % P = 0
      <4> SUFFICES ASSUME NEW P \in Nat \ {0}, NEW x \in Int PROVE (x * P) % P = 0
        OBVIOUS
      <4>1. x * P = x * P + 0 /\ 0 \in 0..(P - 1) /\ x * P \in Int
        OBVIOUS
      <4> QED BY <4>1
    <3>2. PageSize \in Nat \ {0} /\ ((request + PageSize - 1) % WordSize) \div PageSize \in Int
      <4>1. request \in Int /\ PageSize \in Nat \ {0} /\ WordSize \in Nat \ {0}
        BY InputAssumption, WidthAssumption DEF Word
      <4>2. (request + PageSize - 1) % WordSize \in Int
        BY <4>1
      <4> QED BY <4>1, <4>2
    <3> QED BY <3>1, <3>2 DEF AlignUp
  <2>5. f \in FileId /\ file[f] \in File /\ obj \in Obj \cup {Null}
    BY DEF DataInv, IInv, TypeOK, Live, FreeObj
  <2> DEFINE new == [file[f] EXCEPT !.size = size, !.data = obj]
  <2>6. new \in File /\ new.data = obj /\ new.size = size
    BY <2>3, <2>5 DEF File
  <2>7. file' = [file EXCEPT ![f] = new]
    BY <2>2
  <2> HIDE DEF new, size
  <2>8. /\ file'[f] = new /\ \A g \in FileId \ {f} : file'[g] = file[g]
        /\ Live' = Live
    BY <2>6, <2>7, FileChanged DEF DataInv
  <2>9. old = Texts[f] /\ old \in Seq(Byte)
    BY TextIs DEF DataInv
  <2> HIDE DEF old
  <2>10. \A g \in Live \ {f} : file[g].data # Null => mem'[file[g].data] = mem[file[g].data]
    <3> SUFFICES ASSUME NEW g \in Live \ {f}, file[g].data # Null
                 PROVE  mem'[file[g].data] = mem[file[g].data]
      OBVIOUS
    <3>1. file[g].data \in Obj /\ file[g].data \in DataOf(file) /\ g \in FileId /\ file[g] # Null
      BY LiveData DEF DataInv, Live
    <3>2. file[g].data # obj
      BY <3>1, NullAssumption DEF FreeObj
    <3>3. file[g].data \in DataOf(file')
      BY <2>8, <3>1, NullAssumption DEF DataOf
    <3>4. New(obj)[file[g].data] = mem[file[g].data] /\ file[g].data \in kept
      BY <3>1, <3>2, <3>3
    <3> HIDE DEF New, kept
    <3> QED BY <2>2, <3>1, <3>4 DEF Keep
  <2>11. SubSeq(Contents(f)', 1, file'[f].size) = Resized(old, size)
    <3>1. CASE obj = Null
      <4>1. size = 0 /\ Contents(f)' = <<>>
        BY <2>2, <2>6, <2>8, <3>1 DEF Contents
      <4>2. Resized(old, 0) = <<>> /\ SubSeq(<<>>, 1, 0) = <<>>
        BY DEF Resized
      <4> QED BY <2>6, <2>8, <4>1, <4>2
    <3>2. CASE obj # Null
      <4>1. obj \in Obj /\ Contents(f)' = mem'[obj]
        BY <2>5, <2>6, <2>8, <3>2 DEF Contents
      <4>2. obj \in DataOf(file')
        BY <2>5, <2>6, <2>8, <3>2, NullAssumption DEF DataOf
      <4>3. New(obj)[obj] = Resized(old, size) /\ obj \in kept
        BY <4>1, <4>2
      <4>4. mem'[obj] = Resized(old, size)
        <5> HIDE DEF New, kept
        <5> QED BY <2>2, <4>1, <4>3 DEF Keep
      <4>5. Resized(old, size) \in Seq(Byte) /\ Len(Resized(old, size)) = size
        BY <2>3, <2>9, ResizedType
      <4>6. \A s \in Seq(Byte) : SubSeq(s, 1, Len(s)) = s
        OBVIOUS
      <4> QED BY <2>6, <2>8, <4>1, <4>4, <4>5, <4>6
    <3> QED BY <3>1, <3>2
  <2>12. Texts' = [Texts EXCEPT ![f] = Resized(old, size)]
    <3>1. \A g \in Live \ {f} : file'[g].data = file[g].data /\ file'[g].size = file[g].size
      BY <2>8 DEF Live
    <3> QED BY <2>8, <2>10, <2>11, <3>1, OneText DEF DataInv
  <2>13. Held[c] = f /\ Held[c] # Null
    BY <1>1, <1>4, <2>1, HeldIs DEF DataInv
  <2>14. Texts' = [Texts EXCEPT ![Held[c]] = [i \in 1..size |-> IF i <= Len(@) THEN @[i] ELSE 0]]
    BY <2>9, <2>12, <2>13 DEF Resized, Texts
  <2>15. reply'.data = <<>> /\ UNCHANGED <<Held, Writing, At>>
    BY <2>2, RespondQuietly, ClientsKept
  <2> QED BY <2>3, <2>4, <2>13, <2>14, <2>15, StoreResize DEF Store!Next
<1> QED BY <1>2, <1>3, <1>4 DEF FileTruncate

\* _io_FileShare moves no byte and no position.
LEMMA ShareStore ==
  ASSUME DataInv, NEW c \in Scoid, FileShare(c)
  PROVE  [Store!Next]_(Store!vars)
<1>1. c \in Attached /\ reply'.data = <<>> /\ UNCHANGED Texts
  BY RespondQuietly, TextsUntouched DEF FileShare, Request, tree
<1>2. CASE UNCHANGED con
  BY <1>1, <1>2, ClientsKept, StoreOther DEF Store!Next
<1>3. CASE con' = [con EXCEPT ![c].state = "MAP"]
  <2> DEFINE new == [con[c] EXCEPT !.state = "MAP"]
  <2>1. con[c] \in Connection /\ con[c] # Null
    BY <1>1 DEF DataInv, IInv, TypeOK, Attached
  <2>2. /\ new \in Connection /\ new.access = con[c].access /\ new.seek = con[c].seek
        /\ new.handler = con[c].handler
    BY <2>1 DEF Connection
  <2>3. con' = [con EXCEPT ![c] = new]
    BY <1>3
  <2> HIDE DEF new
  <2>4. /\ Held' = [Held EXCEPT ![c] = new.handler]
        /\ At' = [At EXCEPT ![c] = new.seek]
        /\ Writing' = IF new.access # O_RDONLY THEN Writing \cup {c} ELSE Writing \ {c}
    BY <2>2, <2>3, ClientMoved DEF DataInv
  <2>5. Held' = Held /\ At' = At
    BY <2>1, <2>2, <2>4 DEF Held, At, Handle
  <2>6. Writing' = Writing
    BY <1>1, <2>2, <2>4 DEF Writing
  <2> QED BY <1>1, <2>5, <2>6, StoreOther DEF Store!Next
<1> QED BY <1>2, <1>3 DEF FileShare

\* A client's store into a mapped file is one into the file it holds; a store
\* into memory the file has left, or behind its end, is not seen.
LEMMA ClientStores ==
  ASSUME DataInv, NEW c \in Scoid, ClientStore(c)
  PROVE  [Store!Next]_(Store!vars)
<1>1. PICK i \in 1..Len(mem[share[c]]), b \in Byte : mem' = [mem EXCEPT ![share[c]][i] = b]
  BY DEF ClientStore
<1> DEFINE o == share[c]
           new == [mem[o] EXCEPT ![i] = b]
<1>2. o \in Obj /\ o # Null /\ mem \in [Obj -> Seq(Byte)]
  BY DEF ClientStore, DataInv, IInv, TypeOK
<1>3. mem' = [mem EXCEPT ![o] = new]
  BY <1>1
<1>4. /\ reply' = reply /\ UNCHANGED <<Held, Writing, At>>
      /\ Live' = Live /\ file' = file
  BY ClientsKept DEF ClientStore, Live
<1>5. new \in Seq(Byte) /\ Len(new) = Len(mem[o])
      /\ \A j \in 1..Len(mem[o]) : new[j] = IF j = i THEN b ELSE mem[o][j]
  BY <1>2
<1> HIDE DEF new
<1>6. CASE \A f \in Live : file[f].data # o
  <2>1. \A f \in Live : file[f].data # Null => mem'[file[f].data] = mem[file[f].data]
    BY <1>2, <1>3, <1>6, LiveData DEF DataInv
  <2>2. UNCHANGED Texts
    BY <1>4, <2>1, TextsKept DEF DataInv
  <2> QED BY <1>4, <2>2, StoreIdle
<1>7. CASE \E f \in Live : file[f].data = o
  <2>1. PICK f \in Live : file[f].data = o
    BY <1>7
  <2>2. c \in Attached /\ con[c].handler = f
    BY <1>2, <2>1 DEF DataInv, StoreInv, SharedByHolder
  <2>3. Held[c] = f /\ Held[c] # Null /\ f \in FileId
    BY <2>2, NullAssumption DEF Held, Handle, Attached, Live
  <2>4. \A g \in Live \ {f} : file[g].data # Null => mem'[file[g].data] = mem[file[g].data]
    <3> SUFFICES ASSUME NEW g \in Live \ {f}, file[g].data # Null
                 PROVE  mem'[file[g].data] = mem[file[g].data]
      OBVIOUS
    <3>1. file[g].data \in Obj
      BY LiveData DEF DataInv
    <3>2. file[g].data # o
      BY <2>1 DEF DataInv, MemoryInv, NoMappingLeak
    <3> QED BY <1>2, <1>3, <3>1, <3>2
  <2>5. Contents(f) = mem[o] /\ Contents(f)' = new
    BY <1>2, <1>3, <1>4, <2>1 DEF Contents
  <2>6. Texts' = [Texts EXCEPT ![f] = SubSeq(new, 1, file[f].size)]
    <3>1. Texts' = [Texts EXCEPT ![f] = SubSeq(Contents(f)', 1, file'[f].size)]
      BY <1>4, <2>4, OneText DEF DataInv
    <3> QED BY <1>4, <2>5, <3>1
  <2>7. /\ Texts[f] \in Seq(Byte) /\ Len(Texts[f]) = file[f].size /\ file[f].size \in Nat
        /\ file[f].size <= Len(mem[o])
        /\ \A j \in 1..file[f].size : Texts[f][j] = mem[o][j]
    BY <2>5, TextIs, ContentsType DEF DataInv
  <2> DEFINE text == SubSeq(new, 1, file[f].size)
  <2>8. text \in Seq(Byte) /\ Len(text) = file[f].size /\ \A j \in 1..file[f].size : text[j] = new[j]
    BY <1>5, <2>7
  <2> HIDE DEF text
  <2>9. CASE i > file[f].size
    <3>1. \A j \in 1..file[f].size : text[j] = Texts[f][j]
      BY <1>5, <2>7, <2>8, <2>9
    <3>2. text = Texts[f]
      BY <2>7, <2>8, <3>1, SeqEqual
    <3>3. Texts' = Texts
      BY <2>6, <3>2 DEF text, Texts
    <3> QED BY <1>4, <3>3, StoreIdle
  <2>10. CASE i <= file[f].size
    <3> DEFINE put == [Texts[f] EXCEPT ![i] = b]
    <3>1. i \in 1..Len(Texts[f])
      BY <2>7, <2>10
    <3>2. /\ put \in Seq(Byte) /\ Len(put) = file[f].size
          /\ \A j \in 1..file[f].size : put[j] = IF j = i THEN b ELSE Texts[f][j]
      <4>1. ASSUME NEW t \in Seq(Byte), i \in 1..Len(t)
            PROVE  /\ [t EXCEPT ![i] = b] \in Seq(Byte) /\ Len([t EXCEPT ![i] = b]) = Len(t)
                   /\ \A j \in 1..Len(t) : [t EXCEPT ![i] = b][j] = IF j = i THEN b ELSE t[j]
        BY <4>1
      <4>2. /\ put \in Seq(Byte) /\ Len(put) = Len(Texts[f])
            /\ \A j \in 1..Len(Texts[f]) : put[j] = IF j = i THEN b ELSE Texts[f][j]
        BY <2>7, <3>1, <4>1
      <4> HIDE DEF put
      <4> QED BY <2>7, <4>2
    <3> HIDE DEF put
    <3>3. \A j \in 1..file[f].size : text[j] = put[j]
      BY <1>5, <2>7, <2>8, <3>2
    <3>4. text = put
      BY <2>8, <3>2, <3>3, SeqEqual
    <3>5. Texts' = [Texts EXCEPT ![f] = put]
      BY <2>6, <3>4 DEF text
    <3>6. Texts' = [Texts EXCEPT ![Held[c]] = [@ EXCEPT ![i] = b]]
      BY <2>3, <3>5 DEF put, Texts
    <3>7. Store!Store(c)
      BY <1>4, <2>3, <3>1, <3>6, StoreStore
    <3> QED BY <3>7 DEF Store!Next
  <2> QED BY <2>7, <2>9, <2>10
<1> QED BY <1>6, <1>7

\* A connection comes with no file, at position 0.
LEMMA AttachStore ==
  ASSUME DataInv, NEW c \in Scoid, Attach(c)
  PROVE  [Store!Next]_(Store!vars)
<1>1. UNCHANGED Texts /\ reply' = reply
  BY TextsUntouched DEF Attach, store, vars
<1>2. CASE UNCHANGED con
  BY <1>1, <1>2, ClientsKept, StoreIdle
<1>3. CASE con[c] = Null /\ ~UNCHANGED con
  <2> DEFINE new == [state |-> "CLOSE", access |-> O_RDONLY, seek |-> 0, handler |-> Null]
  <2>1. con' = [con EXCEPT ![c] = new]
    BY <1>3 DEF Attach, vars
  <2>2. new \in Connection /\ new.handler = Null /\ new.seek = 0 /\ new.access = O_RDONLY
    BY WidthAssumption DEF Connection, O_RDONLY, AccessWord, Word
  <2> HIDE DEF new
  <2>3. /\ Held' = [Held EXCEPT ![c] = Null] /\ At' = [At EXCEPT ![c] = 0]
        /\ Writing' = Writing \ {c}
    BY <2>1, <2>2, ClientMoved DEF DataInv
  <2>4. Held' = Held /\ At' = At /\ Writing' = Writing
    BY <1>3, <2>3 DEF Held, At, Writing, Handle, Attached
  <2> QED BY <1>1, <2>4, StoreIdle
<1> QED BY <1>2, <1>3 DEF Attach, vars

\* ConnectionDetach: the client lets go of its file, whose bytes stay.
LEMMA DetachStore ==
  ASSUME DataInv, NEW c \in Scoid, Detach(c)
  PROVE  [Store!Next]_(Store!vars)
<1>1. CASE UNCHANGED vars
  BY <1>1, TextsUntouched, ClientsKept, StoreIdle DEF vars
<1>2. CASE /\ con[c] # Null /\ con' = [con EXCEPT ![c] = Null] /\ UNCHANGED reply
           /\ \E held : mem' = Keep(mem, mapped \cup DataOf(file) \cup held)
  <2>1. con'[c] = Null /\ \A d \in Scoid \ {c} : con'[d] = con[d]
    BY <1>2, OneConn DEF DataInv
  <2>2. /\ Held' = [Held EXCEPT ![c] = Null] /\ At' = [At EXCEPT ![c] = 0]
        /\ Writing' = Writing \ {c}
    BY <2>1 DEF Held, At, Writing, Handle, Attached
  <2>3. TreeKept
    BY DetachFiles DEF DataInv
  <2>4. \A f \in Live : file[f].data # Null => mem'[file[f].data] = mem[file[f].data]
    <3> SUFFICES ASSUME NEW f \in Live, file[f].data # Null
                 PROVE  mem'[file[f].data] = mem[file[f].data]
      OBVIOUS
    <3>1. file[f].data \in Obj /\ file[f].data \in DataOf(file)
      BY LiveData DEF DataInv
    <3> QED BY <1>2, <3>1 DEF Keep
  <2>5. Texts' = Texts
    BY <2>3, <2>4, TextsKept DEF TreeKept, FilesKept, DataInv
  <2> QED BY <1>2, <2>2, <2>5, StoreLeave DEF Store!Next
<1> QED BY <1>1, <1>2 DEF Detach

\* An open that succeeds is an open at the beginning.
LEMMA GainedStore ==
  ASSUME DataInv, NEW c \in Attached, con[c].handler = Null, NEW f \in FileId, NEW mode \in Modes,
         OpenConnection(c, f, mode), UNCHANGED Texts, reply'.data = <<>>
  PROVE  Store!Open(c, f)
<1> DEFINE new == [state |-> "OPEN", access |-> mode, seek |-> 0, handler |-> f]
<1>1. con' = [con EXCEPT ![c] = new] /\ c \in Scoid /\ con[c] # Null
  BY DEF OpenConnection, Attached
<1>2. new \in Connection /\ new.handler = f /\ new.seek = 0 /\ new.access = mode
  BY InputAssumption, WidthAssumption DEF Connection, Word
<1> HIDE DEF new
<1>3. /\ Held' = [Held EXCEPT ![c] = f] /\ At' = [At EXCEPT ![c] = 0]
      /\ Writing' = IF mode # O_RDONLY THEN Writing \cup {c} ELSE Writing \ {c}
  BY <1>1, <1>2, ClientMoved DEF DataInv
<1>4. con[c].seek = 0 /\ con[c].access = O_RDONLY
  BY DEF DataInv, StoreInv, ClosedAtStart, ShareInv, AccessGranted
<1>5. At' = At /\ Held[c] = Null
  BY <1>1, <1>3, <1>4 DEF At, Held, Handle
<1>6. Writing' \in {Writing, Writing \cup {c}}
  BY <1>3, <1>4 DEF Writing
<1> QED BY <1>1, <1>3, <1>5, <1>6, StoreOpen

\* _io_FileOpen.  A file that is made is empty, as what is not there is.
LEMMA OpenStore ==
  ASSUME DataInv, NEW c \in Scoid, NEW path \in Paths, NEW mode \in Modes, NEW creat \in BOOLEAN,
         FileOpen(c, path, mode, creat)
  PROVE  [Store!Next]_(Store!vars)
<1>1. c \in Attached
  BY DEF FileOpen, Request
<1>2. CASE OpenCreateOnDirectory(c, path, creat)
  BY <1>2, DeathStore DEF OpenCreateOnDirectory
<1>3. CASE ~OpenCreateOnDirectory(c, path, creat)
  <2>1. mem' = mem /\ reply'.data = <<>>
    BY <1>3, RespondQuietly
       DEF FileOpen, OpenBusy, OpenExisting, OpenMissing, OpenCreated, store
  <2>2. UNCHANGED Texts
    <3>1. CASE TreeKept
      BY <2>1, <3>1, TextsKept DEF TreeKept, FilesKept, DataInv
    <3>2. CASE FileMade
      <4>1. PICK f \in FileId \ Live :
              /\ Live' = Live \cup {f} /\ file'[f].data = Null /\ \A g \in Live : file'[g] = file[g]
        BY <3>2 DEF FileMade
      <4>2. Contents(f)' = <<>> /\ \A g \in Live : Contents(g)' = Contents(g)
        BY <2>1, <4>1 DEF Contents
      <4>3. file'[f].size <= 0 /\ file'[f].size \in Nat
        <5>1. IInv'
          BY OpenStep DEF DataInv
        <5>2. file'[f].size <= Len(Contents(f)') /\ file'[f] \in File
          BY <4>1, <5>1 DEF IInv, SizeBacked, TypeOK, Live
        <5> QED BY <4>2, <5>2, WidthAssumption DEF File, Word
      <4>4. SubSeq(Contents(f)', 1, file'[f].size) = <<>>
        BY <4>2, <4>3
      <4> QED BY <4>1, <4>2, <4>4 DEF Texts
    <3> QED BY <3>1, <3>2, OpenFiles DEF DataInv
  <2>3. CASE UNCHANGED con
    BY <2>1, <2>2, <2>3, ClientsKept, StoreOther DEF Store!Next
  <2>4. CASE ~UNCHANGED con
    <3>1. con[c].handler = Null /\ \E f \in FileId : OpenConnection(c, f, mode)
      BY <1>3, <2>4
         DEF FileOpen, OpenBusy, OpenExisting, OpenMissing, OpenCreated, FileGet, Live
    <3> QED BY <1>1, <2>1, <2>2, <3>1, GainedStore DEF Store!Next
  <2> QED BY <2>3, <2>4
<1> QED BY <1>2, <1>3

\* Every step maps to a step of the store or to a stutter.
LEMMA StoreNext == DataInv /\ [Next]_vars => [Store!Next]_(Store!vars)
<1> SUFFICES ASSUME DataInv, [Next]_vars PROVE [Store!Next]_(Store!vars)
  OBVIOUS
<1>1. CASE UNCHANGED vars
  BY <1>1, TextsUntouched, ClientsKept, StoreIdle DEF vars
<1>2. CASE Next
  <2> SUFFICES ASSUME NEW c \in Scoid, Attach(c) \/ Detach(c) \/ Handler(c) \/ ClientStore(c)
               PROVE  [Store!Next]_(Store!vars)
    BY <1>2 DEF Next
  <2>1. CASE Attach(c) \/ Detach(c) \/ ClientStore(c) \/ FileShare(c)
    BY <2>1, AttachStore, DetachStore, ClientStores, ShareStore
  <2>2. CASE \E path \in Paths, mode \in Modes, creat \in BOOLEAN : FileOpen(c, path, mode, creat)
    BY <2>2, OpenStore
  <2>3. CASE \E n \in ReadSizes : FileRead(c, n)
    BY <2>3, ReadStore
  <2>4. CASE \E bytes \in Payloads : FileWrite(c, bytes)
    BY <2>4, WriteStore
  <2>5. CASE \E whence \in {"SEEK_SET", "SEEK_CUR", "SEEK_END", "other"}, offset \in Offsets :
               FileSeek(c, whence, offset)
    BY <2>5, SeekStore
  <2>6. CASE \E request \in TruncateSizes : FileTruncate(c, request)
    BY <2>6, TruncateStore
  <2>7. CASE FileClose(c)
    BY <2>7, RespondQuietly, QuietStore DEF FileClose, tree, store, Store!Next
  <2>8. CASE \E path \in Paths, listAll \in BOOLEAN : ProcInfo(c, path, listAll)
    BY <2>8, RespondQuietly, QuietStore DEF ProcInfo, tree, store, Store!Next
  <2> QED BY <2>1, <2>2, <2>3, <2>4, <2>5, <2>6, <2>7, <2>8 DEF Handler
<1> QED BY <1>1, <1>2

\* proc_io.c:178-337: for any clients, files, pages and words, what clients read
\* is what a store of byte strings with positions would give them, whatever
\* truncations and mappings do to the memory behind it.
THEOREM StoreImplemented == Spec => ImplementsStore
<1>1. Init => Store!Init
  <2> SUFFICES ASSUME Init PROVE Store!Init
    OBVIOUS
  <2>1. IInv
    BY InitStep
  <2>2. Texts \in [FileId -> Seq(Byte)]
    <3>1. \A f \in Live : Texts[f] \in Seq(Byte)
      BY <2>1, TextIs
    <3>2. \A f \in FileId \ Live : Texts[f] = <<>>
      BY DEF Texts
    <3>3. \A f \in FileId : Texts[f] \in Seq(Byte)
      <4>1. <<>> \in Seq(Byte)
        OBVIOUS
      <4> HIDE DEF Texts
      <4> QED BY <3>1, <3>2, <4>1
    <3> QED BY <3>3 DEF Texts
  <2>3. Held = [c \in Scoid |-> Null] /\ Writing = {} /\ At = [c \in Scoid |-> 0] /\ reply.data = <<>>
    BY DEF Init, Held, Handle, Writing, At, Attached
  <2> QED BY <2>2, <2>3 DEF Store!Init, Texts, Held, Writing, At
<1>2. DataInv /\ [Next]_vars => [Store!Next]_(Store!vars)
  BY StoreNext
<1> QED BY <1>1, <1>2, DataInductive, PTL DEF Spec, ImplementsStore, Store!Spec
=============================================================================
