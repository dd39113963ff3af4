---------------------------- MODULE SerialServer ----------------------------
(***************************************************************************)
(* The serial server (serial/main.c) over the UART of the board            *)
(* (serial/ve/uart.c, a PL011, and serial/sunxi/uart.c, the H3's).         *)
(*                                                                         *)
(* Each of the two dispatchers, /dev/stdout and /dev/stdin, runs one task. *)
(* They share the transmitter, which the out task prints to and the in     *)
(* task echoes to, under stdLock.  A step of a task is a step the other    *)
(* may come between: waiting for room in the transmit FIFO and storing a   *)
(* character are two of them.                                              *)
(***************************************************************************)
EXTENDS Integers, Sequences, SequencesExt

CONSTANTS
  Writer, Reader,  \* clients of /dev/stdout and of /dev/stdin
  Null,
  Texts,           \* what writers write (bounds the requests)
  Counts,          \* rbytes of reads (bounds the requests)
  Keys,            \* what is typed
  Errors,          \* k for every negative result -k of MsgRead
  WordSize,        \* 2^32
  OutBuf,          \* 1023 characters of a text come at a time, at most
  InBuf,           \* 1024 bytes of the in task's buffer
  TxDepth,         \* characters the transmit FIFO holds
  RxDepth,         \* characters the receive FIFO holds
  Board            \* "ve" or "sunxi"

Task == {"out", "in"}

ASSUME SerialAssumption ==
  /\ Writer \cap Reader = {} /\ Null \notin Writer \cup Reader \cup Task
  /\ Texts \subseteq Seq({"a", "b", "LF", "NUL"})
  /\ Null \notin Texts
  /\ WordSize \in Nat \ {0} /\ \A t \in Texts : Len(t) < WordSize
  /\ Errors \subseteq 1..WordSize
  /\ Counts \subseteq Nat
  /\ Keys \subseteq {"a", "b", "BS", "CR"}
  /\ OutBuf \in Nat \ {0} /\ InBuf \in Nat \ {0}
  /\ TxDepth \in Nat \ {0} /\ RxDepth \in Nat \ {0}
  /\ Board \in {"ve", "sunxi"}

VARIABLES
  text,     \* the text each writer waits to have written, or Null
  wanted,   \* the read each reader waits for, or Null
  pc,       \* where each task is
  serving,  \* the client of each task's request, or Null
  offset,   \* bytes of the text received so far
  chunk,    \* the out task's buffer up to the terminator it stored
  failed,   \* whether a MsgRead of the out task's request was negative
  sent,     \* characters put for that request, until one was
  line,     \* the in task's buffer up to its pointer
  left,     \* characters a read by size still lacks
  emit,     \* characters each task has still to put
  ready,    \* the tasks that saw room in the transmit FIFO
  lock,     \* the holder of stdLock, or Null
  tx,       \* characters in the transmit FIFO
  rx,       \* the receive FIFO
  amid,     \* the task that has put a part of its characters, or Null
  shown,    \* what the line being typed looks like on the terminal
  fault     \* why the server died, or "none"

clients == <<text, wanted>>
outTask == <<offset, chunk, failed, sent>>
inTask  == <<line, left>>
putter  == <<tx, amid, shown>>
vars == <<clients, pc, serving, outTask, inTask, emit, ready, lock, putter, rx, fault>>

Init ==
  /\ text = [w \in Writer |-> Null]
  /\ wanted = [r \in Reader |-> Null]
  /\ pc = [t \in Task |-> "idle"]
  /\ serving = [t \in Task |-> Null]
  /\ offset = 0 /\ chunk = <<>> /\ failed = FALSE /\ sent = <<>>
  /\ line = <<>> /\ left = 0
  /\ emit = [t \in Task |-> <<>>] /\ ready = {}
  /\ lock = Null
  /\ tx = 0 /\ rx = <<>>
  /\ amid = Null /\ shown = <<>>
  /\ fault = "none"

At(t, l)     == fault = "none" /\ pc[t] = l
Goto(t, l)   == pc' = [pc EXCEPT ![t] = l]
Printed(t)   == emit[t] = <<>>

\* Where a task is inside puts or gets.
Putting(t)   == pc[t] \in {"puts", "gets", "line"}

(***************************************************************************)
(* The UART.                                                               *)
(***************************************************************************)
\* putc's wait: the PL011 is full or not, the H3 is waited to be empty.
TxRoom == IF Board = "ve" THEN tx < TxDepth ELSE tx = 0

\* What a line feed of a text becomes.
Newline == IF Board = "ve" THEN <<"LF", "CR">> ELSE <<"CR", "LF">>

\* Characters as they are put.
PutAll(s) == FoldLeft(LAMBDA put, ch : put \o (IF ch = "LF" THEN Newline ELSE <<ch>>), <<>>, s)

Nuls(s) == {i \in DOMAIN s : s[i] = "NUL"}

\* puts stops at the first NUL.
Puts(s) == PutAll(IF Nuls(s) = {} THEN s ELSE SubSeq(s, 1, Min(Nuls(s)) - 1))

\* The terminal's cursor moves back on BS; another character shows.
Show(seen, ch) ==
  IF ch \in {"LF", "CR"} THEN <<>>
  ELSE IF ch = "BS" THEN (IF seen = <<>> THEN <<>> ELSE Front(seen))
  ELSE Append(seen, ch)

\* putc: the wait...
PutWait(t) ==
  /\ fault = "none" /\ Putting(t) /\ ~Printed(t) /\ t \notin ready
  /\ TxRoom
  /\ ready' = ready \cup {t}
  /\ UNCHANGED <<clients, pc, serving, outTask, inTask, emit, lock, putter, rx, fault>>

\* ... and the store, which is lost when the FIFO has filled in between.
PutStore(t) ==
  /\ fault = "none" /\ t \in ready
  /\ ready' = ready \ {t}
  /\ emit' = [emit EXCEPT ![t] = Tail(@)]
  /\ IF tx < TxDepth THEN tx' = tx + 1 /\ UNCHANGED fault
                     ELSE fault' = "overrun" /\ UNCHANGED tx
  /\ amid' = IF Tail(emit[t]) # <<>> THEN t ELSE Null
  /\ shown' = IF pc["in"] = "gets" THEN Show(shown, Head(emit[t])) ELSE <<>>
  /\ sent' = IF t = "out" /\ ~failed THEN Append(sent, Head(emit[t])) ELSE sent
  /\ UNCHANGED <<clients, pc, serving, offset, chunk, failed, inTask, lock, rx>>

Transmit ==
  /\ fault = "none" /\ tx > 0
  /\ tx' = tx - 1
  /\ UNCHANGED <<clients, pc, serving, outTask, inTask, emit, ready, lock, amid, shown, rx, fault>>

\* What is typed while the receive FIFO is full is lost.
Type(k) ==
  /\ fault = "none" /\ Len(rx) < RxDepth
  /\ rx' = Append(rx, k)
  /\ UNCHANGED <<clients, pc, serving, outTask, inTask, emit, ready, lock, putter, fault>>

(***************************************************************************)
(* WriteStdOut.                                                            *)
(***************************************************************************)
Write(w) ==
  /\ fault = "none" /\ text[w] = Null
  /\ \E t \in Texts : text' = [text EXCEPT ![w] = t]
  /\ UNCHANGED <<wanted, pc, serving, outTask, inTask, emit, ready, lock, putter, rx, fault>>

Rest == Len(text[serving["out"]]) - offset

\* Mutant: the terminator is stored over the last character of a chunk.
ReceiveCut(w, from, size) ==
  /\ offset' = from + size
  /\ chunk' = SubSeq(text[w], from + 1, from + size - 1)
  /\ emit' = [emit EXCEPT !["out"] = Puts(chunk')]
  /\ Goto("out", "lock")

\* A chunk that has been received, to be put once the lock is taken.
Receive(w, from, size) ==
  /\ offset' = from + size
  /\ chunk' = SubSeq(text[w], from + 1, from + size)
  /\ emit' = [emit EXCEPT !["out"] = Puts(chunk')]
  /\ Goto("out", "lock")

\* What the buffer takes of so many characters.
AtOnce(rest) == IF rest < OutBuf THEN rest ELSE OutBuf

TakeWrite(w) ==
  /\ At("out", "idle") /\ text[w] # Null
  /\ serving' = [serving EXCEPT !["out"] = w]
  /\ Receive(w, 0, AtOnce(Len(text[w])))
  /\ sent' = <<>>
  /\ UNCHANGED <<clients, failed, inTask, ready, lock, putter, rx, fault>>

\* Mutant: puts does not take the lock.
LockOutNot ==
  /\ At("out", "lock")
  /\ Goto("out", "puts")
  /\ UNCHANGED <<clients, serving, outTask, inTask, emit, ready, lock, putter, rx, fault>>

\* StdWrite: the lock is taken for one chunk.
LockOut ==
  /\ At("out", "lock") /\ lock = Null
  /\ lock' = "out" /\ Goto("out", "puts")
  /\ UNCHANGED <<clients, serving, outTask, inTask, emit, ready, putter, rx, fault>>

\* Mutant: the lock is kept until the text is out, which nobody sees to.
UnlockLater ==
  /\ At("out", "puts") /\ Printed("out")
  /\ Goto("out", "more")
  /\ UNCHANGED <<clients, serving, outTask, inTask, emit, ready, lock, putter, rx, fault>>

UnlockOut ==
  /\ At("out", "puts") /\ Printed("out")
  /\ lock' = Null /\ Goto("out", "more")
  /\ UNCHANGED <<clients, serving, outTask, inTask, emit, ready, putter, rx, fault>>

RespondWrite ==
  /\ text' = [text EXCEPT ![serving["out"]] = Null]
  /\ serving' = [serving EXCEPT !["out"] = Null]
  /\ offset' = 0 /\ chunk' = <<>> /\ failed' = FALSE /\ sent' = <<>>
  /\ Goto("out", "idle")
  /\ UNCHANGED <<wanted, inTask, emit, ready, lock, putter, rx, fault>>

\* A result of -k is taken for a size: the offset wraps around, and a terminator
\* stored k bytes before the buffer does its harm at once or not at all.  Then
\* what the buffer holds is put again.
TakeError ==
  \/ /\ \E k \in Errors : offset' = IF k <= offset THEN offset - k ELSE offset + WordSize - k
     /\ emit' = [emit EXCEPT !["out"] = Puts(chunk)]
     /\ failed' = TRUE /\ sent' = <<>>
     /\ Goto("out", "lock")
     /\ UNCHANGED <<clients, serving, chunk, inTask, ready, lock, putter, rx, fault>>
  \/ /\ fault' = "stored_outside"
     /\ UNCHANGED <<clients, pc, serving, outTask, inTask, emit, ready, lock, putter, rx>>

\* MsgRead brings a chunk of any size, nothing, or an error.
MsgRead ==
  /\ At("out", "more") /\ Rest > 0
  /\ \/ /\ \E size \in 1..AtOnce(Rest) : Receive(serving["out"], offset, size)
        /\ UNCHANGED <<clients, serving, failed, sent, inTask, ready, lock, putter, rx, fault>>
     \/ RespondWrite
     \/ TakeError

Written == At("out", "more") /\ Rest <= 0 /\ RespondWrite

(***************************************************************************)
(* ReadStdIn.                                                              *)
(***************************************************************************)
Read(r) ==
  /\ fault = "none" /\ wanted[r] = Null
  /\ \E code \in {"size", "terminator", "other"}, rbytes \in Counts :
       wanted' = [wanted EXCEPT ![r] = [code |-> code, rbytes |-> rbytes]]
  /\ UNCHANGED <<text, pc, serving, outTask, inTask, emit, ready, lock, putter, rx, fault>>

RespondRead(r) == wanted' = [wanted EXCEPT ![r] = Null]

\* A read of no bytes is refused and one of an unknown code is never answered.
TakeRead(r) ==
  /\ At("in", "idle") /\ wanted[r] # Null /\ wanted[r].code # "unanswered"
  /\ \/ /\ wanted[r].rbytes = 0
        /\ RespondRead(r)
        /\ UNCHANGED <<pc, serving, inTask>>
     \/ /\ wanted[r].rbytes > 0 /\ wanted[r].code = "other"
        /\ wanted' = [wanted EXCEPT ![r].code = "unanswered"]
        /\ UNCHANGED <<pc, serving, inTask>>
     \/ /\ wanted[r].rbytes > 0 /\ wanted[r].code = "size"
        /\ serving' = [serving EXCEPT !["in"] = r]
        /\ left' = wanted[r].rbytes /\ Goto("in", "bytes")
        /\ UNCHANGED <<wanted, line>>
     \/ /\ wanted[r].rbytes > 0 /\ wanted[r].code = "terminator"
        /\ serving' = [serving EXCEPT !["in"] = r]
        /\ line' = <<>> /\ Goto("in", "lock")
        /\ UNCHANGED <<wanted, left>>
  /\ UNCHANGED <<text, outTask, emit, ready, lock, putter, rx, fault>>

\* Mutant: a read by size may take one byte too many.
GetBytePast ==
  /\ At("in", "bytes") /\ rx # <<>>
  /\ rx' = Tail(rx)
  /\ \/ left' = left - 1 /\ UNCHANGED fault
     \/ /\ left = wanted[serving["in"]].rbytes
        /\ fault' = "stored_through_NULL" /\ UNCHANGED left
  /\ UNCHANGED <<clients, pc, serving, outTask, line, emit, ready, lock, putter>>

\* getc of a read by size, without the lock and without an echo.  The first byte
\* shows whether there was memory for the read, which is not checked.
GetByte ==
  /\ At("in", "bytes") /\ left > 0 /\ rx # <<>>
  /\ rx' = Tail(rx)
  /\ \/ left' = left - 1 /\ UNCHANGED fault
     \/ /\ left = wanted[serving["in"]].rbytes
        /\ fault' = "stored_through_NULL" /\ UNCHANGED left
  /\ UNCHANGED <<clients, pc, serving, outTask, line, emit, ready, lock, putter>>

\* Mutant: gets does not take the lock.
LockNot ==
  /\ At("in", "lock")
  /\ Goto("in", "gets") /\ shown' = <<>>
  /\ UNCHANGED <<clients, serving, outTask, inTask, emit, ready, lock, tx, amid, rx, fault>>

\* StdRead takes the lock for the whole line; shown starts with the line.
LockIn ==
  /\ At("in", "lock") /\ lock = Null
  /\ lock' = "in" /\ Goto("in", "gets")
  /\ shown' = <<>>
  /\ UNCHANGED <<clients, serving, outTask, inTask, emit, ready, tx, amid, rx, fault>>

\* Mutant: the cursor is moved back once.
EchoOnce(ch) ==
  CASE ch \in {"BS", "DEL"} /\ line # <<>> -> <<"BS", "SP">>
    [] ch = "CR" -> <<"LF", "CR">>
    [] OTHER -> <<ch>>

\* What gets puts for a key.
Echo(ch) ==
  CASE ch \in {"BS", "DEL"} /\ line # <<>> -> <<"BS", "SP", "BS">>
    [] ch = "CR" -> <<"LF", "CR">>
    [] OTHER -> <<ch>>

\* One turn of gets: a key is taken, then echoed.  After a line of InBuf
\* characters any key is stored past the buffer.
GetKey ==
  /\ At("in", "gets") /\ Printed("in") /\ rx # <<>>
  /\ rx' = Tail(rx)
  /\ LET ch == Head(rx)
     IN  \/ /\ Len(line) >= InBuf
            /\ fault' = "line_too_long"
            /\ UNCHANGED <<pc, line, emit>>
         \/ /\ Len(line) < InBuf
            /\ emit' = [emit EXCEPT !["in"] = Echo(ch)]
            /\ \/ /\ ch \in {"BS", "DEL"} /\ line # <<>>
                  /\ line' = Front(line) /\ UNCHANGED pc
               \/ /\ ch = "CR"
                  /\ IF line = <<>> THEN UNCHANGED pc ELSE Goto("in", "line")
                  /\ UNCHANGED line
               \/ /\ ch # "CR" /\ (ch \in {"BS", "DEL"} => line = <<>>)
                  /\ line' = Append(line, ch) /\ UNCHANGED pc
            /\ UNCHANGED fault
  /\ UNCHANGED <<clients, serving, outTask, left, ready, lock, putter>>

UnlockIn ==
  /\ At("in", "line") /\ Printed("in")
  /\ lock' = Null /\ Goto("in", "respond")
  /\ UNCHANGED <<clients, serving, outTask, inTask, emit, ready, putter, rx, fault>>

ReadDone ==
  /\ At("in", "respond") \/ (At("in", "bytes") /\ left = 0)
  /\ RespondRead(serving["in"])
  /\ serving' = [serving EXCEPT !["in"] = Null]
  /\ line' = <<>> /\ shown' = <<>>
  /\ Goto("in", "idle")
  /\ UNCHANGED <<text, outTask, left, emit, ready, lock, tx, amid, rx, fault>>

OutTask ==
  \/ (\E w \in Writer : TakeWrite(w)) \/ LockOut \/ UnlockOut \/ MsgRead \/ Written

InTask ==
  \/ (\E r \in Reader : TakeRead(r)) \/ GetByte \/ LockIn \/ GetKey \/ UnlockIn \/ ReadDone

Put(t) == PutWait(t) \/ PutStore(t)

Next ==
  \/ OutTask \/ InTask \/ (\E t \in Task : Put(t))
  \/ Transmit \/ (\E k \in Keys : Type(k))
  \/ (\E w \in Writer : Write(w)) \/ (\E r \in Reader : Read(r))

(***************************************************************************)
(* The tasks are scheduled and the UART transmits.  The kernel lets no     *)
(* client and no waiter of the lock starve.  Nobody has to type.           *)
(***************************************************************************)
Fairness ==
  /\ WF_vars(OutTask) /\ WF_vars(InTask) /\ WF_vars(Transmit)
  /\ \A t \in Task : WF_vars(Put(t))
  /\ SF_vars(LockOut)
  /\ \A w \in Writer : SF_vars(TakeWrite(w))

Spec == Init /\ [][Next]_vars /\ Fairness
-----------------------------------------------------------------------------
Char == {"a", "b", "LF", "CR", "BS", "DEL", "SP", "NUL"}

\* Type correctness of every variable.
TypeOK ==
  /\ text \in [Writer -> Texts \cup {Null}]
  /\ wanted \in [Reader -> [code : {"size", "terminator", "other", "unanswered"},
                            rbytes : Counts] \cup {Null}]
  /\ pc \in [Task -> {"idle", "lock", "puts", "more",
                     "bytes", "gets", "line", "respond"}]
  /\ serving \in [Task -> Writer \cup Reader \cup {Null}]
  /\ offset \in 0..(WordSize - 1)
  /\ chunk \in Seq(Char) /\ failed \in BOOLEAN /\ sent \in Seq(Char)
  /\ line \in Seq(Char) /\ Len(line) <= InBuf /\ left \in Nat
  /\ emit \in [Task -> Seq(Char)] /\ ready \subseteq Task
  /\ lock \in Task \cup {Null}
  /\ tx \in 0..TxDepth /\ rx \in Seq(Char)
  /\ amid \in Task \cup {Null} /\ shown \in Seq(Char)
  /\ fault \in {"none", "overrun", "stored_outside", "line_too_long", "stored_through_NULL"}

\* serial/main.c:23 with putc: no character is stored in a transmit FIFO that
\* the other task filled after this one had seen room in it.
NoOverrun == fault # "overrun"

\* serial/main.c:23-41: the characters of one puts, and the echo of one key,
\* come out one after the other, with none of the other task's among them.
ChunksContiguous == [][\A t \in ready \ ready' : amid \in {t, Null}]_vars

\* A stray backspace, which an empty line takes, is in the line but not on the
\* terminal.
Visible(l) == IF l # <<>> /\ l[1] = "BS" THEN Tail(l) ELSE l

\* gets: while a line is typed and the echo of its keys is out, the terminal shows
\* the line that the reader would get, but for a backspace at its start.
ShownIsLine == At("in", "gets") /\ Printed("in") => shown = Visible(line)

\* WriteStdOut: a write of a text without NUL whose chunks all came, and no error
\* among them, is answered when exactly its characters have been put, in their
\* order, line feeds and all, however the text was cut.
WritesDelivered ==
  [][\A w \in Writer :
       text[w] # Null /\ text'[w] = Null /\ Rest = 0 /\ ~failed /\ Nuls(text[w]) = {}
         => sent = PutAll(text[w])]_vars

\* serial/main.c:23, 34, 99-113: if every line that is begun is ended, and no write
\* meets errors of MsgRead for ever, then every write is answered, although output
\* waits while a line is being typed and an error moves the offset back.
WritesAnswered ==
  (lock = "in" ~> (lock # "in" \/ fault # "none")) /\ []<>~failed
    => \A w \in Writer : (text[w] # Null ~> (text[w] = Null \/ fault # "none"))
=============================================================================
