----------------------------- MODULE FileStore ------------------------------
(***************************************************************************)
(* What the proc server promises about the contents of files, without      *)
(* memory objects, words or pages: a file is a string of bytes, a client   *)
(* has a position in the file it holds, a transfer at the position moves   *)
(* it by the bytes transferred, and only the file a client holds can       *)
(* change under its hands.                                                 *)
(***************************************************************************)
EXTENDS Naturals, Sequences, SequencesExt

CONSTANTS Client, File, None, Byte, Position, Unit

VARIABLES
  text,     \* contents of each file; <<>> for a file that does not exist
  holds,    \* the file each client has open, or None
  writers,  \* clients that hold their file for writing
  at,       \* position of each client in its file, 0 when it has none
  got       \* what the last request returned, <<>> but for reads

vars == <<text, holds, writers, at, got>>

Init ==
  /\ text \in [File -> Seq(Byte)]
  /\ holds = [c \in Client |-> None]
  /\ writers = {}
  /\ at = [c \in Client |-> 0]
  /\ got = <<>>

\* A client takes a file, at its beginning, or leaves the one it has.
Open(c, f) ==
  /\ holds[c] = None
  /\ holds' = [holds EXCEPT ![c] = f]
  /\ writers' \in {writers, writers \cup {c}}
  /\ got' = <<>>
  /\ UNCHANGED <<text, at>>

Leave(c) ==
  /\ holds' = [holds EXCEPT ![c] = None]
  /\ writers' = writers \ {c}
  /\ at' = [at EXCEPT ![c] = 0]
  /\ UNCHANGED <<text, got>>

\* The bytes a client has ahead of it.
Ahead(c) == IF at[c] < Len(text[holds[c]]) THEN Len(text[holds[c]]) - at[c] ELSE 0

Move(c, n) == at' = [at EXCEPT ![c] = @ + n]

Read(c) ==
  /\ holds[c] # None
  /\ \E n \in 0..Ahead(c) :
       got' = SubSeq(text[holds[c]], at[c] + 1, at[c] + n) /\ Move(c, n)
  /\ UNCHANGED <<text, holds, writers>>

\* The bytes that fit replace those at the position; no file grows by a write.
Write(c) ==
  /\ holds[c] # None /\ c \in writers
  /\ \E n \in 1..Ahead(c) :
       /\ Move(c, n)
       /\ \E bytes \in [1..n -> Byte] :
            text' = [text EXCEPT ![holds[c]] =
                       SubSeq(@, 1, at[c]) \o bytes \o SubSeq(@, at[c] + n + 1, Len(@))]
  /\ got' = <<>>
  /\ UNCHANGED <<holds, writers>>

Seek(c) ==
  /\ holds[c] # None
  /\ \E p \in Position : at' = [at EXCEPT ![c] = p]
  /\ got' = <<>>
  /\ UNCHANGED <<text, holds, writers>>

\* A file keeps the bytes up to its new size, whole units; new bytes are zero.
Resize(c) ==
  /\ holds[c] # None
  /\ \E n \in {p \in Position : p % Unit = 0} :
       text' = [text EXCEPT ![holds[c]] =
                  [i \in 1..n |-> IF i <= Len(@) THEN @[i] ELSE 0]]
  /\ got' = <<>>
  /\ UNCHANGED <<holds, writers, at>>

\* A client stores a byte through its own mapping of the file it holds.
Store(c) ==
  /\ holds[c] # None
  /\ \E i \in 1..Len(text[holds[c]]), b \in Byte :
       text' = [text EXCEPT ![holds[c]] = ReplaceAt(@, i, b)]
  /\ UNCHANGED <<holds, writers, at, got>>

\* A request that is refused, or asks for nothing that is kept here.
Other ==
  /\ UNCHANGED <<holds, at, writers, text>>
  /\ got' = <<>>

Next ==
  \/ Other
  \/ \E c \in Client :
       \/ Leave(c) \/ Read(c) \/ Write(c) \/ Seek(c) \/ Resize(c) \/ Store(c)
       \/ \E f \in File : Open(c, f)

Spec == Init /\ [][Next]_vars
=============================================================================
