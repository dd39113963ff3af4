---------------------------- MODULE FileSessions ----------------------------
(***************************************************************************)
(* What the servers promise about files (or pins) and the clients that     *)
(* hold them, without tables, lists, counters or handlers: a client holds  *)
(* at most one file, from the open that succeeds to its own disconnection, *)
(* or to its close where the server has one, and a file is deleted only    *)
(* while nobody holds it.                                                  *)
(***************************************************************************)
EXTENDS Naturals

CONSTANTS
  Client, File, None,
  Closes      \* whether a close ends the holding, or only the disconnection

VARIABLES
  connected,  \* clients with a connection
  holds,      \* the file each client has open, or None
  exists      \* files there are

vars == <<connected, holds, exists>>

Init ==
  /\ connected = {}
  /\ holds = [c \in Client |-> None]
  /\ exists \in SUBSET File

Connect(c) ==
  /\ c \notin connected
  /\ connected' = connected \cup {c}
  /\ UNCHANGED <<holds, exists>>

Disconnect(c) ==
  /\ c \in connected
  /\ connected' = connected \ {c}
  /\ holds' = [holds EXCEPT ![c] = None]
  /\ UNCHANGED exists

\* A close of a server that handles it.
Close(c) ==
  /\ Closes /\ holds[c] # None
  /\ holds' = [holds EXCEPT ![c] = None]
  /\ UNCHANGED <<connected, exists>>

\* An open makes the file if it is not there.
Open(c, f) ==
  /\ c \in connected /\ holds[c] = None
  /\ holds' = [holds EXCEPT ![c] = f]
  /\ exists' = exists \cup {f}
  /\ UNCHANGED connected

\* A file made by an open that is then refused.
Create(f) ==
  /\ f \notin exists
  /\ exists' = exists \cup {f}
  /\ UNCHANGED <<connected, holds>>

Delete(f) ==
  /\ f \in exists /\ \A c \in Client : holds[c] # f
  /\ exists' = exists \ {f}
  /\ UNCHANGED <<connected, holds>>

Next ==
  \/ \E c \in Client : Connect(c) \/ Disconnect(c) \/ Close(c)
  \/ \E c \in Client, f \in File : Open(c, f)
  \/ \E f \in File : Create(f) \/ Delete(f)

Spec == Init /\ [][Next]_vars
=============================================================================
