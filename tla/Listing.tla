------------------------------ MODULE Listing ------------------------------
(***************************************************************************)
(* What the shell of rawfs promises about its files, without blocks, links *)
(* or counters: a list in the order of loading, in which a name stands for *)
(* the oldest file that has it.                                            *)
(***************************************************************************)
EXTENDS Naturals, Sequences, SequencesExt

CONSTANTS Name, Size

VARIABLES
  listing,  \* the files there are, [name, size], oldest first
  said      \* what the last command came to, [cmd, ret, size]

vars == <<listing, said>>

Init == listing = <<>> /\ said = [cmd |-> "none", ret |-> "none", size |-> 0]

Say(cmd, ret, size) == said' = [cmd |-> cmd, ret |-> ret, size |-> size]

Has(name) == \E i \in DOMAIN listing : listing[i].name = name
Oldest(name) == SelectInSeq(listing, LAMBDA f : f.name = name)

Load(name, size) ==
  /\ listing' = Append(listing, [name |-> name, size |-> size])
  /\ Say("load", "E_OK", size)

Delete(name) ==
  \/ /\ Has(name)
     /\ listing' = RemoveAt(listing, Oldest(name))
     /\ Say("delete", "E_OK", listing[Oldest(name)].size)
  \/ /\ ~Has(name)
     /\ Say("delete", "E_ERROR", 0)
     /\ UNCHANGED listing

\* A command that uses the file of that name.
Use(cmd, name) ==
  /\ \/ Has(name) /\ Say(cmd, "E_OK", listing[Oldest(name)].size)
     \/ ~Has(name) /\ Say(cmd, "E_ERROR", 0)
  /\ UNCHANGED listing

\* Loading and starting a program may fail, and other commands leave the files alone.
Fail(cmd) == Say(cmd, "E_ERROR", 0) /\ UNCHANGED listing
Other(cmd) == Say(cmd, "E_OK", 0) /\ UNCHANGED listing

Next ==
  \/ \E name \in Name, size \in Size : Load(name, size)
  \/ \E name \in Name : Delete(name) \/ Use("ls", name) \/ Use("exec", name)
  \/ Fail("load") \/ Fail("exec") \/ Other("ls") \/ Other("other")

Spec == Init /\ [][Next]_vars
=============================================================================
