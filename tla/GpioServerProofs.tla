-------------------------- MODULE GpioServerProofs --------------------------
(***************************************************************************)
(* Proofs about the gpio server, for ports and registers of any size, any  *)
(* clients and any pins asked for: types, the list (every client is found  *)
(* through it), sessions, and that the registers keep pins apart.  Last,   *)
(* the blinker, which is a client of it like any other.                    *)
(***************************************************************************)
EXTENDS Blinker, Induction, TLAPS

(***************************************************************************)
(* The arithmetic of the registers.                                        *)
(***************************************************************************)
LEMMA SplitUnique ==
  ASSUME NEW a \in Nat, NEW b \in Nat, NEW m \in Nat \ {0}, a \div m = b \div m, a % m = b % m
  PROVE  a = b
  OBVIOUS

LEMMA SplitRange ==
  ASSUME NEW a \in Nat, NEW l \in Nat, NEW m \in Nat \ {0}
  PROVE  /\ a \div m \in Nat /\ a % m \in Nat
         /\ a \div m < l <=> a < l * m
         /\ (a \div m) * m + (a % m) = a
  OBVIOUS

\* Each pin has a field of its own and a bit of its own.
LEMMA FieldUnique ==
  ASSUME NEW p \in Nat, NEW q \in Nat
  PROVE  /\ CfgField(p) = CfgField(q) => p = q
         /\ DatBit(p) = DatBit(q) => p = q
<1>1. PortSize \in Nat \ {0} /\ CfgPins \in Nat \ {0}
  BY PinAssumption
<1>2. GPIO_NUM(p) \in Nat /\ GPIO_NUM(q) \in Nat
  BY <1>1, SplitRange DEF GPIO_NUM
<1>3. GPIO_BANK(p) = GPIO_BANK(q) /\ GPIO_NUM(p) = GPIO_NUM(q) => p = q
  BY <1>1, SplitUnique DEF GPIO_BANK, GPIO_NUM
<1>4. GPIO_NUM(p) \div CfgPins = GPIO_NUM(q) \div CfgPins /\ GPIO_NUM(p) % CfgPins = GPIO_NUM(q) % CfgPins
      => GPIO_NUM(p) = GPIO_NUM(q)
  BY <1>1, <1>2, SplitUnique
<1> QED
  BY <1>3, <1>4 DEF CfgField, DatBit

\* A pin that passes for one of a mapped port is one.
LEMMA MappedIsPin ==
  ASSUME NEW pin \in PinRequests \cup {GPIO_PIN_INVALID}, pin # GPIO_PIN_INVALID, Mapped(pin)
  PROVE  pin \in MappedPins
<1>1. PortSize \in Nat \ {0} /\ GPIO_L \in Nat /\ PinWidth \in Nat
      /\ 2 * ((GPIO_L + 1) * PortSize) <= PinWidth
  BY PinAssumption DEF GPIO_PINS
<1>2. pin \in Int /\ -PinWidth <= 2 * pin
  BY PinAssumption
<1>3. (GPIO_L + 1) * PortSize = GPIO_L * PortSize + PortSize /\ GPIO_L * PortSize \in Nat
  BY <1>1
<1>4. Unsigned(pin) \in Nat
  BY <1>1, <1>2 DEF Unsigned
<1>5. Unsigned(pin) < GPIO_L * PortSize
  BY <1>1, <1>4, SplitRange DEF Mapped, GPIO_BANK
<1>6. pin >= 0
  BY <1>1, <1>2, <1>3, <1>5 DEF Unsigned
<1> QED
  BY <1>2, <1>3, <1>5, <1>6 DEF Unsigned, MappedPins

LEMMA MappedAreNat == MappedPins \subseteq Nat
  BY PinAssumption DEF MappedPins

(***************************************************************************)
(* Types.  That the list leads from client to client takes its shape: no   *)
(* two clients come before the same one, and none before the first.        *)
(***************************************************************************)
NextUnique ==
  \A c, d \in Attached : client[c].next = client[d].next /\ client[c].next # Null => c = d

NothingBeforeFirst == \A c \in Attached : client[c].next # Null => client[c].next # first

ListLinked ==
  /\ first \in Attached \cup {Null}
  /\ \A c \in Attached : client[c].next \in Attached \cup {Null}

\* The inductive invariant.
GpioInv == GpioTypeOK /\ ListLinked /\ NextUnique /\ NothingBeforeFirst

LEMMA GpioInvInit == GpioInit => GpioInv
<1> SUFFICES ASSUME GpioInit PROVE GpioInv
  OBVIOUS
<1>1. GpioTypeOK
  BY DEF GpioInit, GpioTypeOK
<1>2. Attached = {}
  BY DEF GpioInit, Attached
<1> QED
  BY <1>1, <1>2 DEF GpioInit, GpioInv, ListLinked, NextUnique, NothingBeforeFirst

\* A step that leaves the list alone, but for what clients have open.
LEMMA ListStays ==
  ASSUME GpioInv, UNCHANGED <<first, last>>, GpioTypeOK',
         \A c \in Scoid : client'[c] = Null <=> client[c] = Null,
         \A c \in Attached : client'[c].next = client[c].next
  PROVE  GpioInv'
<1>1. Attached' = Attached
  BY DEF Attached
<1> QED
  BY <1>1 DEF GpioInv, ListLinked, NextUnique, NothingBeforeFirst

LEMMA ConnectKeeps ==
  ASSUME GpioInv, NEW c \in Scoid, GpioConnect(c)
  PROVE  GpioInv'
<1> DEFINE new == [next |-> first, prev |-> Null,
                   pin |-> GPIO_PIN_INVALID, access |-> GPIO_ACCESS_INVALID]
<1>1. new \in Client /\ new.next = first
  BY DEF Client, GpioInv, GpioTypeOK
<1>2. new # Null
  BY <1>1, NullAssumption
<1>3. client' = [client EXCEPT ![c] = new] /\ first' = c /\ client[c] = Null
      /\ last' \in {last, c} /\ UNCHANGED <<regs, reply, fault>>
  BY DEF GpioConnect, ClientInsert
<1> HIDE DEF new
<1>4. c \notin Attached /\ Attached' = Attached \cup {c} /\ client'[c] = new
      /\ \A d \in Attached : client'[d] = client[d]
  BY <1>2, <1>3 DEF Attached, GpioInv, GpioTypeOK
<1>5. GpioTypeOK'
  BY <1>1, <1>3 DEF GpioInv, GpioTypeOK, regs
<1> QED
  BY <1>1, <1>3, <1>4, <1>5, NullAssumption
  DEF GpioInv, ListLinked, NextUnique, NothingBeforeFirst

LEMMA DisconnectKeeps ==
  ASSUME GpioInv, NEW c \in Scoid, GpioDisconnect(c)
  PROVE  GpioInv'
<1>1. CASE c # first
  BY <1>1, ListStays DEF GpioDisconnect, Die, list, regs, GpioInv, GpioTypeOK
<1>2. CASE c = first /\ Unlink(c) /\ UNCHANGED <<regs, reply, fault>> /\ client[c] # Null
  <2> DEFINE next == client[c].next
  <2>1. c \in Attached /\ next \in Attached \cup {Null} /\ next # c
        /\ client[c] \in Client
    BY <1>2, NullAssumption DEF Attached, GpioInv, ListLinked, NothingBeforeFirst, GpioTypeOK
  <2>2. ASSUME NEW d \in Attached, d # c
        PROVE  client'[d].next = client[d].next /\ client'[d] \in Client
    BY <1>2, <2>1, <2>2 DEF Unlink, Client, GpioInv, GpioTypeOK, Attached
  <2>3. DOMAIN client' = Scoid /\ client'[c] = Null
        /\ \A d \in Scoid \ Attached : client'[d] = Null
    <3>1. CASE client' = [client EXCEPT ![c] = Null]
      BY <2>1, <3>1 DEF GpioInv, GpioTypeOK, Attached
    <3>2. CASE client' = [client EXCEPT ![next].prev = client[c].prev, ![c] = Null]
      <4>1. \A d \in Scoid \ Attached : d # next
        BY <2>1, NullAssumption DEF Attached
      <4> HIDE DEF next
      <4> QED
        BY <2>1, <3>2, <4>1 DEF GpioInv, GpioTypeOK, Attached
    <3> QED
      BY <1>2, <3>1, <3>2 DEF Unlink
  <2>4. client' \in [Scoid -> Client \cup {Null}]
    BY <1>2, <2>2, <2>3 DEF Unlink, GpioInv, GpioTypeOK
  <2>5. first' = next /\ last' \in Scoid \cup {Null}
    BY <1>2, <2>1 DEF Unlink, Client, GpioInv, GpioTypeOK
  <2>6. GpioTypeOK'
    BY <1>2, <2>1, <2>4, <2>5 DEF GpioInv, GpioTypeOK, regs, Attached
  <2>7. Attached' = Attached \ {c}
    BY <2>2, <2>3, NullAssumption DEF Attached
  <2>8. \A d \in Attached' : client'[d].next = client[d].next /\ client[d].next # c
    BY <1>2, <2>1, <2>2, <2>7, NullAssumption DEF GpioInv, NothingBeforeFirst
  <2>9. \A d \in Attached' : client[d].next # Null => client[d].next # next
    BY <2>1, <2>7 DEF GpioInv, NextUnique
  <2> QED
    BY <2>1, <2>5, <2>6, <2>7, <2>8, <2>9
    DEF GpioInv, ListLinked, NextUnique, NothingBeforeFirst
<1> QED
  BY <1>1, <1>2 DEF GpioDisconnect

\* A request of a client, which leaves its block with the same next.
LEMMA RequestKeeps ==
  ASSUME GpioInv, NEW c \in Scoid, client[c] # Null, UNCHANGED <<first, last>>,
         NEW pin \in PinRequests \cup {GPIO_PIN_INVALID},
         NEW access \in {GPIO_ACCESS_INVALID, GPIO_INPUT, GPIO_OUTPUT},
         client' = [client EXCEPT ![c].pin = pin, ![c].access = access],
         UNCHANGED regs, reply' \in [con : Scoid, ret : {"E_OK"}], UNCHANGED fault
  PROVE  GpioInv'
<1>1. client[c] \in Client
  BY DEF GpioInv, GpioTypeOK
<1>2. client'[c].next = client[c].next /\ client'[c] \in Client
      /\ \A d \in Scoid \ {c} : client'[d] = client[d]
  BY <1>1 DEF Client, GpioInv, GpioTypeOK
<1>3. client' \in [Scoid -> Client \cup {Null}] /\ client'[c] # Null
  BY <1>2, NullAssumption DEF GpioInv, GpioTypeOK
<1>4. GpioTypeOK'
  BY <1>3 DEF GpioInv, GpioTypeOK, regs
<1> QED
  BY <1>2, <1>3, <1>4, ListStays DEF Attached

\* A handler that leaves the list alone.
LEMMA QuietKeeps ==
  ASSUME GpioInv, UNCHANGED list, GpioTypeOK'
  PROVE  GpioInv'
  BY ListStays DEF list

LEMMA OpenKeeps ==
  ASSUME GpioInv, NEW c \in Scoid, NEW size, NEW pin \in PinRequests, NEW mode,
         GpioOpen(c, size, pin, mode)
  PROVE  GpioInv'
<1>1. client[c] # Null /\ UNCHANGED <<first, last, regs>> /\ UNCHANGED fault
      /\ \E ret \in {"E_BUSY", "E_INVAL", "E_OK"} : reply' = [con |-> c, ret |-> ret]
  BY DEF GpioOpen, Request, Respond
<1>2. CASE UNCHANGED client
  BY <1>1, <1>2, QuietKeeps DEF GpioInv, GpioTypeOK, list, regs
<1>3. ASSUME NEW access \in {GPIO_INPUT, GPIO_OUTPUT}, Respond(c, "E_OK"),
             client' = [client EXCEPT ![c].pin = pin, ![c].access = access]
      PROVE  GpioInv'
  BY <1>1, <1>3, RequestKeeps DEF Respond
<1> QED
  BY <1>2, <1>3 DEF GpioOpen

LEMMA CloseKeeps ==
  ASSUME GpioInv, NEW c \in Scoid, GpioClose(c)
  PROVE  GpioInv'
  BY RequestKeeps DEF GpioClose, Request, Respond

LEMMA ReadKeeps ==
  ASSUME GpioInv, NEW c \in Scoid, GpioRead(c)
  PROVE  GpioInv'
  BY QuietKeeps DEF GpioRead, Respond, Die, GpioInv, GpioTypeOK, list, regs

LEMMA WriteKeeps ==
  ASSUME GpioInv, NEW c \in Scoid, NEW size, NEW value, GpioWrite(c, size, value)
  PROVE  GpioInv'
<1>1. UNCHANGED list
  BY DEF GpioWrite, Die
<1>2. CASE UNCHANGED regs
  BY <1>1, <1>2, QuietKeeps DEF GpioWrite, Respond, Die, GpioInv, GpioTypeOK, list, regs
<1>3. CASE /\ cfg' = [cfg EXCEPT ![CfgField(client[c].pin)] = GPIO_OUTPUT]
           /\ GpioOutput(client[c].pin, IF value = 0 THEN "low" ELSE "high")
           /\ Respond(c, "E_OK")
  <2>1. dat' \in [DOMAIN dat -> {"low", "high", "world"}]
    BY <1>3 DEF GpioOutput, GpioInv, GpioTypeOK
  <2>2. GpioTypeOK'
    BY <1>1, <1>3, <2>1 DEF Respond, GpioInv, GpioTypeOK, list
  <2> QED
    BY <1>1, <2>2, QuietKeeps
<1> QED
  BY <1>2, <1>3 DEF GpioWrite, Die

LEMMA GpioStep == GpioInv /\ [\E c \in Scoid : GpioNext(c)]_gpioVars => GpioInv'
<1> SUFFICES ASSUME GpioInv, [\E c \in Scoid : GpioNext(c)]_gpioVars PROVE GpioInv'
  OBVIOUS
<1>1. ASSUME NEW c \in Scoid, GpioNext(c) PROVE GpioInv'
  BY <1>1, ConnectKeeps, DisconnectKeeps, OpenKeeps, CloseKeeps, ReadKeeps, WriteKeeps DEF GpioNext
<1>2. CASE UNCHANGED gpioVars
  BY <1>2, QuietKeeps DEF gpioVars, list, GpioInv, GpioTypeOK
<1> QED
  BY <1>1, <1>2

LEMMA GpioInductive == GpioSpec => []GpioInv
  BY GpioInvInit, GpioStep, PTL DEF GpioSpec

(***************************************************************************)
(* The list.  It enumerates the clients: Lists(n, l) says that l[1], ...,  *)
(* l[n] are the clients, each once, in the order of the links.             *)
(***************************************************************************)
Lists(n, l) ==
  /\ \A c \in Scoid : client[c] # Null <=> \E i \in 1..n : l[i] = c
  /\ \A i, j \in 1..n : l[i] = l[j] => i = j
  /\ \A i \in 1..n : client[l[i]].next = IF i = n THEN Null ELSE l[i + 1]
  /\ \A i \in 1..n : client[l[i]].prev = Null
  /\ first = IF n = 0 THEN Null ELSE l[1]
  /\ last = IF n = 0 THEN Null ELSE l[n]

ListInv == \E n \in Nat : \E l \in [1..n -> Scoid] : Lists(n, l)

LEMMA ListInit == GpioInit => ListInv
<1> SUFFICES ASSUME GpioInit PROVE ListInv
  OBVIOUS
<1> DEFINE none == [i \in 1..0 |-> Null]
<1>1. none \in [1..0 -> Scoid]
  OBVIOUS
<1>2. Lists(0, none)
  BY DEF GpioInit, Lists
<1> HIDE DEF none
<1> QED
  BY <1>1, <1>2 DEF ListInv

\* A new client comes before the others.
LEMMA ConnectLists ==
  ASSUME GpioInv, ListInv, NEW c \in Scoid, GpioConnect(c)
  PROVE  ListInv'
<1>1. PICK n \in Nat : \E l \in [1..n -> Scoid] : Lists(n, l)
  BY DEF ListInv
<1>2. PICK l \in [1..n -> Scoid] : Lists(n, l)
  BY <1>1
<1> DEFINE new == [next |-> first, prev |-> Null,
                   pin |-> GPIO_PIN_INVALID, access |-> GPIO_ACCESS_INVALID]
           m == [i \in 1..(n + 1) |-> IF i = 1 THEN c ELSE l[i - 1]]
<1>3. new \in Client /\ new # Null /\ new.next = first /\ new.prev = Null
  BY NullAssumption DEF Client, GpioInv, GpioTypeOK
<1>4. client' = [client EXCEPT ![c] = new] /\ first' = c /\ client[c] = Null
      /\ last' = IF last = Null THEN c ELSE last
  BY DEF GpioConnect, ClientInsert
<1>5. DOMAIN client = Scoid
  BY DEF GpioInv, GpioTypeOK
<1> HIDE DEF new
<1>6. client'[c] = new /\ \A d \in Scoid \ {c} : client'[d] = client[d]
  BY <1>4, <1>5
<1>7. m \in [1..(n + 1) -> Scoid] /\ m[1] = c
  OBVIOUS
<1>8. \A i \in 1..n : m[i + 1] = l[i] /\ l[i] \in Scoid /\ l[i] # c
  BY <1>2, <1>4 DEF Lists
<1>9. \A i \in 1..(n + 1) : i = 1 \/ (i - 1 \in 1..n /\ m[i] = l[i - 1])
  OBVIOUS
<1> HIDE DEF m
<1>10. ASSUME NEW d \in Scoid
       PROVE  client'[d] # Null <=> \E i \in 1..(n + 1) : m[i] = d
  <2>1. 1 \in 1..(n + 1) /\ \A i \in 1..n : i + 1 \in 1..(n + 1)
    OBVIOUS
  <2>2. CASE d = c
    BY <1>3, <1>6, <1>7, <2>1, <2>2
  <2>3. CASE d # c
    <3>1. client'[d] # Null <=> \E i \in 1..n : l[i] = d
      BY <1>2, <1>6, <2>3 DEF Lists
    <3>2. (\E i \in 1..n : l[i] = d) => \E i \in 1..(n + 1) : m[i] = d
      BY <1>8, <2>1
    <3>3. (\E i \in 1..(n + 1) : m[i] = d) => \E i \in 1..n : l[i] = d
      BY <1>7, <1>9, <2>3
    <3> QED
      BY <3>1, <3>2, <3>3
  <2> QED
    BY <2>2, <2>3
<1>11. \A i, j \in 1..(n + 1) : m[i] = m[j] => i = j
  BY <1>2, <1>7, <1>8, <1>9 DEF Lists
<1>12. ASSUME NEW i \in 1..(n + 1)
       PROVE  /\ client'[m[i]].next = IF i = n + 1 THEN Null ELSE m[i + 1]
              /\ client'[m[i]].prev = Null
  <2>1. CASE i = 1
    <3>1. n # 0 => m[2] = l[1]
      BY <1>8
    <3> QED
      BY <1>2, <1>3, <1>6, <1>7, <2>1, <3>1 DEF Lists
  <2>2. CASE i - 1 \in 1..n /\ m[i] = l[i - 1]
    <3>1. i # n + 1 => m[i + 1] = l[i]
      BY <1>8, <2>2
    <3>2. client'[m[i]] = client[l[i - 1]]
      BY <1>6, <1>8, <2>2
    <3>3. client[l[i - 1]].next = (IF i - 1 = n THEN Null ELSE l[(i - 1) + 1])
          /\ client[l[i - 1]].prev = Null
      BY <1>2, <2>2 DEF Lists
    <3> QED
      BY <2>2, <3>1, <3>2, <3>3
  <2> QED
    BY <1>9, <2>1, <2>2
<1>13. first' = m[1] /\ last' = m[n + 1]
  BY <1>2, <1>4, <1>7, <1>8, NullAssumption DEF Lists
<1>14. Lists(n + 1, m)'
  BY <1>10, <1>11, <1>12, <1>13 DEF Lists
<1> QED
  BY <1>7, <1>14 DEF ListInv

\* Only the first client is ever removed.
LEMMA UnlinkLists ==
  ASSUME GpioInv, ListInv, NEW c \in Scoid, client[c] # Null, c = first, Unlink(c)
  PROVE  ListInv'
<1>1. PICK n \in Nat : \E l \in [1..n -> Scoid] : Lists(n, l)
  BY DEF ListInv
<1>2. PICK l \in [1..n -> Scoid] : Lists(n, l)
  BY <1>1
<1> DEFINE m == [i \in 1..(n - 1) |-> l[i + 1]]
<1>3. n # 0 /\ n - 1 \in Nat /\ l[1] = c
  BY <1>2, NullAssumption DEF Lists
<1>4. client[c].next = (IF n = 1 THEN Null ELSE l[2]) /\ client[c].prev = Null
      /\ (c = last <=> n = 1)
  <2>1. 1 \in 1..n /\ n \in 1..n
    BY <1>3
  <2>2. client[l[1]].next = (IF 1 = n THEN Null ELSE l[1 + 1]) /\ client[l[1]].prev = Null
    BY <1>2, <2>1 DEF Lists
  <2>3. last = l[n] /\ (l[1] = l[n] => 1 = n)
    BY <1>2, <1>3, <2>1 DEF Lists
  <2> QED
    BY <1>3, <2>2, <2>3
<1>5. DOMAIN client = Scoid /\ \A d \in Scoid : client[d] # Null => client[d] \in Client
  BY DEF GpioInv, GpioTypeOK
<1>6. m \in [1..(n - 1) -> Scoid] /\ \A i \in 1..(n - 1) : m[i] = l[i + 1]
  BY <1>3
<1> HIDE DEF m
<1>7. \A i \in 1..(n - 1) : i + 1 \in 1..n /\ m[i] # c
  <2>1. \A i \in 1..(n - 1) : i + 1 \in 1..n /\ i + 1 # 1 /\ 1 \in 1..n
    BY <1>3
  <2> QED
    BY <1>2, <1>3, <1>6, <2>1 DEF Lists
<1>8. ASSUME NEW i \in 1..(n - 1)
      PROVE  client'[m[i]] \in Client /\ client'[m[i]].next = client[m[i]].next
             /\ client'[m[i]].prev = Null
  <2>1. m[i] \in Scoid /\ m[i] # c /\ client[m[i]] # Null /\ client[m[i]].prev = Null
    BY <1>2, <1>6, <1>7 DEF Lists
  <2>2. client[m[i]] \in Client
    BY <1>5, <2>1
  <2>3. n # 1 /\ client' = [client EXCEPT ![client[c].next].prev = client[c].prev, ![c] = Null]
    BY <1>3, <1>4 DEF Unlink
  <2>4. client'[m[i]] = client[m[i]] \/ client'[m[i]] = [client[m[i]] EXCEPT !.prev = Null]
    BY <1>4, <1>5, <2>1, <2>3
  <2> QED
    BY <2>1, <2>2, <2>4 DEF Client
<1>9. client'[c] = Null /\ DOMAIN client' = Scoid
      /\ \A d \in Scoid : client[d] = Null => client'[d] = Null
  <2>1. n # 1 => l[2] \in Scoid /\ client[l[2]] # Null
    BY <1>2, <1>3 DEF Lists
  <2>2. CASE n = 1
    BY <1>4, <1>5, <2>2 DEF Unlink
  <2>3. CASE n # 1
    <3>1. client' = [client EXCEPT ![l[2]].prev = Null, ![c] = Null]
      BY <1>4, <2>3 DEF Unlink
    <3> QED
      BY <1>5, <2>1, <2>3, <3>1
  <2> QED
    BY <2>2, <2>3
<1>10. ASSUME NEW d \in Scoid
       PROVE  client'[d] # Null <=> \E i \in 1..(n - 1) : m[i] = d
  <2>1. ASSUME NEW i \in 1..(n - 1), m[i] = d PROVE client'[d] # Null
    BY <1>8, <2>1, NullAssumption
  <2>2. ASSUME client'[d] # Null PROVE \E i \in 1..(n - 1) : m[i] = d
    <3>1. d # c /\ client[d] # Null
      BY <1>9, <2>2
    <3>2. PICK i \in 1..n : l[i] = d
      BY <1>2, <3>1 DEF Lists
    <3>3. i - 1 \in 1..(n - 1) /\ m[i - 1] = l[(i - 1) + 1]
      BY <1>3, <1>6, <3>1, <3>2
    <3> QED
      BY <3>2, <3>3
  <2> QED
    BY <2>1, <2>2
<1>11. \A i, j \in 1..(n - 1) : m[i] = m[j] => i = j
  BY <1>2, <1>6, <1>7 DEF Lists
<1>12. ASSUME NEW i \in 1..(n - 1)
       PROVE  client'[m[i]].next = IF i = n - 1 THEN Null ELSE m[i + 1]
  <2>1. client'[m[i]].next = IF i + 1 = n THEN Null ELSE l[(i + 1) + 1]
    BY <1>2, <1>6, <1>7, <1>8 DEF Lists
  <2>2. i # n - 1 => m[i + 1] = l[(i + 1) + 1]
    BY <1>6
  <2> QED
    BY <2>1, <2>2
<1>13. first' = IF n - 1 = 0 THEN Null ELSE m[1]
  BY <1>3, <1>4, <1>6 DEF Unlink
<1>14. last' = IF n - 1 = 0 THEN Null ELSE m[n - 1]
  BY <1>2, <1>3, <1>4, <1>6 DEF Unlink, Lists
<1>15. Lists(n - 1, m)'
  BY <1>8, <1>10, <1>11, <1>12, <1>13, <1>14 DEF Lists
<1> QED
  BY <1>3, <1>6, <1>15 DEF ListInv

\* Any other step keeps the links.
LEMMA QuietLists ==
  ASSUME ListInv, UNCHANGED <<first, last>>,
         \A d \in Scoid : /\ client'[d] = Null <=> client[d] = Null
                          /\ client[d] # Null => client'[d].next = client[d].next
                                                 /\ client'[d].prev = client[d].prev
  PROVE  ListInv'
<1>1. PICK n \in Nat : \E l \in [1..n -> Scoid] : Lists(n, l)
  BY DEF ListInv
<1>2. PICK l \in [1..n -> Scoid] : Lists(n, l)
  BY <1>1
<1>3. \A i \in 1..n : l[i] \in Scoid /\ client[l[i]] # Null
  BY <1>2 DEF Lists
<1>4. Lists(n, l)'
  BY <1>2, <1>3 DEF Lists
<1> QED
  BY <1>4 DEF ListInv

LEMMA ListStep == GpioInv /\ ListInv /\ [\E c \in Scoid : GpioNext(c)]_gpioVars => ListInv'
<1> SUFFICES ASSUME GpioInv, ListInv, [\E c \in Scoid : GpioNext(c)]_gpioVars PROVE ListInv'
  OBVIOUS
<1>1. CASE UNCHANGED <<first, last, client>>
  BY <1>1, QuietLists
<1>2. ASSUME NEW c \in Scoid, GpioDisconnect(c) PROVE ListInv'
  BY <1>1, <1>2, UnlinkLists DEF GpioDisconnect, Die, list
<1>3. ASSUME NEW c \in Scoid, NEW pin \in PinRequests \cup {GPIO_PIN_INVALID},
             NEW access \in {GPIO_ACCESS_INVALID, GPIO_INPUT, GPIO_OUTPUT},
             UNCHANGED <<first, last>>, client[c] # Null,
             client' = [client EXCEPT ![c].pin = pin, ![c].access = access]
      PROVE  ListInv'
  <2>1. DOMAIN client = Scoid /\ client[c] \in Client
    BY <1>3 DEF GpioInv, GpioTypeOK
  <2>2. client'[c] = [client[c] EXCEPT !.pin = pin, !.access = access]
        /\ \A d \in Scoid \ {c} : client'[d] = client[d]
    BY <1>3, <2>1
  <2>3. client'[c] # Null
    <3>1. client'[c] \in Client
      BY <2>1, <2>2 DEF Client
    <3> QED
      BY <3>1, NullAssumption
  <2>4. client'[c].next = client[c].next /\ client'[c].prev = client[c].prev
    BY <2>1, <2>2 DEF Client
  <2> QED
    BY <1>3, <2>2, <2>3, <2>4, QuietLists
<1>4. ASSUME NEW c \in Scoid, GpioNext(c) PROVE ListInv'
  BY <1>1, <1>2, <1>3, <1>4, ConnectLists
  DEF GpioNext, GpioOpen, GpioClose, GpioRead, GpioWrite, Request, Die, list
<1> QED
  BY <1>1, <1>4 DEF gpioVars

LEMMA ListInductive == GpioSpec => []ListInv
  BY ListInit, ListStep, GpioInductive, PTL DEF GpioSpec

\* ClientFind and ClientInsert's walks meet the clients and nothing else.
LEMMA WalkMeetsAll ==
  ASSUME GpioInv, NEW n \in Nat, NEW l \in [1..n -> Scoid], Lists(n, l)
  PROVE  Walk(first) = Attached
<1> DEFINE top == Cardinality(Scoid)
           T == Attached \cup {Null}
           step == [x \in (1..top) \X T |-> IF x[2] = Null THEN Null ELSE client[x[2]].next]
           IsHop(h) == h = [k \in 0..top |->
                              IF k = 0 THEN first
                              ELSE IF h[k - 1] = Null THEN Null ELSE client[h[k - 1]].next]
           hop == CHOOSE h : IsHop(h)
<1>1. top \in Nat /\ n <= top
  BY ScoidAssumption, EnumerationBound, FS_CardinalityType DEF Lists
<1>2. first \in T /\ \A c \in Attached : client[c].next \in T
  BY DEF GpioInv, ListLinked
<1>3. step \in [(1..top) \X T -> T]
  BY <1>2
<1>4. \E h : IsHop(h)
  <2> HIDE DEF top, T, step
  <2>1. PICK f : Computes(f, T, first, top, step)
    BY <1>1, <1>2, <1>3, RecursionExists
  <2>2. \A k \in 1..top : f[k] = IF f[k - 1] = Null THEN Null ELSE client[f[k - 1]].next
    <3> SUFFICES ASSUME NEW k \in 1..top
                 PROVE  f[k] = IF f[k - 1] = Null THEN Null ELSE client[f[k - 1]].next
      OBVIOUS
    <3>1. f[k - 1] \in T /\ f[k] = step[<<k, f[k - 1]>>]
      BY <1>1, <2>1 DEF Computes
    <3>2. <<k, f[k - 1]>> \in (1..top) \X T
      BY <3>1
    <3> QED
      BY <3>1, <3>2 DEF step
  <2>3. IsHop(f)
    BY <1>1, <2>1, <2>2 DEF Computes
  <2> QED
    BY <2>3
<1>5. IsHop(hop)
  <2> HIDE DEF IsHop
  <2> QED
    BY <1>4, Zenon
<1>6. Walk(first) = {hop[k] : k \in 0..top} \ {Null}
  BY Zenon DEF Walk
<1> HIDE DEF hop, top, T, step
<1>7. ASSUME NEW k \in 0..top PROVE hop[k] = IF k < n THEN l[k + 1] ELSE Null
  <2> DEFINE S == {j \in Nat : j <= top => hop[j] = IF j < n THEN l[j + 1] ELSE Null}
  <2>1. 0 \in S
    BY <1>1, <1>5 DEF Lists
  <2>2. ASSUME NEW j \in Nat, j \in S PROVE j + 1 \in S
    <3> SUFFICES ASSUME j + 1 <= top
                 PROVE  hop[j + 1] = IF j + 1 < n THEN l[(j + 1) + 1] ELSE Null
      OBVIOUS
    <3>1. hop[j] = IF j < n THEN l[j + 1] ELSE Null
      BY <1>1, <2>2
    <3>2. hop[j + 1] = IF hop[j] = Null THEN Null ELSE client[hop[j]].next
      <4>1. j + 1 \in 0..top /\ j + 1 # 0 /\ (j + 1) - 1 = j
        BY <1>1
      <4> QED
        BY <1>5, <4>1
    <3>3. CASE j < n
      <4>1. j + 1 \in 1..n /\ l[j + 1] # Null
        BY <3>3, NullAssumption
      <4>2. client[l[j + 1]].next = IF j + 1 = n THEN Null ELSE l[(j + 1) + 1]
        BY <4>1 DEF Lists
      <4> QED
        BY <3>1, <3>2, <3>3, <4>1, <4>2
    <3>4. CASE ~(j < n)
      BY <3>1, <3>2, <3>4
    <3> QED
      BY <3>3, <3>4
  <2>3. k \in S
    <3> HIDE DEF S
    <3> QED
      BY <1>1, <2>1, <2>2, NatSet
  <2> QED
    BY <1>1, <2>3
<1>8. ASSUME NEW c \in Attached PROVE c \in Walk(first)
  <2>1. PICK i \in 1..n : l[i] = c
    BY DEF Lists, Attached
  <2>2. i - 1 \in 0..top /\ i - 1 < n /\ (i - 1) + 1 = i
    BY <1>1
  <2>3. hop[i - 1] = c /\ c # Null
    BY <1>7, <2>1, <2>2, NullAssumption
  <2> QED
    BY <1>6, <2>2, <2>3
<1>9. ASSUME NEW c \in Walk(first) PROVE c \in Attached
  <2>1. PICK k \in 0..top : c = hop[k] /\ c # Null
    BY <1>6
  <2>2. k < n /\ k + 1 \in 1..n /\ c = l[k + 1]
    BY <1>1, <1>7, <2>1
  <2> QED
    BY <2>2 DEF Lists, Attached
<1> QED
  BY <1>8, <1>9

LEMMA WalkAttached == GpioInv /\ ListInv => Walk(first) = Attached
  BY WalkMeetsAll DEF ListInv

\* gpio/main.c:69-108 and 121, 186, 204, 227: for any number of connections, while any
\* come and the newest go, the walk from first meets each client, last is the last of
\* them, and none knows the one before it.
THEOREM ClientsFound == GpioSpec => []EveryClientFound
<1>1. GpioInv /\ ListInv => EveryClientFound
  <2> SUFFICES ASSUME GpioInv, ListInv PROVE EveryClientFound
    OBVIOUS
  <2>1. PICK n \in Nat : \E l \in [1..n -> Scoid] : Lists(n, l)
    BY DEF ListInv
  <2>2. PICK l \in [1..n -> Scoid] : Lists(n, l)
    BY <2>1
  <2>3. Walk(first) = Attached
    BY WalkAttached
  <2>4. n = 0 => Attached = {} /\ last = Null
    BY <2>2 DEF Lists, Attached
  <2>5. n # 0 => last = l[n] /\ l[n] \in Attached /\ client[l[n]].next = Null
    BY <2>2 DEF Lists, Attached
  <2>6. \A c \in Attached : client[c].prev = Null
    BY <2>2 DEF Lists, Attached
  <2> QED
    BY <2>3, <2>4, <2>5, <2>6, NullAssumption DEF EveryClientFound
<1> QED
  BY <1>1, GpioInductive, ListInductive, PTL

(***************************************************************************)
(* Sessions.                                                               *)
(***************************************************************************)
\* What the sessions see of a state, once the walk is known to meet the clients.
Seen ==
  /\ Walk(first) = Attached
  /\ [c \in Scoid |-> IF c \in Walk(first) THEN PinOf(c) ELSE Null] = [c \in Scoid |-> PinOf(c)]

LEMMA SessionsSee == GpioInv /\ ListInv => Seen
  BY WalkAttached DEF Attached, PinOf, Seen

\* A step that changes neither the clients nor what they have open.
LEMMA QuietSessions ==
  ASSUME GpioInv, ListInv, GpioInv', ListInv',
         \A c \in Scoid : (client'[c] = Null <=> client[c] = Null) /\ PinOf(c)' = PinOf(c)
  PROVE  UNCHANGED Sessions!vars
<1>1. Attached' = Attached /\ [c \in Scoid |-> PinOf(c)]' = [c \in Scoid |-> PinOf(c)]
  BY DEF Attached
<1>2. Seen /\ Seen'
  BY SessionsSee, PTL
<1> QED
  BY <1>1, <1>2 DEF Seen, Sessions!vars

LEMMA ConnectSessions ==
  ASSUME GpioInv, ListInv, GpioInv', ListInv', NEW c \in Scoid, GpioConnect(c)
  PROVE  Sessions!Connect(c)
<1>1. Seen /\ Seen'
  BY SessionsSee, PTL
<1>2. client[c] = Null /\ DOMAIN client = Scoid
      /\ client' = [client EXCEPT ![c] = [next |-> first, prev |-> Null,
                      pin |-> GPIO_PIN_INVALID, access |-> GPIO_ACCESS_INVALID]]
  BY DEF GpioConnect, ClientInsert, GpioInv, GpioTypeOK
<1>3. client'[c] \in Client /\ client'[c].pin = GPIO_PIN_INVALID
  BY <1>2 DEF Client, GpioInv, GpioTypeOK
<1>4. Attached' = Attached \cup {c} /\ c \notin Attached
  BY <1>2, <1>3, NullAssumption DEF Attached
<1>5. \A d \in Scoid : PinOf(d)' = PinOf(d)
  BY <1>2, <1>3 DEF PinOf, HasPin
<1> QED
  BY <1>1, <1>4, <1>5 DEF Seen, Sessions!Connect

LEMMA DisconnectSessions ==
  ASSUME GpioInv, ListInv, GpioInv', ListInv', NEW c \in Scoid, client[c] # Null, Unlink(c),
         c = first
  PROVE  Sessions!Disconnect(c)
<1>1. Seen /\ Seen'
  BY SessionsSee, PTL
<1> DEFINE next == client[c].next
<1>2. c \in Attached /\ DOMAIN client = Scoid /\ next # c /\ next \in Attached \cup {Null}
  BY NullAssumption DEF GpioInv, GpioTypeOK, ListLinked, NothingBeforeFirst, Attached
<1>3. c # last => next \in Attached
  <2>1. PICK n \in Nat : \E l \in [1..n -> Scoid] : Lists(n, l)
    BY DEF ListInv
  <2>2. PICK l \in [1..n -> Scoid] : Lists(n, l)
    BY <2>1
  <2>3. n # 0 /\ l[1] = c
    BY <2>2, NullAssumption DEF Lists
  <2>4. c # last => 1 \in 1..n /\ 1 # n /\ 1 + 1 \in 1..n
    BY <2>2, <2>3 DEF Lists
  <2>5. c # last => next = l[1 + 1] /\ l[1 + 1] \in Attached
    <3> SUFFICES ASSUME c # last PROVE next = l[1 + 1] /\ l[1 + 1] \in Attached
      OBVIOUS
    <3>1. next = IF 1 = n THEN Null ELSE l[1 + 1]
      BY <2>2, <2>3, <2>4 DEF Lists
    <3>2. l[1 + 1] \in Scoid /\ client[l[1 + 1]] # Null
      BY <2>2, <2>4 DEF Lists
    <3> QED
      BY <2>4, <3>1, <3>2 DEF Attached
  <2> QED
    BY <2>2, <2>3, <2>4, <2>5
<1>4. ASSUME NEW d \in Scoid, d # c
      PROVE  (client'[d] = Null <=> client[d] = Null) /\ PinOf(d)' = PinOf(d)
  <2>1. CASE client'[d] = client[d]
    BY <2>1 DEF PinOf, HasPin
  <2>2. CASE client'[d] = [client[d] EXCEPT !.prev = client[c].prev] /\ client[d] \in Client
    <3>1. client'[d].pin = client[d].pin /\ client'[d] \in Client
      BY <2>2, <1>2 DEF Client, GpioInv, GpioTypeOK, Attached
    <3> QED
      BY <2>2, <3>1, NullAssumption DEF PinOf, HasPin
  <2>3. client'[d] = client[d] \/ (c # last /\ d = next /\ client'[d] = [client[d] EXCEPT !.prev = client[c].prev])
    BY <1>2, <1>4 DEF Unlink
  <2> QED
    BY <1>3, <2>1, <2>2, <2>3 DEF GpioInv, GpioTypeOK, Attached
<1>5. client'[c] = Null
  BY <1>2, <1>3 DEF Unlink, Attached
<1>6. Attached' = Attached \ {c}
  BY <1>4, <1>5 DEF Attached
<1>7. PinOf(c)' = Null
  BY <1>5 DEF PinOf
<1> QED
  BY <1>1, <1>2, <1>4, <1>6, <1>7 DEF Seen, Sessions!Disconnect

\* A client takes another pin, or gives up the one it has.
LEMMA PinSessions ==
  ASSUME GpioInv, ListInv, GpioInv', ListInv', NEW c \in Scoid, client[c] # Null,
         NEW pin \in PinRequests \cup {GPIO_PIN_INVALID},
         NEW access \in {GPIO_ACCESS_INVALID, GPIO_INPUT, GPIO_OUTPUT},
         client' = [client EXCEPT ![c].pin = pin, ![c].access = access],
         pin = GPIO_PIN_INVALID \/ ~HasPin(c)
  PROVE  [Sessions!Next]_(Sessions!vars)
<1>1. Seen /\ Seen'
  BY SessionsSee, PTL
<1>2. DOMAIN client = Scoid /\ client[c] \in Client
  BY DEF GpioInv, GpioTypeOK
<1>3. client'[c] = [client[c] EXCEPT !.pin = pin, !.access = access]
      /\ \A d \in Scoid \ {c} : client'[d] = client[d]
  BY <1>2
<1>4. client'[c].pin = pin /\ client'[c] # Null
  <2>1. client'[c] \in Client /\ client'[c].pin = pin
    BY <1>2, <1>3 DEF Client
  <2> QED
    BY <2>1, NullAssumption
<1>5. Attached' = Attached /\ c \in Attached
  BY <1>3, <1>4 DEF Attached
<1>6. ASSUME NEW d \in Scoid \ {c} PROVE PinOf(d)' = PinOf(d)
  <2>1. client'[d] = client[d]
    BY <1>3
  <2> QED
    BY <2>1 DEF PinOf, HasPin
<1>7. PinOf(c)' = IF pin = GPIO_PIN_INVALID THEN Null ELSE pin
  BY <1>4 DEF PinOf, HasPin
<1>8. [d \in Scoid |-> PinOf(d)]' = [[d \in Scoid |-> PinOf(d)] EXCEPT ![c] = PinOf(c)']
  BY <1>6
<1>9. CASE PinOf(c)' = PinOf(c)
  BY <1>3, <1>4, <1>6, <1>9, QuietSessions
<1>10. CASE pin = GPIO_PIN_INVALID /\ PinOf(c) # Null
  <2>1. Sessions!Close(c)
    BY <1>1, <1>5, <1>7, <1>8, <1>10 DEF Seen, Sessions!Close
  <2> QED
    BY <2>1 DEF Sessions!Next
<1>11. CASE pin # GPIO_PIN_INVALID /\ PinOf(c) = Null
  <2>1. Sessions!Open(c, pin)
    BY <1>1, <1>5, <1>7, <1>8, <1>11 DEF Seen, Sessions!Open
  <2> QED
    BY <1>11, <2>1 DEF Sessions!Next
<1>12. pin # GPIO_PIN_INVALID => PinOf(c) = Null
  BY DEF PinOf
<1> QED
  BY <1>7, <1>9, <1>10, <1>11, <1>12

LEMMA SessionsStep ==
  GpioInv /\ ListInv /\ [\E c \in Scoid : GpioNext(c)]_gpioVars => [Sessions!Next]_(Sessions!vars)
<1> SUFFICES ASSUME GpioInv, ListInv, [\E c \in Scoid : GpioNext(c)]_gpioVars
             PROVE  [Sessions!Next]_(Sessions!vars)
  OBVIOUS
<1>0. GpioInv' /\ ListInv'
  BY GpioStep, ListStep
<1>1. CASE UNCHANGED client
  BY <1>0, <1>1, QuietSessions DEF PinOf, HasPin
<1>2. ASSUME NEW c \in Scoid, GpioNext(c) PROVE [Sessions!Next]_(Sessions!vars)
  <2>1. CASE GpioConnect(c)
    BY <1>0, <2>1, ConnectSessions DEF Sessions!Next
  <2>2. CASE GpioDisconnect(c)
    BY <1>0, <1>1, <2>2, DisconnectSessions DEF GpioDisconnect, Die, list, Sessions!Next
  <2>3. ASSUME NEW size, NEW pin \in PinRequests, NEW mode, GpioOpen(c, size, pin, mode)
        PROVE  [Sessions!Next]_(Sessions!vars)
    BY <1>0, <1>1, <2>3, PinSessions DEF GpioOpen, Request, Busy
  <2>4. CASE GpioClose(c)
    BY <1>0, <2>4, PinSessions DEF GpioClose, Request
  <2>5. CASE GpioRead(c) \/ \E size \in {1, 4}, value \in {0, 1} : GpioWrite(c, size, value)
    BY <1>1, <2>5 DEF GpioRead, GpioWrite, Die, list
  <2> QED
    BY <1>2, <2>1, <2>2, <2>3, <2>4, <2>5 DEF GpioNext
<1> QED
  BY <1>1, <1>2 DEF gpioVars

\* gpio/main.c:69-196: for any clients and pins, a client holds the pin of its last
\* successful open until its close or its disconnection.
THEOREM GpioSessions == GpioSpec => ImplementsSessions
<1>1. GpioInit => Sessions!Init
  <2> SUFFICES ASSUME GpioInit PROVE Sessions!Init
    OBVIOUS
  <2>1. Walk(first) = Attached
    BY GpioInvInit, ListInit, WalkAttached
  <2>2. Attached = {}
    BY DEF GpioInit, Attached
  <2> QED
    BY <2>1, <2>2 DEF Sessions!Init
<1> QED
  BY <1>1, SessionsStep, GpioInductive, ListInductive, PTL
  DEF GpioSpec, ImplementsSessions, Sessions!Spec

(***************************************************************************)
(* Isolation.                                                              *)
(***************************************************************************)
Touched(pin) ==
  \/ cfg'[CfgField(pin)] # cfg[CfgField(pin)]
  \/ cfg[CfgField(pin)] = GPIO_OUTPUT /\ dat'[DatBit(pin)] # dat[DatBit(pin)]

\* The pin of a client's request that gets to the registers is mapped.
LEMMA ClientPin ==
  ASSUME GpioInv, NEW c \in Scoid, client[c] # Null, HasPin(c), Mapped(client[c].pin)
  PROVE  client[c].pin \in MappedPins
<1>1. client[c].pin \in PinRequests \cup {GPIO_PIN_INVALID}
  BY DEF GpioInv, GpioTypeOK, Client
<1> QED
  BY <1>1, MappedIsPin DEF HasPin

LEMMA ReadTouches ==
  ASSUME GpioInv, NEW c \in Scoid, GpioRead(c), NEW pin \in MappedPins, Touched(pin)
  PROVE  reply'.con = c /\ client[c].pin = pin
<1>1. /\ client[c] # Null /\ HasPin(c) /\ Mapped(client[c].pin)
      /\ cfg' = [cfg EXCEPT ![CfgField(client[c].pin)] = GPIO_INPUT]
      /\ dat' = dat /\ reply'.con = c
  BY DEF GpioRead, Request, MayRead, Die, regs, Touched, Respond
<1>2. client[c].pin \in Nat /\ pin \in Nat
  BY <1>1, ClientPin, MappedAreNat
<1>3. CfgField(client[c].pin) = CfgField(pin)
  BY <1>1 DEF Touched, GpioInv, GpioTypeOK
<1> QED
  BY <1>1, <1>2, <1>3, FieldUnique

LEMMA WriteTouches ==
  ASSUME GpioInv, NEW c \in Scoid, NEW size, NEW value, GpioWrite(c, size, value),
         NEW pin \in MappedPins, Touched(pin)
  PROVE  reply'.con = c /\ client[c].pin = pin
<1> DEFINE own == client[c].pin
<1>1. /\ client[c] # Null /\ HasPin(c) /\ Mapped(own)
      /\ cfg' = [cfg EXCEPT ![CfgField(own)] = GPIO_OUTPUT]
      /\ GpioOutput(own, IF value = 0 THEN "low" ELSE "high")
      /\ reply'.con = c
  BY DEF GpioWrite, Request, MayWrite, Die, regs, Touched, Respond
<1>2. own \in Nat /\ pin \in Nat
  BY <1>1, ClientPin, MappedAreNat
<1> HIDE DEF own
<1>3. CASE cfg'[CfgField(pin)] # cfg[CfgField(pin)]
  <2>1. CfgField(own) = CfgField(pin)
    BY <1>1, <1>3 DEF GpioInv, GpioTypeOK
  <2> QED
    BY <1>1, <1>2, <2>1, FieldUnique DEF own
<1>4. CASE cfg'[CfgField(pin)] = cfg[CfgField(pin)]
  <2>1. cfg'[CfgField(pin)] = GPIO_OUTPUT /\ dat'[DatBit(pin)] # dat[DatBit(pin)]
    BY <1>4 DEF Touched
  <2>2. DatBit(pin) \in DOMAIN dat
    BY DEF GpioInv, GpioTypeOK
  <2>3. DatBit(pin)[1] * PortSize + DatBit(pin)[2] = pin
    BY <1>2, SplitRange, PinAssumption DEF DatBit, GPIO_BANK, GPIO_NUM
  <2>4. DatBit(pin) = DatBit(own)
    BY <1>1, <2>1, <2>2, <2>3 DEF GpioOutput
  <2> QED
    BY <1>1, <1>2, <2>4, FieldUnique DEF own
<1> QED
  BY <1>3, <1>4

LEMMA OnlyOwnTouched ==
  ASSUME GpioInv, NEW c \in Scoid, GpioNext(c), NEW pin \in MappedPins, Touched(pin)
  PROVE  client[reply'.con].pin = pin
<1>1. CASE UNCHANGED regs
  BY <1>1 DEF regs, Touched
<1>2. CASE GpioRead(c)
  BY <1>2, ReadTouches
<1>3. ASSUME NEW size, NEW value, GpioWrite(c, size, value) PROVE client[reply'.con].pin = pin
  BY <1>3, WriteTouches
<1> QED
  BY <1>1, <1>2, <1>3 DEF GpioNext, GpioConnect, GpioDisconnect, Die, GpioOpen, GpioClose

\* gpio/sunxi/gpio.c:76-141: for ports and registers of any size, a request changes the
\* direction of no pin but the client's own, and the level of no output but its own.
THEOREM Isolated == GpioSpec => PinsIsolated
<1>1. GpioInv /\ [\E c \in Scoid : GpioNext(c)]_gpioVars
      => [\A pin \in MappedPins : Touched(pin) => client[reply'.con].pin = pin]_gpioVars
  BY OnlyOwnTouched
<1>2. [\A pin \in MappedPins : Touched(pin) => client[reply'.con].pin = pin]_gpioVars
      => [\A pin \in MappedPins :
            \/ cfg'[CfgField(pin)] # cfg[CfgField(pin)]
            \/ cfg[CfgField(pin)] = GPIO_OUTPUT /\ dat'[DatBit(pin)] # dat[DatBit(pin)]
            => client[reply'.con].pin = pin]_gpioVars
  BY DEF Touched
<1> QED
  BY <1>1, <1>2, GpioInductive, PTL DEF GpioSpec, PinsIsolated

(***************************************************************************)
(* The blinker among the clients of the gpio server: for the server it is  *)
(* a client like any other, so what was proved of the server alone holds   *)
(* of the composition.                                                     *)
(***************************************************************************)
\* The blinker's own part of TypeOK.
MainTypeOK ==
  /\ main \in {"start", "open", "timer", "enable", "timer_start", "wait", "led",
               "exit", "ended"}
  /\ led \in {LED_OFF, LED_ON}
  /\ irqen \in BOOLEAN /\ irqsta \in BOOLEAN /\ running \in BOOLEAN /\ woken \in BOOLEAN

LEMMA MainInit == Init => MainTypeOK
  BY DEF Init, MainTypeOK

LEMMA MainStep == MainTypeOK /\ [Next]_vars => MainTypeOK'
<1> SUFFICES ASSUME MainTypeOK, [Next]_vars PROVE MainTypeOK'
  OBVIOUS
<1> USE DEF MainTypeOK, timer
<1>1. CASE LedConnect \/ LedDriverInit \/ Exit
  BY <1>1 DEF LedConnect, LedDriverInit, Exit
<1>2. CASE TimerInit \/ TimerEnableInterrupt \/ TimerStart
  BY <1>2 DEF TimerInit, TimerEnableInterrupt, TimerStart
<1>3. CASE TimerTickWait \/ LedSetState
  BY <1>3 DEF TimerTickWait, LedSetState
<1>4. CASE TimerISR \/ Expire
  BY <1>4 DEF TimerISR, Expire
<1>5. CASE Others \/ UNCHANGED vars
  BY <1>5 DEF Others, vars
<1> QED
  BY <1>1, <1>2, <1>3, <1>4, <1>5 DEF Next, Blink

LEMMA MainTyped == Spec => []MainTypeOK
  BY MainInit, MainStep, PTL DEF Spec

\* A step of the composition is a step of the server or none.
LEMMA BlinkerIsClient ==
  MainTypeOK /\ [Next]_vars => [\E c \in Scoid : GpioNext(c)]_gpioVars
<1> SUFFICES ASSUME MainTypeOK, [Next]_vars, ~UNCHANGED gpioVars
             PROVE  \E c \in Scoid : GpioNext(c)
  OBVIOUS
<1>1. blink \in Scoid /\ LedPin \in PinRequests
  BY BlinkerAssumption
<1>2. CASE LedConnect \/ Exit
  BY <1>1, <1>2 DEF LedConnect, Exit, GpioNext
<1>3. CASE LedDriverInit
  BY <1>1, <1>3 DEF LedDriverInit, GpioNext
<1>4. CASE LedSetState
  <2>1. led \in {0, 1}
    BY DEF MainTypeOK, LED_OFF, LED_ON
  <2> QED
    BY <1>1, <1>4, <2>1 DEF LedSetState, GpioNext
<1>5. CASE Others
  BY <1>5 DEF Others
<1> QED
  BY <1>2, <1>3, <1>4, <1>5
  DEF Next, Blink, TimerInit, TimerEnableInterrupt, TimerStart, TimerTickWait, TimerISR, Expire,
      vars, gpioVars

\* timer/sunxi/led.c:30-69 asks nothing of gpio/main.c that another client could not:
\* the composition implements the server.
THEOREM ServerImplemented == Spec => GpioSpec
<1>1. Init => GpioInit
  BY DEF Init
<1> QED
  BY <1>1, BlinkerIsClient, MainTyped, PTL DEF Spec, GpioSpec

\* Type correctness of the server and the blinker, with any number of other clients.
THEOREM BlinkerTyped == Spec => []TypeOK
<1>1. GpioInv /\ MainTypeOK => TypeOK
  BY DEF GpioInv, MainTypeOK, TypeOK
<1> QED
  BY <1>1, MainTyped, ServerImplemented, GpioInductive, PTL

\* gpio/sunxi/gpio.c:76-141: while the blinker drives its LED, no request of anyone changes
\* the direction or the output level of a pin that is not the requester's.
THEOREM BlinkerIsolated == Spec => PinsIsolated
  BY ServerImplemented, Isolated

\* gpio/main.c:69-108: while the blinker and any other clients come, and the newest
\* go, the walk from first meets each of them, and none knows the one before it.
THEOREM BlinkerClientsFound == Spec => []EveryClientFound
  BY ServerImplemented, ClientsFound

\* gpio/main.c:69-196: with the blinker among the clients, each holds the pin of its
\* last successful open.
THEOREM BlinkerSessions == Spec => ImplementsSessions
  BY ServerImplemented, GpioSessions
=============================================================================
