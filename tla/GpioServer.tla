----------------------------- MODULE GpioServer -----------------------------
(***************************************************************************)
(* The gpio server (gpio/main.c) over the port registers of the H3         *)
(* (gpio/sunxi/gpio.c): a list of clients linked by hand, and the pin each *)
(* of them has opened.                                                     *)
(*                                                                         *)
(* main.c:269 asks for one dispatcher task, so a handler is one step.  The *)
(* level of an input pin is the world's and may be anything.               *)
(***************************************************************************)
EXTENDS Integers, Sequences, FiniteSets

CONSTANTS
  Scoid,       \* connection ids; a client_t block is named by the id it is for
  Null,        \* the NULL pointer
  PortSize,    \* pins of a port: 32, GPIO_PORT_SIZE
  CfgPins,     \* pins configured by one register: 8
  GPIO_L,      \* the first port behind sunxiRpioBase: 11
  PinWidth,    \* 2^32: a pin is passed to the driver as a uint32_t
  PinRequests  \* pins asked for (bounds the requests): what strtoul returns

GPIO_PIN_INVALID    == -1
GPIO_ACCESS_INVALID == -1
GPIO_PINS           == (GPIO_L + 1) * PortSize

GPIO_INPUT   == 0
GPIO_OUTPUT  == 1
GPIO_DISABLE == 7

\* strtoul takes a sign: its word, stored in an int32_t, may be negative.
ASSUME PinAssumption ==
  /\ PortSize \in Nat \ {0} /\ CfgPins \in Nat \ {0}
  /\ PortSize % CfgPins = 0
  /\ GPIO_L \in Nat \ {0}
  /\ PinWidth \in Nat /\ 2 * GPIO_PINS <= PinWidth
  /\ PinRequests \subseteq Int
  /\ \A pin \in PinRequests : -PinWidth <= 2 * pin /\ 2 * pin < PinWidth

Client == [next   : Scoid \cup {Null},
           prev   : Scoid \cup {Null},
           pin    : PinRequests \cup {GPIO_PIN_INVALID},
           access : {GPIO_ACCESS_INVALID, GPIO_INPUT, GPIO_OUTPUT}]

ASSUME NullAssumption == Null \notin Scoid \cup Client \cup PinRequests

\* Connection ids are words of the kernel.
ASSUME ScoidAssumption == IsFiniteSet(Scoid)

(***************************************************************************)
(* The registers of gpio.c.                                                *)
(***************************************************************************)
\* Mutant: two pins of a port share a field of a register.
CfgFieldShared(pin) ==
  <<pin \div PortSize, (pin % PortSize) \div CfgPins, (pin % CfgPins) \div 2>>

GPIO_BANK(pin) == pin \div PortSize
GPIO_NUM(pin)  == pin % PortSize

\* GPIO_CFG_INDEX and GPIO_CFG_OFFSET: the field of a pin in its port's cfg[].
CfgField(pin) == <<GPIO_BANK(pin), GPIO_NUM(pin) \div CfgPins, GPIO_NUM(pin) % CfgPins>>
DatBit(pin)   == <<GPIO_BANK(pin), GPIO_NUM(pin)>>

\* The pins whose port lies behind sunxiPioBase: the only mapping made.
MappedPins == 0..(GPIO_L * PortSize - 1)

\* BANK_TO_GPIO: the others are reached through sunxiRpioBase, which stays NULL
\* ("Map RGPIO" maps nothing).
Unsigned(pin) == IF pin < 0 THEN pin + PinWidth ELSE pin
Mapped(pin)   == GPIO_BANK(Unsigned(pin)) < GPIO_L

VARIABLES
  first, last,  \* the ends of the list
  client,       \* client_t of each connection: Null when it is not allocated
  cfg,          \* direction in each field of the cfg registers
  dat,          \* bits of the dat registers: "low", "high", or the world's
  reply,        \* the last response
  fault         \* why the server died, or "none"

list == <<first, last, client>>
regs == <<cfg, dat>>
gpioVars == <<first, last, client, cfg, dat, reply, fault>>

GpioInit ==
  /\ first = Null /\ last = Null
  /\ client = [c \in Scoid |-> Null]
  /\ cfg = [field \in {CfgField(pin) : pin \in MappedPins} |-> GPIO_DISABLE]
  /\ dat = [bit \in {DatBit(pin) : pin \in MappedPins} |-> "world"]
  /\ reply = [con |-> Null, ret |-> "none"]
  /\ fault = "none"

Respond(c, ret) == reply' = [con |-> c, ret |-> ret] /\ UNCHANGED fault

Die(why) == fault' = why /\ UNCHANGED <<list, regs, reply>>

Attached == {c \in Scoid : client[c] # Null}

(***************************************************************************)
(* The list.                                                               *)
(***************************************************************************)
Walk(at) ==
  LET hop[n \in 0..Cardinality(Scoid)] ==
        IF n = 0 THEN at
        ELSE IF hop[n - 1] = Null THEN Null ELSE client[hop[n - 1]].next
  IN  {hop[n] : n \in 0..Cardinality(Scoid)} \ {Null}

\* ClientFind: the blocks the walk from first reaches, and the one asked for.
ClientFind(c) == IF c \in Walk(first) THEN c ELSE Null

\* Mutant: a new client is put first, but not in front of the others.
InsertUnlinked(c) ==
  /\ client' = [client EXCEPT ![c] = [next |-> Null, prev |-> Null,
                  pin |-> GPIO_PIN_INVALID, access |-> GPIO_ACCESS_INVALID]]
  /\ first' = c
  /\ last' = IF last = Null THEN c ELSE last

\* Client and ClientInsert.  The client that was first keeps prev = NULL.
ClientInsert(c) ==
  /\ client' = [client EXCEPT ![c] = [next |-> first, prev |-> Null,
                  pin |-> GPIO_PIN_INVALID, access |-> GPIO_ACCESS_INVALID]]
  /\ first' = c
  /\ last' = IF last = Null THEN c ELSE last

\* The connection is new to the server.
GpioConnect(c) ==
  /\ fault = "none" /\ client[c] = Null
  /\ ClientInsert(c)
  /\ UNCHANGED <<regs, reply, fault>>

\* Mutant: the last pointer is left on a client that is gone.
UnlinkKeepingLast(c) ==
  /\ first' = client[c].next
  /\ client' = [client EXCEPT ![c] = Null]
  /\ UNCHANGED last

\* ClientRemove where it gets through: of the client that is first.  (Of another
\* it would go through prev, which no client has: see EveryClientFound.)
Unlink(c) ==
  LET next == client[c].next
  IN  /\ first' = next
      /\ IF c = last
         THEN /\ last' = client[c].prev
              /\ client' = [client EXCEPT ![c] = Null]
         ELSE /\ client' = [client EXCEPT ![next].prev = client[c].prev, ![c] = Null]
              /\ UNCHANGED last

\* A client that is not first is unlinked through its prev, which ClientInsert
\* never set: the server stores through NULL.
GpioDisconnect(c) ==
  /\ fault = "none" /\ client[c] # Null
  /\ \/ /\ c = first
        /\ Unlink(c)
        /\ UNCHANGED <<regs, reply, fault>>
     \/ /\ c # first /\ ClientFind(c) # Null
        /\ client[c].prev = Null
        /\ Die("unlinked_through_NULL")

(***************************************************************************)
(* Requests.  A pin no register exists for kills the server when a request *)
(* gets to the registers.  What the handlers answer to a client that is    *)
(* not in the list is left out: EveryClientFound says that there is none.  *)
(***************************************************************************)
Request(c) == fault = "none" /\ client[c] # Null /\ ClientFind(c) # Null

HasPin(c) == client[c].pin # GPIO_PIN_INVALID

\* Mutant: an open forgets what the client had open.
NeverBusy(c) == FALSE

Busy(c) == HasPin(c)

\* size is the number of bytes received: an open needs one at least.
GpioOpen(c, size, pin, mode) ==
  /\ Request(c)
  /\ UNCHANGED <<first, last, regs>>
  /\ \/ Busy(c) /\ Respond(c, "E_BUSY") /\ UNCHANGED client
     \/ ~Busy(c) /\ size < 1 /\ Respond(c, "E_INVAL") /\ UNCHANGED client
     \/ ~Busy(c) /\ size >= 1 /\ pin > GPIO_PINS /\ Respond(c, "E_INVAL") /\ UNCHANGED client
     \/ /\ ~Busy(c) /\ size >= 1 /\ pin <= GPIO_PINS
        /\ \/ /\ mode = "O_RDONLY"
              /\ client' = [client EXCEPT ![c].pin = pin, ![c].access = GPIO_INPUT]
              /\ Respond(c, "E_OK")
           \/ /\ mode \in {"O_WRONLY", "O_RDWR"}
              /\ client' = [client EXCEPT ![c].pin = pin, ![c].access = GPIO_OUTPUT]
              /\ Respond(c, "E_OK")
           \/ /\ mode = "other"
              /\ Respond(c, "E_INVAL") /\ UNCHANGED client

GpioClose(c) ==
  /\ Request(c)
  /\ client' = [client EXCEPT ![c].pin = GPIO_PIN_INVALID, ![c].access = GPIO_ACCESS_INVALID]
  /\ Respond(c, "E_OK")
  /\ UNCHANGED <<first, last, regs>>

MayRead(c) == client[c].access # GPIO_ACCESS_INVALID /\ HasPin(c)

\* A read makes the pin an input, whoever drives it.
GpioRead(c) ==
  /\ Request(c)
  /\ \/ ~MayRead(c) /\ Respond(c, "FAIL") /\ UNCHANGED <<list, regs>>
     \/ /\ MayRead(c) /\ Mapped(client[c].pin)
        /\ cfg' = [cfg EXCEPT ![CfgField(client[c].pin)] = GPIO_INPUT]
        /\ Respond(c, "E_OK")
        /\ UNCHANGED <<list, dat>>
     \/ MayRead(c) /\ ~Mapped(client[c].pin) /\ Die("no_such_port")

MayWrite(c, size) == client[c].access = GPIO_OUTPUT /\ HasPin(c) /\ size = 4

\* Mutant: the port is written as a whole.
GpioOutputPort(pin, val) ==
  dat' = [bit \in DOMAIN dat |-> IF bit[1] = GPIO_BANK(pin) THEN val ELSE dat[bit]]

\* GpioOutput reads the port, changes one bit and writes the port back: the
\* bits of pins that are not outputs are written as they were read, which is
\* the level the world gave them.
GpioOutput(pin, val) ==
  dat' = [bit \in DOMAIN dat |->
            LET other == bit[1] * PortSize + bit[2]
            IN  IF bit = DatBit(pin) THEN val
                ELSE IF bit[1] = GPIO_BANK(pin) /\ cfg'[CfgField(other)] # GPIO_OUTPUT
                     THEN "world" ELSE dat[bit]]

\* value is LOW for 0 and HIGH for anything else.
GpioWrite(c, size, value) ==
  /\ Request(c)
  /\ \/ ~MayWrite(c, size) /\ Respond(c, "FAIL") /\ UNCHANGED <<list, regs>>
     \/ /\ MayWrite(c, size) /\ Mapped(client[c].pin)
        /\ cfg' = [cfg EXCEPT ![CfgField(client[c].pin)] = GPIO_OUTPUT]
        /\ GpioOutput(client[c].pin, IF value = 0 THEN "low" ELSE "high")
        /\ Respond(c, "E_OK")
        /\ UNCHANGED list
     \/ MayWrite(c, size) /\ ~Mapped(client[c].pin) /\ Die("no_such_port")

GpioNext(c) ==
  \/ GpioConnect(c) \/ GpioDisconnect(c)
  \/ \E size \in {0, 1}, pin \in PinRequests, mode \in {"O_RDONLY", "O_WRONLY", "O_RDWR", "other"} :
       GpioOpen(c, size, pin, mode)
  \/ GpioClose(c)
  \/ GpioRead(c)
  \/ \E size \in {1, 4}, value \in {0, 1} : GpioWrite(c, size, value)

GpioSpec == GpioInit /\ [][\E c \in Scoid : GpioNext(c)]_gpioVars
-----------------------------------------------------------------------------
\* Type correctness of every variable of the server.
GpioTypeOK ==
  /\ first \in Scoid \cup {Null} /\ last \in Scoid \cup {Null}
  /\ client \in [Scoid -> Client \cup {Null}]
  /\ cfg \in [{CfgField(pin) : pin \in MappedPins} -> {GPIO_INPUT, GPIO_OUTPUT, GPIO_DISABLE}]
  /\ dat \in [{DatBit(pin) : pin \in MappedPins} -> {"low", "high", "world"}]
  /\ reply \in [con : Scoid \cup {Null},
                ret : {"none", "E_OK", "E_BUSY", "E_INVAL", "FAIL"}]
  /\ fault \in {"none", "unlinked_through_NULL", "no_such_port"}

\* gpio/main.c:69-108 and 121, 186, 204, 227 "This use case should never happen":
\* while clients come, and the newest of them go, the walk from first visits each
\* connected client, and only those, and ends at last; and no client knows the
\* one before it, so that the disconnection of any other is the fault.
EveryClientFound ==
  /\ Walk(first) = Attached
  /\ last = Null <=> Attached = {}
  /\ last # Null => client[last].next = Null
  /\ \A c \in Attached : client[c].prev = Null

\* gpio/sunxi/gpio.c:76-141: a request changes the direction of no pin but the
\* client's own, and the level of no output but the client's own.  (Nothing makes
\* a pin one client's own: two may have it open and undo each other.)
PinsIsolated ==
  [][\A pin \in MappedPins :
       \/ cfg'[CfgField(pin)] # cfg[CfgField(pin)]
       \/ cfg[CfgField(pin)] = GPIO_OUTPUT /\ dat'[DatBit(pin)] # dat[DatBit(pin)]
       => client[reply'.con].pin = pin]_gpioVars

PinOf(c) == IF client[c] = Null \/ ~HasPin(c) THEN Null ELSE client[c].pin

Sessions == INSTANCE FileSessions WITH
  Client <- Scoid, File <- PinRequests, None <- Null, Closes <- TRUE,
  connected <- Walk(first),
  holds <- [c \in Scoid |-> IF c \in Walk(first) THEN PinOf(c) ELSE Null],
  exists <- PinRequests

\* gpio/main.c:69-196: through the list, each client holds the pin of its last
\* successful open until its close or its disconnection, and no other's.
ImplementsSessions == Sessions!Spec

\* gpio/main.c:157 "Check we the gpio pin is valid": a pin that an open lets
\* through has a register behind it.
OpenedPinsExist == fault # "no_such_port"
=============================================================================
