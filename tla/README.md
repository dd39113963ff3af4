# A verification project for the ukernel applications

TLA+ models, model-checking runs and machine-checked proofs for the servers and
programs of this repository. They run on a message-passing microkernel: a server
attaches a name with a dispatcher, the kernel tells it of connections attached and
detached, and clients reach it by open, read, write, lseek, ftruncate, mmap, close.
The kernel and its libraries are not in the repository; what is said of them here
is read off their use.

## Inventory

| Component | Keeps | Operations | Interacts with |
|---|---|---|---|
| `proc` connection table (`connection.c`) | one `connect_t` per scoid: state CLOSE/OPEN/MAP, access, seek, handler | attach, detach, setters | kernel notifications; calls `_io_CloseCallBack` of the handlers |
| `proc` file tree (`proc.c`) | directories and `file_t` blocks (path, data, size, refs, access, permission) | build, resolve, get, create, delete, open, close | called by the handlers; takes its boot files from the image parser |
| `proc` handlers (`proc_io.c`) | the position and state in the connection, the memory of the files | info, open, close, read, write, seek, truncate, share | clients by messages and shared memory; kernel by `ShareObject`, `mmap` |
| boot image parser (`proc/rfs.c`) | the image mapped in memory | init, parse, delete, lookups | feeds `ProcFileSystemBuild` |
| `gpio` server | doubly linked list of clients (pin, access), pin registers | connect, disconnect, open, close, read, write | clients; hardware |
| `serial` server | `stdLock`, the UART | read by line, read by size, write in chunks | two dispatchers, one lock; hardware |
| `timer` | tick counter, timer registers | interrupt, acknowledge, wait | hardware; `gpio` through `led.c` |
| `rawfs` shell | doubly linked list of files, a counter | load, exec, list, delete | serial input; `Spawn` |
| `rfs` (legacy server) | connections, tree, reference counts | as `proc`, by an older protocol | clients, boot image |
| `cmd` | the shell's descriptors, the processes it started | look up in PATH, exec, redirect, kill, exit | client of `proc` and `serial` |
| `sloader` | the file it writes | load | client of `proc`, competes with `cmd` for its files |
| `cat`, `ls` | a buffer | print, list | clients of `proc` |
| `echo`, `led`, `fsTest` | nothing | demonstrations | clients |

What is hard is not the same in all. In the servers of files: sessions that several clients interleave on the same files, and that
end at any moment with a detach; counters and positions of 16 and 32 bits; memory
that truncation moves under others' hands and that mapped clients store into
directly; kernel calls that are refused half-way through a handler; odd paths. In
`serial`: two tasks and one transmitter, with steps of each between the steps of the
other. In `gpio` and `rawfs`: lists linked by hand, of which only long sequences of legal
calls tell whether they are right. In the timer: an interrupt, a loop and a server that
run at their own pace. In `cmd`: every call may fail, and files come and go between two.
`hazards` in `PROJECT.json` lists each at its line, with the properties that would
catch it.

What makes each component correct:

* connection table: an entry per attached scoid, no trace of a detached one left;
* file tree: one tree, one file per path, every file found again, resolution ends;
* handlers: counts equal openers, no handle to a deleted file, access as granted,
  memory behind every size, no mapping lost, contents as a client would expect;
* gpio: every connected client is found in the list, a request reaches its own pin only, pins in range;
* serial: chunks and echoes unmixed, the line read is the line seen, the lock released, every write answered;
* timer: ticks not lost while the loop is blocked, the LED keeps blinking;
* rawfs: the list is one list read either way and has each file that was loaded and not deleted, nothing leaks;
* the legacy server: sessions as in `proc`, a state that agrees with the file held and with what the kernel shares;
* the shell: descriptors closed on every path, no directory of PATH passed over, the prompt comes back.

## The modules

| Module | Models |
|---|---|
| `ProcTree` | path resolution on the components of a path, as operators; a name is any value, `NoName` the one without characters |
| `PathWalk`, `MCPathWalk` | the loops of `ProcPathResolve`, `ProcFileGet`, `ProcFileCreate` on a path as a sequence of characters, one turn per step |
| `ProcServer`, `MCProcServer` | the whole `proc` server: connections, tree, files, memory, shares, replies |
| `FileSessions` | what a server of files promises about those who hold them; implemented by `proc`, by the legacy server, and by `gpio` with pins for files |
| `FileStore` | what `proc` promises about contents and positions |
| `GpioServer` | the gpio server over the registers of the H3 |
| `Blinker`, `MCBlinker` | the blinker: main loop, interrupt routine and timer, composed with `GpioServer` and its other clients |
| `SerialServer`, `MCSerialServer` | both tasks of the serial server over the UART of either board |
| `RawFs`, `MCRawFs` | the rawfs shell |
| `Listing` | what rawfs promises: a list of files in which a name stands for its oldest |
| `LegacyRfs`, `MCLegacyRfs` | the legacy server, from its boot on |
| `Programs`, `MCPrograms` | the shell's Exec and the loader, call by call |
| `ProcServerProofs` | proofs about `ProcServer`: counts, handles and sessions, then tree, shares, memory and contents |
| `PathWalkProofs` | proofs that the loops of `PathWalk` do what `ProcTree` says |
| `GpioServerProofs`, `SerialServerProofs`, `RawFsProofs`, `LegacyRfsProofs`, `ProgramsProofs` | proofs about the others; `GpioServerProofs` has the blinker too |
| `Induction` | induction over numbers and recursive functions, for the proofs about lists and characters |

### ProcServer and the code

`main.c:18` gives the dispatcher one task: a handler runs from request to response
without another in between, so each is one action, and the interleaving is that of
requests, attaches and detaches. The one thing that moves during a handler is a
client's store into shared memory (`ClientStore`); it is interleaved between handlers,
since none reads a byte twice.

| Variable | Code |
|---|---|
| `con` | the vector `connections` of `connect_t`; `Null` for a scoid not in it |
| `dirs` | the `dir_t` tree below `root`, as the set of the directories' paths |
| `file` | the `file_t` blocks reachable from the tree; the path stands for owner and name |
| `mapped` | the regions the server holds from `mmap` |
| `share` | what the kernel shares over each connection since `ShareObject` |
| `mem` | the bytes of the objects; those of an object nobody holds are forgotten |
| `reply` | the last `MsgRespond` |
| `fault` | why the server died: an unchecked `mmap`, a NULL dereference, an access past an object |

Actions carry the names of the functions: `Attach`, `Detach` (with `CloseCallBack` and
`ProcFileClose`), `FileOpen` (its five outcomes are operators of their own: busy,
existing, missing, create on a directory, created), `FileClose`, `FileRead`,
`FileWrite`, `FileSeek`, `FileTruncate`, `FileShare`, `ProcInfo`. `FileClose` only answers:
`HANDLE_CLOSE_IO` is not defined by the makefile and the shipped `proc.elf` has no such
code; a connection closes when it is detached. `ProcFileDelete` is exported but has no
caller, so it is left out of `Next` and added by `ApiNext`, to check that the counts are what
it relies on.

A few things the reading of the code settles: the values of `O_*` and `E_*` are those of
`proc.elf`; `off_t` is a 32-bit long, so positions, sizes and their sums are modelled modulo
`WordSize` and compared as unsigned, which is what `con->seek >= file->size` compiles to;
modes are sets of bits, so that `&` is intersection. Modes with `O_CREAT` and
the access bits are two parameters of `FileOpen`.

Assumed of what is not in the repository, and named in the module: requests come only over
attached connections; `ShareObject` may succeed or fail for any memory and fails for NULL;
`mmap` may fail for a size above 0 and gives NULL for size 0; it rounds to pages and zero-fills;
memory shared with a client lives on while it is shared; the boot image names its files
apart, none below another (`BootAssumption`). A handler that runs into an access the
hardware may catch is taken to die, and nothing after it is explored.

Left out: the entries of a listing (only whether it is answered), the wording of the
generated texts (constants), the order of lists of siblings (no handler depends on it).

### ProcTree, PathWalk and the code

`ProcServer` takes paths cut at `/` and resolves them with the operators of `ProcTree`; its names are strings, `NoName` is `""`. `PathWalk` has the
path as the code sees it, a sequence of characters, with offsets for pointers and `NUL` behind the last one; its names are sequences of characters and `NoName`
is the empty one. `ptr` is the cursor of `ProcPathResolve`, `remaining` what it hands to the callers and what `ProcDirectoryCreate` moves on, `Unset` a pointer not yet written.
`Resolve` is one turn of the first loop, `Create` one of the second, `Resume` what the callers make of the pointer they get. `Components` is the bridge: a
fold over the characters that says which names a path has, by which the two modules are compared.

### GpioServer, Blinker and the code

`gpio/main.c:269` gives the dispatcher one task, so a handler is one action. `first`, `last` and
`client` are the list: a `client_t` block is named by the connection it is for, `Null` when it is not
allocated, and carries its two links. `ClientFind` walks the links as the code does. `cfg` and `dat` are
the fields and bits that the macros of `sunxi/gpio.c` select for a pin; an input bit is the world's and
is read as any level. Actions: `GpioConnect`, `GpioDisconnect` (with `ClientRemove`'s unlinking),
`GpioOpen`, `GpioClose`, `GpioRead`, `GpioWrite`. A store through an address that is not mapped is the
fault after which nothing is served. `ClientInsert` never sets `prev`: once two clients are connected, only the
one connected last can disconnect without the server dereferencing NULL. The model has this as it is; no line of the repository
promises otherwise. Two things the code has are not in the model because they cannot be reached: the branch of `ClientRemove` for a `prev` that is set, and
the answers for a client that is not found. `EveryClientFound`, proved, shows both: each client that sends a request is in the list, and no `prev` is ever set.

`Blinker` extends `GpioServer`. `main` is where `timer/main.c` is, `led` its local, `irqen`, `irqsta`
and `running` are bits of the timer's registers, `woken` is what `InterruptWait` will return for. Steps of
the program are named after the functions they stand for; a call of the gpio server is the server's own action taken
together with the return of the call. `Others` lets every other connection take any step of the server.

### SerialServer and the code

Each of `/dev/stdout` and `/dev/stdin` has a dispatcher of one task (`serial/main.c:127`); `pc` says where each is,
`serving` whom it serves. The lock, the wait for room in the transmitter (`ready`) and the store are separate steps, so that the
other task may come between any two. `emit` is what a task has still to put, `line` and `left` the state of a read,
`offset`, `chunk` (the buffer) and `sent` that of a write, `tx` and `rx` the FIFOs, `shown` what the terminal shows of the line being typed.
`Board` selects the differences of the two `uart.c`: how room is seen, what echoes a deletion, how a line feed is put.
A `MsgRead` may bring fewer characters than asked for, none, or a negative result `-k` (`Errors`). The last, cast to unsigned, passes for a size (`TakeError`): the offset
moves back by `k` or wraps around, the terminator is stored `k` bytes before the buffer, which may or may not end the server (`stored_outside`), and the buffer is put again.
`failed` remembers it, as `WritesDelivered` speaks of writes whose chunks all came without an error. `puts` stops at a NUL of the text. A read by size stores through NULL at its first byte when its
unchecked allocation failed (`stored_through_NULL`), and `gets` has no bound: the key after `InBuf` characters is stored past the buffer (`line_too_long`).

### RawFs, LegacyRfs, Programs and the code

`RawFs` keeps the blocks with both links, the ends, and `files`, which `FsAddFile` counts up and nothing counts down. A command is one
step, the wait of `exec` excepted. Failures of `malloc`, `mmap` and `Spawn` are choices; where `mmap` fails after `malloc`, the block is taken and freed (`Free`). The branch of `LoadFile` that would leave a
file unlisted is not modelled: `SerialLoad` returns `E_OK` whatever it read.

`LegacyRfs` has the boot of `rfs/main.c` in steps (`RfsInit`, `RfsParse`, the texts, the files of the image), then the handlers
under the names of the code. `BuildFileSystem` gives the text of `/devices` the length `devices - ptr`, a negative difference: its size is the
constant `Huge`, of which a read may or may not be stopped by the hardware (`outside_the_file`). The busy check of `FsOpen` assigns to
the state where it means to compare (`rfs/main.c:132`), and is modelled as the assignment it is; `lost` remembers whose share it has struck from the state. No allocation is checked: the server dies of a failing one
where it writes to the memory at once (`NoMemory`), but an open with `O_CREATE` makes a file without memory (`room` 0), as an empty file of the image is. `FsShare` compares the address that `ShareObject` gives with the file's: for
such a file both are NULL, and it answers `E_OK` and says shared with nothing shared. `orphan` tells whether memory made for a file stayed behind because its path was refused.

`Programs` has one step per call that `Exec` and `LoadFile` make of a server or of the kernel: between two of them files come
and go, and directories made at a file's path hide it (`hidden`), as in `ProcServer`. Every call may fail, also the open of a file that is there. `table` is the shell's descriptors; `fd` and `r_fd` are Exec's variables.
`Command` takes the first word of any line, also of an empty one (`Empty`), of which Exec looks at the characters before the buffer, and of one that outgrows the buffers (`Long`). `outputs`, `steady` and `refused` record history for
the properties: which numbers redirections opened, which directories have shown the program since the search began, and where an open failed all the same.

## The runs

| Run | Asks | Bounds | States |
|---|---|---|---|
| `sessions` | handles, counts, access, tree, shares; refinement of `FileSessions` | 2 clients, 4 file blocks, five paths (a text, a file, a path through the file, a trailing slash, the empty path), three modes, boot built or failed, with deletions | 46 048 |
| `data` | types, memory, mappings, the texts; refinement of `FileStore` | 2 clients, 3 files, 5 objects, pages of 2 bytes, words of 2 bits, bytes 0 and 1 | 140 395 |
| `path_walk` | the loops against `ProcTree`; termination | every string up to 6 characters over `a`, `b`, `/`; four trees | 30 109 |
| `gpio_blinker` | the list, isolation of pins, refinement of `FileSessions`; the LED blinks | the blinker and another client, ports of 4 pins, registers of 2, one port mapped, four pins asked for | 85 508 |
| `serial` | overrun, contiguity, what is shown, delivery; every write answered | 2 writers, 1 reader, texts of 4 and 2 characters, chunks of 1 or 2, errors of -1, words of 6 values, FIFOs of 1, a line buffer of 2, PL011 | 227 808 |
| `rawfs` | links, leaks; refinement of `Listing` | 3 blocks, 2 names, 2 sizes and the empty file, 2 processes, 5 loads | 12 059 |
| `legacy` | states of connections, the tree; refinement of `FileSessions` | 2 clients, an image of two files of one name, seven paths, two modes, files with and without memory | 121 116 |
| `programs` | descriptors, the search; the prompt returns | one program, an empty and a long line, two directories, 2 descriptors, 2 processes | 1 076 144 |
| `create_on_directory` | finding: NULL dereference | as `sessions`, paths `a/b` and `a` | violated |
| `map_means_shared` | finding: MAP without a share | as `sessions` | violated |
| `write_within_object` | finding: copy past the memory | as `data` | violated |
| `gpio_pin_exists` | finding: a pin that does not exist is opened | as `gpio_blinker`, with pins at the bounds of the check and negative ones | violated |

Why the bounds are enough. Two clients make every interleaving of two sessions on one
file, and a third file block and path make a second file to confuse it with; a path below a
file's own path (`a` and `a/b`) makes the shadowing directory; a failed boot makes the
texts' paths creatable. In `data` a page of two bytes tells a size from its page, a word of four values
makes positions, sums and `ALIGN_UP` wrap within two steps, five objects let the file of
the image move to other memory while its old one stays shared with a client, and move again. Six characters hold three components with odd slashes.
The control run has no data operations and the data run no creation: the two parts meet
only in `size` and `data` of a file, and the proofs below cover them together.
The reference count has a width of 4 there, which two clients do not wrap; the theorems
cover the wrap.

In `gpio_blinker` a port has two registers of two pins, so that pins share a register, a port, or
neither. A third client would only lengthen the list, whose middle cannot be left alive; isolation is proved for any number.
In `serial` one text has a line feed, which two characters stand for, and comes in two chunks or more, the other begins with a NUL; a FIFO of one makes a task wait in
the middle of an echo, the third key fills the line buffer past its end, and an error of -1 moves the offset back within the text or, at its start, wraps it around. In `rawfs` three blocks make a first, a middle and a last, and five loads let
blocks be used again. In `legacy` the image names a file twice, which makes the boot find it there, a path lies below a file, and a file made by an open may be without memory. In `programs` two descriptors are one for
the program and one for its redirection: the second redirection finds none left.

`SYMMETRY` permutes what no definition tells apart: clients and blocks and objects without a fixed boot file, blocks, names and processes of `rawfs`.
No run with a liveness property uses it. The view `Control` of the `proc` runs leaves out the last reply, which no
action reads, and everything but the reason after a fault. `CHECK_DEADLOCK FALSE`: after a
fault nothing is served, a path walk ends, and the shells exit.

### Fairness

* `PathWalk`: `WF_vars(Next)`; the loop runs in the server's only task and nothing in it blocks.
* `Blinker`: weak fairness of the main loop, of the interrupt routine and of the timer: the kernel schedules the task and takes pending
  interrupts, a running timer expires. Nothing is asked of other clients. `Blinks` excludes the death of the gpio server and a `TimerInit` that fails.
* `SerialServer`: weak fairness of both tasks and of the transmitter. Putting a character is weakly fair too: only the holder of the lock puts. Taking the lock by the out task and taking a waiting write are strongly fair:
  the lock is free again and again, and the kernel, which queues those who wait for it and the messages of clients, starves none.
  Nobody has to type; `WritesAnswered` is therefore stated under the condition that a line that is begun is ended, since `StdRead` holds the lock until it is, and that no write meets errors
  for ever, since each moves the offset back.
* `Programs`: weak fairness of `Exec`. Nothing is asked of the programs it starts, of which some never end (`timer/main.c`): `PromptReturns` lets the shell wait for one as long as it runs.

## The properties

* `RefsCountOpeners`, `OpenIffHandler`, `NoDanglingHandle`: the count of each file is the number of
  connections that have it, whatever way they open and end; no handle outlives its file.
* `AccessGranted`: a connection that may write was let to by the file.
* `UniquePaths`, `TreeWellFormed`, `FilesReachable`: one tree, one file per path, found again
  unless a later directory of the same path hides it.
* `SharesOnlyMapped`, `NoMappingLeak`, `SizeBacked`: shares end with their connection, regions
  are the files' and nobody else's, memory backs sizes.
* `SysTextsConstant`: no read, write, seek or truncation changes the generated texts, which lie in the server's heap, as long as no client has them mapped.
* `ImplementsSessions`, `ImplementsStore`, `ImplementsListing`: the servers against the abstract specifications.
* `WalkFollowsComponents`, `GetAgrees`, `CreateAgrees`: the pointer loops do what the component-wise operators say.
* `WalkEnds`: the loops end. Its safety half, `TurnsAdvance`, is proved: each turn moves its cursor on within the string.
* `EveryClientFound`, `PinsIsolated`, `Blinks`: each connected client is in the list, a request moves no pin but the client's own, and the LED
  blinks, as long as the server lives: it does not survive that a client other than the last one disconnects.
* `NoOverrun`, `ChunksContiguous`, `ShownIsLine`, `WritesDelivered`, `WritesAnswered`: the lock keeps the tasks apart, the
  terminal shows the line the reader gets, but for a backspace typed at its start, a text that comes without errors goes out whole and in order, and every text in the end.
* `LinksAgree`, `NoLeak`: the list of rawfs read either way, and memory for exactly its files.
* `StateTellsTrue`, `TreeClosed`: the legacy server's states against files and shares, both ways: a state that says shared has a share or a file without memory, and a share has such a state or a refused open that overwrote it
  (`lost`). Files and directories lie in directories.
* `TableAtPrompt`, `NotFoundMeansNone`, `PromptReturns`: no descriptor is left over by any path through `Exec` but those of redirections; a program is reported missing
  only after each directory of PATH lacked it, hid it or refused its open; the shell comes back, or waits for a process that runs.

Four comments of the code are contradicted, each by a run of its own; `findings` quotes them.

## What is proved

For every value of the constants that satisfies the named assumptions: any number of
clients, files, objects, paths and characters in them, pins, any page size, word and counter width.

`proc`. The invariants are not inductive one by one. A count goes down rightly only if a
connection that closes has a handler when it is not closed (`OpenIffHandler`) and the handler
is a file (`NoDanglingHandle`); a deletion leaves nothing dangling only if the count is exact
(`RefsCountOpeners`); a read answers typed bytes only if memory backs the size
(`SizeBacked`). Their conjunction with `TypeOK` is `IInv`, and `ProcServerProofs` proves, one lemma
per action, that every step keeps it:

* `Inductive`: `Spec => []IInv`, and from it `TypeCorrect`, `RefsExact`, `OpenExact`, `AlwaysBacked`;
* `ApiInductive`: the same with `ProcFileDelete`, if fewer connections exist than a count can
  hold (`FewConnections`), and from it `NeverDangling`. Without the assumption it is false: 2^16 openers
  make the count 0.
* `SessionsImplemented`: under `FewConnections`, `ApiSpec => ImplementsSessions`; each
  action maps to a step of `FileSessions` or a stutter.

The second part of the module builds on `IInv`. It first says what a step can do to the files (keep them, move one to other memory, make one) and to a connection (five ways), then proves four more invariants:

* `TreeInv`: every directory and file is reached through directories, and paths are unique. A creation gives no path twice because, in such a tree, what `FileGet`
  does not find and `Consumed` does not refuse is not there (`NotFoundNotThere`). From it `PathsUnique`, `TreeHolds`, `FilesFound`.
* `ShareInv`: a share goes with MAP, a mode with a file that admits it. From it `SharesEnd`, `WritersAdmitted`.
* `MemoryInv`: regions are those of the mappable files, each its own, and a file with no permission is read only. From it `MappingsKept` and, with `ShareInv`, `TextsConstant`: a writer's
  file has an access word that is not empty, so it is not a text, so its memory is not a text's.
* `StoreInv`: objects are shorter than a word counts, a connection without a file is at position 0, and the memory a file has now is shared only with clients that hold the file (`SharedByHolder`, which is a step of the
  proof: that old memory is given to no other file is an assumption about the kernel, in `FreeObj`). The last needs the others: a truncation takes memory that nobody
  shares, a share maps the memory of the file the connection has, and a detach ends it.

`DataInv` is their conjunction without the tree (`DataInductive`), and `StoreImplemented` the refinement, `Spec => ImplementsStore`. The abstract text of a file is the part of its memory that its size covers;
a client's place is its position while it has a file. One lemma per action then maps a step of the server to one of `FileStore`:

* a transfer fits (`TransferFits`): what the code computes on wrapping words, for a transfer that stays inside the memory, is what is left of the text or less, and the new position does not wrap;
* a write into memory is a splice of the text (`OverwriteText`), also when more is written than the size covers;
* a truncation changes one text, as memory is only its file's (`MemoryInv`);
* a client's store through shared memory reaches the text of the file it holds or none at all (`SharedByHolder`): `FileStore` asks of it to hold the file, not to hold it for writing, as `_io_FileShare` does;
* a step into a fault changes nothing that is seen.

These are proved of `Spec`, the server as shipped; the run also checks `UniquePaths`, `TreeWellFormed` and `FilesReachable` with deletions.

Paths. `PathWalkProofs` proves that a loop over characters and a definition over components agree, for paths of any length over any characters and in any tree, so that what is
proved of `ProcServer` on components is about the code's strings. No induction over sequences is at hand, so the argument goes by offsets:

* `SplitIs`: the recursive function of `Components` exists and its equations hold (`RecursionExists` of `Induction`). From here on `Cut(p, i)` are the names of the first `i` characters of a path, and one more character
  either begins an empty name or extends the last (`CutStep`);
* `CutName`: the characters up to the next `/` make one name; `CutKeeps`: later characters leave all names but the last alone; `CutWhole`: a name that a `/` or the end has closed is kept whole;
* `NameLenIs`, `NameIs`: what the inner loop of the code measures from an offset where a name begins is the next component, and it is the last one exactly if the name ends with the string;
* `ResolvedIs`: `Resolved`, which the model defines by a CHOOSE, has one possible value.

The inductive invariant is `WalkInv`. The parent is the directory named by the components before the cursor; while resolving, the cursor is at the start or at the end of a name (`CursorAtEnd`), so the branch of the code for a cursor amid a name is never taken; while creating, it is where a name
begins (`BeginsName`); and the directories are those of the tree and the prefixes of the parent, which is why nothing is made that does not lead to the file. `CheckKeeps`, `ResolveKeeps` and `CreateKeeps` treat the three kinds of turn. From it `WalkFollows`, `GetIsTree`, `CreateIsTree`,
and `CursorsAdvance`, the safety half of termination: the cursor grows at each turn and stays within the string. It needs the invariant for its bound: the inner loop finds the NUL only if it starts within the string, and a cursor on a `/` moves because that `/` is skipped, onto a name that is there or is empty.

Lists and loops. The library's induction theorems have an operator as parameter and cannot be used. `Induction` proves the induction principle for sets of numbers (`NatSet`), from the well-foundedness of
inclusion on the subsets of an interval, and from it that a recursive function of a known step exists and is unique, and that an enumeration without repetition is no longer than its set. A list linked by hand is then described without recursion:
there is an enumeration of the blocks that the links follow, and what the walk of the code meets is proved once to be that enumeration.

`gpio`. `GpioInv` is `GpioTypeOK` with three facts about the links: a block's next is allocated, no two have the same next, none is before the first. `Isolated` follows with the
arithmetic of the macros (`FieldUnique`: two mapped pins share no field and no bit). `ListInv` is the enumeration of the clients along `next`, with every `prev` NULL, as `ClientInsert` leaves it: a disconnection
keeps it because the only one the server survives is that of the last client when there are others. From it `ClientsFound`, and with it `GpioSessions`, the refinement of `FileSessions`. `ServerImplemented` shows that the composed `Blinker` takes only steps of the server's
specification, and so `BlinkerIsolated`, `BlinkerClientsFound`, `BlinkerSessions`. The list needs finitely many connections (`ScoidAssumption`).

`rawfs`. `RawInv` is typing, memory for exactly the allocated blocks, and one enumeration of the files that `next` follows forwards and `prev` backwards. From it `OneList` and `NothingLost`. `ListingImplemented` maps the enumeration to the
sequence of `Listing`: a load appends, a deletion removes the first entry of a name, and relinking around a block is removing its place from the enumeration.

`serial`. `LockInv`: who is past the lock holds it, room seen by its holder stays, and only its holder is amid a text. From it `Fits` and `Contiguous`. `Where` says what a task that has got so far has before it: a client that waits, an offset inside the text. From it `SerialTyped`.
`Delivered`: what is put and what is still to put of a text make up what `puts` makes of the part that was received, a line feed of two characters included, until an error comes; from it `WholeText`, for texts without NUL. `Echoed`: what is left of the echo of a key takes the
terminal from what it shows to the line in the buffer, case by case of the key; from it `SeenIsRead`, through additions and deletions, up to
the fault of a key too many; a backspace that an empty line takes is in the line and not on the terminal (`Visible`).

legacy `rfs`. `LegacyInv` is typing, `StateTellsTrue` in both directions and `TreeClosed`, from the first step of the boot on. From it `StateTold`, `TreeStaysClosed` and `LegacySessions`.

`cmd`. `TableInv` follows each descriptor through `Exec` (`TableKept`); `SearchInv` says that the directories passed have each lacked the program, hidden it or refused its open (`GivenUpEverywhere`).

The arithmetic lemmas at the top of `ProcServerProofs` (`ModInc`, `ModDec`) say that counting on a counter that wraps counts
what it stands for.

The assumptions on the constants are named in the modules that declare them and evaluated by every run: widths are positive and a page divides a word (`WidthAssumption`), the inputs are of the types the code gives them, the boot image is as described above, and the
value that stands for NULL is none of the blocks, connections or records (the `NullAssumption`s). For `PathWalk`: NUL is no character of a path, and a tree has the parents of its directories (`PathAssumption`).

### Model-checked only

* `WalkEnds`, `Blinks`, `WritesAnswered`, `PromptReturns`: liveness, which needs ENABLED. What `WalkEnds` rests on, that each turn gets closer to the end of the string, is proved (`CursorsAdvance`). Every invariant and every action property of a passing run is the statement of a theorem.
* The four findings: a counterexample is a run.

## Not modelled

* The boot image parser: its outcome is (`Boots`, `RfsParse`), the offsets of the image are not. It is arithmetic on a mapped image and keeps no state of its own.
* The drivers of the `ve` board for timer and LED (its `led.c` does nothing), `TimerStop` and `TimerKill`, which `main` does not reach; the set-up of the UARTs; a `MutexInit` that fails.
* `cat` and `ls`: clients that open, print and end. `echo`, `led`, `fsTest` and the tasks with which `cmd` tries calls of the kernel out before its first prompt: straight-line demonstrations
  that share no state with what is modelled.
* Of the legacy server the reference counts, which nothing reads, `DeleteFile`, which nothing calls, and the entries of a listing.
* The LISTENERS code of `proc/connection.c`, which is not compiled. Build scripts and makefiles have no behaviour.

Next: the parser against an abstract image.
