# A verification of MyTinyC-SModel

MyTinyC-SModel is a small select()-based chat server and its client
(`src/src`), on top of a C utility library (`src/components`): containers,
queues, wrappers of system calls, a logger of its own, and a copy of
EasyLogger. This directory holds TLA+ models of it, the TLC runs that check
them on small instances, and TLAPS proofs of what matters most for every value
of the constants.

Paths below are relative to the repository. Short names: `ModuleManager.c`,
`Tools.c`, `ThreadsManager.c` and `TinyServer.c` are in `src/Server`,
`TinyClient.c` in `src/Client`, the rest in `components`.

## 1. The system

### Server (`src/Server`)

One process, two threads.

* The main thread runs `while (!s_exitFlag) { fdSetOperation(); selectInit();
  extClientFilter(); }` and then `netModuleUninit()`. Its state is `g_clients`
  (a dynamic array of descriptors), `g_fdRead`, `_sock` and `_cSock`. A turn of
  the loop selects with a second's time limit, accepts at most one connection,
  tells every registered client of it (`CMD_NEW_USER_JOIN`), registers it, and
  then serves at most one message of every readable client (`processor`). The
  clients whose stream ended are recorded in `t_idxToRm` and squeezed out of
  `g_clients`; their descriptors are not closed.
* The command thread (`cmdRecvThread`) reads words from the console: `E` sets
  `s_exitFlag`, `L` runs `ls`, `C` lists a file, `S` opens the listed files and
  walks `g_clients`. It shares `g_clients` and `s_exitFlag` with the main
  thread and takes no lock.

What makes it correct: the registry follows the connections (nobody forgotten,
nobody twice, order kept), every request is answered once and in order, every
notice is told once, nobody can hold up the others, and the process ends when
told to. What makes it hard: blocking reads in a single-threaded loop, clients
that leave at any point, the reset and SIGPIPE of a send to a client that left,
in-place compaction with an index array that is read past its end, and the
second thread.

### Client (`src/Client`)

Two threads as well: the main thread connects and then takes one message a turn
from the server, the other one turns the user's words into messages, from the
moment the socket exists. They share the socket and `g_bExit`.

### Library (`components`)

| part | state | operations | what makes it hard |
|---|---|---|---|
| `utils/dynarr` | buffer, length, capacity | reserve, resize, insert, remove, append, swap, free | a failing realloc, unwritten slots, shifts at both ends |
| `datastructs/list`, `hashtable` | nodes and links | insert, remove, replace, split, reverse, rehash | pointer surgery, two sets of links per node, stale links |
| `utils/dataqueue` | list, lock, condition variable, wake-up flag | push, push list, pop-wait, wake, clean | a flag exchanged outside the lock, time limits, a signal only when the list was empty |
| `utils/log` | descriptor, size, sequence number, cache list | print, flush, clear, destroy | a flush outside the lock, two ways of use at once |
| EasyLogger `elog.c` | line buffer, lock flags, tag filters | output, raw, hexdump, lock enable and disable, set level of a tag | a shared line buffer, a fault inside the lock, cutting |
| EasyLogger `elog_async.c` | ring buffer, two indices, two flags, semaphore, thread | put, get line, init, start, stop, deinit | index arithmetic at the end of the buffer, full against empty, lost notices, restarts |
| EasyLogger `elog_buf.c` | buffer, enable flag | output, flush | disabling with bytes left |
| EasyLogger file and flash plugins | files, rotation; RAM buffer, flash | write, rotate, config; write, flush, clean, output | a failing rename or a crash half way, a lock given up half way, words |
| `sysapi/ipc` | read-write lock of three events | lock for reading or writing, unlock | a flag no event protects, the order in which events are set |
| `sysapi/process` | fibers, a global hand-over | create, switch, free | who reads whose pointer, who returns to whom |
| `sysapi/io` | epoll registrations, socket pair, wake flag; overlappeds | commit, wait, wake up, free | one-shot events, a lost wake-up, freeing what the kernel writes to |
| `sysapi/socket` | sockets and their modes | connect and accept with time limit, write all, read all, pair | late answers, another acceptor, partial transfers |
| `utils/json`, `cXML` | trees | append, detach, delete, print, parse | links of four neighbours, escapes, sizes computed in advance |
| `datastructs/memfunc`, `random`, `misc` | buffers; three words | copy, swap, reverse, bits, checksum, split, shards; draw | overlaps, empty pieces, carries |

The rest (`file`, `mmap`, `terminal`, `ctime`, `error`, `statistics`, `hash`)
is one system or library call per function, or arithmetic of published
algorithms.

How they interact here: server and client call the kernel directly; the server
keeps its clients in a `dynarr`, reads its configuration with `json` and logs
with `log`. `dataqueue` and `log` keep their data in a `list` and use the locks
of `ipc`. EasyLogger stands alone. `io`, `socket`, the fibers, the trees and the
hash table are used by nothing in `src/src`; their callers in the models are the
ones their interfaces ask for.

## 2. The modules

| module | models | built on |
|---|---|---|
| `DynArr` | dynarr, operators | |
| `ListStore` | what two arrays promise: two lists | |
| `DynArrUse` | a program that uses two arrays | `DynArr`, refines `ListStore` |
| `TinyNet` | wire commands, TCP as both programs use it | |
| `TinyServer` | the server's main thread | `TinyNet`, `DynArr` |
| `TinyClient` | the client's two threads | `TinyNet` |
| `TinySystem` | server, clients, network | `TinyServer`, `TinyClient` |
| `ServerConsole` | the command thread against the main thread | `DynArr` |
| `FifoQueue` | what a queue between threads promises | |
| `DataQueue` | dataqueue | refines `FifoQueue` |
| `ElogAsync` | asynchronous output of EasyLogger | refines `FifoQueue` |
| `ElogCore` | elog.c: lines through one buffer, the lock, a fault, tag filters, dumps | |
| `ElogBuf`, `ElogFile`, `ElogFlash` | buffered output, file plugin, flash plugin | |
| `Log` | utils/log | |
| `List` | the doubly linked list, its links | |
| `Hashtable` | buckets and element list | |
| `Json`, `Xml` | trees, printers, parsers | |
| `MemFunc`, `Rand48` | functions that only compute | |
| `RWLock` | the readers-writer lock of the Windows build | |
| `Nio`, `Iocp` | the loop on epoll, and overlapped operations on completion ports | |
| `Fiber` | fibers of the POSIX build | |
| `Sockets` | connect, accept, write all, read all, pair | |
| `Selection` | what is of some kind in a sequence, for the observations of `TinySystem` and `ElogFlash` and the walks of `Hashtable` | |
| `DynArrLemmas`, `SelectionLemmas` | lemmas about operators, for the modules of theorems | `DynArr`, `Selection` |
| `StructuresProofs`, `TinySystemProofs`, `ConsoleProofs`, `PrimitivesProofs`, `OutputsProofs`, `LoggersProofs` | theorems | the modules they are about |
| `MCTinySystem`, `MCServerConsole`, `MCElogAsync` | instances for TLC | |
| `MCTinyUsers` | instance: users that come and go, users that talk | `MCTinySystem` |
| `MCStructures` | instance: arrays, lists, tables, memory, random numbers | five modules side by side |
| `MCTrees` | instance: JSON, XML | two modules side by side |
| `MCLoggers` | instance: log, EasyLogger's synchronous parts | five modules side by side |
| `MCPrimitives` | instance: queue, lock, loops, fibers, sockets | six modules side by side |

Components in one of the last four instances share nothing in the code; the
variable `using` chooses one in the initial state and only that one moves, so the
state spaces add up and are not multiplied, and each property is checked of its
component's own behaviours.

How state and actions correspond to the code, module by module:

**`DynArr`, `DynArrUse`.** An array is the record of `DynArrRaw_t`. A slot
that was allocated and not written holds `Junk`. Operators give the value after
a successful allocation; `DynArrUse` adds the failing one (`AllocFails`).
`dynarrResize` is used to shorten only, as in `extClientFilter`.

**`TinyNet`.** `out[c]` and `in[c]` are the two halves of the byte stream from
client `c`: on its way, and in the server's kernel. A message is a header
segment and, when it has one, a body segment; they arrive separately, so a
header may be readable before its body, but a segment arrives whole. `down[c]`
is the other direction, as messages. `fd` is the server's descriptor table;
`accept` takes the lowest free one. A client that closes with unread messages,
or that is sent something after it closed, makes the kernel answer with a reset
(`rst`); a later `send` to it raises SIGPIPE, which nothing handles, or is the
first to report the reset and only fails.

**`TinyServer`.** `pc` is the place in the main loop; every blocking call and
every turn of an inner loop is a step. `Select` may report a failure
(`SelectErrors`) after which the set is used as built. `IsHit` is the
comparison of `Tools.c:80`: behind the last recorded index it compares with any
member of `Garbage`. `processor` has no return value on its normal paths; the
modelled build is the repository's (gcc, no optimisation), where the caller
finds the result of the last call in the return register, so a failed last
`send` counts as an exit. The requests `ReadHeader` knows are those of
`TinyClient.c`, and a `CMD_ERROR`, which the default branch answers with another. The
same branch would meet a `CMD_COMMON_MESSAGE` (`defs.h:116`), and leave its 8 KiB of
body in the stream, to be read as headers four bytes at a time; no program of the
repository sends one, and none is modelled.

**`TinyClient`.** The loop condition is evaluated once per turn (`LoopTest`)
before the two seconds' `select`. What `processor` does not know it answers with
`CMD_ERROR`. A client in `Talkers` is of another make: it also sends a `CMD_ERROR` on
its own, which `TinyClient.c` never does, as the server sends none first.

**`ServerConsole`.** Every access to `g_clients` and `s_exitFlag` by the command
thread is a step, in program order (unoptimised code on x86). Of the main thread's,
the new buffer, the new slot, the new length, the shift and the cut are steps; the
shift of all elements (`Squeeze`) and `realloc` with the two stores after it (`Grown`)
are one step each, although the code takes them one by one. Within them no slot below
the length becomes unwritten, and the command thread reads neither the capacity nor
anything that a half-done shift would show and a whole one not: which client it sees at
an index is not part of the property. A buffer's capacity stands for its address, as it
grows by one slot at a time; reading a buffer that was reallocated since may return
anything.

**`DataQueue`.** A critical section is a step, cut where `PopWait` waits.
`active` and `asks`, fixed in the initial state, are the consumers a program
has and the counts they pass, so that one run covers programs of different
kinds. Spurious wake-ups are allowed; a timed consumer may time out whenever it
waits.

**`ElogAsync`.** A put under the output lock is two steps, the copy and the
notice, as the thread may be scheduled between them. The thread's steps are the
test of `thread_running`, the wait, the copy of a line, its output. The output
lock is empty in `elog_port.c`, "add your code here"; the model assumes the
user added one. `elog_start` and `elog_stop` are two steps each, the output flag
and the mode.

**`List`.** `head`, `tail`, `prev` and `next` are the pointers of `list.c`; the
fifth variable, `contents`, is what the caller was promised. An action writes the
pointers as the code does, from the pointers alone, and the promise from the
promise; `Linked` says that the two agree. Nodes start with uninitialised links
(`Wild`) and keep their links when they are removed. Callers are correct: a node
put in a list is in none, and a position named is in that list. `Rank` stands
for the caller's comparison. The list that a split returns is put in an empty
list of the caller's.

**`Hashtable`.** As `List`, with two sets of links: buckets (`prev`, `next`) and
all elements (`elePrev`, `eleNext`). Operations are operators on one state `s` that
write one field after another as the code does (`Put`), so the later writes see
the earlier ones. The caller frees a removed node (`Wiped`). `members` is what
the callers put in.

**`Json`, `Xml`.** `jn` and `xn`, `xa` hold the structs; detaching, appending and
deleting write them as the code does. Texts are sequences of characters, of
which only those are told apart that the parsers tell apart; a comment or a hint
is one character. `FromString` and `XParse` give the tree as an outline, the nodes
in order with depth, type, name and value, and an error or a parse without end as
a state. `Text` and `PrintOf` print, `BytesNum` and `PrintSize` compute the size
that is allocated for it.

**`MemFunc`, `Rand48`.** A buffer's bytes, and the code's loops over it as folds in
the direction they run. `strSplit` and `iobufShardCopy` keep a cursor between
calls and are actions. `Rand48` computes with limbs, carry by carry; the code's
limbs have 16 bits, the run's 4, because the reference is computed in one number
(48 bits are beyond TLC's integers).

**`Log`.** A printer's line is inserted in the cache or written, under the lock;
`logFlush` takes the whole cache under the lock and writes after it. Opening and
writing a file are a step per system call, each of which may fail. The number of the
segment, which the flusher changes without the lock, is raised before the file is opened
and lowered when that failed, each time with a load (`LogLoadSeq`) and a store
(`LogRaise`, `LogLower`) that another thread may come between; it is unsigned and wraps
at `SegWord`. `usage` says whether the public flag `async_print_file` is left alone.

**`ElogCore`.** `log_buf` is cells that hold the thread whose line was written.
The parts of a line are written one by one, with the code's cuts. One fault may
end a thread anywhere; the handler then runs alone, disables the lock, logs,
enables it. `elog_output_lock` takes the port's lock in one step (`OutputLock`) and sets
the flag that says so in the next (`SetFlag`), `elog_output_unlock` gives the lock back
and then clears the flag. `disturbed` records that a flag was cleared that by then was
the next thread's. `LockFreedAfterFault` excepts these, and a fault between taking the
lock and setting the flag (place `note`).

**`ElogBuf`, `ElogFile`, `ElogFlash`.** Bytes and lines are numbered. In `ElogFile`
each renaming, removal and opening of a rotation is a step and the process may end
between any two; what stdio holds back is lost then. The `fopen` that looks whether a
file is there finds it when it is, and `remove` succeeds; that either fails for a file
that exists (`elog_file.c:86-94`) is not modelled. In `ElogFlash` a writer that does not fit
gives up the lock (`FlashFill`, `FlashFlush`). What `elog_flash_output_recent` prints
(`OutputRecent`) is taken from one state: the code reads the used size before it takes
the lock (lines 90 and 141), and a clean in between is not modelled.

**`RWLock`.** Each wait and each set of an event is a step, and so is each access to
`__exclusive_lock`. This is the Windows build; on POSIX the same functions are
`pthread_rwlock`.

**`Nio`.** `armed` is what epoll would report; an event takes all of it away
(`EPOLLONESHOT`) until the next commit. The loop reads the byte, clears the flag,
then takes its work. The order in which the program does things around the
component is assumed, and stated in the module's head.

**`Iocp`.** `kernel[o]` is the kernel's view of an overlapped: nothing, pending,
completion queued. Both the caller and the completion can be last.

**`Fiber`.** A context is where a suspended fiber goes on. The hand-over of the new
fiber's pointer through the global is a step per access. The release of the
spin lock is a full barrier in the modelled build (x86, where
`__sync_lock_test_and_set` is an `xchg`).

**`Sockets`.** The network answers a connect, or refuses it, or neither; `select`
and `poll` may be interrupted. Two acceptors share the listening socket. `send`
and `recv` move any positive part.

## 3. The runs

Bounds are constants of the modules, given in the `.cfg` files.

| run | instance | what it shows |
|---|---|---|
| `MCStructures` | arrays of up to 3 of two values; 2 lists and 2 tables over 4 nodes; a buffer of 4 bytes; limbs of 4 bits | no unwritten slot in use and arrays are lists (`NoJunkInUse`, `IsListStore`); lists pass the promised nodes both ways, and nothing else is written (`Linked`, `OthersUntouched`); tables find and list their members (`HtAgrees`); copies, tokens, shards, random numbers and list reads are what their definitions say (`FunctionsAgree`) |
| `MCTrees` | 4 JSON nodes; 3 XML nodes and 2 attributes; strings with what the parsers treat specially | trees are linked whatever is added and detached (`TreesLinked`) and their text is parsed back (`TextsReadBack`) |
| `MCTinyUsers` | 3 descriptors, `select` may fail; either 3 clients that come and go, or 2 of which one types two messages of any kind and may be of another make, that sends a `CMD_ERROR` of its own | the registry in join order through every removal, nobody forgotten, notices told exactly once, a full table stays full; requests conserved and in order, `CMD_ERROR` only with the client that caused it (`TalkIsInOrder`), and there for ever |
| `MCTinyLive` | 2 clients, one asks once, fair | requests answered, exited clients removed, `E` stops the server and clients follow (`ExitEndsAll`) |
| `MCTinyGarbage` | 3 clients, the unwritten slot may hold an index | violated: a connected client is dropped |
| `MCConsole` | 3 clients accepted, 2 names, 2 listed files | the unlocked walk stays inside its buffer and, as long as the buffer is current, reads written slots; the file list is the path buffer, repeated (`ConsoleReadsRight`) |
| `MCConsoleChosen` | the same | violated: the files opened are not those chosen |
| `MCQueue` | one or two consumers, two wakers, 4 items, lists of up to 2; 3 threads that lock twice; 2 descriptors, 2 threads, 3 pieces of work; 2 overlappeds, 2 sockets; 2 threads, 2 fibers; 2 acceptors, backlog 2, 6 bytes, 3 descriptors | `DataQueue`: items conserved in order, no sleep over items, no lost wake-up (`NothingLeftBehind`), first-in first-out (`IsFifo`), everything delivered; `RWLock`: writers exclude, everybody gets in; `Nio`: nothing is missed; `Iocp`: overlappeds and sockets have one owner; `Fiber`: a fiber is itself; `Sockets`: calls keep their word |
| `MCElog` | buffer of 4 bytes, poll buffer of 3, 2 callers, 8 bytes, 2 inits | index and flag arithmetic and notices (`RingAgrees`), order, drops only when full, delivery, deinit returns |
| `MCElogEmpty` | an empty log | violated: an empty buffer accounts for a full one |
| `MCElogLine` | 12 bytes | violated: two lines at a time |
| `MCLoggers` | 2 printers with 2 lines each and a flusher, segment numbers that wrap at 3; 2 loggers and a handler, lines of 3 cells, 1 slot for 2 tags; 9 bytes through a buffer of 3; 7 lines, up to 2 backups, one crash; 2 writers, words of 2 bytes, a flash buffer of 4 | `Log`: lines kept, in order (`LogKeepsLines`); `ElogCore`: lines whole and dumps end (`OutputIsWhole`), the lock free after a fault (`LockFreedAfterFault`), a tag's level holds; `ElogBuf`: order; `ElogFile`: the last lines, without a gap, through failures and a crash; `ElogFlash`: each writer's bytes once and in order, and the recent log read back |

Several of these properties are conjunctions of named parts, one per promise;
the mutants break them one by one.

Why these bounds are enough for what is asked: three clients are the fewest for
which a removal has a neighbour on both sides and the index array can hold more
than one entry; three descriptors make every removal leave a full table behind.
Two messages of one client are the fewest that can be answered out of order. A
ring of four bytes with logs of two and four meets every case of the
arithmetic: a fit, an exact fit, an overflow, a wrap in the middle of a log,
and a copy cut by the poll buffer. Two consumers are the fewest that can take
each other's signal, and two wakers the fewest that can meet at the flag. Four nodes
let a part of two be cut out of the middle of a list, or one list of two be
appended to another; in the tables, two of them have one key, and buckets of one
and two make keys collide and part again. Three readers and writers are a writer, a
reader and one that comes while the other leaves. Two rotations of two backups
move every file through every name, and seven lines fill them all. A line of
three cells is cut with every combination of head and body; one slot for two tags
is always contended. Two descriptors have their events in one batch, in both
orders; two threads that wake the loop meet at the flag. The four JSON nodes make
a node with a left and a right neighbour; the strings and values hold an escape, a
separator and a blank.

Deadlock is checked for `MCStructures` and `MCTrees`, whose components never stop. Threads that
have used up their bounds, a server that was told to stop, and a logger that was
shut down do stop: the other runs say `CHECK_DEADLOCK FALSE`. Symmetry is used for
clients that differ only by name, for nodes and attributes of trees, and for
threads of the loggers, in runs without liveness properties.

Fairness. `TinySystem!Fairness` is weak fairness of the server's main thread, of
each client's main thread and of delivery: threads that can run are scheduled,
and TCP retransmits. Users are not fair: nobody has to type, exit or connect
again. `MCPrimitives!AllFairSpec` makes consumers come back and take the lock when
it is free, wakers finish the call they are in, and threads that are inside a call
of the readers-writer lock go on; nobody has to push or to take the lock, and no
wait has to end by itself. `ElogAsync!FairSpec` is weak fairness of what each
thread has begun.

### What is assumed of the surroundings

* Locks that the ports leave empty ("add your code here" in `elog_port.c`, and in
  the plugins' ports) are filled in.
* Allocations succeed, except where `dynarr` handles a failing one.
* Callers are correct where the interface needs it: a node is in one container, a
  tree is not appended below itself, a position is inside, `strSplit` is given the
  length of its text.
* Only one thread commits, frees and waits for overlappeds.
* The program around the epoll loop queues work before it wakes the loop, and
  commits a descriptor again after its event. The latter is needed: one-shot
  events disarm both directions, whichever of them happened.

### What the code was found to do

* `Tools.c:80` reads `t_idxToRm.buf[t_ptr]` past its last element. When the slot
  happens to equal a later index, a connected client is dropped and never served
  again (`MCTinyGarbage`). With a slot that is never an index the registry is
  right (`MCTinyUsers`).
* Removed clients' descriptors are never closed (`FullStaysFull` holds): the
  server runs out of them, and `netModuleUninit` closes only the registered ones.
* A `CMD_ERROR` answers a `CMD_ERROR` on both sides, so a single one, which a client of
  another make could send, is exchanged for ever (`ErrorsNeverDieOut` holds).
* All entries of the file list are the same pointer (`MCConsoleChosen`).
* An empty `elog_raw("")` fills an empty ring (`MCElogEmpty`), and a line that
  ends at the end of the ring is output together with the next (`MCElogLine`).
* After `elog_deinit` and a second `elog_init`, bytes left in the ring wait for
  the next log: `NoMissedNotice` and `AcceptedIsShown` are stated for the first
  life only.
* With two consumers that take a limited number of items, a consumer can sleep
  over items until the other comes back, and a wake-up can be consumed by the
  consumer that did not need it: `NoSleepWithWork` and `WakeNotLost` say under
  which use they hold.
* The console's help offers `exit`, the code tests for `E`; `EOS` is listed as a
  file. These are single comparisons and have no run.

What the other properties had to leave out, each where its comment says so:

* `log.c`: a cache flushed while another thread prints synchronously: both may find
  no file open, change the number of the segment at once, open the same segment or two,
  and lines go missing. `LogKeepsLines` then promises nothing about the order, and that
  no line is missing only while a single file was opened. The maximal file size is never set, so the
  log never rotates to a second segment.
* `elog.c`: a thread that faults between lines 372 and 373 has the lock and no flag that
  says so; the handler does not give it back, and it stays locked for good.
  `elog_output_unlock` clears its flag after it gave the lock back, so it
  may clear the flag of the next thread inside; a fault then leaves the lock
  locked. A hex dump of more than 65535 bytes never ends, inside the lock.
* `elog_buf.c`: `elog_stop` disables the buffer while it holds bytes and logs once
  more, ahead of them.
* `elog_file.c`: lowering `max_rotate` leaves files behind that nothing moves.
* `elog_flash.c`: `elog_flash_output_recent` of a size that is more than one chunk
  and not whole words starts too early and leaves out as many bytes later.
* `hashtable.c`: after `hashtableRehash` the list of elements and the count are those
  of an empty table, so iteration gives nothing, and a second rehash loses all.
* `json.c`: a colon inside an array makes the parser loop for ever; quoted strings
  may not hold `{ } [ ] , :` unescaped, and lose trailing blanks; `cJSON_SetString`
  ignores a copy that fails; printing or sizing a node that has siblings runs on
  into them.
* `cXML.c`: deleting an attached node frees its right siblings and leaves its
  parent's pointer; `cXML_ByteSize` is too small for a nameless node with children;
  attributes come back in reverse order; a comment before a closing tag fails the
  parse, an empty attribute value becomes none; `cXML_FirstChild` and `cXML_GetAttr`
  match a name that begins with the one asked for; detaching and adding do not keep
  `numattr` and `numchild`.
* `socket.c:767` says "select error,must close socket", but an error of `select`
  leaves the sets as they were, so that branch is not reached and a socket that is
  still connecting is returned. A timed accept leaves the listening socket
  non-blocking for good.
* `io.c`: a refused connect arrives from epoll as a readable event; `aioSuspend` and
  the kqueue wait take `msec % 1000` for nanoseconds.
* `process.c`: a fiber whose entry returns ends its thread.
* `memfunc.c`: `strCmpNoCase("abc", "abcd")` is 0; `strSplit` of a text that begins
  with a zero reads in front of it, and goes on behind a zero inside;
  `strLenUtf8` does not look at continuation bytes.

## 4. The proofs

`tlapm` checks them, for every value of the constants. What they assume of the
constants are the `ASSUME`s of the modules: what kind of value a constant is, that
two constants that stand for different things differ (`WakeFd` and the other
descriptors, `Junk` and the descriptors), that a buffer or a table has at
least one slot where the code divides by or indexes with its size; that the
consumers of a queue are finitely many; that the flash buffer and a chunk are whole
words (`FlashAssumption`), that there are finitely many printers and segment numbers wrap at a positive one (`LogAssumption`), that one value of `max_rotate` is the largest
(`RotatesAssumption`), and that a hash table's counter can count all nodes (`HtAssumption`; it is
as wide as a pointer, or the nodes do not fit in memory). Two groups of
theorems have a hypothesis more, each of which the code does not see to and one of
the violated runs shows to be needed:

* `NoIndexInGarbage`, of `NobodyForgotten`: the slot behind `t_idxToRm` does not read
  as an index (`MCTinyGarbage` is the run without it).
* `SomethingToSay`, of the theorems about `ElogAsync`: no log is empty
  (`MCElogEmpty` is the run without it).

What is proved, and along which argument:

* `DynArrLemmas`: what each operator returns for a well-formed array.
* `StructuresProofs`, dynamic arrays: `ArraysWellFormed`, `NoJunkExposed` (NoJunkInUse) and
  `BuffersNeverShrink` (no operation but freeing and swapping lowers a capacity), for
  every set of values and any length. The invariant is `UseInv`: both arrays are
  well formed and the slots in use are written. It is inductive as it stands, by
  one lemma per operator. `ArraysAreLists` is the refinement of `ListStore`: each
  macro is shown to do to the sequence of the slots in use what the list operation of its
  name does (`InsertIsInsertAt`, `RemoveIsRemoveAt`, `ResizeIsCut`,
  `CopyAppendIsConcat`), which needs `UseInv`, because the contents of an array
  with an unwritten slot in use would be no list of values.
* `StructuresProofs`, lists: `ListsTyped` (the type invariant) and `ListsLinked` (Linked), for any number
  of lists over any set of nodes. The invariant, `IInv`, is the two together: the
  promise and the links support each other, and that no node is in two lists is
  what keeps a write to one list's nodes out of the others. What an operation
  does to the links of one sequence is a lemma about `Chain` alone (`ChainInsert`,
  `ChainCutOut`, `ChainPart`, `ChainReplace`, `ChainReverse`, `ChainJoin`);
  `Elsewhere` carries over the other lists, `Rebuild` puts the pieces together,
  and each operation has a lemma of its own. Splits at one node are shown to be
  splits of a part. `OthersStayUntouched` (OthersUntouched) follows from the invariant before
  and after a step, because the promised contents determine the links
  (`LinksFollow`).
* `StructuresProofs`, hash tables: `HtIsKept` (HtAgrees), for any tables, nodes, keys, hash and
  bucket sizes. The links of all nodes are one state that every table writes to, so
  the invariant `HtInv` is about all tables at once. It says that no node is a
  member of two tables, and of each table which of its members it still holds (`Keeps`:
  all until the second rehash, some after it) and that those, and no other node, make
  two doubly linked lists (`Holds`): one per bucket, whose nodes have that slot and
  know it (`Placed`), and one of all elements (`Ordered`). A walk ends because some
  function to the integers increases along each list (`Double`); it is not named, since a
  removal keeps it and an insertion takes a value below the first node's. Until the
  first rehash the order of the elements is that of the insertions (`Walks`). HtAgrees
  speaks of searches and walks only and is not inductive: an operation
  trusts the links to both sides of a node and its `index`. What an operation does to the
  links of one list is a lemma on functions (`UnlinkElsewhere`, `BucketedPush`, `LinedRemove`,
  `LinedReplace`, ...); a rehash is shown to carry the elements over one by one, in between
  two tables that share the links (`Moving`), by induction over the walk; and
  `OneTableChanges` leaves the other tables as they are. The freed node is wiped only
  after it left both lists, so nothing reads it.
* `TinySystemProofs`, first part: `TypeCorrect` (the type invariant), `RegistryOrdered`
  (RegistryInJoinOrder) and `FullTableStaysFull` (FullStaysFull), for any number
  of clients and descriptors, any messages, and any content of the unwritten
  slot. The invariant is `IInv`: types, `CountersOK` (where the loop counters are
  at each `pc`) and `RegistryInv`. RegistryInJoinOrder is not inductive: while the
  array is compacted it holds stale elements, and the accepted descriptor is
  greater than the listed ones only because descriptors are never freed while the
  server runs. `RegistryInv` therefore says that the open descriptors are
  exactly `1 .. k`, that the slots still meant (`Listed`: all of them, or
  during compaction those kept so far and those not reached yet) increase
  strictly, and that `cSock` is `k` while a client is being accepted. The proof
  has one lemma per action that touches the registry (`AcceptKeeps`,
  `JoinInsertKeeps`, `CompactStepKeeps`, `CompactDoneKeeps`, `GoneKeeps`) and a
  frame lemma for the others.
* `TinySystemProofs`, second part: `TalkInOrder` (TalkIsInOrder), `EverybodyToldOnce`
  (JoinsToldOnce), `NobodyForgotten` (NoLiveClientForgotten) and the action property
  `ErrorsLiveOn` (ErrorsNeverDieOut). On top of `IInv`, `TalkInv` says how a client's
  process, its socket and the server's tables agree (`PeerInv`), where the server's
  loops stand (`LoopInv`), that a stream is headers each followed by its body or by
  the end (`StreamInv`), that a client's requests are, in order, answered and read,
  answered, in the server's hands, or on their way (`AskedInv`), and how many notices
  each client is owed (`NoticeInv`, a count made from its descriptor and the last
  one, because descriptors are handed out in order). `GoneInv` adds that `t_idxToRm`
  holds slots of exited clients in increasing order (`RemovalInv`) and that an open
  descriptor is listed, is being announced or has exited (`KnownInv`). The proof
  tells what a step does to one client's connection (`Says`, `Hears`, `Goes`, and
  what the server does) apart from where the programs stand, so that the four parts
  share one case distinction.
* `ConsoleProofs`: `ConsoleReadsInside` (ConsoleReadsRight). That the slot read is inside the
  buffer depends on what the main thread did since the length was compared.
  `IInv` therefore bounds the walk by the length that was compared (`WalkInside`) and says
  that all slots below it were written; `MainArray` shows of every access of the
  main thread, the half-done ones included, that the buffer does not shrink and
  no written slot becomes unwritten (`Grows`). `SlotsWritten` names the slot that is
  written and not yet counted.
* `PrimitivesProofs`, a section for each component. `QueueLeavesNothing`
  (NothingLeftBehind) and `QueueIsFifo`, the refinement of `FifoQueue`: the property is
  inductive once it is known which consumers can be in a call. `WritersAlone`
  (WritersExclude): exclusion alone is not inductive, `RwInv` adds that the count
  is the number of the counted, which event each thread between two steps has
  taken, and when `write_ev` is set. `OverlappedsHaveOwners` (OverlappedsOwned): `IocpInv`
  adds how the flags of one overlapped go together (`Life`). `NioMissesNothing`
  (NothingIsMissed): `NioInv` says that a descriptor is armed or its event not yet
  handled, and that a raised flag has a byte, somebody about to write one, or a loop
  about to clear it. `FibersStayThemselves` (FibersAreThemselves): `FbInv` says that the spin
  lock excludes, and what the global hand-over holds at each `Place` of a thread.
  `SocketCallsKeepTheirWord` (CallsKeepTheirWord): an invariant for each of the connect, the
  accepts, the bytes and the pair, which share no variable.
* `OutputsProofs`, the ring buffer: `RingKeepsCount` (RingAgrees), `PutsAppend` (the action property
  PutAppends) and `PipeIsFifo`, the refinement of `FifoQueue`, through stop, deinit and
  init. RingAgrees says nothing of a thread that tested `thread_running` and does not
  wait yet, of a log on its way to the buffer, of the poll buffer between two lines,
  or of the time before `elog_init`; `IInv` adds these (`Restful`, `Fresh`, `Noticed`).
  The index arithmetic is in lemmas about `Past` and `Ahead` alone: how far a slot lies
  past the oldest byte, around the end (`AheadOf`, `UsedRange`).
* `OutputsProofs`, the plugins. `FlashIsKept` (FlashReadsBack): `FlashInv` adds that the
  bytes a writer has in its hands are the last of those it was given, in order
  (`InHands`), so that what `FlashFill` moves to the buffer follows what is there of
  that writer, whoever wrote in between; a flush adds only padding, which is
  nobody's (`PaddingIs`). What is read back is arithmetic of whole words and chunks
  (`DivMod`, `WholeWords`), without a state. `FilesAreKept` (FilesKeepTheLast): `FilesInv` says
  where the name without a file is at each step of a rotation (`Standing`, `Hole`);
  that the pieces, from the oldest file to what stdio holds back, are in order and
  hold all lines from some line on (`Lasting`); and, while nothing failed, that
  every file but the one written is full and none is missing below another
  (`Shape`), which the property says only when a line has left and no rotation is
  under way. What a step does to the pieces (`PiecesFlush`, `PiecesMove`,
  `PiecesDrop`, `PiecesAdd`) is told apart from where the process is.
* `LoggersProofs`: `LockIsFreed` (LockFreedAfterFault), `OutputStaysWhole` (OutputIsWhole),
  `TagLevelsHold` (TagLevelHolds) and `BufferKeepsOrder` (BufKeepsOrder), for any number of
  threads, tags and slots and any lengths. `LockInv` says who holds the lock at
  each place of each thread, through the fault and the handler, as long as
  no cleared flag disturbed it: taking the lock and setting the flag are two places, and
  a thread that died between them is what may keep the lock locked (`LeftLocked`);
  `LineInv` says what the line buffer holds of the line of
  whoever is inside, at each place; `TagInv` that no tag has two slots and what a
  thread has found that is about to write one. `BufKeepsOrder` becomes inductive
  with the bound on what is buffered.
* `LoggersProofs`, the log file: `LogIsKept` (LogKeepsLines), for any number of printers
  and of lines, with failing file operations and `logClear` at any time. `LogInv` adds
  that the line a printer is about to enter was not entered before (`LogFresh`); who
  can be writing while the log is used one way only (`LogModes`: one printer, because it
  has the lock, or the flusher); where the descriptor is while the file is being
  opened (`LogOneFile`); that the number of the segment is 0 before the first opening,
  except from the raise to the end of an attempt, when the thread that makes it is the
  only one to change it (`LogFirst`), so that it is 0 again after a failure and the
  segment opened is the first; that in one way of use the file is opened once
  (`OpenedOnce`); and that no line is at two places and none is missing
  (`Sound`), which the property says as a fact about an order or about a set only. What
  a step does to the lines (`SoundWrite`, `StraightWrite`, ...) is told apart from
  where the threads are; a line given up leaves the order of the others as it is
  (`OnlyDrops`).

Where the proofs need induction, it is stated of sets instead of properties: a set
that holds 0 and with each number the next holds all (`NatSetInduction`, from the
library's theorem that numbers are well-founded), and a set that holds the empty
sequence and with each sequence the ones that are longer by one holds all
(`SeqSetInduction`). `Only`, the recursive function that picks the members of a set
out of a sequence, is shown to exist that way, and what it does to the end of a
sequence, to two sequences joined and to a sequence of one kind are lemmas of
`SelectionLemmas`.

Only model-checked:

* every liveness property: liveness under fairness is out of the prover's reach;
* `TreesLinked` and `TextsReadBack`: `Json` and `Xml` use recursive operators, about which
  the prover cannot reason;
* `FunctionsAgree`: that loops written as folds and recursive functions compute what
  their definitions say, for every input, is induction over data.

## 5. Not modelled, and the plan

The modules of the plan are written, and every invariant that the prover can reach is
proved. What could come next is `TreesLinked` and `TextsReadBack` for trees of any
size: `Json` and `Xml` would have to walk their trees with recursive functions in place
of operators, as `Hashtable` walks its lists.

Left out, and why:

* `file`, `mmap`, `terminal`, `ctime`, `error`, `statistics`, and the rest of `ipc`,
  `process`, `socket` and `misc`: one system or library call per function, so a
  model would restate the manual of the operating system.
* `hash` and the Mersenne twister: 32- and 64-bit arithmetic of published
  algorithms, beyond the integers TLC computes with.
* `cstring.c`, the remaining conversions and comparisons of `memfunc.c`: loops over
  one character.
* The kqueue branch of `io.c` and the POSIX `aio` wrappers; the build of EasyLogger
  without line output and of the flash plugin without a buffer; the keyword filter.
* `cfgModuleInit` and `logModuleInit` of the server, `dataqueueDestroy`.
* In the file plugin, a probe or a removal that fails for a file that exists; in the
  flash plugin, a clean between the look at the used size and the lock; of the server's
  main thread, the single writes of a shift and of a growth, against the command thread.
* `src/defs.h` and `test.c`: an older header that nothing includes, and a demo.

Time is not modelled, only that time limits expire; neither are segments that
arrive in pieces at either end, the body of a `CMD_COMMON_MESSAGE`, which the server
would take for headers and which nothing here sends, and allocation sizes in bytes (`dynarr.c:14` gives 8 bytes per element whatever
its size; the arrays here hold nothing larger).
