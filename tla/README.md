# Verification of noopsys

noopsys is a Linux emulator in JavaScript: it interprets MIPS processes, gives
them virtual memory, system calls, files from a squashfs image, pipes, signals
and one terminal, and runs under Node or in a browser. This directory holds
TLA+ models of it, TLC runs that check them on small instances, and proofs that
TLAPS checks.

Line numbers are those of `src/src/`. All of noopsys is one JavaScript thread:
an instruction, a system call, a visit of a process by `myLoop` or a callback
runs to its end before anything else. What interleaves is the order of
processes, quanta, timers and input, and what goes wrong is mostly state that
one of them leaves for another: a cached translation, a count, a callback, a
flag, a pending branch, a size kept beside the data. The models have one action
per such step.

## Inventory

| Part | State | Operations | What makes it correct |
|---|---|---|---|
| Physical pages and virtual memory (`process.js` 16-107, 392-887; mmap, mprotect, clone, execve) | `pageRefCounts`, `globalPageFlags`, `memory`, `pagemap`/`pageflags` per process, `opt*` translation caches | `allocatePage`, `freePage`, `cowDupPage`, `duplicatePage`, `translate`, `translateMiss`, `cloneFrom`, `freeResources`, `loadElf`, `sys_mmap_core`, `sys_mprotect` | address spaces are private; counts are exact; caches are coherent; no store reaches the zero page or the vdso page (a loader may write the latter); no Error of the allocator is reached |
| Register areas (`process.js` 27-43, 150-198, 889-1020, 1106-1116) | `stateEntriesInUse`, `stateEntry`, the view `registers`, `fpregs32`, `fpregs64` | allocate, free, clone, execve, the interpreter's local view | one area per process, changed only by it |
| Scheduler and process life cycle (`startup.js`; `process.js` 225-376; clone, execve, exit, waitpid, rt_sigaction, setsid, TIOCSPGRP) | `processes`, `running`, `exited`, `exitCode`, `signalQueue`, `exitCallbacks`, `myTimer` | `myLoop`, `wakeup`, `sendSignal`, `handleSignal`, `exit_notify` | nobody who can run or is called sleeps for ever; the dead are released and reported |
| Descriptors and pipes (`noopfs.js` 1-81; read, write, poll, close, dup, dup2, fcntl64, pipe) | `fds`, `refs`, `data`, `readCallbacks` | the calls, clone, `closeFds` | bytes arrive once and in order; end of file exactly when nobody can write; every sleeper is called |
| Terminal (`tty.js`; `noopfs.js` 83-229) | `data`, `pgrp`, termios, `waiting`, `ended`, listeners | input, `update`, `isig`, blocking reads, output | readers are resumed; INTR reaches the foreground process |
| In-memory files (`noopfs.js` 231-300; open, read, write, lseek, poll) | `node.data` (an ArrayBuffer or a string), `node.size`, `pos` of every open-file object | read, write, lseek, truncation, dup, clone | a store of bytes; sizes are lengths; offsets are private to a process |
| Paths, procfs and directories (`noopfs.js` 302-475; open, chdir, stat, access, readlink, getdents) | the tree of nodes, `cwd`, the position of a listing | `getNodeForAbsPath`, `getNodeForPath`, creation, `chdir`, `getdents` | a path means what its links say; creation replaces nothing; listings are complete |
| squashfs reader (`squashfs.js`) | the tables read from the image | superblock, metadata blocks, inodes, directories, blocks and fragments of data | the tree that was packed |
| MIPS interpreter (`process.js` 889-1608) | registers, `pc`, `pendingBranch`, the local variables of a quantum | one case per instruction, system call entry, restart, signal frames | MIPS: arithmetic modulo 2^32, delay slots across quanta, calls and signals |
| ELF loader (`elf.js`; `process.js` 514-765) | memory, page flags, the stack | `loadElf`, `setupStack` | every segment where it says, a start frame that a program can read |
| Boot (`startup.js`) | all of the above | `emuStart` | |
| Constants, `web/`, `external/` | tables of numbers; vendored | | |

How they interact: `myLoop` visits processes in the order of their pids and
runs each for a quantum in `runInstLoop`, which makes system calls. A call that
cannot go on sets `running` to false and leaves a callback with a pipe, a child,
the terminal or a timer; the program counter stays on the call, so that the
callback, which sets `running` and calls `wakeup`, makes the process execute it
anew. A process that exited is released by `myLoop`: its pages and its register
area are freed, its descriptors closed, its callbacks called, its parent sent
SIGCHLD. clone shares all pages with the child, read-only, and its descriptors:
pipes and the terminal are the same objects, files are copied with their
offsets. execve looks a path up, reads the file from the tree and loads it.

What is hard here, and listed line by line as hazards in `PROJECT.json`: caches
and views that outlive what they were made from; counts kept by a dozen
operations; callbacks registered by a call that is then executed again, killed
or answered by something else; input that arrives between the death of a
process and its release; the loop that stops in a browser; numbers kept beside
what they count; text that is joined, split and resolved again; records cut
apart by the blocks of an image; branches whose delay slot is in another quantum.

## Modules

| Module | Models |
|---|---|
| `PageMemory` | pages, page tables, copy on write, translation caches |
| `AddressSpaces` | abstract: every process has an address space of its own |
| `MCPageMemory` | instances for TLC |
| `PageMemoryProofs` | the theorems about `PageMemory`, one of them that it implements `AddressSpaces` |
| `StateEntries`, `StateEntriesProofs` | register areas, and the theorems about them |
| `Pipes` | pipes, descriptor tables, blocking reads and polls |
| `Channels` | abstract: a pipe is an ordered channel with an end |
| `MCPipes`, `PipesProofs` | instances for TLC; the theorems about `Pipes`, one of them that it implements `Channels` |
| `Processes` | `myLoop`, signals, exit and waitpid, the terminal |
| `MCProcesses`, `ProcessesProofs` | instances for TLC; the theorems about `Processes` |
| `Files` | in-memory files, offsets and their descriptors |
| `ByteStore` | abstract: descriptors with a file and an offset, over files that are sequences of bytes |
| `MCFiles`, `FilesProofs` | an instance for TLC; the theorems about `Files`, one of them that it implements `ByteStore` |
| `Squashfs` | the reader of the image on disk |
| `Mksquashfs` | what is outside of the repository: the builder of an image |
| `Lookup` | looking up a path in a graph of nodes, and what a path means |
| `Paths`, `MCPaths` | the tree of nodes, procfs, chdir, creation, listings; extends `Lookup` and `Squashfs` |
| `PathsProofs` | the theorems about `Lookup` and `Paths` |
| `Recursion` | induction and recursive definitions, for `PathsProofs` and `MachineProofs` |
| `Words` | arithmetic on words of 4B bits |
| `Loader` | executables in memory, the stack to start with |
| `Machine` | the interpreter; extends `Loader` |
| `MachineProofs` | the theorems about `Machine`, one of them that it implements `Architecture` |
| `Architecture` | abstract: MIPS with a next program counter, calls and signals |
| `MCMachine` | programs and executables for TLC, and the refinement `Machine` => `Architecture` |

The components meet in the life of a process, which every module has its own
view of: for `PageMemory` an exit is the release of tables, for `StateEntries`
of an area, for `Pipes` and `Files` of descriptors, for `Processes` of
callbacks. `Paths` begins with the tree that `Squashfs` reads from an image, and
`Machine` with the memory that `Loader` makes of an executable.

### PageMemory

A page's content is one value. `pages[p][v]` is `pagemap[v]`, and two negative
slots hold the pages of the table itself, so that a reference is an entry of a
table, whatever its kind. `cache[p]` is the five remembered translations
(`optOldWrite...` and so on); a hit looks at nothing else, as `translate` does.
`ReadMiss`, `WriteMapped`, `ReclaimShared`, `CopyOnWrite` and `Fault` are the
branches of `translateMiss`. `Clone` is `new Process` and `cloneFrom`; the store
of the child's tid, which may copy a page or fail, is the step `FinishClone`.
`Exec`, `MmapAnonymous`, `MmapFile`, `Mprotect` and `Exit` are the calls and the
release. mprotect is modelled as it is written (it says "untested"): the index
it computes is not the page that was asked for. munmap does nothing and brk only
moves a number, so neither is an action. Physical pages are taken lowest first.
An Error that a guest can cause (a fault, no memory) ends the program, which is
what happens under Node: `thrown`.

An image has its heap (0x800 on), its stack (up to 0xc00, with the arguments at
0xb00) and the vdso (0xe) at fixed pages, which are different; `HeapPage` and
`StackPage` stand for one page of each. Where its segments lie is the
executable's choice, and the loader checks nothing: one page `t` of `TextPages`
stands for them. In a page of its own it gets a frame. Where the vdso is, it is
written into the vdso page, which every process maps (`process.js` 574-583 finds
it mapped, and `translate` with PROT_NONE asks for no right). Where the heap or
the stack goes, its frame is replaced in the table and never given back
(662-677). mmap with MAP_FIXED has no bound either: past the 0x8000 pages of a
table nothing is stored, but the zero page is counted (`MmapPast`), and a file
mapped there is an Error of doZeroPage (`MmapError`). Loads and stores at such
addresses fault, as at unmapped pages. Two variables are history and guide
nothing: `leaked[b]` counts the references to page b that no table ever holds
again, and `vdso` is what the last loader to write the vdso page left in it.

### StateEntries

`entry[p]` is `stateEntry`; `view` is the local variable `registers` of
`runInstLoop`, read once per quantum. execve frees the entry and takes the
lowest free one. If that is another one, calls find no number there, because
they take it from the new area, while instructions still write the old one:
`Calls` is their guard. Instructions for single precision change the area that
the quantum works on (`FloatInstruction`); those for doubles index a
`Float64Array` with a number of words, and write the next area
(`DoubleInstruction`).

### Pipes

Bytes are numbered. `restart[p]` is the call that p is blocked in, which runs
again when p does. `callbacks` are the `readCallbacks`. A killed process that is
set running before its release runs (`Runs`), as in the code. Files and the
terminal are opaque descriptors that are neither read nor written here.

### Processes

`node` says whether the program runs under Node or in a browser. `turn` and
`inside` are the position of `myLoop`; timers and input happen only at
`turn = 0`. `Enter` is the start of a quantum, where signals are handled,
`Leave` is its end with the release. `sendSignal` is `Sent`, `RunsAfter` and
`Wakes`. Under Node characters go through `TTY.update` as they arrive, before
the listener of the blocked reader; in a browser they wait in the stream for the
next read, which then sends the signals. A handler abandons the call it
interrupted: the calls sigreturn and rt_sigreturn do not exist. SIGINT stands
for the signals of the terminal that are fatal by default and SIGCHLD for those
that are not.

### Files

`data`, `packed` and `size` are a node: `packed` while its data is the
ArrayBuffer of the image. `file[h]` and `pos[h]` are an open-file object, and
`fds[p]` a table of them: dup shares an object, clone makes one for every
descriptor, so that two descriptors of a parent that share an offset do not
share one in the child. `Written` is `memFSBackedFile.write` with its loop over
a gap; what is added to an ArrayBuffer is added to its text, `Label`
(`"[object ArrayBuffer]"`).

`ByteStore` has descriptors (`table`), descriptions with a file (`of`) and an
offset (`at`), and files that are sequences of bytes. A read there returns what
the file of the descriptor has at its offset, a write overlays it there, and
both move that offset and no other; a file is emptied only by an open of it that
asks so. The refinement maps `fds`, `file` and `pos` to these. What the code
does unlike other systems is said in it as it is, since there is no other promise
to hold it to: offsets copied at clone, a poll that takes a byte, and, in `Write`,
the label that replaces a file of the image.

### Squashfs, Lookup and Paths

A disk is a sequence of cells of which the superblock says where tables begin.
`Pack` of `Mksquashfs` makes one from a tree and cuts inodes, listings and data
into blocks of any size; `Mount` is the reader: it puts the metadata
blocks of a table together (`ReadTable`), remembers where each began
(`BlockStarts`), and finds inodes and listings by pairs of a block and an offset.
Compression is the identity on a block, as the library in `external/` undoes it.

A path is the sequence of names that `split("/")` gives, and a name a sequence of
letters. `Lookup` knows of the tree only that it is a graph: nodes, a root, the
children of some, the targets of others. `Walk` is `getNodeForAbsPath`, a function
of the names that are left, the node, the count of links and `stopOnLinks`, and
`Walked` one turn of its loop; `Meaning` is the reference, which resolves a link's
target by itself in the directory of the link. `Paths` has the tree, and
`Graph(p)` is what a lookup of process p sees of it: procfs makes its nodes anew
at every call, and `/proc/self` depends on who asks. `Chdir`, `Create`, `OpenDir`, `Getdents`, `Stat`, `Access`
and `Readlink` are the calls. Directories are read from the image at their first
use; the model reads all in `Boot`, since nothing writes the image.

### Machine

Words have 4B bits and memory 2^(4B) bytes; instructions are decoded by a table,
so that a program is a sequence of words like any other data, and `imm` has half
of a word's bits, as in MIPS. A word of the guest is a number, and the operators
`| & ^ ~ << >> >>>` of JavaScript are what they do to it: `Bits` and `Number` go
between a number and the set of its bits that are one. Bytes of a word, in the
order of the memory, are `ByteOf` and `Joined`, and `WithBytes` and `WithWords`
are memories with some of them replaced. `SavedOrder` lists the registers in the
order in which a signal saves them, all of them in the code (0 to 67), in an
instance those that its programs use. `pc` and `pending` are the local variables
of `runInstLoop`; they are saved into `registers` when a quantum ends, when a call
blocks (`Restarted`: the pc stays on the call, or on the branch before it), and
when a signal is handled (`SavedOrder` is the frame). `Architecture` has none of
that: an instruction there takes `pc` to `npc`, and computes with sets of bits and
integers where the code has shifts and 16-bit products. `Loader` is `loadElf`:
bytes of segments page by page, the zero page for what the file does not have,
biases of movable executables and of the interpreter, and the frame of arguments,
environment and auxiliary vector below the top of the stack. What `SegmentsLoaded`
and `StartFrame` ask of it is said without its loops: which segment's byte an
address has, which segment gave a page its rights, and what a C library finds when
it reads the stack upwards. The value of AT_BASE depends on all headers of the
interpreter, also those that are no segments (`BaseFound` says when it is the
interpreter's base).

An instruction is fetched from the aligned word that pc lies in, although jumps
may leave any pc. A signal has the action that the program set for it: SIG_DFL,
which ends the process or does nothing (`NotFatal`), SIG_IGN, or a handler, which
SA_ONESHOT takes away after its use and SA_SIGINFO gives the other return address;
each executable has one signal and its action from the start, which is all that
delivery reads. lb, lbu, swl and swr do not reduce their address modulo 2^32:
below 0 it is a bad address (`Below`), and from 2^32 on too (`Outside`), unless
page 0 is the one that is cached, which it then means; the other loads and stores
wrap. The pc after the delay slot at the end of memory is taken modulo 2^32 at
once. A bc1 on another condition bit than the first is an Error.

`Limit` is where the page table ends (0x80000000 in the code). A byte of a file
past it is refused, while zeros there get no page; nor is an executable loaded
whose type, or whose interpreter's, is neither ET_EXEC nor ET_DYN, or one with
bytes in a page that an earlier segment made the zero page (`error`).

Three assumptions say what constants may be: `LoaderAssumption` (pages fill the
addresses up to `Limit`, and the loader's own pages are among them and apart), `MachineAssumption` (every
word decodes to an instruction whose operands are registers; the registers that a
signal saves are each saved once) and `ExecutablesAssumption` (what a linker makes:
segments lie in the file and in the address space, and the start frame and the
strings fit the pages that the loader has for them).

## Runs

| Run | Instance | What it shows |
|---|---|---|
| `pages_cow` | 2 processes, 10 pages, 2 contents, segments in a page of their own, over the heap and over the vdso | `CacheCoherent`, `SharedPagesUnwritten`, and `Isolation`: `PageMemory` implements `AddressSpaces` |
| `pages_mmap` | 3 processes, 10 pages, 1 content, segments over the heap and the vdso, mmap in and past the table, mprotect | `RefCountsExact`, `WritableExclusive`, `TablesPrivate`, `AssertionsHold`, `TypeOK` |
| `pipes` | 2 processes, 1 pipe, 3 descriptors, 2 bytes | `WriterRefsExact`, `SleepersAreCalled`, `TypeOK`, and `DeliversInOrder`: `Pipes` implements `Channels` |
| `pipes_live` | the same, 1 byte | `ReaderReturns` |
| `sched` | 3 processes, 2 inputs, SIGINT handler, Node and browser | `WaiterIsCalled`, `PendingSignalsRun`, `RunnableIsScheduled`, `ReadersAreResumed` (of a browser), `TypeOK` |
| `sched_live` | 3 processes, 1 input, Node | `ExitedIsReleased`, `WaiterReturns` |
| `entries` | 5 processes, 3 areas, 2 contents | `EntriesExact`, `RegistersPrivate`, `TypeOK` |
| `files` | 2 processes, a file of the image and another, 2 descriptors each, 3 objects, 2 bytes | `SizeExact`, `OffsetsPrivate`, `TypeOK`, and `IsByteStore`: `Files` implements `ByteStore` |
| `paths` | a tree of 9 nodes packed into 45 images, 2 processes, 1 file made | `MountRebuilds`, `LookupCorrect`, `ListingInOrder`, `ChdirEnters`, `EntriesKept`, `TypeOK` |
| `machine` | 417 executables, words of 8 bits, quanta of 1 and 2 | `SegmentsLoaded`, `StartFrame`, `TypeOK`, and `ImplementsArchitecture` |
| `init_signals` | 1 process | a violation, see below |
| `doubles` | 2 processes, 3 areas | a violation, see below |

Bounds. Two processes are enough for every pair of a cache and a change under
it; three make a page shared pairwise and by all, which is where counts of one
and two differ, and let clone, exec and exit leave holes that are reused. Pages
are few enough that allocation fails. A pipe of two bytes is read in pieces and
emptied in between; with three descriptors the writer's end is duplicated while
the reader keeps one. The first process of the pipe runs starts with no open
descriptor, as after closing its three terminals. Three processes have a parent
with two children, and a grandchild; two inputs are an INTR to the foreground
process and one after it died, or the end of the input. `MaxTranslations` bounds
how many translations are remembered at once, over all processes. One reference
lost past the table (`MaxPast`) is like any other. Files of up to two bytes
(`MaxSize`), writes of none or two and seeks by -1 and 2 overlay them within,
across and after their end, with and without a gap; two files show an access to
the wrong one, and three objects an offset that is shared, copied or of another
open. Metadata blocks of 2 to 14
cells, 20 and 40 cut the inode table and listings of the tree at every point,
and leave them whole; data blocks of 1, 2 and 4 bytes leave whole blocks, a
shorter last one and a hole (a block of zeros). `LinkLimit = 1` makes loops end after
two links, and is reached by a link to a link. Words of eight bits have bytes of
two, so that every mask, sign and shift of the code keeps its place, and
operands are chosen around 0, the sign bit and the largest; every instruction of
the module is in a program, branches are taken and not, with the delay slot
in the same quantum and the next, with a call that blocks in it, and with a
signal between, up to two signals (`MaxSignals`) of every action, so that a
handler that is used once is asked for twice. One page of 16 bytes lies past
`Limit`. The heap is left out of the instance, since the loader makes it
as it makes the stack.

Deadlock is not checked: the program may exit, halt or end by an Error, and a
process may wait for input that never comes.

Views. `MCPageMemory!View` leaves out what an unused page holds and the
translations of released processes: `allocatePage` is always followed by a store
of the whole page, and a released process never runs. All states in which the
emulator has ended with an Error count as one per Error: such a step changes
`thrown` alone and none follows it. `MCProcesses!View` leaves out what a
released process was blocked in. `MCFiles!View` leaves out which number an
object has and what an unused one holds, but keeps which descriptors of a
process share it; that two processes share none is proved. It leaves out what
the latest read returned, on which nothing depends, and which the refinement
compares in the step of the read. The liveness runs use
no view.

Fairness. `Pipes`: weak fairness of each process's `Resume` and `Release`,
because `myLoop` visits every process, a call that was restarted is the first
instruction of its quantum, and the callback that sets `running` also calls
`wakeup`. `Processes`: weak fairness of the loop's steps, because a timer of
0 ms fires and a quantum has 500000 instructions. Nothing is assumed of input, of
signals or of what a process calls.

### Where the code and its comments disagree

| Run | Comment | What happens |
|---|---|---|
| `init_signals` | "init doesn't get signals." (`process.js` 299) | `sendSignal` ends any process at once if the signal is fatal; an INTR while the first process is in the foreground, as at boot, halts the machine. The comment's line is unreachable: `if (isIgnoredSignal)` (296) tests a function |
| `doubles` | 'Each "thread" needs: A private area for registers, local state, etc.' (`process.js` 11-12) | an instruction on doubles writes 512 bytes and more after the start of the area (929: an index in words into an array of doubles), which is the area of another process |

`RegistersPrivate` therefore excepts that one write; it shows that nothing else
changes the registers of a process that does not run, although execve may leave
the interpreter on an area that was given back.

Other behaviour met on the way:

- Memory: every clone leaks a reference to the vdso page, a heap or stack over a
  segment's page the one to that page, and anonymous memory mapped past the table
  one to the zero page for each page of it. A segment at 0xe0000 (of an
  interpreter, at 0xd0000) is loaded into the vdso page, and so into the memory of
  every process (`process.js` 574-583), against "just a page containing two
  trampolines" (100). A file mapped past the table is an Error, "trying to zero page
  with refs!=1" (79), for the undefined entry that `syscalls.js` 375 reads back.
  mmap of a file that is a string maps zeros (`syscalls.js` 402).
- Processes: waitpid looks at neither its pid nor, in a released child, at a
  signal that makes the child reportable again; a killed process that input sets
  running executes a quantum after its death and may exit once more, so that its
  status is reported twice; in a browser a killed process that sleeps stays
  unreleased until another event starts the loop, and after "System halted."
  input starts it for the processes that are left. A handler returns to the vdso
  page, whose trampolines are written at word indices and call a sigreturn that
  does not exist, so that execution runs off the page (`process.js` 104).
- Terminal: under Node, while one process waits for input a second one blocks
  with no listener, and no input resumes it, against "Resume the process once
  data is available." (`noopfs.js` 145). writev writes to Node's stdout whatever
  the descriptor is.
- Pipes and files: poll at the end of a pipe, with a timeout, returns -EAGAIN;
  poll takes a byte of a file; what is appended to a file of the image replaces
  its bytes by "[object ArrayBuffer]"; a read beyond the end of such a file is
  an Error; O_APPEND is an Error after O_TRUNC has been done.
- Paths: /proc/self is one less than the pid; names that are integers come first
  in a listing, and names of properties of every object (`constructor`) are
  found in any directory (`noopfs.js` 444); getdents fails with -EINVAL what just
  filled the buffer, and passes over the entry that did not fit; hard links
  become separate inodes; the type kept of a symbolic link's inode is that of a
  directory; a script's "#!" line is ignored if the script was written by a
  guest (`syscalls.js` 1340).
- Interpreter: mtc1 exchanges its operands (`process.js` 921: `mtc1 rt, fs`
  stores fs into the register rt of the floating-point unit); the condition bit
  is in `registers[63]`, which is $f31, so that a comparison changes a number
  there; bltzal always branches; a jump to 0 is lost, since 0 is "no pending
  branch"; the remainder of a division may have the other sign; sc succeeds even
  after a signal handler ran; a call that is not implemented leaves its
  registers as they were.

## Proofs

`PageMemoryProofs` proves, for every number of processes, pages and mappings
(`ConstantsAssumption`: pages enough for one image; heap, stack and vdso at
different pages, as they are in the code; segments at any):
`TypeCorrect`, `CountsCorrect`, `WritableCorrect`, `CacheCorrect`,
`SharedPagesCorrect`, `TablesCorrect`, `AssertionsCorrect`, each
`Spec => []...` of the property the runs check. The counts are exact with `leaked`:
a page is counted for every table that holds it, once for good by boot (the zero
page and the vdso), and for the references lost in the three ways above; every
other difference would violate it. `AssertionsCorrect` is about the Errors of
freePage and duplicatePage, since that of doZeroPage is reached (`MmapError`).

None of them is inductive alone. That a cached write translation stays valid
needs that pages without `W` in their global flags are those that are shared,
which needs exact counts (a page is reclaimed for writing if its count is one),
which needs that a table page is held once and that released processes hold
nothing. The invariant `IInv` is their conjunction: `TypeOK`, `RefCountsExact`,
`FlagsInv` (a page writable without a fault is neither the zero nor the vdso
page, and its count is at most one), `TablesInv`, `DeadInv` (a process that is not live has an empty table), `SettidInv` (a clone
is not finished only while the child lives), `CacheCoherent`,
`SharedPagesUnwritten`. The proof has one lemma per action. Counting is done by
`HoldersSplit` and `TableReplaced`: the holders of a page are those in one
process's table and those in the others, and replacing one table changes the
first part only.

It also proves `IsolationCorrect`: `PageMemory` implements
`AddressSpaces`, for any number of processes and pages. The invariant is
`IInv` and `LiveMapped` (a process that is not released maps the vdso, so
that its space is not the empty one of a released process). A space there has
values of its own and pages that are the shared one, whose value all read. Every
store and mapping is one case of `PutStep`: the page that changes is not the vdso
page and is mapped by nobody else, because it is writable (`FlagsInv`), has one
reference, or was unused by an exact count, or it is the zero page, which stays as it
was. Only the abstract `Execute` may load the shared page, for an image whose
segment is there. A clone maps the vdso page before it copies its
parent's table over it, and is a fork because the parent maps it as well.

`StateEntriesProofs` proves `EntriesTypeCorrect`, `EntriesCorrect` and the action
property `RegistersCorrect`, from `HolderInv`: while a process runs, the loop works
on its entry or on one that is not in use. That is why an execve that leaves the
loop on another area never reaches another process.

`FilesProofs` proves `FilesTypeCorrect`, `SizeCorrect`, the action property
`OffsetsCorrect`, and `StoreCorrect`: `Files` implements `ByteStore`, for any
files, image, processes and objects. `ConstantsAssumption` asks that the image
fits the bound on sizes. The invariant adds `ObjectsPrivate` to the size: no
object is held by two processes. A clone keeps it because it takes unused
objects, every other call because it gives a process only objects that it has or
one that is unused. The refinement compares the three ways in which the code
makes new text (spliced, appended, padded) with one definition of overlaid
bytes, position by position, and needs that the size is the length where the
code decides by it. It ties each call to its descriptor: the file and the offset of
the abstract step are those of the object that the table has at this number, so that
a call at another offset, or of another file, would be no step of `ByteStore`.
`Tidy` (a process that is not live has an empty table, and none is longer than
`MaxFds`) makes the tables of sequences the tables of numbers that are in use.

`PipesProofs` proves `PipesTypeCorrect`, `RefsCorrect`, `SleepersCorrect` and
`ChannelsCorrect`: `Pipes` implements `Channels`, for any processes, pipes,
descriptors and bytes. `IInv` conjoins the three invariants with two about what is
not made yet: a new pipe is in no table (or its first count would be wrong), and a
process that is not born holds nothing (or a clone would count twice). They need
each other: a sleeper is woken by the last close only because `refs` is exact, so
that a write, which needs a descriptor, or a close that calls nobody leaves
`refs > 0` as it was. `SlotKeeps` covers close, dup, dup2 and fcntl64 at once, as
changes of one descriptor; clone and release add or take a whole table
(`OneMore`). For the refinement each step has one of four effects (`Effect`:
quiet, makes a pipe, takes bytes, puts bytes), and a pipe is open if its count is
not zero.

`ProcessesProofs` proves `ProcessesTypeCorrect`, `WaitersCorrect`,
`SignalsCorrect`, `RunnablesCorrect` and `ReadersCorrect`, for any number of
processes, characters and hosts. `IInv` conjoins the four invariants with five more:
`HandledInside` (a process that executes instructions has no signal left, so a
call of its own that blocks does not put it to sleep over one), `FreedExited` and
`OnlyMade` (no process that is not made is a parent, called or run),
`VisitedScheduled` (in the middle of a run of the loop, whoever it has passed and
left running is known by `busy` or a timer, which is `RunnableIsScheduled` when the
run ends) and `KeysTyped`, for types. `WaiterIsCalled` rests on
`PendingSignalsRun`: when a child is released and its SIGCHLD is a duplicate, its
parent does not sleep. `SignalsKeeps` covers every way in which input and reads
signal and wake at once. What the release of the first process leaves unscheduled in
a browser, and what a second reader under Node misses, are in the hypotheses of
`RunnableIsScheduled` and `ReadersAreResumed`, as for TLC.

`PathsProofs` proves `LookupMeans`: in every graph of nodes, from every node, for
every sequence of names and every limit, `getNodeForAbsPath` finds what the names
mean, or the error that their meaning has. The code splices a link's target into
the names it has left and counts links over all of them, while `Meaning` resolves
it by itself. Both end because each turn leaves fewer links to follow, or as many
and fewer names; `LookupsFounded` is that order. The lemma between them is
`Spliceable`, by induction along it: looking up names followed by others is looking
up the others from where the first, by their meaning, lead, after the links that
these took; unless the first fail, and then with their error. A lookup may stop at
a link only in the last of the names, so that the first are looked up without
`stopOnLinks`.

`Walk` and `Meaning` are recursive functions, and a recursive function is a CHOOSE
of which nothing is known until one is shown to exist. `Recursion` does that
without the library's theorems that take an operator: the body is itself a
function D, and `RecursiveFunction` proves that a body which looks only below its
argument, in any founded relation, is solved by a function, the union of those that
solve it on a closed part. `LeastExists` and `Induction` come from the finite sets
of the library, and `CountingDefines` is the case of a count, from which `Kept`
(who lives in procfs, the order of a listing) has its equations.

Of `Paths` it proves `TypesHold`, `LookupsCorrect`, `ListingsInOrder`,
`ChdirEntersWhereItLed` and `FilesKeepEntries`, for any processes, letters, images
and paths. The assumptions are `PathsAssumption` (bounds, and that the names of
numbers are different) and `ImagesAssumption`: what the reader makes of each image
is a tree, with names of its own in each directory. TLC evaluates both for the
instance. The invariant `Inv` adds three facts to `TypeOK` and `ListingInOrder`:
`DotsLead` (a directory of the image has "." and it leads to itself, and what is in
a file that was made is such a file), without which a name created in "./" would
not be known to land in the working directory; `Listed` (the names of a listing
are different from each other, and its position is within them), without which a
name could be given twice; and `Booted`. `LookupsCorrect` is `LookupMeans` and the
fact that `Graph(p)` is a graph in every state that satisfies `TypeOK`. For
`ChdirEntersWhereItLed` a lookup of text that is joined is a lookup of its first
part and one that goes on (`OnwardFrom`), for every way in which chdir joins.
`FilesKeepEntries` compares the two lookups of a creation: the one of the whole path
found nothing, so a name that is nevertheless in the directory that the other one
found is a link whose target is missing, is empty, or was looked for elsewhere (a
single name after a slash, which is made in "./").

`MachineProofs` proves `TypeCorrect` and `Implements`, that every step of the
interpreter is a step of the architecture or leaves it alone: for words of any number
of bits, any table of instructions, any registers, pages, executables, quanta and
calls. Its first part is arithmetic, in a logic that has only numbers: powers of two
(`TwoSum`, `Division`), words as sets of bits (`NumberOfBits`, `BitsOfNumber`: a word is
its bits, and each set of bits is a word), shifts as sets of bits that move, words as
four bytes, and the products of halves, which compute the high word of a product
without ever having it. The second has a lemma for each kind of instruction
(`Correct`): what the code computes for it, with masks, shifts and partial products, is
what the architecture says, and `Stepped` turns this into a step with the delay slot
counted in `npc`: whether a branch is pending or was taken, `Following` is what `npc`
was. The third has the steps in which the architecture stands still or is entered: a
quantum that ends or begins, a call that blocks and starts again from the branch before
it, a call that returns, a signal whose frame and registers are written at once, and
the loader. The invariant `IInv` adds to `TypeOK` that memory is a function on all
addresses and the table of rights one on all pages, that an executable is one of
`Executables` until it is loaded, and that nothing runs before. `TypeOK` says of a
quantum that nothing is queued in it, so that a signal is handled where it is sent. That an executable leaves bytes in memory is an induction
over the bytes of its segments (`CopiedSteps`, `BssSteps`, `SegmentSteps`) by
`Recursion`.

`StartFrameCorrect` is about the frame of any executable, with any number of arguments
and of bytes in them. A word that is stored is read back if the words after it do not
reach it (`WordStored`, `Untouched`); each string begins after the end of those before
it (`PointersGrow`), so its bytes are its own (`StringStored`), and the words of the
frame, which lie in the pages of the stack, store nothing in the page of the arguments.
`FrameFacts` says which word of the frame is where, `InterpBaseFound` which base is
AT_BASE, and `OnlyBoot` that no other step has an executable to load.

`SegmentsCorrect` has three inductions, since the loader has three loops. Over the
bytes of a file (`HasCopied`) and those that follow it (`HasZeros`): after b of them
the pages that they reach are of the segment, and an error is a page of zeros among
them, or one past the table if it was a byte of the file (`Refuses`). `HasSegment`
says it with addresses instead of counts. Over the headers (`HasFirst`): a page has
its own frame if a file has bytes in it, is the zero page if only memory is and the
table reaches it, and has the rights of the first segment; each address has its last
byte. The step is `FirstNext`, and the part of it that is not evident is
`OverlappedNext`: a page of zeros that the next file would write is one that no file
before has bytes in, because a file that had come after the zeros would have been the
error already. That one of the first files goes past the table (`PastFirst`) is the
other error, and the types of the executable and its interpreter are the third.
`RestUntouched` says that heap, stack and arguments change no byte of any other page.

Only model-checked: `MountRebuilds`, since how a reader that follows positions in
cells undoes a packer, both folds over data, would be a proof about mksquashfs as
much as about the code; and, being out of reach of the prover, the liveness
properties of `Pipes` and `Processes`.

## Plan

1. Done: the modules and proofs above.
2. A specification of `Processes` from the parent's side (each child is
   reported once, if no signal follows its release), polls of the terminal and
   output, and pipes in the scheduler.
3. Arithmetic for floating point in `Machine`, once a reference is stated for it.

## Not modelled

Arithmetic for floating point but for which registers it changes, and rdhwr;
output, echo and the settings of the terminal; the table of ids in an image and
Errors of images that mksquashfs does not make; magic numbers of ELF headers,
each of which is an Error; execve while the loop stands on another area takes
no number from what arithmetic for floating point left there; the constants;
the vendored terminal and storage; and calls that are stubs in the code (kill,
tgkill, nanosleep, alarm, sockets, and so on): they hold no state that another
part depends on. fcntl64(F_DUPFD) is in `Pipes` alone, as for a file it does what
dup2 to a free descriptor does. Errors thrown in a browser, after which later
events would start the loop again, are modelled as the end.
