# A verification project for the xv6 kernel of this repository

The repository is xv6 for x86-64 with three additions: kernel threads
(`startkth`, `exitkth`), an asynchronous read system call (`aread`, served by
the kernel thread `aread_kth`), and a library of user-level coroutines
(`coroutine.c`). This directory holds TLA+ models of the kernel, the shell and
the coroutine library, the TLC configurations that check them on small instances, and proofs that
TLAPS checks for all instances. `PROJECT.json` is the index: runs, mutants,
the map from definitions to source lines, findings, hazards and theorems.

To repeat a run: `tlc -workers 2 -config Log.cfg MCLog`. To repeat the
proofs: `tlapm LogControlProofs.tla`, and the same for `LogProofs`,
`ProcProofs`, `PipeProofs`, `AioProofs`, `BufTransferProofs`, `BufCacheProofs`
and `CoroutineProofs`; each takes at most five minutes.

## The system and its parts

| part | source | state shared between actors | module |
| --- | --- | --- | --- |
| write-ahead log | `log.c`, `bio.c` | log header in memory and on disk, `outstanding`, `committing` | `Log`, `AtomicDisk`, `LogControlProofs`, `LogProofs` |
| process table, scheduler, kernel threads | `proc.c`, `trap.c`, `syscall.c` | `ptable`, `ptable.lock` handed over through `swtch` | `Proc`, `ProcProofs` |
| asynchronous read | `proc.c:600-722`, `aread.c` | `aio_tasks`, `num_tasks`, page tables, inode-cache entries | `Aio`, `AioProofs` |
| pipes | `pipe.c`, `file.c` | the ring, the open flags, the sleepers | `Pipe`, `Channel`, `PipeProofs` |
| coroutines | `coroutine.c`, `swtch.S` | `co_list`, `co_current`, saved stack pointers | `Coroutine`, `CoroutineProofs` |
| buffer cache, sleep locks, IDE driver | `bio.c`, `sleeplock.c`, `ide.c` | LRU list, reference counts, `idequeue` | `BufCache`, `BlockStore`, `BufTransferProofs`, `BufCacheProofs` |
| inodes, directories, path names | `fs.c`, `sysfile.c` | `icache`, inodes and entries on the disk | `Inode` |
| contents of files, block allocator | `fs.c`, `file.c` | bitmap, inode addresses, indirect blocks, `f->off` | `FileIO`, `ByteFile` |
| file table and descriptors | `file.c`, `sysfile.c` | `ftable`, `proc->ofile` | `FileTable` |
| console input | `console.c` | the ring `input` with r, w, e | `Console`, `LineEditor` |
| shell and init | `sh.c`, `init.c`, `cat.c`, `echo.c` | processes, descriptors, files, the terminal | `ShParse`, `Shell` |
| pages, page tables, images of processes | `kalloc.c`, `vm.c`, `exec.c`, `proc.c` | `kmem.freelist`, page tables | `Memory` |
| spin locks | `spinlock.c` | `locked`, `ncli`, `intena` | one section is one step |
| boot, devices, other user programs | | | not modelled, see below |

How they meet: every blocking operation goes through `sleep` and `wakeup` of
`proc.c`; file-system calls run between `begin_op` and `end_op`; the log
writes through the buffer cache, which waits for the disk interrupt; `aread`
uses inodes, page tables and a kernel thread; `kill` interrupts the sleeps of
pipes, the console and `sys_sleep`. `Shell` composes four of the parts (parser,
console, file table, processes) in one specification; the others meet through
what they promise: `Inode` and `FileIO` see blocks as `BlockStore` and
`AtomicDisk` describe them, and `Shell` sees files as `ByteFile` does and pipes
as `Channel` does.

## Modules

### Log, AtomicDisk

`AtomicDisk` says what the file system is promised: calls see and change
blocks in memory; finished calls become durable together, in one step, when
no call is in progress; a crash loses exactly what is not durable.

`Log` is `log.c`. Its state is the disk (`disk`, and `hdr` for the header
block), the cached blocks (`buf`, `dirty`), the fields of `struct log` (`lh`,
`outstanding`, `committing`), and a program counter per process. Each section
under `log.lock` is one action (`BeginOp`, `LogWrite`, `EndOp`,
`FinishCommit`); the tests `log_write` makes before it takes the lock are an
action of their own (`LogWriteCheck`), and so is each disk write of a commit
(`WriteLog`, `WriteHead`, `InstallTrans`, `ClearLog`) and of the recovery
(`RecoverInstall`, `RecoverClear`). `Recycle` is `bget` taking a clean buffer
away. `Crash` may come at any moment, also during recovery; it keeps `disk`
and `hdr` only. A sector is written atomically. A call may write any number of
blocks, as nothing in `log.c` counts them; the history variable `short` records
whether every call of the transaction kept to `OpBlocks`, and `log_write`'s
panic ("too big a transaction") is the mode `panic`.

The refinement mapping (`Abs`): durable is what a recovery would find now
(`Recovered`), mem is the cached blocks, active the calls in progress. The
only step that changes durable is `WriteHead`.

### BufCache, BlockStore

`BlockStore` is what the layers above `bio.c` rely on: one content per block,
one owner at a time. `BufCache` is `bio.c` with the sleep lock of each buffer
and the driver. `bget` is `Bget` (under `bcache.lock`) and then `AcquireSleep`;
`iderw` is `IdeRw` (append, start the disk, sleep) and `IdeWait` (the test after
a wakeup); `IdeIntr` is the end of a command together with `ideintr`; `brelse`
is `ReleaseSleep` and then `Brelse`. `lru` is the list behind `bcache.head`.
A caller changes a buffer and passes it to `log_write` (`LogWrite`) or to
`bwrite` (`Bwrite`) in one step, since nobody else can see the buffer in
between. `Nest` says which block may be asked for while another is held: an
indirect block before the bitmap and before the block `bzero` clears (`bmap`,
`itrunc`), a log block before a home block (`write_log`, `install_trans`). The
mapping takes the content of a block from its valid buffer, and from the disk
when there is none.

### Proc

The process table at the grain of one hold of `ptable.lock`. `lock` names the
CPU that holds it; `sched` passes it from a process to the scheduler (`Swtch`)
and from there to the next process (`Pick`, `Resume`). `via` is the function
a process has to return from before it can go on, `where` tells user code from
system calls, an unfinished `fork` and an unfinished `exit`. `fork` is
`Fork`, `ForkStack` and `ForkDone`, because `allocproc` releases the lock
before it takes a stack; `ForkFail` gives back the slot, and the stack if there
is one. `main` makes the kernel threads and the first process in the same way
(`BootAlloc`, then `StartKth` or `UserInit`), also without memory (`KthFail`,
`UserInitFail`), while other CPUs may already be scheduling. A sleeping loop is
`Block` (the test, under the caller's lock), `Sleep`, `Resume`, `Unblock`,
because `kill` takes only `ptable.lock`. `Event` are the channels of other
parts of the kernel; `Killable` those whose loops test `proc->killed`.
`Wakeup` is a call of `wakeup` by any of them. `Syscall` and `SysRet` carry
the tests of `killed` in `syscall`, `Fault` and `Yield` those in `trap`.

Abstracted: memory, files, names, and the idle `hlt`, which waits for an
interrupt that comes. A system call sleeps in one loop at most.

### Aio

Processes open a file, call `aread` (at most `MaxReq` times), close, exit and
are reaped; the kernel thread polls, reads, copies, writes the status word and
removes the task, each as a step. A byte of file f at offset k is the pair
<<f, k>>, so that a wrong offset or a wrong file shows in the data. The status
word starts with the value an earlier request of one byte left there. Memory
after the buffer `tmp` is `Junk`. When a freed page table has been used, or the array
overrun, the model stops: what follows is undefined.

A process may close its file, exit or be killed at any moment. The history
variable `hasty` has the requests that were unanswered then, and the properties
say what is still true: of the other requests everything, of these only that
the harm stays with them.

### Pipe, Channel

`Channel` is a FIFO with a capacity: a writer is asked to write some bytes
(`Ask`), `Put` appends them in order, all of them or as many as there is room
for, and `Get` takes a prefix and returns just that. A writer may give up the
rest of its bytes only when the channel is full.
`Pipe` is `pipe.c`: `nread` and `nwrite` count modulo `Wrap` (2^32 in the
code), `PipeWrite` and `PipeRead` are one hold of `p->lock` each, up to the
return or the sleep. The mapping takes the bytes of the ring between the two
counters. The creator forks, every process may close its ends, and a close by
the last holder goes through `pipeclose`.

### Coroutine

`context` maps each slot to the stack it resumes. `Swtch` reads its second
argument, saves the running stack, and marks the slot it resumed as stale; a
switch to a stale or empty slot sets `crashed`, after which nothing is
claimed. `Heap` is what the uninitialised field `next` may contain: 0 in memory
fresh from the kernel, anything in memory the program has used before. Host and
coroutines make any calls in any order. The history variable `lapses` has what
the code is not prepared for: a `co_yield` or `co_exit` by the host, a
`co_destroy` of a coroutine that has not exited, and a `next` that was not 0.

### Inode

The cache of inodes, directories and path names, with the system calls that
change names: open, link, unlink, mkdir, mknod, chdir, close. `iget` keeps one
entry per inode, so entries are named by their inodes. A step is one hold of
`icache.lock`, or a stretch of code between an `ilock` and its `iunlock`;
`namex` goes one element per step, and gives up the directory before it locks
the next. `iput` of the last reference to an unlinked inode is three steps,
`IPut` (the decision, under `icache.lock`), `ITrunc` (the inode is free on the
disk) and `IPutEnd` (the entry is cleared), because the code holds no lock
between them. `Mixes` says which disk a behaviour starts with and which calls
each process makes. Every call is one transaction, so what a restart finds is
the disk of some `Quiescent` moment: what `LinksCounted` says of those holds
after every crash.

### FileIO, ByteFile

`ByteFile`: a file is a sequence of bytes, an open file has an offset that its
users share, a write puts its bytes there in pieces nobody sees half done, a
read returns the bytes that follow the offset. `FileIO` is `fileread`,
`filewrite`, `readi`, `writei`, `bmap`, `balloc`, `bfree` and `itrunc`, with a
step per buffer; the process that holds the inode's lock is in `lock`. Indirect
blocks hold block numbers. The mapping takes the content as it was when the
inode was locked until the piece is complete.

### ShParse, Console, FileTable, Shell, LineEditor

`ShParse` is the recursive-descent parser of `sh.c` on tokens, as functions
that return a command and a position; `Grammar` is its reference, which splits
a line at its operators. `Console` is the ring of `console.c` with the editing
keys; `LineEditor` is what it promises. `FileTable` is `ftable` with the
descriptors of processes: open, dup, close, pipe (the two files are taken one
by one, as `pipealloc` does), fork and exit. `Shell` puts them together: the
user types, init starts a shell, the shell reads a line, forks, parses and runs
it; each system call of each process is a step. `Meaning` says what a line does,
by recursion on the tree the grammar gives; `want` is a history variable with
the descriptors a command should have. Programs are `echo` (e), which writes
through printf one character at a time, and `cat` without arguments (c). A line
longer than the buffer of `gets` (`MaxLine`, in tokens) is cut, and its rest is
another line. When init finds no process for a shell it exits, the kernel
panics and everything stops; the checked instance does not come to that.

### Memory

Every `kalloc` of fork, exec and sbrk, page-table pages included, is a step
that may find the free list empty; what one loop frees is freed in one step.
A table is the set of its pages on four levels with the page and PTE_U of each
entry. `OutOfMemory` collects what the failure paths of `allocuvm`, `copyuvm`,
`exec` and `fork` give back. Panics (`mappages: remap`, `copyuvm`), the failing
`kalloc` that `setupkvm` does not test for, and an exit of init set `halted`.

## Runs

Passing runs:

| run | instance | what it shows |
| --- | --- | --- |
| `log` | 2 processes, 2 home blocks, a log of 2 data blocks, calls of any length, 2 values, fairness | refinement of `AtomicDisk` with crashes anywhere; write-ahead rule; the reservation covers what short calls may still log; no lost wakeup; sleepers in `begin_op` are woken |
| `buf_cache` | 2 processes, 3 blocks, 2 buffers, 2 values, fairness | refinement of `BlockStore`; the block asked for is the block returned; nobody is stuck; every request ends |
| `proc_table` | 2 CPUs, 3 slots, 1 kernel thread, 1 channel, stacks that are not to be had | one CPU per stack, stacks freed in time and not before |
| `proc_live` | 1 CPU, 3 slots, fairness | no starvation, killed processes exit, orphans reaped |
| `aio` | 2 processes, 2 files, 2 inode-cache entries, a request each, fairness | right data for who waits, up to a page; a freed page table is used only for who did not wait; every request is answered |
| `pipe` | 2 processes, one killable, ring of 2, counters modulo 4, writes of 1 and 3, fairness | refinement of `Channel`; sleepers are justified; the page is freed last; everybody returns when the other end is closed |
| `co_host` | 3 addresses, reused, any calls, any `next` | without a lapse only live coroutines are on the list, and no stale switch |
| `inode` | 2 processes, 6 inodes, three mixes of calls | references and links are exact, names lead to allocated inodes, an inode is freed only when unused, no circle of locks |
| `file_io` | 2 processes, 3 open files on 2 inodes, blocks of 2 bytes, 1 direct and 2 indirect blocks | bitmap and inodes agree; reads allocate nothing; refinement of `ByteFile` |
| `shell` | 7 processes, 6 files, 6 descriptors, pipes of 1 byte, a ring of 5; all lines of 3 tokens, 12 longer ones, 4 typed scripts | parser equals grammar; a line does what it means; references; wiring of pipes; refinement of `LineEditor`; the prompt returns |
| `memory` | 3 processes, 16 pages, 5 calls | pages have one owner; images are complete; failures leave the image alone |

One run ends in a violation of something the repository says of itself (the
quotation is in `PROJECT.json`, findings): `inode_race`. `iput` writes type 0
to the disk and clears the cache entry later, holding no lock in between; if
another process's `create` allocates the inode in that window it finds the old
entry, still valid with type 0, and writes that back. The new file has a name
and no type, and the next `ilock` panics. The mixes of the passing run `inode`
therefore keep a process that removes and another that creates apart
(`Removing`, `Creating`, `Alone`), and none links or creates in a directory that
another process removes; what they show is for such mixes only.

### Other disagreements

These are checked by configurations that are not among the runs; TLC ends each
with a counterexample:

| configuration | property | what the code does | what the repository says |
| --- | --- | --- | --- |
| `LogOverflow` | `LogFits` | the unlocked test of `log_write` lets two writers append past the log on disk, which has one data block less than `begin_op` reserves, as `mkfs.c:25` makes nlog = LOGSIZE | `param.h:11`, "max data blocks in on-disk log"; the panic at `log.c:216` |
| `ProcKill` | `KillWakes` | a kill between the test of `killed` (`sysproc.c:67`) and the sleep is not noticed | `proc.c:455`, "Wake process from sleep if necessary." |
| `AioExit` | `NeverStray` | a task outlives the page table of its process (`proc.c:639`) | `aread.c:52`, "this can actually cause kernel panic!!" |
| `AioLarge` | `WholeDelivered` | `copyout` is told the whole length of a request and takes it from `tmp`, which is one page (`proc.c:639`) | `aread.c:76-105` reads a large file whole and compares it with what `read` gives |
| `CoListed` | `LiveListed` | `co_new` ends its walk with an assignment to a local (`coroutine.c:67`), so only one coroutine is ever on the list | `coroutine.h:7`, "append it to the global list of live coroutines" |
| `CoYielded` | `HostMayYield` | `co_yield` does not test `co_current` (`coroutine.c:107`) | `coroutine.h:24`, "it should be safe to call co_yield from any non-coroutine context (including the host)" |

Met while modelling, by reading: `filewrite` cuts writes into pieces of
((LOGSIZE-4)/2)*512 bytes, 13 blocks, while `begin_op` reserves MAXOPBLOCKS =
10, less than such a piece may log (`file.c:133`); `copyuvm` forgets the page in
hand when `mappages` fails (`vm.c:421`), which `Memory` counts in `lost`;
`setupkvm` clears a page without testing that there is one (`vm.c:105`);
`sbrk` down to size 0 frees everything and then reports a failure
(`proc.c:124`); `>>` opens a file as `>` does, neither truncates
nor appends (`sh.c:392`); a link or a file made in a directory that is removed meanwhile
keeps a count for a name nobody can reach, and the `..` of a removed current
directory may lead to an inode that is used again (`sysfile.c:238`).

Behaviour the models have, and that the passing runs keep out by their
constants or name in their properties: `kill(0)` marks a free slot and the next
process created there is born killed; the 64-entry queue of `aread` is not tested for room
(`MAXTASKS`); a read the disk reports as failed is marked valid (`Reads`); a
read longer than a page delivers what follows `tmp` (`FirstPage` claims the
first page only); a task holds no reference to its inode, so a process that
does not wait for its answer may find another file in it (`hasty`); a call may
log more blocks than are reserved for it, up to the panic of `log_write`
(`short`); a killed writer returns without waking the readers it wrote for (the
exception in `SleepersNeeded`); `next` of a coroutine is not initialised, and
`co_yield` and `co_exit` do not look at who calls them (`lapses`); a process
killed between the test of its loop and its sleep exits only when its channel
is woken again, as that of `sys_sleep` is and a pipe's may not be (the fairness
behind `KilledExits`).

### Bounds, and why they are enough

* `Log`: with two processes one can commit while the other waits, and both can
  be inside calls; two home blocks make partial installation visible. Two
  blocks are reserved for a call and a short one logs one, so that two calls
  make transactions of two blocks and a third waits in `begin_op`. A call that
  logs two finds the log of the disk full, and the next write panics. Larger
  logs are covered by the proofs.
* `BufCache`: three blocks and two buffers force recycling; one pinned block
  and one nested pair fill the cache, up to the panic of `bget`. Deadlock
  checking is off because that panic stops the machine.
* `Proc`: `MaxPid` bounds the number of forks. Two CPUs suffice for one to
  hold a stack the other wants; three slots are init, a child and a kernel
  thread, or init, a child and a grandchild that is orphaned. Deadlock checking is off because a
  panic (`init exiting`) stops the machine.
* `Aio`: two processes put a task in the queue while the other's is being run,
  and two entries of the inode cache are enough for one to come to hold another
  file. A page is 2 bytes, the files have 1 and 3; the reads are longer than the
  page, cut at the end of the file, or beyond it. A second request of the same
  process is covered by the theorems, and not by the instance.
* `Pipe`: a ring of 2 bytes with counters modulo 4 wraps in a few steps, and a
  write of 3 needs two rounds. Deadlock checking is off because all processes
  may have closed their ends.
* `Coroutine`: three addresses; a fourth would behave as the third.
* `Inode`: a directory in the root, a file with two names and one process in the
  directory are enough for every race of a lookup with a removal; six inodes
  leave room for what the calls create, so `ialloc` does not panic.
* `FileIO`: writes of 3 bytes to blocks of 2 start inside blocks, cross from the
  direct into the indirect block, reach the largest size and, with pieces of
  one block (LOGSIZE 6), are cut. Each process makes two calls, so that a file
  is removed and its blocks used again, or two writers share an offset.
* `Shell`: 7 processes are one too few for a pipeline of four, and 6 files are
  too few for it, so both run out; the pipe of one byte makes every writer
  wait. The ring of 5 wraps and fills in the scripts; its indices count modulo
  10. All 584 lines of up to three tokens exercise the parser, three words being
  more than MAXARGS allows, and twelve longer ones are run; one script types a
  line longer than the shell's buffer. Deadlock checking is off because the user stops typing.
* `Memory`: sixteen pages are enough for two processes and not for three, so a
  page is missing at every place in turn; addresses need two page-table pages;
  sizes are not multiples of a page. Deadlock checking is off because the
  kernel may halt, and because the calls are bounded.

### Fairness

* `Log`: weak fairness of each process and of the recovery (the scheduler runs
  every runnable process and the disk answers), strong fairness of `EndOp`: a
  call writes finitely many blocks. Nothing is claimed about a process that
  is woken in `begin_op` and finds the log full again: the code does not queue.
* `BufCache`: weak fairness of the disk and of each call in progress. Nothing
  is claimed about who gets a sleep lock: the code does not queue.
* `Proc`: a CPU goes on scheduling and timer interrupts come (weak); a process
  that is given the CPU again and again gets on with its system call, the
  condition it sleeps for becomes true, init keeps calling `wait` (strong).
  Liveness is checked on one CPU, since spin locks are not fair between CPUs.
* `Aio`: weak fairness of the kernel thread, ticks included.
* `Pipe`: strong fairness of a call in progress, since the lock it needs is
  held by others again and again, each time for a moment.
* `Shell`: weak fairness of the whole next-state relation: something happens as
  long as anything can. No fairness between processes is needed, since a line
  takes finitely many steps.
* `Inode`, `FileIO` and `Memory` are checked for safety only.

## What is proved

`LogControlProofs` and `LogProofs` prove about `Log`, for every number of
processes, every set of values and every size of log and disk:

* with no assumption but `LogConstants`, and for calls of any length:
  `SleepersHaveWaker` (`NoLostWakeup`), `ReservationInvariant` (`Reservation`),
  and `PanicsOnlyWhenFull` (`PanicOnlyFull`: of the panics of `log.c` only "too
  big a transaction" is ever reached, and not by short calls on a log that has
  room for them);
* of the behaviours in which the log fits (`[]LogFits`): `TypeCorrect`,
  `QuiescentIsDurable`, `UpdatesArePinned`, `HomeBlocksWrittenAfterLog`
  (`WriteAhead`) and `LogIsAtomic` (`Atomicity`: the log implements the atomic
  disk);
* if `MaxLog` = LOGSIZE - (MAXOPBLOCKS - OpBlocks) is at most NLOG - 1, that the
  log fits in every behaviour of short calls (`LogNeverOverflows`), and so that
  these are atomic (`ShortCallsAreAtomic`).

The premise `[]LogFits` is necessary: `LogOverflow` is what happens with nlog =
LOGSIZE and calls of MAXOPBLOCKS blocks. On the disks mkfs makes the log fits
when calls write at most MAXOPBLOCKS - 1 blocks. `log.c` does not see to that,
and a piece of `filewrite` may log more (`file.c:133`).

The argument has three layers, each an inductive invariant over the previous
one. `Control`: `outstanding` counts the calls in progress, there is at most
one committer and none while a call is in progress, an idle log is empty, and
a sleeper has somebody to wake it. `Reservation`: the blocks in the log
together with what the calls in progress may still add fit into it while all
are short; needed because `log_write`'s own test is made without the lock, so that only
`begin_op`'s arithmetic keeps the log within bounds. `Data`: at each step of a
commit or a recovery, which log blocks equal which cached blocks, which home
blocks are already installed, and that a cached block that differs from the
disk is pinned. The refinement then goes action by action: only `WriteHead`
changes what a restart finds, and it does so when no call is in progress.

`ProcProofs` proves about `Proc`, for every number of CPUs, slots, kernel
threads and channels and from `ProcConstants` alone (there are fewer kernel
threads than slots):

* `OneCPUTheorem` (`OnOneCPU`): a process is on one CPU at a time, and a CPU
  stays on the stack of one that has given itself up only while it holds
  `ptable.lock`;
* `StackTheorem` (`StackOwned`): no kernel stack is freed under a CPU or under
  a process that is to run again.

Neither is inductive. `sleep` does not look at `state`, so `LoopRuns` says that
a process between the test of its loop and `sleep`, or just woken, is running.
`fork` finishes its child, or gives the slot back, without `ptable.lock`, so
`Embryos` says that such a child belongs to one `fork` only, or to `main`, and
`SetUpApart` that it is on no CPU. `IInv` is the conjunction, with one
lemma per action. The lock hand-over does the rest: whoever takes
`ptable.lock` while it is free, or is running with it held, knows that every
process on a CPU is running (a zombie that `wait` reaps is not), and the
scheduler's CPU is on no stack when it picks.

`PipeProofs` proves about `Pipe`, for any processes, bytes and writes, from
`PipeConstants` alone (the counters wrap at a multiple of PIPESIZE that is
larger than it, as 2^32 is of 512):

* `SleepersTheorem` (`SleepersNeeded`): who sleeps has nothing to do, or was left
  asleep by a killed writer;
* `FreedTheorem` (`FreedLast`): the page is in use exactly while somebody has an
  end of it or is inside one of its functions;
* `FifoTheorem` (`Spec => Fifo`): the pipe implements `Channel`.

The invariant `IInv` adds to these what they need of each other. `Fits` bounds
the difference of the counters by PIPESIZE, without which a full ring and an
empty one could not be told apart modulo `Wrap`. `Locked` says that `p->lock`
is kept over a step only on the way to sleep, and `Sleepers` that the reason to
sleep still holds there. `Ends` ties the open flags to the descriptors: a
writer that returns without `wakeup` because the read end is closed leaves no
reader asleep, since a reader would have kept that end open. The refinement
rests on arithmetic modulo `Wrap` and PIPESIZE: the slots a write fills are
apart from the slots in use, and both counters stay in step with the slots
across a wrap.

`BufTransferProofs` and `BufCacheProofs` prove about `BufCache`, for any
processes, blocks, contents and number of buffers, under `Ordered` (the pairs
of blocks a caller holds together go up in some rank, as an indirect block and
then the bitmap, or a log block and then a home block, do):

* `BreadTheorem` (`BreadReturns`): whoever holds a buffer has the block asked
  for, read, and in no other hands;
* `NobodyStuckTheorem` (`NobodyStuck`): nobody sleeps for a free buffer, and
  those asleep wait for an owner that is not;
* `OneStoreTheorem` (`Spec => OneStore`), when besides the disk reports no
  failed read (`ReadsSucceed`): the cache implements `BlockStore`.

Without `Ordered` a process could ask for the block it holds and sleep for
itself; without `ReadsSucceed` the last one is false, since `ideintr` marks a
buffer valid whatever the disk reports. `BreadReturns` is kept by the reference
count alone while `bget` sleeps, so `Counted` ties `refcnt` to the set of
processes that hold the buffer or are between `bget` and the end of `brelse`: a
buffer with count 0 is in nobody's hands, and recycling it disturbs nobody.
`OneBuffer` says that a block has one buffer, `Calls` what each process knows of
its call, `Queue` that the disk works on the first of the queue and that each
buffer there has its sleeper, `Clean` that a valid buffer which is not dirty
equals the disk; that is what makes recycling unseen. `NobodyStuck` follows by
taking the sleeper that waits for the block of highest rank: the owner of that
block cannot be asleep for another. `lru` has to stay a permutation for `bget`'s
scan to mean anything, which `HeadMoved` proves of the move in `brelse`.

`AioProofs` proves about `Aio`, for any processes, files, sizes and requests:

* `LiveTableTheorem` (`PageTableLive`): a freed page table is used only for a
  request whose process did not wait for the answer;
* `DeliveryTheorem` (`DataDelivered`): a process that had its file open until
  the status word was written has the right bytes, up to a page, whatever
  others do.

Both rest on `AioConstants` alone. That a process waits is what `aread.c:52`
asks for and what the kernel does not enforce (`AioExit.cfg`); that a request is
not longer than a page is nowhere asked for, and `aread.c` itself makes longer
ones (`AioLarge.cfg`). `Queue` is the core of `IInv`: a task
whose status word is not yet written, and which is not hasty, belongs to a
process that still runs and has the file open, and the entry it names is still
that file; `Holders`
(the inode's count is the number of its descriptors) is what keeps the entry
from being given to another file. `Pending` leaves out the head of the queue
between the write of its status word and its removal: there the process may
already be gone. `Loop` follows the thread through `aread_consume_one_task`:
each turn of the loop brings the same bytes, so a file of several pages costs
turns and changes nothing.

`CoroutineProofs` proves `RunsLiveTheorem` (`RunsLive`) and
`NoStaleSwitchTheorem` (`NoStaleSwitch`) about `Coroutine` for any set of
addresses, any contents of the heap and any sequence of calls: what goes wrong
comes after one of three lapses. `Resumable` says that each live coroutine which is not running can
be resumed by its own slot, `Running` that the running one is at the head of
the list and the host's point is saved, `Unlinked` that no coroutine has a
successor, since `co_new` never writes one; each is claimed as long as there
is no lapse.

TLC has checked every inductive invariant above on the instances of the runs
before it was proved.

Only model-checked: the invariants of `Inode`, `FileIO`, `Memory` and `Shell`,
the refinements of `ByteFile` and `LineEditor`, and all liveness (the
prover has no fairness or ENABLED). `Shell` uses a RECURSIVE operator for its
reference, and what `ShParse` computes for lines of every length would need an
induction over data; both stay with TLC. `NoWaitCycle` of `Inode` rests on the
directories being a tree, an induction over paths of any length, and `RefsHeld`
on a sum over processes.

## What is not modelled, and why

* Boot code, interrupt controllers, segments and the kernel's own mappings,
  the serial line, the keyboard's scan codes and the screen are hardware access.
* Spin locks: a section under one is a step of the models, so `acquire`,
  `release` and the nesting of `pushcli` are below their grain.
* `umalloc.c`, `string.c`, `printf.c` and the other user programs are
  sequential; mkfs is pure I/O; `memide.c` is not built.
* In `Aio` offsets are natural numbers, files do not change, a process does not
  shrink its memory, and descriptors name files. The wrap of `nextpid` after
  2^31 forks is not reached in `Proc`.
* In `Inode` a directory always has room for an entry, and names are not cut to
  14 characters. A process has one open file.
* In `FileIO` offsets stay far below 2^32, devices are left out, and `Remove`
  stands for the `iput` that calls `itrunc`; after it the inode is a new file.
  `readi` finds every block because sizes come from `writei`; mkfs rounds the
  size of the root directory up, by a block too many when its entries fill
  their blocks exactly, and a read of that block would allocate it outside a
  transaction.
* In `Shell` prompts and messages (descriptor 2), the effect of `cd`, words as
  strings (`gettoken`'s scan, `nulterminate`), `cat` with arguments, and kills are
  left out; lines that are not among `RunLines` are parsed and not run. Calls
  of `sys_pipe` always find two free descriptors in the checked lines, and a
  page for the pipe.
* In `Memory` the free list is a set, of which `kalloc` takes the smallest page, and
  what one loop frees is freed in one step, so that no other process sees half
  of it. Contents of pages, arguments of exec and `sbrk` beyond the bounds
  (below 0, above the kernel's base) are left out.

## Further hazards

`PROJECT.json` lists the principal hazards. These are known too, and nothing
above checks them: `sys_aread` uses `file->ip` without testing that the
descriptor is an inode (`proc.c:700`); a coroutine's context is put 1000 bytes
above the start of its stack, which has that much to grow (`coroutine.c:53`);
`exec` frees the old page table while reads of the process may be queued
(`exec.c:106`); a process woken in `begin_op` or `acquiresleep` may find the
resource taken again, without bound (`log.c:128`, `sleeplock.c:26`); a read the
disk reports as failed is marked valid (`ide.c:116`); `intena` is one word per
CPU and must survive a switch (`proc.c:345`).

## Plan

1. Proofs: `Memory` (`PagesOwned`), `FileIO` (`BlocksOwned`).
2. A composition of `Inode` and `FileIO` with `Log`, for how many blocks a call
   writes and how many buffers it holds.
3. `SpinLock` with interrupts, `pushcli` and `popcli`; `umalloc.c` against a
   reference definition.
