# Verification of the xv6 kernel in this repository

TLA+ models of the concurrent core of xv6 (`src/xv6-env`), checked with TLC and,
for the scheduler, the locks of the device drivers, pipes, the log, the buffer cache
and the disk driver, proved with TLAPS.  The kernel is small, runs on
several harts, and nearly all of its difficulty is in what happens *between*
lines of C: two harts in the process table, a wakeup that comes too early, a
power failure between two disk writes.  That is what the models keep.  Data is
abstracted to what the properties tell apart.

`PROJECT.json` lists components, runs, mutants, hazards, findings and theorems, and
maps every definition to the lines it models.

## 1. The system

The kernel (`kernel/`) runs on several harts that share the process table, the
locks, the buffer cache and the disk.  User programs (`user/`) meet it through
system calls; the image they are loaded from is written by `mkfs/`.

| component | state | what makes it hard |
|---|---|---|
| processes, scheduler (`proc.c`, `swtch.S`) | process table, `p->lock`s, `wait_lock`, per-CPU `c->proc` | locks handed across `swtch`, lost wakeups, slot reuse, reparenting races |
| spinlocks (`spinlock.c`) | lock word, `noff`, `intena` | interrupts on a CPU that holds the lock the handler wants |
| sleeplocks (`sleeplock.c`) | `locked` | wakeup of several waiters |
| log (`log.c`) | `log.lh`, `outstanding`, `committing`; header and log blocks on disk | crash between any two writes, crash in recovery, log space, group commit |
| buffer cache (`bio.c`) | buffers, LRU list, `refcnt`, `valid` | two lookups of one block, eviction of a block in use |
| disk driver (`virtio_disk.c`) | descriptors, rings, `info[]` | 3-descriptor allocation, completion out of order or before the sleep |
| pipes (`pipe.c`) | ring, `nread`, `nwrite`, two open flags | counters wrap, kills in mid-call, racing closes |
| file table, descriptors (`file.c`, `sysfile.c`) | `ftable`, `p->ofile` | shared references, a last close that goes on after the slot is free |
| inodes, blocks (`fs.c`) | `itable`, on-disk inodes, bitmap | `ref` and `nlink` reaching zero together, indirect blocks, writes that fail in the middle |
| directories, paths (`fs.c`, `sysfile.c`) | directory entries, `nlink` | walks that lock parent and child, unlink of a directory being entered |
| console, UART (`console.c`, `uart.c`), clock | `cons.r/w/e`, `uart_tx_r/w`, `ticks` | rings that wrap, editing, interrupts against both halves of the driver |
| memory (`vm.c`, `kalloc.c`), `exec.c` | free list, page tables | failure half-way |
| mkfs (`mkfs.c`) | image | layout arithmetic, rounding |
| shell and init (`sh.c`, `init.c`) | descriptors of a tree of processes; the parser | every process of a pipeline inherits its ends |
| user library (`umalloc.c`) | circular free list | coalescing |
| `circulate_byte.c`, `interprocess.c` | ring of pipes, token in a pipe | inherited ends, order of closes |

The hazards, with the line each one bites at and the properties that cover it, are in
`PROJECT.json`; a hazard that no property covers has a note saying why.

## 2. How the modules fit together

Each component has a module.  Where a component promises something that can be
said without its data structures, an abstract module says it and the detailed one
implements it (`AtomicDisk`, `BlockStore`, `Fifo`, `Tty`).  Components that work on
the same state are composed: `Devices` is the console, the UART and the clock on top of
the CPUs and locks of `Spinlock`; `Blocks` is the kernel on the disk that `Image`, the
model of mkfs, has written; `Sh` is the shell and init with the parser of `ShParse`
on the file table of `Files`.  Components that only rely on a property of another
use it: `Pipe`, `Log` and `Bcache` sleep and release their lock in one step because
`Proc` shows that `sleep()` loses no wakeup.

## 3. Modules

An action is one critical section whose data is wholly protected by the lock it
takes, guarded by that lock being free, or one piece of a longer section.  Locks
are variables only where they stay held from one step to another.  A local
variable is reset when it is dead.

| module | models |
|---|---|
| `Proc` | `proc.c`: table, locks, per-CPU scheduler, fork/exit/wait/kill; the tests of `killed` in `usertrap()` |
| `ProcInv` | theorems about `Proc` and their proofs |
| `Spinlock` | `spinlock.c`: `push_off()` and `pop_off()`, `acquire()` and `release()` |
| `Devices` | `console.c`, `uart.c`, `plic.c`, the device half of `trap.c`, `sys_sleep()`, the locking of `printf.c`, on `Spinlock` |
| `DevicesLocks`, `DevicesInv` | theorems about `Devices` and `Spinlock` and their proofs |
| `Tty` | what the console promises about input |
| `Pipe` | `pipe.c`, and the last `fileclose()` of each end |
| `Fifo` | what a pipe promises, and what the UART promises about output |
| `PipeInv` | theorems about `Pipe`, that it implements `Fifo` among them, and their proofs |
| `Wrap` | lemmas on indices and counters that wrap, for `PipeInv` and `VirtioInv` |
| `Counting` | what the proofs use of finite sets |
| `Log` | `log.c` over a cache that may drop unpinned blocks and a disk that writes one block at a time |
| `AtomicDisk` | what the log promises |
| `LogInv` | theorems about `Log`, that it implements `AtomicDisk` among them, and their proofs |
| `Bcache` | `bio.c` and `sleeplock.c`: the list of buffers, reference counts, sleeplocks |
| `BlockStore` | what the cache promises |
| `BcacheInv` | theorems about `Bcache`, that it implements `BlockStore` among them, and their proofs |
| `VirtioDisk` | `virtio_disk.c` and the device: descriptors, rings, the interrupt |
| `VirtioInv` | theorems about `VirtioDisk` and their proofs |
| `Namespace` | inodes, directories and walks of `fs.c`, and the calls of `sysfile.c` that use them |
| `Image` | `mkfs/mkfs.c`: the layout of the disk and the first image |
| `Blocks` | `balloc()`, `bmap()`, `itrunc()`, `readi()`, `writei()` under `fileread()` and `filewrite()`, on `Image` |
| `Files` | `file.c`, the descriptor calls of `sysfile.c`, `pipealloc()` |
| `ShParse`, `ShLines` | the parser of `user/sh.c`, its grammar, and the lines it is tried on |
| `Sh` | `main()`, `runcmd()` and `fork1()` of the shell, and `init`, on `Files` and `ShParse` |
| `Vm` | `kalloc.c`, the user page tables of `vm.c`, and what fork, exit, sbrk and exec do with them |
| `Umalloc` | `user/umalloc.c` |
| `Circulate`, `Interprocess` | `user/circulate_byte.c`, `user/interprocess.c` |
| `MCProc`, `MCLog`, `MCBcache`, `MCVirtio`, `MCNamespace`, `MCDevices` | instances of one component for TLC |
| `MCLive`, `MCReadWrite`, `MCUser`, `MCMemory` | instances of several components that share no state; the variable `subject` tells which one a behaviour is about, and the others stand still |

### Proc

State: the fields of `struct proc` (`state`, `chan`, `killed`, `pid`, `parent`),
`nextpid`, the owners of each `p->lock` and of `wait_lock`, the fields of
`struct cpu` (`curproc`, and `mode`: in the scheduler, in a thread, or in
`swtch()` one way or the other), and for each kernel thread a program counter, a
loop variable over the table and the argument of `kill()`.

`swtch_in` and `swtch_out` are the moments that a test hardly reaches: the lock is
held, but by code that is about to change stacks.  A `yield()` is possible
wherever the CPU holds no spinlock, in the kernel too.  `fork()` can fail after
`allocproc()`; `copyout()` in `wait()` can fail; a user program can fault.

Left out: memory, files and working directories of a process (they do not change
state here), `sleep()` on channels other than the process itself.

### Spinlock and Devices

`Spinlock` has the interrupt enable bit, `noff` and `intena` of each CPU, the owner of
each lock, and the lock a CPU spins for.  In `Devices` each CPU runs one thread and, on
top of it, an interrupt handler.  A step ends where something can interfere: at a spin, at a
device register, at a sleep.  An interrupt comes exactly while the enable bit is
set, so that it is the code of `push_off()` and `pop_off()`, and nothing in the model,
that keeps it out of critical sections.  A thread that sleeps leaves its CPU idle
with interrupts on.  The UART and the PLIC are external: the receive register, the
transmit FIFO, the pending and the claimed interrupt.  The indices of both rings are
modulo `UINT` and start just below their wrap.

### Pipe

State: `data`, `nread`, `nwrite` modulo `UINT`, the open flags, the holder of
`pi->lock`, the descriptors still open, and per process a program counter and the
bytes still to move.  `kill()` may come between any two steps, also while the
victim holds the lock; `copyin()` and `copyout()` can fail at any byte.

### Log

State: home blocks, log blocks and header on the disk; the cache (contents and
pins); `log.lh`, `outstanding`, `committing`; a program counter per process; what
the machine is doing (`boot`).  Every disk write is a step of its own, and
`Crash` can come before and after each, also during recovery.  A file system call
is any sequence of block writes between `begin_op()` and `end_op()`.
`nlog` is separate from `LOGSIZE`, as `sb.nlog` is in the code.

### Bcache

State: the buffers (`blockno`, `valid`, `refcnt`, `data`), the links `next` and
`prev` with `head`, the sleeplock of each buffer, the disk, and per process a
program counter and the buffer it works on.  `bget()` is one step under
`bcache.lock`, up to the sleeplock that it then waits for; the disk transfer is
another.  `bpin()` and `bunpin()` are calls of the log.

### VirtioDisk

State: the descriptors, commands and `info` entries, the two rings with indices that
wrap, the driver's `used_idx`, whether the handler is running (it holds
`vdisk_lock` over several steps), and the device: what it has taken, what it
works on, whether it has still to interrupt.  The device is external: it takes
requests in order, completes them in any order, does not report errors, and may
complete more requests while the handler runs.

### Namespace

State: the inodes (`type`, `nlink`, directory entries), `ref`, `valid` and the lock of
each, `cwd` and one open file per process, and per process the call under way.  A
step is what a process does under one inode's lock, up to the next lock it takes or
the next `iput()`; the parts of `iput()` are steps of their own.  `create()` and
`unlink()` hold a directory while they lock an inode in it.  Full disks and full
tables make calls fail wherever the code can fail.  The panic of `ilock()` is a
step, after which the machine stands still.  One copy stands for the inode in the
table and on the disk: they agree whenever the inode is unlocked and valid.
Devices, the contents of files and the log are left out.

### Image and Blocks

`Image` runs mkfs on a list of file lengths and leaves a bitmap, inodes and contents.
`Blocks` boots on that image: processes read, write and truncate open files that share
inodes and offsets.  A step is what is done under one buffer's lock.  A cell of a block is
a byte or a block number, so that an indirect block that was not cleared would
really be followed.  `balloc()` may find the disk full and `either_copyin()` may fail at any
block; what the operation has given to `log_write()` is compared with what it
changed.  `file` is a history variable: what each file should contain.

### Files, Sh, ShParse

`Files` is the table of open files, the descriptors and the two open flags of each
pipe; each visit to the table is a step, and the last `fileclose()` copies the entry, frees
it and closes the end afterwards, as the code does.  `pipe()` fails for want of
files, of memory or of descriptors.  In `Sh` every process has a list of the
system calls it is about to make; `runcmd()` is the operator that turns a parsed
command into that list.  The programs `r` and `w` stand for programs that read their input to
the end and that write more than a pipe holds, `d` for one that uses up a descriptor before
it calls `pipe()`.

`ShParse` has the parser function by function, over characters, and beside it the grammar
over tokens (`Meaning`).  `ShLines` enumerates the lines.

### Vm and Umalloc

`Vm`: the length of the free list, and for each slot of the process table its
trapframe, its size and its page table (which page-table pages and which user pages
it has).  Each function of `vm.c` is an operator on a call in progress.  A system call
is one step: a page table is private, so other processes matter only through the
pages they leave, and the call is given any number of `kalloc()`s that succeed before
one fails.  Pages are counted, not named; contents and permissions are left out.

`Umalloc`: the headers in memory by address, so that the circular list is the one the
code follows; the owner of a block overwrites it.

### Circulate and Interprocess

Processes with the descriptors they hold, and pipes as their contents.  In `Circulate` end
of file and a write without a reader depend on which ends are still open in which
process.  In `Interprocess` everybody keeps both ends, and the character in the pipe is
the token, which `main()` puts there before it makes the children.  In both, `pipe()` and
`fork()` may fail and any process may be killed, as often as `MaxFaults` allows.
`interprocess.c` looks at no result: after a `pipe()` that failed its reads and writes do
nothing, or go where the uninitialised numbers in `p[]` happen to point.

## 4. Runs

| run | shows |
|---|---|
| `proc_safety` | 3 slots, 2 CPUs, 2 forks, kill of pid 2: no process on two CPUs (`RunsOnOneCPU`), no CPU on a freed stack (`StackInUse`), `sched()`'s panics unreachable and `wait_lock` before `p->lock` (`LockDiscipline`), no orphans, no lost exit, clean slots |
| `liveness` | 3 processes on one CPU: no RUNNABLE process starves, init reaps its own and the children it inherits; and 3 processes on the log with 2 crashes: sleepers in `begin_op()` are woken, recovery completes, also if it is interrupted |
| `log` | 2 processes, 4 blocks, a log of three, 2 crashes: `Log` implements `AtomicDisk` (`AtomicSpec`); changes are pinned until they are at home (`ChangesKept`); commits exclude calls; `log_write()` panics only when the calls in progress have used all of their reservations but for the block that the disk lacks (`ReservationSuffices`) |
| `bcache` | 2 processes, 2 buffers, 3 blocks, a pin: reference counts exact and the list complete (`CacheSound`), `Bcache` implements `BlockStore`, every `bread()` returns |
| `virtio` | 3 processes, 8 descriptors, indices that wrap at 8: no descriptor lost or shared and requests intact until the handler has seen them (`QueueSound`), every completion seen and no lost wakeup (`NothingMissed`) |
| `devices` | console, UART, clock and `printf` on 2 CPUs: no CPU waits for a lock it holds (`InterruptsOff`), output never gets stuck and nobody misses a wakeup (`NobodyStuck`), input implements `Tty`, output implements `Fifo` |
| `namespace` | 2 processes, 3 inodes: `ref` is the number of pointers and what is open stays allocated (`InodesKept`), `nlink` never below the number of links, `iput()` never waits for a lock and no lock is kept (`LocksSafe`), no deadlock |
| `read_write` | a pipe of 2 bytes with 2 writers and a reader: it implements `Fifo`, loses no wakeup, is freed once.  Files: 2 processes on mkfs's image, 3 open files, a disk that runs full: every block has one owner, files read back what was written, each operation gives the log all that it changes, and leaves a block of its reservation unused |
| `user` | the ring of 3 children and the two children of `interprocess` with a fault, and the shell with 7 scripts on 5 processes, 4 files and 5 descriptors: no early end of file and no lines mixed in spite of a pipe (`TurnsRight`), the counts of files and pipe ends exact (`RefsExact`), all processes end, the prompt returns |
| `memory` | 3 processes, 30 pages: no page lost or freed twice wherever memory runs out, each process has the pages its size promises, the panics of `vm.c` unreachable (`MemorySound`); the heap of `malloc()` partitioned and coalesced (`HeapSound`); the parser agrees with the grammar on all lines of up to 5 characters (`ParseRight`) |

Two runs expect a violation; each states what a comment says and finds that the
code does otherwise (`findings` in `PROJECT.json`):

| run | shows |
|---|---|
| `proc_kill_zero` | `kill(0)` matches an UNUSED slot and marks it killed |
| `namespace_forgotten` | an inode allocated again while `iput()` is between freeing it and dropping its reference can end allocated with no links and no pointers |

Other things the models show, with no run of their own:

- a kill between `killed(p)` and `sleep()` in `wait()` leaves the victim asleep until
  a child exits (`proc.c:427`);
- mkfs writes `nlog = LOGSIZE`, header included, so that the disk has one block fewer
  than `begin_op()` reserves from, and `log_write()` looks for room before it looks
  whether it needs any.  Calls that all use `MAXOPBLOCKS` blocks do panic, which
  `ReservationSuffices` allows and the run reaches; calls that each leave a block unused
  do not (theorem `RoomForAll`), and `LogComplete` checks that of file operations;
- a writer killed in mid-write does not wake the reader (`pipe.c:84`), which is why
  `ReaderSleepsOnEmpty` speaks of writers that have not been killed;
- `bget()` panics when there are more processes in `bread()` than buffers;
- a file made in a directory that is unlinked between `nameiparent()` and `ilock()` is
  lost with it, with `nlink` still 1, which is why `LinksCounted` is an inequality;
- the `..` of a current directory that was unlinked can name a parent that has been
  freed since; a walk through it panics in `ilock()`;
- bytes that a failing `either_copyin()` left in a buffer are not given to the log
  (`torn` in `Blocks`), although later reads of the cached block see them;
- mkfs rounds the size of the root directory up even when its entries fill their
  blocks, which is why `ImageAssumption` excludes such a number of files;
- a child of `interprocess` that is killed with the token leaves the other one
  waiting for ever, which is why `AllEnd` asks for the lines only without kills;
- when `pipe()` fails `interprocess` goes on, `read()` returns at once and the lines mix,
  which is why `LinesWhole` speaks of a `pipe()` that has succeeded.

### Bounds

`NPROC = 3` is the smallest table with a grandparent, a parent and a child, so that
reparenting happens; `MaxPid = 3` lets both free slots be filled, or one be reused;
two CPUs give every pairwise race.  In `liveness` there is one CPU, so that three processes
compete for it, and nobody is killed, which would make the graph too large for the
temporal check; kills are in `proc_safety`.  For the log, four blocks
exceed its capacity of three and two calls may use their whole reservations, so that it
fills and `log_write()` panics; two calls overlap in a block, so that
absorption happens, and two crashes allow one during recovery from the other.
`UINT = 4` with `PIPESIZE = 2` lets the pipe's counters wrap several times; `MaxCount = 3`
exceeds the ring, so that writers block in mid-call.  The console's plans each bring two
or three of its users together (two readers, a writer and `printf`, two sleepers and the
clock, ...); rings of two, started at `First = 3` of 4, fill, empty and wrap.
Two buffers for three blocks and
two processes allow hits, misses, recycling and waiting for a buffer.  Eight descriptors
serve two requests of the three processes, so that the third has to wait, and with
indices that wrap at 8 the rings are used round several times.  Three inodes are the
root, a directory and one inode in it: one process makes, enters and removes
directories while the other makes, links and removes files by the same names, so
that inodes are freed and used again; `MaxLinks` bounds links that are lost with
their directories.
Blocks of two cells, two direct blocks and an indirect one let a file of 8 bytes use
every slot; on 16 blocks two such files do not fit.  The plans have two writers on one
inode, a writer against a truncation, and writes that need more than one operation.
Six processes with init, four files and one-byte pipes hold a pipeline of two; longer
ones run out of files or processes at each point of `runcmd()`; five descriptors hold one
pipe beside the console, and not the second end if one has been used before.
Pages of two bytes give sizes in the middle of a page, and page-table pages of two
entries make a process of three pages need a second table; 30 pages hold three small
processes or two large ones.  The heap of `Umalloc` has room for two calls of `morecore()`.
Five characters are enough for every pair of operators with a word between them, and for a
block.

Deadlock is checked everywhere but in `user`, where nothing is left to do once all programs
have ended.  `Closed` (`MCReadWrite`) and `Done` (`Blocks`) are the explicit final states of
the others.

Symmetry is used only in runs without liveness.  `PipeSymmetry`, `VmSymmetry` and the
others permute model values that no definition tells apart.

### Fairness

`Proc`: each CPU keeps executing; the timer interrupts a running thread (strong
fairness of `Yield`: a tick that comes while a spinlock keeps interrupts off stays
pending and is taken when they are on again, so that a thread cannot go from one
critical section to the next for ever); an `acquire()` that spins does not lose for ever to others (strong fairness, the one
assumption the code does not enforce: `amoswap` is not fair, but every holder
releases within a bounded number of instructions).  init calls `wait(0)` again and
again (`user/init.c`), and `copyout()` cannot fail for a null address.
`Log`: processes that are not asleep run, calls end, the disk answers.
`Bcache`: processes that are not asleep run, holders release; a process that finds a
lock free again and again gets it in the end (strong fairness: `releasesleep()` wakes
all waiters and has no queue).  `Circulate`, `Interprocess`, `Sh`: a process that is not blocked
runs, which is what `RunnableRuns` shows of the scheduler; for the shell, the lines
of its script are typed.
The fairness of `Proc` and of `Log` is stated in `MCLive`.  In `MCLive` and `MCUser` a
behaviour has the fairness of its subject.
The other modules are checked for safety only.

## 5. Theorems

Proved for every value of the constants, from the named assumptions of each module:

- `ProcAssumption`: at least one slot; pids are natural numbers; the null pointer is
  not a CPU.  Any number of slots, CPUs and pids.
- `PipeAssumption`: the range of the counters is a multiple of `PIPESIZE` and larger
  (2^32 and 512 in the code).  Any number of readers and writers, any ring and count.
- `LogAssumption`: finitely many processes, because `log.outstanding` counts them.  Any
  set of blocks and contents, any size of the log, any number of crashes.
- `BcacheAssumption`: at least one buffer; finitely many processes, because
  `b->refcnt` counts them; the null pointer is neither a process nor a buffer.  Any
  number of buffers, blocks and pins.
- `VirtioAssumption`: at least three descriptors; the range of the indices is a multiple
  of `NUM` (2^16 and 8 in the code).  Any number of processes and descriptors.
- `SpinlockAssumption`: finitely many CPUs and locks, because `noff` counts the locks; the
  null pointer is neither; the four locks of the drivers are among the locks.  Any
  number of CPUs, any plan of calls and keys, any sizes of the rings.

| theorem | property |
|---|---|
| `ProcInv!Typing` | `TypeOK` |
| `ProcInv!OneCPU` | `RunsOnOneCPU` |
| `ProcInv!StackSafety` | `StackInUse` |
| `ProcInv!Disciplined` | `LockDiscipline` |
| `ProcInv!Orphans` | `NoOrphans` |
| `ProcInv!Pids` | `PidsUnique` |
| `ProcInv!ExitSeen` | `NoLostExit` |
| `PipeInv!Awake` | `NoLostWakeup` |
| `PipeInv!FreeOnce` | `FreedOnce` |
| `PipeInv!PipeIsFifo` | `FifoSpec` |
| `LogInv!CommitAlone` | `CommitExcludesCalls` |
| `LogInv!Kept` | `ChangesKept` |
| `LogInv!CrashAtomic` | `AtomicSpec` |
| `LogInv!ReservationHolds` | `ReservationSuffices` |
| `LogInv!RoomForAll` | `log_write()` does not panic, given `RoomToSpare` |
| `BcacheInv!CacheIsSound` | `CacheSound` |
| `BcacheInv!CacheIsStore` | `StoreSpec` |
| `VirtioInv!QueueIsSound` | `QueueSound` |
| `VirtioInv!AllSeen` | `NothingMissed` |
| `DevicesInv!LocksAreSound` | `InterruptsOff` |
| `DevicesInv!NothingStuck` | `NobodyStuck` |

Hardly any of the properties is inductive.  For `Proc` the strengthening comes in three layers.

*`IInv`* (`ProcInv`): the lock words agree with the program counters (`LockInv`: a
CPU owns `q->lock` exactly when it is at one of the points of the code between
acquire and release); the table agrees with the CPUs (`RunInv`); the slot that a
`fork()` fills is USED and belongs to that `fork()` only, although `np->lock` is
released in between (`ForkInv`).  The parts need each other: that a second CPU
cannot pick a process that is still switching out follows from the lock word, and
that the lock word is right follows from where the CPUs are.

*`TreeInv`, `PidInv`* (`ProcInv`): loop variables point where the code says; a
process past `reparent()` has no children; parents are alive.  `wait_lock` makes
this inductive: parents change only while it is held, except by `fork()` on a slot
nobody else knows.

*`WakeInv`* (`ProcInv`): a parent asleep in `wait()` has no zombie child unless the
child's `exit()` is still going to wake it, and a parent that has scanned part of
the table has not passed a zombie.  This is the argument why `sleep()` must take
`p->lock` before it releases `wait_lock`.

*`PInv`* (`PipeInv`): a writer sleeps because the ring is full or because a reader that has
just made room still holds the lock and will wake it (`WriteInv`); a reader likewise,
unless a writer was killed (`ReadInv`); the other end stays open while one sleeps (`OpenInv`);
an end is open as long as a descriptor is, or its last `fileclose()` is on the way
(`EndInv`).  The counters need no arithmetic here: a byte moves only when the ring is not
full or not empty, which contradicts the sleepers' reasons.

*`RingInv`* (`PipeInv`): the counters are never more than `PIPESIZE` apart, modulo their
range.  This is all that `PipeIsFifo` needs of the state; the rest is the arithmetic of
`Wrap`.  Because the range is a multiple of `PIPESIZE`, the slots go on in order where a
counter wraps, so a byte put in goes to the end of the abstract queue, in a slot that no
byte still to be read is in, and the byte at `nread` is its head.

*`LInv`* (`LogInv`): `log.outstanding` is the number of calls, so that the one that brings
it to 0 is alone (`CallInv`); a block is in the log once, and the header on the disk is
empty, or that of the log while it is installed (`ShapeInv`); log blocks are copies up to
where `write_log()` is, home locations up to where `install_trans()` is, and blocks
outside the log are the same in the cache and on the disk (`DataInv`); pins balance
(`PinnedOnce`).  They need each other: a buffer may be recycled because it is not
pinned, hence not in the log or already installed, hence on the disk.

`CrashAtomic` maps the disk to what recovery would make of it, and memory to
the cache (to the disk, while recovering).  `write_head()` with a full header is
then the abstract commit; `write_log()` changes only blocks no header names,
`install_trans()` only blocks the header overrides, so both are stuttering steps, and
clearing the header is one because by then the home locations are copies.

*`RInv`* (`LogInv`): what a call has written is in the log, so only its first write of a
block takes space (`WroteInv`); what is in the log and what the calls in progress have not
used of their reservations are together at most `LOGSIZE` (`SpaceInv`).  A write moves a
block from the second to the first, `end_op()` drops what was not used, and `begin_op()`
lets a call in only if the blocks in the log and a full reservation for every call fit.
`log_write()` panics at `LOGSIZE` blocks or at `log.size - 1`, so when it does, what is
unused is at most the difference (`Missing`, one block on mkfs's disks).
`ReservationHolds` assumes nothing about the calls or the sizes.  `RoomForAll` runs the
same argument (`FitsStep`) for calls that write at most `OpBlocks` blocks and a log two
blocks short of `LOGSIZE`.  It assumes `RoomToSpare`: no call uses the last block of its
reservation, two reservations fit into the log, and the log on the disk is as large as
`LOGSIZE`, header included.  The last two are `param.h` and `mkfs.c`; the first is what
`LogComplete` in the run `read_write` checks of reads, writes and truncations of files,
which `filewrite()` cuts into pieces for that purpose; of the calls on directories it
remains an assumption.

*`BInv`* (`BcacheInv`): no block is in two buffers (`OneCopy`); a process between `bget()` and
`brelse()` has a buffer of its own block, locked when it should be (`Owned`); a buffer
nobody is changing and the log has not pinned holds what the disk holds (`Clean`);
references are exact; and going by `prev` from `head` comes to every buffer once and
back, with `next` the other way round (`ListInv`).  An unused buffer is nobody's and
clean, hence may be recycled; `brelse()` moves one buffer of the walk to its end.
`CacheIsStore` maps a block to its buffer if it has a valid one and to the disk
otherwise, and its owner to the holder of the sleeplock.  A change is then the only step
that changes a block, and acquiring and releasing the sleeplock the only ones that
change an owner; recycling, reading, writing back and pinning are stuttering steps.

*`VInv`* (`VirtioInv`): a request has three different descriptors, linked from header to
data to status, which are not free; every descriptor is free or in one request (`Owned`); a
request is in one place, the avail ring, the device or the used ring, and both rings hold
different entries between their indices (`Placed`).  No ring overflows because
each entry is the first of three descriptors.  The indices are reasoned about with
`Wrap`, as for pipes.  `NothingMissed` is inductive given `VInv`: a process sleeps for
descriptors only if there are fewer than three, taking some leaves fewer, and giving
some back wakes all.

*`LockInv`* (`DevicesLocks`): for every point of a thread's and of a handler's code, which
locks the code around it is inside of or about to enter (`Locks`).  The locks a CPU owns or
spins for are these, it never spins for one that it owns, `noff` is their number, and the
interrupt enable bit is set exactly when there are none and no handler runs (`SpinInv`).  An
interrupt therefore finds its thread outside all critical sections (`CtxInv`), which is what
keeps the locks of the handler apart from those of the thread below it.  `intena` has to be
in the invariant too: it is what the last `pop_off()` restores, on in a thread and off in
a handler.  One lemma each covers a step that ends in `acquire()`, one that ends in
`release()` and one that does neither, whichever context takes it; the steps of the
drivers are then instances of these.

*`StuckInv`* (`DevicesInv`) adds two things.  Who sleeps for a device, or has made up its mind
to and holds the lock still, has the reason it saw (`SleepInv`): between the test and
the sleep the lock keeps `consoleintr()` and `clockintr()` out, and once it is asleep the
only steps that remove the reason also wake it.  While the ring is not empty there is a
character in the FIFO, a pending interrupt or a CPU that will get to the test in
`uartstart()` (`SendInv`); `uartstart()` gives up only on an empty ring or a busy UART,
and a busy UART interrupts.  That every character written to THR finds room is by counting: what
is in the FIFO and the CPUs that have seen it idle and are about to write are at most as
many as the CPUs.  A step that touches neither sleepers nor output is dealt with once, for all
locks.

The proof modules assume of finite sets what `Counting` says, lemma by lemma, and prove
that from the library at their end, before their theorems; the library's facts then do
not burden the other steps.

The invariants were checked with TLC before they were proved.  Only model-checked:
`AllocClean`, which holds only as long as nobody calls `kill(0)` and needs that as an
assumption; that console input implements `Tty` and output `Fifo`; inodes and directories, the user programs and the file table;
`Blocks` and `Vm`, whose properties are about what folds over blocks and pages compute, by
induction over data; `ShParse`, `Umalloc` and what uses them, which are recursive.  Liveness
is outside the prover.

## 6. Not modelled

See `components` in `PROJECT.json`.  Outside the models on purpose: formatting and
string code, the boot sequence and assembly (register saving in `trampoline.S` and
`kernelvec.S`), RISC-V privilege details, the kernel page table, `copyin()` and
`copyout()` (they may fail; what they copy is not looked at), ELF parsing, the
initialisation of the disk device, device files, user utilities and tests.
What a crash does to an inode that is unlinked and still open (it stays allocated on
the disk) is outside both `Log`, which knows blocks, and `Namespace`, which has no crash.
`malloc()` of a size near 2^31, and the constructors of the shell's commands when
`malloc()` fails, are not modelled.
Memory ordering is sequentially consistent: every shared field is accessed under a
lock whose acquire and release are fences.
